----------------------------- MODULE SessionFlows -----------------------------
(***************************************************************************)
(* app.go and session_host.go: the callers of the session manager.         *)
(*                                                                         *)
(* A session has a slot in the manager (life), a host in the app's host    *)
(* registry (reg) and an entry in the durable session registry (entry).    *)
(* No lock spans the three: a flow reads one, acts on another and comes    *)
(* back to the third.  The flows are                                       *)
(*                                                                         *)
(*   callers   the frontend's bindings, one operation at a time each;      *)
(*   reapers   one per Claude host: waits for the process to end by itself *)
(*             and then ends the session;                                  *)
(*   forced    one per host found by shutdown's snapshot.                  *)
(*                                                                         *)
(* The manager is SessionLifecycle, the abstract specification             *)
(* SessionManager implements: every call a flow makes on it is one of that *)
(* specification's steps.  AcceptSubmit, FinishEndSession and FinishReset  *)
(* never meet a stale token here, which is what TokensCurrent says; so the *)
(* branches of the code for that case have no action.                      *)
(*                                                                         *)
(* A host is a provider process with its pump and approval broker (Claude) *)
(* or a thread of the shared app-server (Codex).                           *)
(***************************************************************************)
EXTENDS Integers, FiniteSets

CONSTANTS
  Claude, Codex,  \* the committed sessions of each provider
  Uses,           \* <<caller, session, binding>>: who calls what, of "start", "send", "end", "new", "remove"
  MaxHosts,       \* bound: hosts ever created
  Sockets,        \* maxApprovalSockets
  StuckPumps      \* a pump may outlive CloseSequence's kill timeout

WSIDs == Claude \cup Codex
Providers == {"claude", "codex"}
Callers == {u[1] : u \in Uses}
Hosts == 1 .. MaxHosts
NoHost == 0
NoSession == "none"

ASSUME FlowsAssumption ==
  /\ Claude \cap Codex = {} /\ NoSession \notin WSIDs
  /\ MaxHosts \in Nat /\ Sockets \in Nat
  /\ StuckPumps \in BOOLEAN
  /\ IsFiniteSet(Uses)

VARIABLES
  life, owner, open,  \* the manager, see SessionLifecycle
  reg,                \* App.sessionHosts
  sock,               \* App.sockIndexOwner
  hosts,              \* the hosts themselves
  flow,               \* what each caller, reaper and forced teardown is doing
  entry,              \* the session's entry in the durable registry
  app,                \* the app's phase, with the steps of shutdown
  snap                \* the hosts shutdown has taken stock of

vars == <<life, owner, open, reg, sock, hosts, flow, entry, app, snap>>
manager == <<life, owner, open>>

MaxSessions == Cardinality(WSIDs)
M == INSTANCE SessionLifecycle

-----------------------------------------------------------------------------
Actors == ({"caller"} \X Callers) \cup ({"reaper", "forced"} \X Hosts)
Reaper(h) == <<"reaper", h>>
Forced(h) == <<"forced", h>>

Nothing == [op |-> "none", pc |-> "idle", w |-> NoSession, h |-> NoHost, ok |-> TRUE]
Doing(op, pc, w, h) == [op |-> op, pc |-> pc, w |-> w, h |-> h, ok |-> TRUE]

(* idx is the host's approval socket, asked says its process was told to end,  *)
(* once is the state of teardownFn, turn is the runner's activeTurnID.         *)
NewHost(w) == [w |-> w, pump |-> "none", asked |-> FALSE, broker |-> FALSE, idx |-> 0,
               once |-> "no", turn |-> FALSE]

Unused == {h \in Hosts : hosts[h].w = NoSession}

Fresh == CHOOSE h \in Unused : TRUE

FreeSockets == {i \in 1 .. Sockets : sock[i] = NoHost}

At(a, pc) == flow[a].pc = pc
W(a) == flow[a].w
H(a) == flow[a].h
Go(a, pc) == flow' = [flow EXCEPT ![a].pc = pc]
Return(a) == flow' = [flow EXCEPT ![a] = Nothing]
Set(h, f) == hosts' = [hosts EXCEPT ![h] = f]

Owns(op) == op # "fallback"
Shared(op) == op \in {"reap", "forced", "fallback"}   \* teardown through host.teardownFn
ByUser(op) == op \in {"end", "new", "remove"}

Init ==
  /\ life = [w \in WSIDs |-> "idle"]
  /\ owner = [w \in WSIDs |-> IF w \in Claude THEN "claude" ELSE "codex"]
  /\ open = TRUE
  /\ reg = [w \in WSIDs |-> NoHost]
  /\ sock = [i \in 1 .. Sockets |-> NoHost]
  /\ hosts = [h \in Hosts |-> NewHost(NoSession)]
  /\ flow = [a \in Actors |-> Nothing]
  /\ entry = [w \in WSIDs |-> "live"]
  /\ app = "ready"
  /\ snap = {}

(* beginTxn: a binding runs only while the app is ready, one per caller. *)
Admits(a, op, w) ==
  /\ app = "ready" /\ a \in {"caller"} \X Callers
  /\ flow[a] = Nothing
  /\ <<a[2], w, op>> \in Uses

-----------------------------------------------------------------------------
(* StartSession: take the slot, start the provider, publish the host, accept. *)

StartSession(a, w) ==
  /\ Admits(a, "start", w)
  /\ Cardinality(Unused) > Cardinality({b \in Actors : At(b, "spawn")})
  /\ M!Move(w, "starting")
  /\ flow' = [flow EXCEPT ![a] = Doing("start", "spawn", w, NoHost)]
  /\ UNCHANGED <<reg, sock, hosts, entry, app, snap>>

(* reserveSockIndex gives the host the lowest free index; none: no session.  *)
ReserveSocket(a) ==
  /\ At(a, "spawn") /\ W(a) \in Claude
  /\ \/ /\ FreeSockets = {}
        /\ Go(a, "reject")
        /\ UNCHANGED <<hosts, sock>>
     \/ \E i \in FreeSockets :
          /\ \A j \in FreeSockets : i <= j
          /\ sock' = [sock EXCEPT ![i] = Fresh]
          /\ Set(Fresh, [NewHost(W(a)) EXCEPT !.broker = TRUE, !.idx = i])
          /\ flow' = [flow EXCEPT ![a].pc = "publish", ![a].h = Fresh]
  /\ UNCHANGED <<manager, reg, entry, app, snap>>

FreeSocket(h) == sock' = [i \in 1 .. Sockets |->
                   IF i = hosts[h].idx /\ sock[i] = h THEN NoHost ELSE sock[i]]

(* The process runs: the complete host is published and its reaper waits for *)
(* the fate of this start.  Or it does not: nothing was published.           *)
PublishClaude(a) ==
  /\ At(a, "publish")
  /\ \/ /\ Set(H(a), [hosts[H(a)] EXCEPT !.pump = "running"])
        /\ reg' = [reg EXCEPT ![W(a)] = H(a)]
        /\ flow' = [flow EXCEPT ![a].pc = "accept",
                      ![Reaper(H(a))] = Doing("reap", "await", W(a), H(a))]
        /\ UNCHANGED sock
     \/ /\ Set(H(a), [hosts[H(a)] EXCEPT !.broker = FALSE])
        /\ FreeSocket(H(a))
        /\ Go(a, "reject")
        /\ UNCHANGED reg
  /\ UNCHANGED <<manager, entry, app, snap>>

(* startCodexHost: EnsureThread, publish, and only then the first turn. *)
PublishCodex(a) ==
  /\ At(a, "spawn") /\ W(a) \in Codex
  /\ \/ /\ Set(Fresh, NewHost(W(a)))
        /\ reg' = [reg EXCEPT ![W(a)] = Fresh]
        /\ flow' = [flow EXCEPT ![a].pc = "turn", ![a].h = Fresh]
     \/ /\ Go(a, "reject")
        /\ UNCHANGED <<reg, hosts>>
  /\ UNCHANGED <<manager, sock, entry, app, snap>>

TakeHost(w, h) == reg' = [reg EXCEPT ![w] = IF @ = h THEN NoHost ELSE @]

(* The first turn runs, has already ended, or fails and the host is taken back. *)
FirstTurn(a) ==
  /\ At(a, "turn")
  /\ \/ \E running \in BOOLEAN :
          /\ Set(H(a), [hosts[H(a)] EXCEPT !.turn = running])
          /\ Go(a, "accept")
          /\ UNCHANGED reg
     \/ /\ TakeHost(W(a), H(a))
        /\ Go(a, "reject")
        /\ UNCHANGED hosts
  /\ UNCHANGED <<manager, sock, entry, app, snap>>

AcceptStart(a) ==
  /\ At(a, "accept")
  /\ M!Move(W(a), "active")
  /\ IF W(a) \in Claude THEN Go(a, "commit") ELSE Return(a)
  /\ UNCHANGED <<reg, sock, hosts, entry, app, snap>>

(* commit(true) releases the reaper into its wait for the process. *)
CommitStart(a) ==
  /\ At(a, "commit")
  /\ flow' = [flow EXCEPT ![a] = Nothing, ![Reaper(H(a))].pc = "watch"]
  /\ UNCHANGED <<manager, reg, sock, hosts, entry, app, snap>>

RejectStart(a) ==
  /\ At(a, "reject")
  /\ M!Move(W(a), "idle")
  /\ Return(a)
  /\ UNCHANGED <<reg, sock, hosts, entry, app, snap>>

-----------------------------------------------------------------------------
(* SendMessage reads the host first and takes the slot afterwards. *)

SendMessage(a, w) ==
  /\ Admits(a, "send", w)
  /\ flow' = [flow EXCEPT ![a] = Doing("send", "submit", w, reg[w])]
  /\ UNCHANGED <<manager, reg, sock, hosts, entry, app, snap>>

(* BeginSubmit refuses when the session is not active or a turn is under way. *)
BeginSend(a) ==
  /\ At(a, "submit")
  /\ \/ M!Move(W(a), "sending") /\ Go(a, "deliver")
     \/ Return(a) /\ UNCHANGED manager
  /\ UNCHANGED <<reg, sock, hosts, entry, app, snap>>

Deliver(a) ==
  /\ At(a, "deliver")
  /\ \/ /\ H(a) # NoHost
        /\ IF W(a) \in Claude
           THEN hosts[H(a)].pump = "running" /\ ~hosts[H(a)].asked /\ UNCHANGED hosts
           ELSE ~hosts[H(a)].turn /\ Set(H(a), [hosts[H(a)] EXCEPT !.turn = TRUE])
        /\ Go(a, "sent")
     \/ Go(a, "unsent") /\ UNCHANGED hosts
  /\ UNCHANGED <<manager, reg, sock, entry, app, snap>>

(* AcceptSubmit or RejectSubmit: active again either way. *)
SettleSend(a) ==
  /\ flow[a].pc \in {"sent", "unsent"}
  /\ M!Move(W(a), "active")
  /\ Return(a)
  /\ UNCHANGED <<reg, sock, hosts, entry, app, snap>>

-----------------------------------------------------------------------------
(* Ending a session: EndSessionFlow and its relatives. *)

(* EndSession and NewSession read the host before they ask for the slot. *)
EndOrNew(a, op, w) ==
  /\ op \in {"end", "new"}
  /\ Admits(a, op, w)
  /\ flow' = [flow EXCEPT ![a] = Doing(op, "begin", w, reg[w])]
  /\ UNCHANGED <<manager, reg, sock, hosts, entry, app, snap>>

Removable(w) == life[w] \in {"idle", "active"}

(* RemoveSession holds its provider's token to the end; the check only reads. *)
RemoveSession(a, w) ==
  /\ Admits(a, "remove", w)
  /\ Removable(w)
  /\ \A b \in Actors : flow[b].op = "remove" => owner[W(b)] # owner[w]
  /\ flow' = [flow EXCEPT ![a] = Doing("remove", "read", w, NoHost)]
  /\ UNCHANGED <<manager, reg, sock, hosts, entry, app, snap>>

ReadHost(a) ==
  /\ At(a, "read")
  /\ flow' = [flow EXCEPT ![a].pc = "begin", ![a].h = reg[W(a)]]
  /\ UNCHANGED <<manager, reg, sock, hosts, entry, app, snap>>

(* BeginEndSession takes an active session.  From any other place: a session *)
(* that is idle is as good as ended (and NewSession then asks for a reset);  *)
(* otherwise the caller gives up, and shutdown tears down without the slot.  *)
BeginEnd(a) ==
  /\ At(a, "begin")
  /\ \/ /\ life[W(a)] = "active" /\ open
        /\ M!Move(W(a), "ending")
        /\ Go(a, IF ByUser(flow[a].op) /\ W(a) \in Codex THEN "busy" ELSE "teardown")
     \/ /\ life[W(a)] = "idle" /\ open
        /\ CASE flow[a].op = "remove" -> Go(a, "cleanup")
             [] flow[a].op = "new"    -> Go(a, "beginreset")
             [] OTHER                 -> Return(a)
        /\ UNCHANGED manager
     \/ /\ life[W(a)] \notin {"active", "idle"} \/ ~open
        /\ IF flow[a].op = "forced"
           THEN flow' = [flow EXCEPT ![a].op = "fallback", ![a].pc = "teardown"]
           ELSE Return(a)
        /\ UNCHANGED manager
  /\ UNCHANGED <<reg, sock, hosts, entry, app, snap>>

(* deviation: a Codex session is ended over a turn in flight *)
CheckBusy_Ignored(a) ==
  /\ At(a, "busy")
  /\ Go(a, "teardown")
  /\ UNCHANGED <<manager, reg, sock, hosts, entry, app, snap>>

(* The busy check asks the host that was read before the slot was taken. *)
CheckBusy(a) ==
  /\ At(a, "busy")
  /\ IF H(a) # NoHost /\ hosts[H(a)].turn
     THEN M!Move(W(a), "active") /\ Return(a)
     ELSE Go(a, "teardown") /\ UNCHANGED manager
  /\ UNCHANGED <<reg, sock, hosts, entry, app, snap>>

(* claudeTeardown starts CloseSequence; through teardownFn only once.  There *)
(* is nothing to tear down without a host, which is an error.                *)
TeardownClaude(a) ==
  /\ At(a, "teardown") /\ W(a) \in Claude
  /\ \/ /\ H(a) = NoHost
        /\ flow' = [flow EXCEPT ![a].pc = "finish", ![a].ok = FALSE]
        /\ UNCHANGED hosts
     \/ /\ H(a) # NoHost /\ Shared(flow[a].op) /\ hosts[H(a)].once = "done"
        /\ Go(a, "finish")
        /\ UNCHANGED hosts
     \/ /\ H(a) # NoHost /\ (Shared(flow[a].op) => hosts[H(a)].once = "no")
        /\ Set(H(a), [hosts[H(a)] EXCEPT !.asked = TRUE,
                        !.once = IF Shared(flow[a].op) THEN "running" ELSE @])
        /\ Go(a, "quiesce")
  /\ UNCHANGED <<manager, reg, sock, entry, app, snap>>

(* The pump has drained, or both timeouts passed and the pump is abandoned.  *)
(* A first timeout or a failed finalize makes it an error all the same.      *)
Quiesce(a) ==
  /\ At(a, "quiesce")
  /\ \/ hosts[H(a)].pump = "done" /\ Go(a, "take")
     \/ /\ hosts[H(a)].pump \in {"done", "stuck"}
        /\ flow' = [flow EXCEPT ![a].pc = "take", ![a].ok = FALSE]
  /\ UNCHANGED <<manager, reg, sock, hosts, entry, app, snap>>

TakeClaude(a) ==
  /\ At(a, "take")
  /\ TakeHost(W(a), H(a))
  /\ Go(a, "dispose")
  /\ UNCHANGED <<manager, sock, hosts, entry, app, snap>>

(* deviation: the waiters on teardownFn are never woken *)
Dispose_NeverDone(a) ==
  /\ At(a, "dispose")
  /\ Set(H(a), [hosts[H(a)] EXCEPT !.broker = FALSE])
  /\ FreeSocket(H(a))
  /\ Go(a, "finish")
  /\ UNCHANGED <<manager, reg, entry, app, snap>>

Dispose(a) ==
  /\ At(a, "dispose")
  /\ Set(H(a), [hosts[H(a)] EXCEPT !.broker = FALSE,
                  !.once = IF Shared(flow[a].op) THEN "done" ELSE @])
  /\ FreeSocket(H(a))
  /\ Go(a, "finish")
  /\ UNCHANGED <<manager, reg, entry, app, snap>>

(* codexTeardown: the server stays, the thread is no longer routed. *)
TeardownCodex(a) ==
  /\ At(a, "teardown") /\ W(a) \in Codex
  /\ TakeHost(W(a), H(a))
  /\ Go(a, "finish")
  /\ UNCHANGED <<manager, sock, hosts, entry, app, snap>>

(* FinishEndSession, or FinishEndSessionIntoReset when NewSession's teardown  *)
(* went well.  A removal goes on only if its teardown did.                    *)
FinishEnd(a) ==
  /\ At(a, "finish")
  /\ CASE flow[a].op = "fallback" -> Return(a) /\ UNCHANGED manager
       [] flow[a].op = "new" /\ flow[a].ok -> M!Move(W(a), "resetting") /\ Go(a, "reset")
       [] flow[a].op = "remove" /\ flow[a].ok -> M!Move(W(a), "idle") /\ Go(a, "cleanup")
       [] OTHER -> M!Move(W(a), "idle") /\ Return(a)
  /\ UNCHANGED <<reg, sock, hosts, entry, app, snap>>

BeginReset(a) ==
  /\ At(a, "beginreset")
  /\ IF life[W(a)] = "idle"
     THEN M!Move(W(a), "resetting") /\ Go(a, "reset")
     ELSE Return(a) /\ UNCHANGED manager
  /\ UNCHANGED <<reg, sock, hosts, entry, app, snap>>

(* deviation: the slot is given back only when the view could be reset *)
FinishReset_OnSuccess(a) ==
  /\ At(a, "reset")
  /\ Return(a)
  /\ M!Move(W(a), "idle") \/ UNCHANGED manager
  /\ UNCHANGED <<reg, sock, hosts, entry, app, snap>>

(* The view boundary is written, or cannot be; the slot comes back anyway. *)
FinishReset(a) ==
  /\ At(a, "reset")
  /\ M!Move(W(a), "idle")
  /\ Return(a)
  /\ UNCHANGED <<reg, sock, hosts, entry, app, snap>>

-----------------------------------------------------------------------------
(* The end of a removal: files, tombstone, slot.  Each can fail. *)

Tombstone(a) ==
  /\ At(a, "cleanup")
  /\ \/ /\ entry' = [entry EXCEPT ![W(a)] = "tombstone"]
        /\ Go(a, "release")
     \/ Return(a) /\ UNCHANGED entry
  /\ UNCHANGED <<manager, reg, sock, hosts, app, snap>>

ReleaseSlot(a) ==
  /\ At(a, "release")
  /\ IF life[W(a)] = "idle" THEN M!Release(W(a)) ELSE UNCHANGED manager
  /\ Return(a)
  /\ UNCHANGED <<reg, sock, hosts, entry, app, snap>>

-----------------------------------------------------------------------------
(* The provider. *)

PumpEnds(h) ==
  /\ hosts[h].pump \in {"running", "stuck"}
  /\ Set(h, [hosts[h] EXCEPT !.pump = "done"])
  /\ UNCHANGED <<manager, reg, sock, flow, entry, app, snap>>

PumpSticks(h) ==
  /\ StuckPumps
  /\ hosts[h].pump = "running" /\ hosts[h].asked
  /\ Set(h, [hosts[h] EXCEPT !.pump = "stuck"])
  /\ UNCHANGED <<manager, reg, sock, flow, entry, app, snap>>

(* turn/completed finds the runner through the registration. *)
TurnEnds(h) ==
  /\ hosts[h].turn /\ reg[hosts[h].w] = h
  /\ Set(h, [hosts[h] EXCEPT !.turn = FALSE])
  /\ UNCHANGED <<manager, reg, sock, flow, entry, app, snap>>

(* The reaper wakes when the pump has drained, and leaves the session alone   *)
(* unless its host is still registered at that moment.                        *)
ReaperWakes(h) ==
  /\ At(Reaper(h), "watch")
  /\ hosts[h].pump = "done"
  /\ IF reg[hosts[h].w] = h THEN Go(Reaper(h), "begin") ELSE Return(Reaper(h))
  /\ UNCHANGED <<manager, reg, sock, hosts, entry, app, snap>>

-----------------------------------------------------------------------------
(* shutdown *)

RefuseWork ==
  /\ app = "ready"
  /\ app' = "draining"
  /\ UNCHANGED <<manager, reg, sock, hosts, flow, entry, snap>>

Registered == {reg[w] : w \in WSIDs} \ {NoHost}

(* deviation: shutdown does not wait for the bindings under way *)
InFlight_Ignored == {}

InFlight == {a \in {"caller"} \X Callers : flow[a] # Nothing}

(* inflight.Wait, then the snapshot; forcedShutdown tells every process to end. *)
Snapshot ==
  /\ app = "draining"
  /\ InFlight = {}
  /\ snap' = Registered
  /\ hosts' = [h \in Hosts |-> IF h \in Registered /\ hosts[h].w \in Claude
                               THEN [hosts[h] EXCEPT !.asked = TRUE] ELSE hosts[h]]
  /\ flow' = [a \in Actors |-> IF a \in {Forced(h) : h \in Registered}
                               THEN Doing("forced", "begin", hosts[a[2]].w, a[2])
                               ELSE flow[a]]
  /\ app' = "forced"
  /\ UNCHANGED <<manager, reg, sock, entry>>

PumpsStopped(hs) == \A h \in hs : hosts[h].w \in Claude => hosts[h].pump = "done"

Collect ==
  /\ app = "forced"
  /\ \A h \in snap : flow[Forced(h)] = Nothing
  /\ app' = IF PumpsStopped(snap) THEN "quiet" ELSE "loud"
  /\ UNCHANGED <<manager, reg, sock, hosts, flow, entry, snap>>

(* Manager.Close, the brokers of hosts left over, and the ownership lease.   *)
Finalize ==
  /\ app \in {"quiet", "loud"}
  /\ M!Shut
  /\ hosts' = [h \in Hosts |-> IF h \in Registered
                               THEN [hosts[h] EXCEPT !.broker = FALSE] ELSE hosts[h]]
  /\ app' = IF app = "quiet" THEN "released" ELSE "retained"
  /\ UNCHANGED <<reg, sock, flow, entry, snap>>

-----------------------------------------------------------------------------
Request(a) ==
  \E w \in WSIDs :
    \/ StartSession(a, w) \/ SendMessage(a, w) \/ RemoveSession(a, w)
    \/ \E op \in {"end", "new"} : EndOrNew(a, op, w)

Step(a) ==
  \/ ReserveSocket(a) \/ PublishClaude(a) \/ PublishCodex(a) \/ FirstTurn(a)
  \/ AcceptStart(a) \/ CommitStart(a) \/ RejectStart(a)
  \/ BeginSend(a) \/ Deliver(a) \/ SettleSend(a)
  \/ ReadHost(a) \/ BeginEnd(a) \/ CheckBusy(a)
  \/ TeardownClaude(a) \/ Quiesce(a) \/ TakeClaude(a) \/ Dispose(a) \/ TeardownCodex(a)
  \/ FinishEnd(a) \/ BeginReset(a) \/ FinishReset(a)
  \/ Tombstone(a) \/ ReleaseSlot(a)

Provider(h) == PumpEnds(h) \/ PumpSticks(h) \/ TurnEnds(h) \/ ReaperWakes(h)

Shutdown == RefuseWork \/ Snapshot \/ Collect \/ Finalize

Next ==
  \/ \E a \in Actors : Request(a) \/ Step(a)
  \/ \E h \in Hosts : Provider(h)
  \/ Shutdown

Spec == Init /\ [][Next]_vars

(* Go schedules every goroutine; a process that was told to end ends, unless *)
(* its pump is stuck, and then the timeout of CloseSequence passes instead.  *)
Fairness ==
  /\ \A a \in Actors : WF_vars(Step(a))
  /\ \A h \in Hosts : WF_vars(ReaperWakes(h))
  /\ \A h \in Hosts : WF_vars(hosts[h].asked /\ hosts[h].pump = "running" /\ PumpEnds(h))
  /\ WF_vars(Snapshot \/ Collect \/ Finalize)

FairSpec == Spec /\ Fairness

-----------------------------------------------------------------------------
(* Properties. *)

(* The place a flow has moved the slot to, by what it is doing. *)
Starting == {"spawn", "publish", "turn", "accept", "reject"}
Sending == {"deliver", "sent", "unsent"}
Ending == {"busy", "teardown", "quiesce", "take", "dispose", "finish"}
Resetting == {"reset"}
PlaceOf(pc) == CASE pc \in Starting -> "starting"
                 [] pc \in Sending -> "sending"
                 [] pc \in Ending -> "ending"
                 [] OTHER -> "resetting"
Passing == {"starting", "sending", "ending", "resetting"}
Holds(a) == flow[a].pc \in Starting \cup Sending \cup Ending \cup Resetting /\ Owns(flow[a].op)
Holders(w) == {a \in Actors : W(a) = w /\ Holds(a)}

(* A slot on its way from one place to another has exactly one flow that will  *)
(* settle it, and a flow that holds a slot finds it where it left it: no       *)
(* AcceptSubmit, RejectSubmit, FinishEndSession or FinishReset of app.go ever  *)
(* presents a stale token, in whatever order the bindings, the reapers and     *)
(* shutdown interleave.                                                        *)
TokensCurrent ==
  \A w \in WSIDs :
    /\ \A a \in Holders(w) : life[w] = PlaceOf(flow[a].pc)
    /\ Cardinality(Holders(w)) = IF life[w] \in Passing THEN 1 ELSE 0

(* No session stays starting, sending, ending or resetting for ever: every     *)
(* error path gives the slot back.                                             *)
EverySlotSettles ==
  \A w \in WSIDs : life[w] \in Passing ~> life[w] \in {"idle", "active", "gone"}

(* A shutdown that has begun comes to its end, whoever is tearing down what.   *)
ShutdownCompletes == app = "draining" ~> app \in {"released", "retained"}

(* A session that is idle has no host: nothing of it runs that EndSession, the *)
(* reaper or shutdown could not find again.  startClaude, app.go:7659, trusts  *)
(* its check that a new host is left alone.                                    *)
IdleHasNoHost ==
  \A w \in WSIDs : life[w] = "idle" => reg[w] = NoHost

(* A user's end, new conversation or removal never tears down a Codex host    *)
(* over a turn in flight: the busy check comes after the slot has been taken,  *)
(* so no turn begins on that host between the check and the teardown, although *)
(* the host itself was read before (EndSessionFlow, newSession).               *)
EndRefusedWhileBusy ==
  \A a \in Actors :
    /\ flow[a].pc = "teardown" /\ ByUser(flow[a].op)
    /\ W(a) \in Codex /\ H(a) # NoHost
    => ~hosts[H(a)].turn

=============================================================================
