-------------------------- MODULE SessionFlowsProofs --------------------------
(***************************************************************************)
(* What holds of SessionFlows for any sessions, callers, hosts and sockets: *)
(* a slot in passage has exactly one flow that will settle it, and no       *)
(* user's end tears a Codex host down over a turn in flight.                *)
(***************************************************************************)
EXTENDS SessionFlows, FiniteSetTheorems, TLAPS

(* Every variable has its type. *)
Ops == {"none", "start", "send", "end", "new", "remove", "reap", "forced", "fallback"}
Pcs == Starting \cup Sending \cup Ending \cup Resetting
         \cup {"idle", "commit", "submit", "read", "begin", "beginreset", "cleanup", "release",
               "await", "watch"}
FlowRows == [op : Ops, pc : Pcs, w : WSIDs \cup {NoSession}, h : Hosts \cup {NoHost}, ok : BOOLEAN]
Phases == {"ready", "draining", "forced", "quiet", "loud", "released", "retained"}
HostRows == [w : WSIDs \cup {NoSession}, pump : {"none", "running", "stuck", "done"}, asked : BOOLEAN,
             broker : BOOLEAN, idx : 0 .. Sockets, once : {"no", "running", "done"}, turn : BOOLEAN]

OwnerOK == owner \in [WSIDs -> Providers \cup {""}]
TypeOK ==
  /\ life \in [WSIDs -> M!Places]
  /\ OwnerOK
  /\ open \in BOOLEAN
  /\ reg \in [WSIDs -> Hosts \cup {NoHost}]
  /\ sock \in [1 .. Sockets -> Hosts \cup {NoHost}]
  /\ hosts \in [Hosts -> HostRows]
  /\ flow \in [Actors -> FlowRows]
  /\ entry \in [WSIDs -> {"live", "tombstone"}]
  /\ app \in Phases
  /\ snap \subseteq Hosts

-----------------------------------------------------------------------------
(* A flow goes through the stations of its operation, and each kind of actor *)
(* has its own operations.                                                   *)
UserOps == {"end", "new", "remove"}
OpsOf(kind) == CASE kind = "caller" -> {"start", "send"} \cup UserOps
                 [] kind = "reaper" -> {"reap"}
                 [] OTHER -> {"forced", "fallback"}
PcsOf(op) == CASE op = "start" -> Starting \cup {"commit"}
               [] op = "send" -> Sending \cup {"submit"}
               [] op = "end" -> Ending \cup {"begin"}
               [] op = "new" -> Ending \cup {"begin", "beginreset"} \cup Resetting
               [] op = "remove" -> Ending \cup {"read", "begin", "cleanup", "release"}
               [] op = "reap" -> (Ending \ {"busy"}) \cup {"await", "watch", "begin"}
               [] op = "forced" -> (Ending \ {"busy"}) \cup {"begin"}
               [] OTHER -> Ending \ {"busy"}
Row(kind, f) ==
  f # Nothing => f.w \in WSIDs /\ f.op \in OpsOf(kind) /\ f.pc \in PcsOf(f.op)
Rows == \A a \in Actors : Row(a[1], flow[a])

(* A host that is registered, or that a flow works on, is one of that very   *)
(* session; the reaper of a host works on no other.                          *)
HostsNamed ==
  /\ \A w \in WSIDs : reg[w] # NoHost => hosts[reg[w]].w = w
  /\ \A a \in Actors : H(a) # NoHost => hosts[H(a)].w = W(a)
  /\ \A h \in Hosts : flow[Reaper(h)] # Nothing => H(Reaper(h)) = h

(* From the choice of its host to the commit a start is alone with it: no    *)
(* reaper runs before the host is published, and then it waits for the fate  *)
(* of the start.                                                             *)
Launching == {"publish", "accept", "commit"}
StartOf(a) ==
  /\ flow[a].pc = "publish" => W(a) \in Claude /\ H(a) # NoHost /\ flow[Reaper(H(a))] = Nothing
  /\ flow[a].pc = "commit" => W(a) \in Claude
  /\ flow[a].pc = "turn" => W(a) \in Codex
  /\ flow[a].pc \in {"accept", "commit"} /\ W(a) \in Claude =>
       H(a) # NoHost /\ flow[Reaper(H(a))].pc = "await"
Launches(a) == flow[a].pc \in Launching /\ W(a) \in Claude
Starts ==
  /\ \A a \in Actors : StartOf(a)
  /\ \A a, b \in Actors : Launches(a) /\ Launches(b) /\ H(a) = H(b) => a = b

(* The slot of a session in passage has one holder, who finds it where he    *)
(* left it.                                                                  *)
Match == \A a \in Actors : Holds(a) => life[W(a)] = PlaceOf(flow[a].pc)
Single == \A a, b \in Actors : Holds(a) /\ Holds(b) /\ W(a) = W(b) => a = b
Held == \A w \in WSIDs : life[w] \in Passing => \E a \in Actors : Holds(a) /\ W(a) = w
Tokens == Match /\ Single /\ Held

(* Shutdown tears nothing down before it has taken stock, and by then no     *)
(* binding is under way, nor will one begin.                                 *)
Phased ==
  /\ app \in {"ready", "draining"} => \A h \in Hosts : flow[Forced(h)] = Nothing
  /\ app \notin {"ready", "draining"} => \A c \in Callers : flow[<<"caller", c>>] = Nothing

(* Every start that has taken its slot finds an unused host. *)
Spawning == {a \in Actors : At(a, "spawn")}
Room == Cardinality(Spawning) <= Cardinality(Unused)

Inv == TypeOK /\ Rows /\ HostsNamed /\ Starts /\ Tokens /\ Phased /\ Room /\ EndRefusedWhileBusy

-----------------------------------------------------------------------------
(* The actors. *)
LEMMA Who ==
  /\ NoHost \notin Hosts
  /\ Nothing \in FlowRows
  /\ \A c \in Callers : <<"caller", c>> \in Actors
  /\ \A h \in Hosts : Reaper(h) \in Actors /\ Forced(h) \in Actors
  /\ \A a \in Actors : \/ a[1] = "caller" /\ a[2] \in Callers /\ a = <<"caller", a[2]>>
                       \/ a[1] = "reaper" /\ a[2] \in Hosts /\ a = Reaper(a[2])
                       \/ a[1] = "forced" /\ a[2] \in Hosts /\ a = Forced(a[2])
BY DEF NoHost, Hosts, Nothing, FlowRows, Ops, Pcs, Actors, Reaper, Forced

LEMMA ActorsFinite == IsFiniteSet(Actors) /\ IsFiniteSet(Hosts)
<1>1. IsFiniteSet(Hosts)
  <2>1. 1 \in Int /\ MaxHosts \in Int
    BY FlowsAssumption DEF FlowsAssumption
  <2> QED
    BY <2>1, FS_Interval DEF Hosts
<1>2. IsFiniteSet(Callers)
  <2> DEFINE f == [u \in Uses |-> u[1]]
  <2>1. IsFiniteSet(Uses)
    BY FlowsAssumption DEF FlowsAssumption
  <2>2. f \in Surjection(Uses, Callers)
    BY DEF Surjection, Callers
  <2> QED
    BY <2>1, <2>2, FS_Surjection
<1>3. IsFiniteSet({"caller"}) /\ IsFiniteSet({"reaper", "forced"})
  <2>1. {"reaper", "forced"} = {"reaper"} \cup {"forced"}
    OBVIOUS
  <2>2. IsFiniteSet({"caller"}) /\ IsFiniteSet({"reaper"}) /\ IsFiniteSet({"forced"})
    BY FS_Singleton
  <2> QED
    BY <2>1, <2>2, FS_Union
<1> QED
  BY <1>1, <1>2, <1>3, FS_Product, FS_Union DEF Actors

(* A start that has its slot finds a host nobody uses. *)
LEMMA FreshFound ==
  ASSUME TypeOK, Room, NEW a \in Actors, At(a, "spawn")
  PROVE  Fresh \in Hosts /\ hosts[Fresh].w = NoSession /\ Fresh \in Unused
<1>1. IsFiniteSet(Spawning) /\ IsFiniteSet(Unused)
  BY ActorsFinite, FS_Subset DEF Spawning, Unused
<1>2. Spawning # {}
  BY DEF Spawning
<1>3. Cardinality(Unused) # 0
  BY <1>1, <1>2, FS_EmptySet, FS_CardinalityType DEF Room
<1>4. Unused # {}
  BY <1>3, FS_EmptySet
<1> QED
  BY <1>4 DEF Fresh, Unused

-----------------------------------------------------------------------------
(* Types. *)
LEMMA TypeInit == Init => TypeOK
<1> SUFFICES ASSUME Init PROVE TypeOK
  OBVIOUS
<1>1. NewHost(NoSession) \in HostRows
  BY FlowsAssumption DEF FlowsAssumption, NewHost, HostRows
<1>2. hosts \in [Hosts -> HostRows] /\ flow \in [Actors -> FlowRows]
  BY <1>1, Who DEF Init
<1>3. life \in [WSIDs -> M!Places] /\ OwnerOK /\ open \in BOOLEAN
  BY DEF Init, M!Places, Providers, OwnerOK
<1>4. reg \in [WSIDs -> Hosts \cup {NoHost}] /\ sock \in [1 .. Sockets -> Hosts \cup {NoHost}]
  BY DEF Init
<1> QED
  BY <1>2, <1>3, <1>4 DEF Init, TypeOK, Phases

(* A flow that moves on, returns or begins; a host that changes. *)
LEMMA FlowType ==
  ASSUME flow \in [Actors -> FlowRows], NEW a \in Actors,
         \/ \E pc \in Pcs, h \in Hosts \cup {NoHost} :
              flow' = [flow EXCEPT ![a].pc = pc, ![a].h = h]
         \/ \E pc \in Pcs, ok \in BOOLEAN : flow' = [flow EXCEPT ![a].pc = pc, ![a].ok = ok]
         \/ \E pc \in Pcs : Go(a, pc)
         \/ \E f \in FlowRows : flow' = [flow EXCEPT ![a] = f]
         \/ Return(a)
  PROVE  flow' \in [Actors -> FlowRows]
<1>1. ASSUME NEW pc \in Pcs, NEW h \in Hosts \cup {NoHost}, flow' = [flow EXCEPT ![a].pc = pc, ![a].h = h]
      PROVE  flow' \in [Actors -> FlowRows]
  BY <1>1 DEF FlowRows
<1>2. ASSUME NEW pc \in Pcs, NEW ok \in BOOLEAN, flow' = [flow EXCEPT ![a].pc = pc, ![a].ok = ok]
      PROVE  flow' \in [Actors -> FlowRows]
  BY <1>2 DEF FlowRows
<1>3. ASSUME NEW pc \in Pcs, Go(a, pc) PROVE flow' \in [Actors -> FlowRows]
  BY <1>3 DEF FlowRows, Go
<1>4. ASSUME NEW f \in FlowRows, flow' = [flow EXCEPT ![a] = f] \/ Return(a)
      PROVE  flow' \in [Actors -> FlowRows]
  BY <1>4, Who DEF Return
<1> QED
  BY <1>1, <1>2, <1>3, <1>4, Who

LEMMA DoingType ==
  ASSUME NEW op \in Ops, NEW pc \in Pcs, NEW w \in WSIDs, NEW h \in Hosts \cup {NoHost}
  PROVE  Doing(op, pc, w, h) \in FlowRows
BY DEF Doing, FlowRows

LEMMA SetType ==
  ASSUME hosts \in [Hosts -> HostRows], NEW h, NEW row, h \in Hosts => row \in HostRows, Set(h, row)
  PROVE  hosts' \in [Hosts -> HostRows]
BY DEF Set

LEMMA MoveType ==
  ASSUME TypeOK, NEW w, NEW to, M!Move(w, to)
  PROVE  /\ life' \in [WSIDs -> M!Places]
         /\ OwnerOK'
         /\ open' \in BOOLEAN
<1>1. to \in M!Places
  BY DEF M!Move, M!Arrows, M!Places
<1>2. life' \in [WSIDs -> M!Places]
  BY <1>1 DEF M!Move, TypeOK
<1> QED
  BY <1>2, Zenon DEF M!Move, TypeOK, OwnerOK

LEMMA ReleaseType ==
  ASSUME TypeOK, NEW w, M!Release(w)
  PROVE  /\ life' \in [WSIDs -> M!Places]
         /\ OwnerOK'
         /\ open' \in BOOLEAN
<1>1. life' = [life EXCEPT ![w] = "gone"] /\ owner' = [owner EXCEPT ![w] = ""] /\ open' = open
  BY Zenon DEF M!Release
<1>2. OwnerOK'
  <2> DEFINE e == ""
  <2>1. owner \in [WSIDs -> Providers \cup {e}] /\ owner' = [owner EXCEPT ![w] = e]
    BY <1>1, Zenon DEF TypeOK, OwnerOK
  <2> HIDE DEF e
  <2>2. owner' \in [WSIDs -> Providers \cup {e}]
    BY <2>1
  <2> QED
    BY <2>2, Zenon DEF e, OwnerOK
<1>3. life' \in [WSIDs -> M!Places]
  <2>1. life \in [WSIDs -> M!Places]
    BY DEF TypeOK
  <2>2. life' = [life EXCEPT ![w] = "gone"]
    BY <1>1, Zenon
  <2> QED
    BY <2>1, <2>2 DEF M!Places
<1> QED
  BY <1>1, <1>2, <1>3, Zenon DEF TypeOK

LEMMA ShutType ==
  ASSUME TypeOK, M!Shut
  PROVE  /\ life' \in [WSIDs -> M!Places]
         /\ OwnerOK'
         /\ open' \in BOOLEAN
<1>1. life' \in [WSIDs -> M!Places]
  BY DEF M!Shut, TypeOK, M!Places
<1> QED
  BY <1>1, Zenon DEF M!Shut, TypeOK, OwnerOK

LEMMA SlotType ==
  ASSUME TypeOK, \/ UNCHANGED manager
                 \/ M!Shut
                 \/ \E w, to : M!Move(w, to)
                 \/ \E w : M!Release(w)
  PROVE  life' \in [WSIDs -> M!Places] /\ OwnerOK' /\ open' \in BOOLEAN
<1>1. CASE UNCHANGED manager
  BY <1>1 DEF manager, TypeOK, OwnerOK
<1> QED
  BY <1>1, MoveType, ReleaseType, ShutType

LEMMA RequestType ==
  ASSUME TypeOK, NEW a \in Actors, Request(a)
  PROVE  TypeOK'
<1> PICK w \in WSIDs : \/ StartSession(a, w) \/ SendMessage(a, w) \/ RemoveSession(a, w)
                      \/ \E op \in {"end", "new"} : EndOrNew(a, op, w)
  BY DEF Request
<1>1. UNCHANGED manager \/ \E to : M!Move(w, to)
  BY DEF StartSession, SendMessage, RemoveSession, EndOrNew
<1>2. reg[w] \in Hosts \cup {NoHost} /\ flow \in [Actors -> FlowRows]
  BY DEF TypeOK
<1>3. \E f \in FlowRows : flow' = [flow EXCEPT ![a] = f]
  BY <1>2, DoingType DEF StartSession, SendMessage, RemoveSession, EndOrNew, Ops, Pcs, Starting, Sending
<1>4. UNCHANGED <<reg, sock, hosts, entry, app, snap>>
  BY DEF StartSession, SendMessage, RemoveSession, EndOrNew
<1>5. flow' \in [Actors -> FlowRows]
  BY <1>2, <1>3, FlowType
<1> QED
  BY <1>1, <1>4, <1>5, SlotType DEF TypeOK

LEMMA StepType ==
  ASSUME TypeOK, Rows, Starts, Room, NEW a \in Actors, Step(a)
  PROVE  TypeOK'
<1> USE DEF Pcs, Starting, Sending, Ending, Resetting
<1>1. /\ flow \in [Actors -> FlowRows] /\ hosts \in [Hosts -> HostRows]
      /\ reg \in [WSIDs -> Hosts \cup {NoHost}] /\ sock \in [1 .. Sockets -> Hosts \cup {NoHost}]
      /\ H(a) \in Hosts \cup {NoHost} /\ entry \in [WSIDs -> {"live", "tombstone"}]
      /\ app \in Phases /\ snap \subseteq Hosts
  BY DEF TypeOK, H, FlowRows
<1>2. ASSUME NEW w \in WSIDs PROVE NewHost(w) \in HostRows
  BY FlowsAssumption DEF FlowsAssumption, NewHost, HostRows
<1>3. H(a) \in Hosts => W(a) \in WSIDs
  BY <1>1, Who DEF Rows, Row, W, H, Nothing
<1>4. At(a, "spawn") => Fresh \in Hosts /\ W(a) \in WSIDs
  BY FreshFound DEF Rows, Row, W, Nothing, At
<1>5. app' \in Phases /\ snap' \subseteq Hosts
  BY <1>1 DEF Step, ReserveSocket, PublishClaude, PublishCodex, FirstTurn, AcceptStart, CommitStart,
     RejectStart, BeginSend, Deliver, SettleSend, ReadHost, BeginEnd, CheckBusy, TeardownClaude, Quiesce,
     TakeClaude, Dispose, TeardownCodex, FinishEnd, BeginReset, FinishReset, Tombstone, ReleaseSlot
<1>6. life' \in [WSIDs -> M!Places] /\ OwnerOK' /\ open' \in BOOLEAN
  <2>1. \/ UNCHANGED manager
        \/ \E w, to : M!Move(w, to)
        \/ \E w : M!Release(w)
    BY DEF Step, ReserveSocket, PublishClaude, PublishCodex, FirstTurn, AcceptStart, CommitStart,
     RejectStart, BeginSend, Deliver, SettleSend, ReadHost, BeginEnd, CheckBusy, TeardownClaude, Quiesce,
     TakeClaude, Dispose, TeardownCodex, FinishEnd, BeginReset, FinishReset, Tombstone, ReleaseSlot
  <2> QED
    BY <2>1, SlotType
<1>7. reg' \in [WSIDs -> Hosts \cup {NoHost}] /\ entry' \in [WSIDs -> {"live", "tombstone"}]
  <2>1. \/ UNCHANGED reg
        \/ \E w, h : TakeHost(w, h)
        \/ \E w : \E h \in Hosts \cup {NoHost} : reg' = [reg EXCEPT ![w] = h]
    <3>1. CASE PublishClaude(a) \/ PublishCodex(a)
      BY <1>1, <1>4, <3>1 DEF PublishClaude, PublishCodex
    <3>2. CASE FirstTurn(a) \/ TakeClaude(a) \/ TeardownCodex(a)
      BY <3>2 DEF FirstTurn, TakeClaude, TeardownCodex
    <3> QED
      BY <3>1, <3>2 DEF Step, ReserveSocket, AcceptStart, CommitStart, RejectStart, BeginSend, Deliver, SettleSend,
     ReadHost, BeginEnd, CheckBusy, TeardownClaude, Quiesce, Dispose, FinishEnd, BeginReset,
     FinishReset, Tombstone, ReleaseSlot
  <2>2. UNCHANGED entry \/ \E w : entry' = [entry EXCEPT ![w] = "tombstone"]
    BY DEF Step, ReserveSocket, PublishClaude, PublishCodex, FirstTurn, AcceptStart, CommitStart,
     RejectStart, BeginSend, Deliver, SettleSend, ReadHost, BeginEnd, CheckBusy, TeardownClaude, Quiesce,
     TakeClaude, Dispose, TeardownCodex, FinishEnd, BeginReset, FinishReset, Tombstone, ReleaseSlot
  <2> QED
    BY <1>1, <2>1, <2>2 DEF TakeHost
<1>8. sock' \in [1 .. Sockets -> Hosts \cup {NoHost}]
  <2>1. \/ UNCHANGED sock
        \/ \E h : FreeSocket(h)
        \/ \E i : \E h \in Hosts : sock' = [sock EXCEPT ![i] = h]
    <3>1. CASE ReserveSocket(a)
      BY <1>4, <3>1 DEF ReserveSocket
    <3>2. CASE PublishClaude(a) \/ Dispose(a)
      BY <3>2 DEF PublishClaude, Dispose
    <3> QED
      BY <3>1, <3>2 DEF Step, PublishCodex, FirstTurn, AcceptStart, CommitStart, RejectStart, BeginSend, Deliver,
     SettleSend, ReadHost, BeginEnd, CheckBusy, TeardownClaude, Quiesce, TakeClaude, TeardownCodex,
     FinishEnd, BeginReset, FinishReset, Tombstone, ReleaseSlot
  <2> QED
    BY <1>1, <2>1 DEF FreeSocket
<1>9. hosts' \in [Hosts -> HostRows]
  <2>1. ASSUME NEW h \in Hosts, NEW row \in HostRows, NEW b \in BOOLEAN
        PROVE  /\ [row EXCEPT !.pump = "running"] \in HostRows
               /\ [row EXCEPT !.broker = FALSE] \in HostRows
               /\ [row EXCEPT !.turn = b] \in HostRows
    BY DEF HostRows
  <2>2. CASE \/ PublishClaude(a) \/ FirstTurn(a) \/ Deliver(a)
    <3>1. UNCHANGED hosts \/ \E row : Set(H(a), row) /\ (H(a) \in Hosts => row \in HostRows)
      BY <1>1, <2>1, <2>2 DEF PublishClaude, FirstTurn, Deliver
    <3> QED
      BY <1>1, <3>1, SetType
  <2>3. CASE TeardownClaude(a) \/ Dispose(a)
    <3>1. ASSUME NEW row \in HostRows, NEW once \in {"running", "done", row.once}
          PROVE  /\ [row EXCEPT !.asked = TRUE, !.once = once] \in HostRows
                 /\ [row EXCEPT !.broker = FALSE, !.once = once] \in HostRows
      BY <3>1 DEF HostRows
    <3>2. UNCHANGED hosts \/ \E row : Set(H(a), row) /\ (H(a) \in Hosts => row \in HostRows)
      BY <1>1, <2>3, <3>1 DEF TeardownClaude, Dispose
    <3> QED
      BY <1>1, <3>2, SetType
  <2>4. CASE ReserveSocket(a) \/ PublishCodex(a)
    <3>1. ASSUME NEW w \in WSIDs, NEW i \in 1 .. Sockets
          PROVE  [NewHost(w) EXCEPT !.broker = TRUE, !.idx = i] \in HostRows
      <4>1. i \in 0 .. Sockets
        BY FlowsAssumption DEF FlowsAssumption
      <4> QED
        BY <1>2, <4>1 DEF HostRows
    <3>2. UNCHANGED hosts \/ \E row \in HostRows : Set(Fresh, row)
      BY <1>2, <1>4, <2>4, <3>1 DEF ReserveSocket, PublishCodex, FreeSockets
    <3> QED
      BY <1>1, <3>2, SetType
  <2> QED
    BY <1>1, <2>2, <2>3, <2>4 DEF Step, AcceptStart, CommitStart,
     RejectStart, BeginSend, SettleSend, ReadHost, BeginEnd, CheckBusy, Quiesce,
     TakeClaude, TeardownCodex, FinishEnd, BeginReset, FinishReset, Tombstone, ReleaseSlot
<1>10. flow' \in [Actors -> FlowRows]
  <2>1. CASE ReserveSocket(a) \/ PublishCodex(a) \/ FirstTurn(a)
    <3>1. \/ \E pc \in Pcs : Go(a, pc)
          \/ \E pc \in Pcs, h \in Hosts \cup {NoHost} : flow' = [flow EXCEPT ![a].pc = pc, ![a].h = h]
      BY <1>4, <2>1 DEF ReserveSocket, PublishCodex, FirstTurn
    <3> QED
      BY <1>1, <3>1, FlowType
  <2>2. CASE PublishClaude(a)
    <3>1. H(a) \in Hosts /\ W(a) \in WSIDs
      BY <1>1, <1>3, <2>2 DEF PublishClaude, Starts, StartOf, At
    <3>2. Doing("reap", "await", W(a), H(a)) \in FlowRows
      BY <3>1, DoingType DEF Ops
    <3>3. \/ Go(a, "reject")
          \/ flow' = [flow EXCEPT ![a].pc = "accept",
                        ![Reaper(H(a))] = Doing("reap", "await", W(a), H(a))]
      BY <2>2 DEF PublishClaude
    <3>4. [flow EXCEPT ![a].pc = "accept"] \in [Actors -> FlowRows]
      BY <1>1 DEF FlowRows
    <3> QED
      BY <1>1, <3>2, <3>3, <3>4, FlowType
  <2>3. CASE CommitStart(a)
    <3>1. H(a) \in Hosts
      BY <1>1, <2>3 DEF CommitStart, Starts, StartOf, At
    <3>2. [flow EXCEPT ![a] = Nothing] \in [Actors -> FlowRows]
      BY <1>1, Who
    <3> QED
      BY <2>3, <3>1, <3>2, Who DEF CommitStart, FlowRows
  <2>4. CASE BeginEnd(a)
    <3>1. \/ Return(a) \/ \E pc \in Pcs : Go(a, pc)
          \/ flow' = [flow EXCEPT ![a].op = "fallback", ![a].pc = "teardown"]
      BY <2>4, Zenon DEF BeginEnd
    <3>2. [flow[a] EXCEPT !.op = "fallback", !.pc = "teardown"] \in FlowRows
      BY <1>1 DEF FlowRows, Ops
    <3>3. CASE flow' = [flow EXCEPT ![a].op = "fallback", ![a].pc = "teardown"]
      BY <1>1, <3>2, <3>3
    <3> QED
      BY <1>1, <3>1, <3>3, FlowType
  <2>5. CASE \/ AcceptStart(a) \/ RejectStart(a) \/ BeginSend(a) \/ Deliver(a) \/ SettleSend(a)
             \/ CheckBusy(a) \/ TakeClaude(a) \/ Dispose(a) \/ TeardownCodex(a) \/ FinishEnd(a)
             \/ BeginReset(a) \/ FinishReset(a) \/ Tombstone(a) \/ ReleaseSlot(a)
    <3>1. Return(a) \/ \E pc \in Pcs : Go(a, pc)
      BY <2>5 DEF AcceptStart, RejectStart, BeginSend, Deliver, SettleSend, CheckBusy, TakeClaude, Dispose,
         TeardownCodex, FinishEnd, BeginReset, FinishReset, Tombstone, ReleaseSlot
    <3> QED
      BY <1>1, <3>1, FlowType
  <2>6. CASE ReadHost(a) \/ TeardownClaude(a) \/ Quiesce(a)
    <3>1. \/ \E pc \in Pcs : Go(a, pc)
          \/ \E pc \in Pcs, ok \in BOOLEAN : flow' = [flow EXCEPT ![a].pc = pc, ![a].ok = ok]
          \/ /\ flow' = [flow EXCEPT ![a].pc = "begin", ![a].h = reg[W(a)]]
             /\ flow[a].pc = "read"
      BY <2>6 DEF ReadHost, TeardownClaude, Quiesce, At
    <3>2. flow[a].pc = "read" => reg[W(a)] \in Hosts \cup {NoHost}
      BY <1>1 DEF Rows, Row, Nothing, W
    <3> QED
      BY <1>1, <3>1, <3>2, FlowType
  <2> QED
    BY <2>1, <2>2, <2>3, <2>4, <2>5, <2>6 DEF Step
<1> QED
  BY <1>5, <1>6, <1>7, <1>8, <1>9, <1>10 DEF TypeOK
LEMMA OtherType ==
  ASSUME TypeOK, HostsNamed, (\E h \in Hosts : Provider(h)) \/ Shutdown
  PROVE  TypeOK'
<1>1. /\ flow \in [Actors -> FlowRows] /\ hosts \in [Hosts -> HostRows]
      /\ reg \in [WSIDs -> Hosts \cup {NoHost}]
  BY DEF TypeOK
<1>2. life' \in [WSIDs -> M!Places] /\ OwnerOK' /\ open' \in BOOLEAN
  <2>1. UNCHANGED manager \/ M!Shut
    BY DEF Provider, PumpEnds, PumpSticks, TurnEnds, ReaperWakes, Shutdown, RefuseWork, Snapshot, Collect, Finalize
  <2> QED
    BY <2>1, SlotType
<1>3. UNCHANGED <<reg, sock, entry>>
  BY DEF Provider, PumpEnds, PumpSticks, TurnEnds, ReaperWakes, Shutdown, RefuseWork, Snapshot, Collect, Finalize
<1>4. Registered \subseteq Hosts
  BY <1>1 DEF Registered
<1>5. app' \in Phases /\ snap' \subseteq Hosts
  BY <1>4 DEF TypeOK, Phases, Provider, PumpEnds, PumpSticks, TurnEnds, ReaperWakes, Shutdown, RefuseWork, Snapshot,
     Collect, Finalize
<1>6. hosts' \in [Hosts -> HostRows]
  <2>1. ASSUME NEW row \in HostRows, NEW pump \in {"done", "stuck"}
        PROVE  /\ [row EXCEPT !.pump = pump] \in HostRows /\ [row EXCEPT !.turn = FALSE] \in HostRows
               /\ [row EXCEPT !.asked = TRUE] \in HostRows /\ [row EXCEPT !.broker = FALSE] \in HostRows
    BY <2>1 DEF HostRows
  <2>2. CASE \E h \in Hosts : PumpEnds(h) \/ PumpSticks(h) \/ TurnEnds(h)
    <3>1. \E h \in Hosts, row \in HostRows : Set(h, row)
      BY <1>1, <2>1, <2>2 DEF PumpEnds, PumpSticks, TurnEnds
    <3> QED
      BY <1>1, <3>1, SetType
  <2>3. CASE Snapshot \/ Finalize
    BY <1>1, <2>1, <2>3 DEF Snapshot, Finalize
  <2> QED
    BY <1>1, <2>2, <2>3 DEF Provider, ReaperWakes, Shutdown, RefuseWork, Collect
<1>7. flow' \in [Actors -> FlowRows]
  <2>1. CASE \E h \in Hosts : ReaperWakes(h)
    <3>1. \E a \in Actors : Return(a) \/ \E pc \in Pcs : Go(a, pc)
      BY <2>1, Who DEF ReaperWakes, Pcs
    <3> QED
      BY <1>1, <3>1, FlowType
  <2>2. CASE Snapshot
    <3>1. ASSUME NEW h \in Registered PROVE hosts[h].w \in WSIDs /\ h \in Hosts
      BY <1>1, <1>4, <3>1 DEF Registered, HostsNamed
    <3>2. ASSUME NEW h \in Registered PROVE Doing("forced", "begin", hosts[h].w, h) \in FlowRows
      BY <3>1, <3>2, DoingType DEF Ops, Pcs
    <3>3. ASSUME NEW a \in Actors, a \in {Forced(h) : h \in Registered}
          PROVE  Doing("forced", "begin", hosts[a[2]].w, a[2]) \in FlowRows
      BY <3>2, <3>3 DEF Forced
    <3> QED
      BY <1>1, <2>2, <3>3 DEF Snapshot
  <2> QED
    BY <1>1, <2>1, <2>2 DEF Provider, PumpEnds, PumpSticks, TurnEnds, Shutdown, RefuseWork, Collect, Finalize
<1> QED
  BY <1>2, <1>3, <1>5, <1>6, <1>7 DEF TypeOK

LEMMA TypeOKStep == Inv /\ [Next]_vars => TypeOK'
<1>1. CASE UNCHANGED vars
  BY <1>1 DEF vars, Inv, TypeOK, OwnerOK
<1> QED
  BY <1>1, RequestType, StepType, OtherType DEF Next, Inv

-----------------------------------------------------------------------------
(* Where a flow stands says what it does and who does it. *)
LEMMA Stations ==
  ASSUME TypeOK, Rows, NEW a \in Actors
  PROVE  /\ flow[a].pc # "idle" <=> flow[a] # Nothing
         /\ flow[a] # Nothing => W(a) \in WSIDs
         /\ flow[a].pc \in Starting \cup {"commit"} => flow[a].op = "start"
         /\ flow[a].pc \in Sending \cup {"submit"} => flow[a].op = "send"
         /\ flow[a].pc = "busy" => flow[a].op \in UserOps
         /\ flow[a].pc \in Ending => flow[a].op \in UserOps \cup {"reap", "forced", "fallback"}
         /\ flow[a].pc = "begin" => flow[a].op \in UserOps \cup {"reap", "forced"}
         /\ flow[a].pc \in {"beginreset"} \cup Resetting => flow[a].op = "new"
         /\ flow[a].pc \in {"read", "cleanup", "release"} => flow[a].op = "remove"
         /\ flow[a].pc \in {"await", "watch"} => flow[a].op = "reap"
         /\ flow[a].op \in {"start", "send"} \cup UserOps => a[1] = "caller"
         /\ flow[a].op = "reap" => a[1] = "reaper"
         /\ flow[a].op \in {"forced", "fallback"} => a[1] = "forced"
<1>1. Row(a[1], flow[a]) /\ a[1] \in {"caller", "reaper", "forced"}
  BY Who DEF Rows
<1>2. CASE flow[a] = Nothing
  BY <1>2 DEF Nothing, Starting, Sending, Ending, Resetting, UserOps
<1>3. CASE flow[a] # Nothing
  BY <1>1, <1>3 DEF Row, OpsOf, PcsOf, Starting, Sending, Ending, Resetting, UserOps, W
<1> QED
  BY <1>2, <1>3

LEMMA RowChange ==
  ASSUME TypeOK, Rows, NEW a \in Actors,
         \/ Return(a)
         \/ \E f : flow' = [flow EXCEPT ![a] = f] /\ Row(a[1], f)
         \/ \E pc \in PcsOf(flow[a].op) : Go(a, pc) /\ flow[a] # Nothing
         \/ \E pc \in PcsOf(flow[a].op) : \E h : flow[a] # Nothing /\ flow' = [flow EXCEPT ![a].pc = pc, ![a].h = h]
         \/ \E pc \in PcsOf(flow[a].op) : \E ok : flow[a] # Nothing /\ flow' = [flow EXCEPT ![a].pc = pc, ![a].ok = ok]
  PROVE  Rows'
<1>1. flow \in [Actors -> FlowRows]
  BY DEF TypeOK
<1>2. ASSUME NEW f, flow' = [flow EXCEPT ![a] = f], Row(a[1], f) PROVE Rows'
  BY <1>1, <1>2 DEF Rows
<1>3. CASE Return(a)
  BY <1>2, <1>3 DEF Return, Row
<1>4. Row(a[1], flow[a]) /\ flow[a] \in FlowRows
  BY <1>1 DEF Rows
<1>5. ASSUME NEW pc \in PcsOf(flow[a].op), flow[a] # Nothing, NEW h, NEW ok
      PROVE  /\ Row(a[1], [flow[a] EXCEPT !.pc = pc])
             /\ Row(a[1], [flow[a] EXCEPT !.pc = pc, !.h = h])
             /\ Row(a[1], [flow[a] EXCEPT !.pc = pc, !.ok = ok])
  BY <1>4, <1>5 DEF Row, FlowRows
<1>6. CASE \E pc \in PcsOf(flow[a].op) : Go(a, pc) /\ flow[a] # Nothing
  <2> PICK pc \in PcsOf(flow[a].op) : Go(a, pc) /\ flow[a] # Nothing
    BY <1>6
  <2>1. flow' = [flow EXCEPT ![a] = [flow[a] EXCEPT !.pc = pc]]
    BY <1>1 DEF Go
  <2> QED
    BY <1>2, <1>5, <2>1
<1>7. ASSUME NEW pc \in PcsOf(flow[a].op), NEW h, flow[a] # Nothing, flow' = [flow EXCEPT ![a].pc = pc, ![a].h = h]
      PROVE  Rows'
  <2>1. flow' = [flow EXCEPT ![a] = [flow[a] EXCEPT !.pc = pc, !.h = h]]
    BY <1>1, <1>7
  <2> QED
    BY <1>2, <1>5, <1>7, <2>1
<1>8. ASSUME NEW pc \in PcsOf(flow[a].op), NEW ok, flow[a] # Nothing, flow' = [flow EXCEPT ![a].pc = pc, ![a].ok = ok]
      PROVE  Rows'
  <2>1. flow' = [flow EXCEPT ![a] = [flow[a] EXCEPT !.pc = pc, !.ok = ok]]
    BY <1>1, <1>8
  <2> QED
    BY <1>2, <1>5, <1>8, <2>1
<1> QED
  BY <1>2, <1>3, <1>6, <1>7, <1>8

LEMMA RowsStep == Inv /\ [Next]_vars => Rows'
<1> SUFFICES ASSUME TypeOK, Rows, HostsNamed, Starts, [Next]_vars PROVE Rows'
  BY DEF Inv
<1>1. flow \in [Actors -> FlowRows]
  BY DEF TypeOK
<1>2. ASSUME NEW a \in Actors, Request(a) PROVE Rows'
  <2>1. \E f : flow' = [flow EXCEPT ![a] = f] /\ Row(a[1], f)
    BY <1>2 DEF Request, StartSession, SendMessage, RemoveSession, EndOrNew, Admits, Doing, Row, OpsOf, PcsOf,
       UserOps, Starting, Sending, Ending
  <2> QED
    BY <2>1, RowChange
<1>3. ASSUME NEW a \in Actors, Step(a) PROVE Rows'
  <2> DEFINE on(pc) == pc \in PcsOf(flow[a].op) /\ flow[a] # Nothing
  <2>1. CASE ReserveSocket(a) \/ PublishCodex(a) \/ FirstTurn(a)
    <3>1. on("publish") /\ on("turn") /\ on("reject") /\ on("accept")
      BY <2>1, Stations DEF ReserveSocket, PublishCodex, FirstTurn, At, PcsOf, Starting
    <3> QED
      BY <2>1, <3>1, RowChange DEF ReserveSocket, PublishCodex, FirstTurn
  <2>2. CASE PublishClaude(a)
    <3>1. on("reject") /\ on("accept") /\ H(a) \in Hosts /\ W(a) \in WSIDs
      BY <1>1, <2>2, Stations DEF PublishClaude, At, PcsOf, Starting, Starts, StartOf, H, FlowRows
    <3>2. CASE Go(a, "reject")
      BY <3>1, <3>2, RowChange
    <3>3. CASE flow' = [flow EXCEPT ![a].pc = "accept",
                          ![Reaper(H(a))] = Doing("reap", "await", W(a), H(a))]
      <4>1. Row("reaper", Doing("reap", "await", W(a), H(a)))
        BY <3>1 DEF Row, Doing, OpsOf, PcsOf
      <4>2. Row(a[1], [flow[a] EXCEPT !.pc = "accept"])
        BY <1>1, <3>1 DEF Rows, Row, FlowRows
      <4>3. Reaper(H(a)) \in Actors /\ Reaper(H(a))[1] = "reaper"
        BY <3>1, Who DEF Reaper
      <4> QED
        BY <1>1, <3>3, <4>1, <4>2, <4>3 DEF Rows
    <3> QED
      BY <2>2, <3>2, <3>3 DEF PublishClaude
  <2>3. CASE CommitStart(a)
    <3>1. H(a) \in Hosts /\ flow[Reaper(H(a))].pc = "await"
      BY <1>1, <2>3 DEF CommitStart, Starts, StartOf, At, H, FlowRows
    <3>2. Reaper(H(a)) \in Actors
      BY <3>1, Who
    <3>3. flow[Reaper(H(a))].op = "reap" /\ flow[Reaper(H(a))] # Nothing
      BY <3>1, <3>2, Stations
    <3>4. Row(Reaper(H(a))[1], [flow[Reaper(H(a))] EXCEPT !.pc = "watch"])
      BY <1>1, <3>2, <3>3 DEF Rows, Row, PcsOf, FlowRows
    <3>5. Row(a[1], Nothing)
      BY DEF Row
    <3>6. Row(Reaper(H(a))[1], [Nothing EXCEPT !.pc = "watch"]) \/ Reaper(H(a)) # a
      BY <2>3, <3>1 DEF CommitStart, At
    <3> QED
      BY <1>1, <2>3, <3>2, <3>4, <3>5, <3>6 DEF CommitStart, Rows
  <2>4. CASE AcceptStart(a) \/ BeginSend(a) \/ Deliver(a) \/ ReadHost(a) \/ CheckBusy(a)
    <3>1. \/ Return(a)
          \/ At(a, "accept") /\ Go(a, "commit")
          \/ At(a, "submit") /\ Go(a, "deliver")
          \/ At(a, "deliver") /\ (Go(a, "sent") \/ Go(a, "unsent"))
          \/ At(a, "busy") /\ Go(a, "teardown")
          \/ At(a, "read") /\ flow' = [flow EXCEPT ![a].pc = "begin", ![a].h = reg[W(a)]]
      BY <2>4 DEF AcceptStart, BeginSend, Deliver, ReadHost, CheckBusy
    <3>2. /\ At(a, "accept") => on("commit")
          /\ At(a, "submit") => on("deliver")
          /\ At(a, "deliver") => on("sent") /\ on("unsent")
          /\ At(a, "busy") => on("teardown")
          /\ At(a, "read") => on("begin")
      BY Stations DEF At, PcsOf, Starting, Sending, Ending, UserOps
    <3> QED
      BY <3>1, <3>2, RowChange
  <2>5. CASE BeginEnd(a)
    <3>1. /\ on("teardown") /\ (flow[a].op = "remove" => on("cleanup")) /\ (flow[a].op = "new" => on("beginreset"))
          /\ ByUser(flow[a].op) => on("busy")
      BY <2>5, Stations DEF BeginEnd, At, PcsOf, Ending, UserOps, ByUser
    <3>2. \/ Return(a)
          \/ Go(a, "teardown")
          \/ ByUser(flow[a].op) /\ Go(a, "busy")
          \/ flow[a].op = "remove" /\ Go(a, "cleanup")
          \/ flow[a].op = "new" /\ Go(a, "beginreset")
          \/ flow[a].op = "forced" /\ flow' = [flow EXCEPT ![a].op = "fallback", ![a].pc = "teardown"]
      BY <2>5 DEF BeginEnd
    <3>3. CASE flow[a].op = "forced" /\ flow' = [flow EXCEPT ![a].op = "fallback", ![a].pc = "teardown"]
      <4> DEFINE f == [flow[a] EXCEPT !.op = "fallback", !.pc = "teardown"]
      <4>1. flow' = [flow EXCEPT ![a] = f]
        BY <1>1, <3>3
      <4>2. a[1] = "forced" /\ W(a) \in WSIDs
        BY <3>1, <3>3, Stations
      <4>3. Row("forced", f)
        BY <1>1, <4>2 DEF Row, FlowRows, OpsOf, PcsOf, Ending, W
      <4> HIDE DEF f
      <4> QED
        BY <4>1, <4>2, <4>3, RowChange
    <3> QED
      BY <3>1, <3>2, <3>3, RowChange
  <2>6. CASE TeardownClaude(a) \/ Quiesce(a) \/ TakeClaude(a) \/ Dispose(a) \/ TeardownCodex(a)
    <3>1. on("finish") /\ on("quiesce") /\ on("take") /\ on("dispose")
      BY <2>6, Stations DEF TeardownClaude, Quiesce, TakeClaude, Dispose, TeardownCodex, At, PcsOf, Ending, UserOps
    <3>2. \E pc \in {"finish", "quiesce", "take", "dispose"} :
            Go(a, pc) \/ flow' = [flow EXCEPT ![a].pc = pc, ![a].ok = FALSE]
      BY <2>6 DEF TeardownClaude, Quiesce, TakeClaude, Dispose, TeardownCodex
    <3> QED
      BY <3>1, <3>2, RowChange
  <2>7. CASE FinishEnd(a) \/ BeginReset(a) \/ Tombstone(a)
    <3>1. \/ Return(a)
          \/ At(a, "finish") /\ flow[a].op = "new" /\ Go(a, "reset")
          \/ At(a, "finish") /\ flow[a].op = "remove" /\ Go(a, "cleanup")
          \/ At(a, "beginreset") /\ Go(a, "reset")
          \/ At(a, "cleanup") /\ Go(a, "release")
      BY <2>7 DEF FinishEnd, BeginReset, Tombstone
    <3>2. /\ At(a, "finish") /\ flow[a].op = "new" => on("reset")
          /\ At(a, "finish") /\ flow[a].op = "remove" => on("cleanup")
          /\ At(a, "beginreset") => on("reset")
          /\ At(a, "cleanup") => on("release")
      BY Stations DEF At, PcsOf, Ending, Resetting
    <3> QED
      BY <3>1, <3>2, RowChange
  <2>8. CASE RejectStart(a) \/ SettleSend(a) \/ FinishReset(a) \/ ReleaseSlot(a)
    BY <2>8, RowChange DEF RejectStart, SettleSend, FinishReset, ReleaseSlot
  <2> QED
    BY <1>3, <2>1, <2>2, <2>3, <2>4, <2>5, <2>6, <2>7, <2>8 DEF Step
<1>4. ASSUME NEW h \in Hosts, ReaperWakes(h) PROVE Rows'
  <2>1. Reaper(h) \in Actors /\ "begin" \in PcsOf(flow[Reaper(h)].op) /\ flow[Reaper(h)] # Nothing
    BY <1>4, Who, Stations DEF ReaperWakes, At, PcsOf, Ending
  <2> QED
    BY <1>4, <2>1, RowChange DEF ReaperWakes
<1>5. CASE Snapshot
  <2>1. ASSUME NEW h \in Registered PROVE Row("forced", Doing("forced", "begin", hosts[h].w, h))
    BY <2>1 DEF Registered, HostsNamed, Row, Doing, OpsOf, PcsOf
  <2>2. ASSUME NEW a \in Actors, a \in {Forced(h) : h \in Registered}
        PROVE  Row(a[1], Doing("forced", "begin", hosts[a[2]].w, a[2]))
    BY <2>1, <2>2 DEF Forced
  <2> QED
    BY <1>1, <1>5, <2>2 DEF Snapshot, Rows
<1>6. ASSUME UNCHANGED flow PROVE Rows'
  BY <1>6 DEF Rows
<1> QED
  BY <1>2, <1>3, <1>4, <1>5, <1>6
     DEF Next, Provider, PumpEnds, PumpSticks, TurnEnds, Shutdown, RefuseWork, Collect, Finalize, vars

-----------------------------------------------------------------------------
(* What a flow's own step changes in it, and that it changes no other. *)
Alone(a) == \A b \in Actors \ {a} : flow'[b] = flow[b]
Stays(a) == flow'[a].w = flow[a].w /\ flow'[a].h = flow[a].h
To(a, pc) == flow'[a].pc = pc /\ flow'[a].op = flow[a].op /\ Stays(a)

LEMMA Moves ==
  ASSUME TypeOK, NEW a \in Actors
  PROVE  /\ \A pc : Go(a, pc) => To(a, pc) /\ Alone(a)
         /\ Return(a) => flow'[a] = Nothing /\ Alone(a)
         /\ \A pc, ok : flow' = [flow EXCEPT ![a].pc = pc, ![a].ok = ok] => To(a, pc) /\ Alone(a)
         /\ \A f : flow' = [flow EXCEPT ![a] = f] => flow'[a] = f /\ Alone(a)
         /\ \A pc, h : flow' = [flow EXCEPT ![a].pc = pc, ![a].h = h] =>
              /\ flow'[a].pc = pc /\ flow'[a].h = h /\ Alone(a)
              /\ flow'[a].op = flow[a].op /\ flow'[a].w = flow[a].w
         /\ \A pc, op : flow' = [flow EXCEPT ![a].op = op, ![a].pc = pc] =>
              flow'[a].pc = pc /\ flow'[a].op = op /\ Stays(a) /\ Alone(a)
<1>1. flow \in [Actors -> FlowRows]
  BY DEF TypeOK
<1> USE <1>1 DEF To, Stays, Alone
<1>2. \A pc : Go(a, pc) => To(a, pc) /\ Alone(a)
  BY DEF Go, FlowRows
<1>3. Return(a) => flow'[a] = Nothing /\ Alone(a)
  BY DEF Return
<1>4. \A pc, ok : flow' = [flow EXCEPT ![a].pc = pc, ![a].ok = ok] => To(a, pc) /\ Alone(a)
  BY DEF FlowRows
<1>5. \A f : flow' = [flow EXCEPT ![a] = f] => flow'[a] = f /\ Alone(a)
  OBVIOUS
<1>6. \A pc, h : flow' = [flow EXCEPT ![a].pc = pc, ![a].h = h] =>
        /\ flow'[a].pc = pc /\ flow'[a].h = h /\ Alone(a)
        /\ flow'[a].op = flow[a].op /\ flow'[a].w = flow[a].w
  BY DEF FlowRows
<1>7. \A pc, op : flow' = [flow EXCEPT ![a].op = op, ![a].pc = pc] =>
        flow'[a].pc = pc /\ flow'[a].op = op /\ Stays(a) /\ Alone(a)
  BY DEF FlowRows
<1> QED
  BY <1>2, <1>3, <1>4, <1>5, <1>6, <1>7

LEMMA SetKeepsName ==
  ASSUME TypeOK, NEW h \in Hosts, NEW g,
         \/ \E pump : Set(g, [hosts[g] EXCEPT !.pump = pump])
         \/ \E b : Set(g, [hosts[g] EXCEPT !.broker = b])
         \/ \E turn : Set(g, [hosts[g] EXCEPT !.turn = turn])
         \/ \E b, once : Set(g, [hosts[g] EXCEPT !.asked = b, !.once = once])
         \/ \E b, once : Set(g, [hosts[g] EXCEPT !.broker = b, !.once = once])
  PROVE  hosts'[h].w = hosts[h].w
<1>1. hosts \in [Hosts -> HostRows]
  BY DEF TypeOK
<1>2. ASSUME NEW row, Set(g, row), g \in Hosts => row.w = hosts[g].w PROVE hosts'[h].w = hosts[h].w
  BY <1>1, <1>2 DEF Set
<1>3. ASSUME NEW row \in HostRows, NEW x, NEW y
      PROVE  /\ [row EXCEPT !.pump = x].w = row.w /\ [row EXCEPT !.broker = x].w = row.w
             /\ [row EXCEPT !.turn = x].w = row.w /\ [row EXCEPT !.asked = x, !.once = y].w = row.w
             /\ [row EXCEPT !.broker = x, !.once = y].w = row.w
  BY DEF HostRows
<1>4. ASSUME NEW x, Set(g, [hosts[g] EXCEPT !.pump = x]) PROVE hosts'[h].w = hosts[h].w
  <2>1. g \in Hosts => [hosts[g] EXCEPT !.pump = x].w = hosts[g].w
    BY <1>1, <1>3
  <2> QED
    BY <1>2, <1>4, <2>1
<1>5. ASSUME NEW x, Set(g, [hosts[g] EXCEPT !.broker = x]) PROVE hosts'[h].w = hosts[h].w
  <2>1. g \in Hosts => [hosts[g] EXCEPT !.broker = x].w = hosts[g].w
    BY <1>1, <1>3
  <2> QED
    BY <1>2, <1>5, <2>1
<1>6. ASSUME NEW x, Set(g, [hosts[g] EXCEPT !.turn = x]) PROVE hosts'[h].w = hosts[h].w
  <2>1. g \in Hosts => [hosts[g] EXCEPT !.turn = x].w = hosts[g].w
    BY <1>1, <1>3
  <2> QED
    BY <1>2, <1>6, <2>1
<1>7. ASSUME NEW x, NEW y, Set(g, [hosts[g] EXCEPT !.asked = x, !.once = y]) PROVE hosts'[h].w = hosts[h].w
  <2>1. g \in Hosts => [hosts[g] EXCEPT !.asked = x, !.once = y].w = hosts[g].w
    BY <1>1 DEF HostRows
  <2> QED
    BY <1>2, <1>7, <2>1
<1>8. ASSUME NEW x, NEW y, Set(g, [hosts[g] EXCEPT !.broker = x, !.once = y]) PROVE hosts'[h].w = hosts[h].w
  <2>1. g \in Hosts => [hosts[g] EXCEPT !.broker = x, !.once = y].w = hosts[g].w
    BY <1>1 DEF HostRows
  <2> QED
    BY <1>2, <1>8, <2>1
<1> QED
  BY <1>4, <1>5, <1>6, <1>7, <1>8, Zenon

(* Hosts do not change sessions, and an unused one is given to a start. *)
LEMMA NamesStep ==
  ASSUME TypeOK, Room, [Next]_vars, NEW h \in Hosts
  PROVE  \/ hosts'[h].w = hosts[h].w
         \/ \E a \in Actors : /\ h = Fresh /\ flow[a].pc = "spawn" /\ hosts[h].w = NoSession
                              /\ ReserveSocket(a) \/ PublishCodex(a)
                              /\ hosts'[h].w = W(a) /\ flow'[a].h = h
<1>1. hosts \in [Hosts -> HostRows] /\ Registered \subseteq Hosts
  BY DEF TypeOK, Registered
<1>2. CASE \E a \in Actors : \/ PublishClaude(a) \/ FirstTurn(a) \/ Deliver(a) \/ TeardownClaude(a) \/ Dispose(a)
  <2> PICK a \in Actors : PublishClaude(a) \/ FirstTurn(a) \/ Deliver(a) \/ TeardownClaude(a) \/ Dispose(a)
    BY <1>2
  <2>1. \/ UNCHANGED hosts
        \/ Set(H(a), [hosts[H(a)] EXCEPT !.pump = "running"])
        \/ Set(H(a), [hosts[H(a)] EXCEPT !.broker = FALSE])
        \/ \E turn : Set(H(a), [hosts[H(a)] EXCEPT !.turn = turn])
        \/ \E once : \/ Set(H(a), [hosts[H(a)] EXCEPT !.asked = TRUE, !.once = once])
                     \/ Set(H(a), [hosts[H(a)] EXCEPT !.broker = FALSE, !.once = once])
    BY Zenon DEF PublishClaude, FirstTurn, Deliver, TeardownClaude, Dispose
  <2> QED
    BY <2>1, SetKeepsName, Zenon
<1>3. CASE \E g \in Hosts : PumpEnds(g) \/ PumpSticks(g) \/ TurnEnds(g)
  BY <1>3, SetKeepsName, Zenon DEF PumpEnds, PumpSticks, TurnEnds
<1>4. CASE Snapshot \/ Finalize
  BY <1>1, <1>4 DEF Snapshot, Finalize, HostRows
<1>5. ASSUME NEW a \in Actors, ReserveSocket(a) \/ PublishCodex(a), hosts' # hosts
      PROVE  \/ hosts'[h].w = hosts[h].w
             \/ /\ h = Fresh /\ flow[a].pc = "spawn" /\ hosts[h].w = NoSession
                /\ hosts'[h].w = W(a) /\ flow'[a].h = h
  <2>1. flow[a].pc = "spawn" /\ Fresh \in Hosts /\ hosts[Fresh].w = NoSession
    BY <1>5, FreshFound DEF ReserveSocket, PublishCodex, At
  <2>2. PICK pc : flow' = [flow EXCEPT ![a].pc = pc, ![a].h = Fresh]
    BY <1>5 DEF ReserveSocket, PublishCodex
  <2>3. flow'[a].h = Fresh
    BY <2>2 DEF TypeOK, FlowRows
  <2>4. hosts'[Fresh].w = W(a) /\ \A g \in Hosts \ {Fresh} : hosts'[g] = hosts[g]
    <3>1. \E row : Set(Fresh, row) /\ row.w = W(a)
      <4>1. \A i : [NewHost(W(a)) EXCEPT !.broker = TRUE, !.idx = i].w = W(a)
        BY DEF NewHost
      <4>2. NewHost(W(a)).w = W(a)
        BY DEF NewHost
      <4>3. Set(Fresh, NewHost(W(a))) \/ \E i : Set(Fresh, [NewHost(W(a)) EXCEPT !.broker = TRUE, !.idx = i])
        BY <1>5, Zenon DEF ReserveSocket, PublishCodex
      <4> QED
        BY <4>1, <4>2, <4>3
    <3> QED
      BY <1>1, <2>1, <3>1 DEF Set
  <2> QED
    BY <2>1, <2>3, <2>4
<1> QED
  BY <1>2, <1>3, <1>4, <1>5 DEF Next, Request, StartSession, SendMessage, RemoveSession, EndOrNew, Step, AcceptStart,
     CommitStart, RejectStart, BeginSend, SettleSend, ReadHost, BeginEnd, CheckBusy, Quiesce, TakeClaude, TeardownCodex,
     FinishEnd, BeginReset, FinishReset, Tombstone, ReleaseSlot, Provider, ReaperWakes, Shutdown, RefuseWork, Collect,
     vars

(* Where the host of a flow comes from. *)
Draws(b) ==
  \/ flow'[b] = Nothing
  \/ Stays(b) /\ flow[b] # Nothing
  \/ b[1] = "caller" /\ flow'[b].w \in WSIDs /\ flow'[b].h \in {NoHost, reg[flow'[b].w]}
  \/ /\ b[1] = "caller" /\ flow[b].pc = "spawn" /\ flow[b] # Nothing
     /\ flow'[b].h = Fresh /\ flow'[b].w = W(b) /\ hosts'[Fresh].w = W(b) /\ hosts[Fresh].w = NoSession
  \/ \E h \in Hosts : b \in {Reaper(h), Forced(h)} /\ flow'[b].h = h /\ flow'[b].w = hosts[h].w

LEMMA DrawsStep ==
  ASSUME TypeOK, Rows, HostsNamed, Starts, Room, [Next]_vars, NEW b \in Actors
  PROVE  Draws(b)
<1>1. /\ flow \in [Actors -> FlowRows] /\ hosts \in [Hosts -> HostRows]
      /\ reg \in [WSIDs -> Hosts \cup {NoHost}]
  BY DEF TypeOK
<1>2. ASSUME flow'[b] = flow[b] PROVE Draws(b)
  BY <1>2 DEF Draws, Stays
<1>3. ASSUME NEW a \in Actors, Request(a) PROVE Draws(b)
  <2>1. PICK w \in WSIDs : \/ StartSession(a, w) \/ SendMessage(a, w) \/ RemoveSession(a, w)
                         \/ \E op \in {"end", "new"} : EndOrNew(a, op, w)
    BY <1>3 DEF Request
  <2>2. a[1] = "caller"
    BY <2>1 DEF StartSession, SendMessage, RemoveSession, EndOrNew, Admits
  <2>3. PICK op, pc : \/ flow' = [flow EXCEPT ![a] = Doing(op, pc, w, NoHost)]
                     \/ flow' = [flow EXCEPT ![a] = Doing(op, pc, w, reg[w])]
    BY <2>1, Zenon DEF StartSession, SendMessage, RemoveSession, EndOrNew
  <2>4. \A h : Doing(op, pc, w, h).w = w /\ Doing(op, pc, w, h).h = h
    BY DEF Doing
  <2> QED
    BY <1>1, <1>2, <2>2, <2>3, <2>4 DEF Draws
<1>4. ASSUME NEW a \in Actors, (Stays(a) /\ flow[a] # Nothing) \/ flow'[a] = Nothing, Alone(a) PROVE Draws(b)
  BY <1>2, <1>4 DEF Draws, Alone
<1>5. ASSUME NEW a \in Actors, ReserveSocket(a) \/ PublishCodex(a) PROVE Draws(b)
  <2>1. flow[a].pc = "spawn" /\ a[1] = "caller" /\ flow[a] # Nothing
    BY <1>5, Stations DEF ReserveSocket, PublishCodex, At, Starting
  <2>2. CASE \E pc : Go(a, pc)
    BY <1>4, <2>1, <2>2, Moves DEF To
  <2>3. CASE /\ \E pc : flow' = [flow EXCEPT ![a].pc = pc, ![a].h = Fresh]
             /\ \/ Set(Fresh, NewHost(W(a)))
                \/ \E i : Set(Fresh, [NewHost(W(a)) EXCEPT !.broker = TRUE, !.idx = i])
    <3>1. Fresh \in Hosts /\ hosts[Fresh].w = NoSession
      BY <2>1, FreshFound DEF At
    <3>2. flow'[a].h = Fresh /\ flow'[a].w = W(a) /\ Alone(a)
      BY <1>1, <2>3 DEF FlowRows, Alone, W
    <3>3. hosts'[Fresh].w = W(a)
      <4>1. \A i : [NewHost(W(a)) EXCEPT !.broker = TRUE, !.idx = i].w = W(a)
        BY DEF NewHost
      <4>2. NewHost(W(a)).w = W(a)
        BY DEF NewHost
      <4>3. \E row : Set(Fresh, row) /\ row.w = W(a)
        BY <2>3, <4>1, <4>2
      <4> QED
        BY <1>1, <3>1, <4>3 DEF Set
    <3> QED
      BY <1>2, <2>1, <3>1, <3>2, <3>3 DEF Draws, Alone
  <2> QED
    BY <1>5, <2>2, <2>3, Zenon DEF ReserveSocket, PublishCodex
<1>6. ASSUME NEW a \in Actors, PublishClaude(a) PROVE Draws(b)
  <2>1. H(a) \in Hosts /\ hosts[H(a)].w = W(a) /\ flow[a] # Nothing /\ Reaper(H(a)) # a
    BY <1>1, <1>6, Stations, Who DEF PublishClaude, At, Starts, StartOf, H, FlowRows, HostsNamed, Starting
  <2>2. CASE Go(a, "reject")
    BY <1>4, <2>1, <2>2, Moves DEF To
  <2>3. CASE flow' = [flow EXCEPT ![a].pc = "accept", ![Reaper(H(a))] = Doing("reap", "await", W(a), H(a))]
    <3>1. Stays(a) /\ \A c \in Actors \ {a, Reaper(H(a))} : flow'[c] = flow[c]
      BY <1>1, <2>1, <2>3 DEF Stays, FlowRows
    <3>2. flow'[Reaper(H(a))] = Doing("reap", "await", W(a), H(a))
      BY <1>1, <2>1, <2>3, Who
    <3>3. flow'[Reaper(H(a))].w = W(a) /\ flow'[Reaper(H(a))].h = H(a)
      BY <3>2 DEF Doing
    <3> QED
      BY <1>2, <2>1, <3>1, <3>3 DEF Draws
  <2> QED
    BY <1>6, <2>2, <2>3 DEF PublishClaude
<1>7. ASSUME NEW a \in Actors, CommitStart(a) PROVE Draws(b)
  <2>1. H(a) \in Hosts /\ flow[Reaper(H(a))].pc = "await" /\ Reaper(H(a)) # a /\ Reaper(H(a)) \in Actors
    BY <1>1, <1>7, Who DEF CommitStart, At, Starts, StartOf, H, FlowRows
  <2>2. flow'[a] = Nothing /\ \A c \in Actors \ {a, Reaper(H(a))} : flow'[c] = flow[c]
    BY <1>1, <1>7, <2>1 DEF CommitStart
  <2>3. Stays(Reaper(H(a)))
    BY <1>1, <1>7, <2>1 DEF CommitStart, Stays, FlowRows
  <2>4. flow[Reaper(H(a))] # Nothing
    BY <2>1, Stations
  <2> QED
    BY <1>2, <2>2, <2>3, <2>4 DEF Draws
<1>8. ASSUME NEW a \in Actors, ReadHost(a) PROVE Draws(b)
  <2>1. W(a) \in WSIDs /\ a[1] = "caller"
    BY <1>8, Stations DEF ReadHost, At, UserOps
  <2>2. flow'[a].h = reg[W(a)] /\ flow'[a].w = W(a) /\ Alone(a)
    BY <1>1, <1>8 DEF ReadHost, FlowRows, Alone, W
  <2> QED
    BY <1>2, <2>1, <2>2 DEF Draws, Alone
<1>9. ASSUME NEW a \in Actors, Step(a) PROVE Draws(b)
  <2>1. CASE \/ FirstTurn(a) \/ AcceptStart(a) \/ RejectStart(a) \/ BeginSend(a) \/ Deliver(a) \/ SettleSend(a)
             \/ BeginEnd(a) \/ CheckBusy(a) \/ TeardownClaude(a) \/ Quiesce(a) \/ TakeClaude(a) \/ Dispose(a)
             \/ TeardownCodex(a) \/ FinishEnd(a) \/ BeginReset(a) \/ FinishReset(a) \/ Tombstone(a) \/ ReleaseSlot(a)
    <3>1. flow[a].pc # "idle"
      BY <2>1 DEF FirstTurn, AcceptStart, RejectStart, BeginSend, Deliver, SettleSend, BeginEnd, CheckBusy,
         TeardownClaude, Quiesce, TakeClaude, Dispose, TeardownCodex, FinishEnd, BeginReset, FinishReset, Tombstone,
         ReleaseSlot, At
    <3>2. \/ Return(a)
          \/ \E pc : Go(a, pc)
          \/ \E pc, ok : flow' = [flow EXCEPT ![a].pc = pc, ![a].ok = ok]
          \/ \E pc, op : flow' = [flow EXCEPT ![a].op = op, ![a].pc = pc]
      BY <2>1, Zenon DEF FirstTurn, AcceptStart, RejectStart, BeginSend, Deliver, SettleSend, BeginEnd, CheckBusy,
         TeardownClaude, Quiesce, TakeClaude, Dispose, TeardownCodex, FinishEnd, BeginReset, FinishReset, Tombstone,
         ReleaseSlot
    <3>3. flow[a] # Nothing
      BY <3>1, Stations
    <3>4. (Stays(a) \/ flow'[a] = Nothing) /\ Alone(a)
      <4>1. CASE Return(a) \/ \E pc : Go(a, pc)
        BY <4>1, Moves DEF To
      <4>2. ASSUME NEW pc, NEW ok, flow' = [flow EXCEPT ![a].pc = pc, ![a].ok = ok] PROVE Stays(a) /\ Alone(a)
        BY <1>1, <4>2 DEF FlowRows, Stays, Alone
      <4>3. ASSUME NEW pc, NEW op, flow' = [flow EXCEPT ![a].op = op, ![a].pc = pc] PROVE Stays(a) /\ Alone(a)
        BY <1>1, <4>3 DEF FlowRows, Stays, Alone
      <4> QED
        BY <3>2, <4>1, <4>2, <4>3, Zenon
    <3> QED
      BY <1>4, <3>3, <3>4
  <2> QED
    BY <1>5, <1>6, <1>7, <1>8, <1>9, <2>1 DEF Step
<1>10. ASSUME NEW h \in Hosts, ReaperWakes(h) PROVE Draws(b)
  <2>1. Reaper(h) \in Actors /\ flow[Reaper(h)] # Nothing
    BY <1>10, Who, Stations DEF ReaperWakes, At
  <2>2. Return(Reaper(h)) \/ Go(Reaper(h), "begin")
    BY <1>10 DEF ReaperWakes
  <2> QED
    BY <1>4, <2>1, <2>2, Moves DEF To
<1>11. CASE Snapshot
  <2>1. ASSUME NEW h \in Registered, b = Forced(h) PROVE Draws(b)
    <3>1. h \in Hosts /\ b[2] = h
      BY <1>1, <2>1 DEF Registered, Forced
    <3>2. flow'[b] = Doing("forced", "begin", hosts[h].w, h)
      BY <1>1, <1>11, <2>1, <3>1 DEF Snapshot
    <3> QED
      BY <2>1, <3>1, <3>2 DEF Draws, Doing
  <2>2. b \notin {Forced(h) : h \in Registered} => flow'[b] = flow[b]
    BY <1>1, <1>11 DEF Snapshot
  <2> QED
    BY <1>2, <2>1, <2>2
<1>12. ASSUME UNCHANGED flow PROVE Draws(b)
  BY <1>2, <1>12
<1> QED
  BY <1>3, <1>9, <1>10, <1>11, <1>12
     DEF Next, Provider, PumpEnds, PumpSticks, TurnEnds, Shutdown, RefuseWork, Collect, Finalize, vars

LEMMA HostsNamedStep == Inv /\ [Next]_vars => HostsNamed'
<1> SUFFICES ASSUME TypeOK, Rows, HostsNamed, Starts, Room, [Next]_vars PROVE HostsNamed'
  BY DEF Inv
<1>1. /\ flow \in [Actors -> FlowRows] /\ reg \in [WSIDs -> Hosts \cup {NoHost}] /\ NoSession \notin WSIDs
      /\ NoHost \notin Hosts
  BY FlowsAssumption, Who DEF TypeOK, FlowsAssumption
<1>2. ASSUME NEW h \in Hosts, hosts[h].w \in WSIDs PROVE hosts'[h].w = hosts[h].w
  BY <1>1, <1>2, NamesStep
<1>3. ASSUME NEW w \in WSIDs, reg[w] # NoHost PROVE reg[w] \in Hosts /\ hosts[reg[w]].w = w /\ hosts'[reg[w]].w = w
  BY <1>1, <1>2, <1>3 DEF HostsNamed
<1>4. ASSUME NEW b \in Actors, H(b)' # NoHost PROVE hosts'[H(b)'].w = W(b)'
  <2> USE DEF H, W
  <2>1. Draws(b)
    BY DrawsStep
  <2>2. CASE flow'[b] = Nothing
    BY <1>4, <2>2 DEF Nothing
  <2>3. CASE Stays(b) /\ flow[b] # Nothing
    <3>1. flow[b].h \in Hosts /\ hosts[flow[b].h].w = flow[b].w /\ flow[b].w \in WSIDs
      BY <1>1, <1>4, <2>3, Stations DEF Stays, HostsNamed, FlowRows
    <3> QED
      BY <1>2, <2>3, <3>1 DEF Stays
  <2>4. CASE flow'[b].w \in WSIDs /\ flow'[b].h \in {NoHost, reg[flow'[b].w]}
    BY <1>3, <1>4, <2>4
  <2>5. CASE flow'[b].h = Fresh /\ flow'[b].w = W(b) /\ hosts'[Fresh].w = W(b)
    BY <2>5
  <2>6. CASE \E h \in Hosts : flow'[b].h = h /\ flow'[b].w = hosts[h].w /\ b \in {Reaper(h), Forced(h)}
    <3> PICK h \in Hosts : flow'[b].h = h /\ flow'[b].w = hosts[h].w
      BY <2>6
    <3>1. CASE hosts'[h].w = hosts[h].w
      BY <3>1
    <3>2. CASE hosts'[h].w # hosts[h].w
      <4>1. PICK a \in Actors : flow[a].pc = "spawn" /\ (ReserveSocket(a) \/ PublishCodex(a))
        BY <3>2, NamesStep
      <4>2. a[1] = "caller"
        BY <4>1, Stations DEF Starting
      <4>3. b # a
        BY <2>6, <4>2 DEF Reaper, Forced
      <4>4. flow'[b] = flow[b]
        BY <1>1, <4>1, <4>3 DEF ReserveSocket, PublishCodex, Go
      <4>5. flow[b] # Nothing
        BY <1>1, <4>4, <2>6 DEF Nothing
      <4>6. flow[b].w \in WSIDs
        BY <4>5, Stations
      <4> QED
        BY <1>2, <3>2, <4>4, <4>6
    <3> QED
      BY <3>1, <3>2
  <2> QED
    BY <2>1, <2>2, <2>3, <2>4, <2>5, <2>6 DEF Draws
<1>5. ASSUME NEW h \in Hosts, flow'[Reaper(h)] # Nothing PROVE H(Reaper(h))' = h
  <2>1. Draws(Reaper(h)) /\ Reaper(h)[1] = "reaper" /\ \A g \in Hosts : Reaper(h) \in {Reaper(g), Forced(g)} => g = h
    BY DrawsStep, Who DEF Reaper, Forced
  <2>2. Stays(Reaper(h)) /\ flow[Reaper(h)] # Nothing => H(Reaper(h))' = h
    BY <1>1 DEF Stays, HostsNamed, H
  <2> QED
    BY <1>5, <2>1, <2>2 DEF Draws, H
<1>6. ASSUME NEW w \in WSIDs, reg'[w] # NoHost PROVE hosts'[reg'[w]].w = w
  <2>1. CASE reg'[w] = reg[w]
    BY <1>3, <1>6, <2>1
  <2>2. ASSUME NEW v, NEW h, TakeHost(v, h) PROVE reg'[w] = reg[w]
    BY <1>1, <1>6, <2>2 DEF TakeHost
  <2>3. ASSUME NEW a \in Actors, PublishClaude(a), reg' # reg PROVE hosts'[reg'[w]].w = w
    <3>1. H(a) \in Hosts /\ hosts[H(a)].w = W(a) /\ W(a) \in WSIDs
      BY <1>1, <2>3, Stations DEF PublishClaude, At, Starts, StartOf, H, FlowRows, HostsNamed, Starting
    <3>2. reg' = [reg EXCEPT ![W(a)] = H(a)]
      BY <2>3 DEF PublishClaude
    <3>3. hosts'[H(a)].w = W(a)
      BY <1>2, <3>1
    <3>4. CASE w = W(a)
      BY <1>1, <3>2, <3>3, <3>4
    <3> QED
      BY <1>1, <2>1, <3>2, <3>4
  <2>4. ASSUME NEW a \in Actors, PublishCodex(a), reg' # reg PROVE hosts'[reg'[w]].w = w
    <3>1. Fresh \in Hosts /\ W(a) \in WSIDs
      BY <2>4, FreshFound, Stations DEF PublishCodex, At, Starting
    <3>2. reg' = [reg EXCEPT ![W(a)] = Fresh] /\ hosts' = [hosts EXCEPT ![Fresh] = NewHost(W(a))]
      BY <2>4 DEF PublishCodex, Set
    <3>3. hosts'[Fresh].w = W(a)
      BY <3>1, <3>2 DEF NewHost, TypeOK
    <3>4. CASE w = W(a)
      BY <1>1, <3>2, <3>3, <3>4
    <3> QED
      BY <1>1, <2>1, <3>2, <3>4
  <2>5. \/ reg' = reg
        \/ \E v, h : TakeHost(v, h)
        \/ \E a \in Actors : PublishClaude(a) \/ PublishCodex(a)
    <3>1. CASE \E a \in Actors : FirstTurn(a) \/ TakeClaude(a) \/ TeardownCodex(a)
      BY <3>1, Zenon DEF FirstTurn, TakeClaude, TeardownCodex
    <3> QED
      BY <3>1 DEF Next, Request, StartSession, SendMessage, RemoveSession, EndOrNew, Step, ReserveSocket, AcceptStart,
         CommitStart, RejectStart, BeginSend, Deliver, SettleSend, ReadHost, BeginEnd, CheckBusy, TeardownClaude,
         Quiesce, Dispose, FinishEnd, BeginReset, FinishReset, Tombstone, ReleaseSlot, Provider, PumpEnds,
         PumpSticks, TurnEnds, ReaperWakes, Shutdown, RefuseWork, Snapshot, Collect, Finalize, vars
  <2> QED
    BY <2>1, <2>2, <2>3, <2>4, <2>5
<1> QED
  BY <1>4, <1>5, <1>6 DEF HostsNamed

LEMMA AsideStart ==
  ASSUME TypeOK, Rows, Starts, NEW a \in Actors, Alone(a),
         a[1] = "caller" \/ flow[a].pc \notin {"idle", "await"},
         \/ flow'[a].pc \notin Launching \cup {"turn"}
         \/ flow'[a].pc \in {"turn", "accept"} /\ W(a)' \in Codex
         \/ flow[a].pc = "accept" /\ flow'[a].pc = "commit" /\ Stays(a) /\ W(a) \in Claude
  PROVE  Starts'
<1> USE DEF W, H
<1>1. Claude \cap Codex = {} /\ flow \in [Actors -> FlowRows]
  BY FlowsAssumption DEF FlowsAssumption, TypeOK
<1>2. ASSUME NEW b \in Actors, StartOf(b), H(b) # NoHost,
             flow[b].pc = "publish" \/ (flow[b].pc \in {"accept", "commit"} /\ W(b) \in Claude)
      PROVE  flow'[Reaper(H(b))] = flow[Reaper(H(b))]
  <2>1. H(b) \in Hosts /\ Reaper(H(b)) \in Actors /\ Reaper(H(b))[1] = "reaper"
    BY <1>1, <1>2, Who DEF FlowRows, Reaper
  <2>2. flow[Reaper(H(b))].pc \in {"idle", "await"}
    BY <1>2 DEF StartOf, Nothing
  <2> QED
    BY <2>1, <2>2 DEF Alone
<1>3. ASSUME NEW b \in Actors \ {a} PROVE StartOf(b)'
  BY <1>2, <1>3 DEF Starts, StartOf, Alone
<1>4. StartOf(a)'
  <2>1. CASE flow[a].pc = "accept" /\ flow'[a].pc = "commit" /\ Stays(a) /\ W(a) \in Claude
    BY <1>2, <2>1 DEF Starts, StartOf, Stays
  <2> QED
    BY <1>1, <2>1 DEF StartOf, Launching
<1>5. ASSUME NEW b \in Actors, Launches(b)' PROVE Launches(b) /\ H(b)' = H(b)
  BY <1>1, <1>5 DEF Launches, Launching, Alone, Stays
<1> QED
  BY <1>3, <1>4, <1>5 DEF Starts

LEMMA StartsStep == Inv /\ [Next]_vars => Starts'
<1> SUFFICES ASSUME TypeOK, Rows, HostsNamed, Starts, Room, [Next]_vars PROVE Starts'
  BY DEF Inv
<1>1. /\ flow \in [Actors -> FlowRows] /\ hosts \in [Hosts -> HostRows] /\ NoSession \notin WSIDs
      /\ NoHost \notin Hosts /\ Claude \subseteq WSIDs
  BY FlowsAssumption, Who DEF TypeOK, FlowsAssumption, WSIDs
<1>2. ASSUME NEW a \in Actors, Request(a) PROVE Starts'
  <2>1. PICK op, pc, w, h : /\ flow' = [flow EXCEPT ![a] = Doing(op, pc, w, h)]
                            /\ pc \in {"spawn", "submit", "begin", "read"}
    BY <1>2 DEF Request, StartSession, SendMessage, RemoveSession, EndOrNew, Ops
  <2>2. flow'[a].pc = pc /\ Alone(a) /\ pc \notin Launching \cup {"turn"}
    BY <1>1, <2>1 DEF Doing, Alone, Launching
  <2>3. a[1] = "caller"
    BY <1>2 DEF Request, StartSession, SendMessage, RemoveSession, EndOrNew, Admits
  <2> QED
    BY <2>2, <2>3, AsideStart
<1>3. ASSUME NEW a \in Actors, Step(a), ~ReserveSocket(a), ~PublishClaude(a), ~CommitStart(a) PROVE Starts'
  <2>1. flow[a].pc \notin {"idle", "await"}
    BY <1>3 DEF Step, PublishCodex, FirstTurn, AcceptStart, RejectStart, BeginSend, Deliver, SettleSend, ReadHost,
       BeginEnd, CheckBusy, TeardownClaude, Quiesce, TakeClaude, Dispose, TeardownCodex, FinishEnd, BeginReset,
       FinishReset, Tombstone, ReleaseSlot, At
  <2>2. CASE PublishCodex(a)
    <3>1. W(a) \in Codex /\ (Go(a, "reject") \/ flow' = [flow EXCEPT ![a].pc = "turn", ![a].h = Fresh])
      BY <2>2 DEF PublishCodex
    <3>2. Alone(a) /\ (flow'[a].pc = "reject" \/ (flow'[a].pc = "turn" /\ W(a)' \in Codex))
      BY <1>1, <3>1 DEF Alone, Go, FlowRows, W
    <3> QED
      BY <2>1, <3>2, AsideStart DEF Launching
  <2>3. CASE FirstTurn(a)
    <3>1. W(a) \in Codex /\ (Go(a, "reject") \/ Go(a, "accept"))
      BY <2>3 DEF FirstTurn, Starts, StartOf, At
    <3>2. Alone(a) /\ (flow'[a].pc = "reject" \/ (flow'[a].pc = "accept" /\ W(a)' \in Codex))
      BY <3>1, Moves DEF To, Stays, W
    <3> QED
      BY <2>1, <3>2, AsideStart DEF Launching
  <2>4. CASE AcceptStart(a)
    <3>1. flow[a].pc = "accept" /\ (Return(a) \/ (Go(a, "commit") /\ W(a) \in Claude))
      BY <2>4, Zenon DEF AcceptStart, At
    <3>2. Alone(a) /\ (flow'[a] = Nothing \/ (flow'[a].pc = "commit" /\ Stays(a) /\ W(a) \in Claude))
      <4>1. Go(a, "commit") => Alone(a) /\ flow'[a].pc = "commit" /\ Stays(a)
        BY Moves, Zenon DEF To
      <4>2. Return(a) => Alone(a) /\ flow'[a] = Nothing
        BY Moves, Zenon
      <4> QED
        BY <3>1, <4>1, <4>2, Zenon
    <3> QED
      BY <2>1, <3>1, <3>2, AsideStart DEF Launching, Nothing
  <2>5. CASE \/ RejectStart(a) \/ BeginSend(a) \/ Deliver(a) \/ SettleSend(a) \/ ReadHost(a)
             \/ BeginEnd(a) \/ CheckBusy(a) \/ TeardownClaude(a) \/ Quiesce(a) \/ TakeClaude(a) \/ Dispose(a)
             \/ TeardownCodex(a) \/ FinishEnd(a) \/ BeginReset(a) \/ FinishReset(a) \/ Tombstone(a) \/ ReleaseSlot(a)
    <3> DEFINE there == {"deliver", "sent", "unsent", "begin", "busy", "teardown", "cleanup", "beginreset", "finish",
                         "quiesce", "take", "dispose", "reset", "release"}
    <3>1. \/ Return(a)
          \/ \E pc \in there : Go(a, pc)
          \/ \E pc \in there : \E ok : flow' = [flow EXCEPT ![a].pc = pc, ![a].ok = ok]
          \/ \E pc \in there : \E op : flow' = [flow EXCEPT ![a].op = op, ![a].pc = pc]
          \/ \E pc \in there : \E h : flow' = [flow EXCEPT ![a].pc = pc, ![a].h = h]
      BY <2>5 DEF RejectStart, BeginSend, Deliver, SettleSend, ReadHost, BeginEnd, CheckBusy,
         TeardownClaude, Quiesce, TakeClaude, Dispose, TeardownCodex, FinishEnd, BeginReset, FinishReset, Tombstone,
         ReleaseSlot
    <3>2. Alone(a) /\ flow'[a].pc \notin Launching \cup {"turn"}
      <4>1. CASE Return(a) \/ \E pc \in there : Go(a, pc)
        BY <4>1, Moves DEF To, Launching, Nothing
      <4>2. ASSUME NEW pc \in there, NEW ok, flow' = [flow EXCEPT ![a].pc = pc, ![a].ok = ok]
            PROVE  Alone(a) /\ flow'[a].pc = pc
        BY <1>1, <4>2 DEF FlowRows, Alone
      <4>3. ASSUME NEW pc \in there, NEW op, flow' = [flow EXCEPT ![a].op = op, ![a].pc = pc]
            PROVE  Alone(a) /\ flow'[a].pc = pc
        BY <1>1, <4>3 DEF FlowRows, Alone
      <4>4. ASSUME NEW pc \in there, NEW h, flow' = [flow EXCEPT ![a].pc = pc, ![a].h = h]
            PROVE  Alone(a) /\ flow'[a].pc = pc
        BY <1>1, <4>4 DEF FlowRows, Alone
      <4>5. \A pc \in there : pc \notin Launching \cup {"turn"}
        BY DEF Launching
      <4> QED
        BY <3>1, <4>1, <4>2, <4>3, <4>4, <4>5, Zenon
    <3> QED
      BY <2>1, <3>2, AsideStart
  <2> QED
    BY <1>3, <2>2, <2>3, <2>4, <2>5 DEF Step
<1>4. ASSUME NEW a \in Actors, ReserveSocket(a) PROVE Starts'
  <2> USE DEF W, H
  <2>1. flow[a].pc = "spawn" /\ a[1] = "caller" /\ W(a) \in Claude
    BY <1>4, Stations DEF ReserveSocket, At, Starting
  <2>2. CASE Go(a, "reject")
    <3>1. Alone(a) /\ flow'[a].pc = "reject"
      BY <2>2, Moves DEF To
    <3> QED
      BY <2>1, <3>1, AsideStart DEF Launching
  <2>3. CASE flow' = [flow EXCEPT ![a].pc = "publish", ![a].h = Fresh]
    <3>1. Fresh \in Hosts /\ hosts[Fresh].w = NoSession
      BY <2>1, FreshFound DEF At
    <3>2. /\ flow'[a].pc = "publish" /\ flow'[a].h = Fresh /\ flow'[a].w = flow[a].w
          /\ \A b \in Actors \ {a} : flow'[b] = flow[b]
      BY <1>1, <2>3 DEF FlowRows
    <3>3. ASSUME NEW b \in Actors PROVE flow[b].h # Fresh
      <4>1. SUFFICES ASSUME flow[b].h = Fresh PROVE FALSE
        OBVIOUS
      <4>2. flow[b].w = NoSession /\ flow[b] # Nothing
        BY <1>1, <3>1, <4>1 DEF HostsNamed, Nothing
      <4> QED
        BY <1>1, <4>2, Stations
    <3>4. flow[Reaper(Fresh)] = Nothing
      BY <3>1, <3>3, Who DEF HostsNamed
    <3>5. StartOf(a)'
      <4>1. Reaper(Fresh) \in Actors /\ Reaper(Fresh) # a
        BY <2>1, <3>1, Who DEF Reaper
      <4> QED
        BY <1>1, <2>1, <3>1, <3>2, <3>4, <4>1 DEF StartOf
    <3>6. ASSUME NEW b \in Actors \ {a} PROVE StartOf(b)'
      <4>1. StartOf(b) /\ flow'[b] = flow[b]
        BY <3>2 DEF Starts
      <4>2. flow[b].h # NoHost => Reaper(flow[b].h) \in Actors /\ Reaper(flow[b].h) # a
        BY <1>1, <2>1, Who DEF FlowRows, Reaper
      <4> QED
        BY <3>2, <4>1, <4>2 DEF StartOf
    <3>7. ASSUME NEW b \in Actors, Launches(b)', b # a PROVE Launches(b) /\ H(b)' = H(b) /\ H(b)' # H(a)'
      BY <3>2, <3>3, <3>7 DEF Launches
    <3> QED
      BY <3>5, <3>6, <3>7 DEF Starts
  <2> QED
    BY <1>4, <2>2, <2>3, Zenon DEF ReserveSocket
<1>5. ASSUME NEW a \in Actors, PublishClaude(a) \/ CommitStart(a) PROVE Starts'
  <2> USE DEF W, H
  <2>1. /\ flow[a].pc \in {"publish", "commit"} /\ a[1] = "caller" /\ W(a) \in Claude /\ H(a) \in Hosts
        /\ Reaper(H(a)) \in Actors /\ Reaper(H(a)) # a
    <3>1. flow[a].pc \in {"publish", "commit"}
      BY <1>5 DEF PublishClaude, CommitStart, At
    <3>2. W(a) \in Claude /\ H(a) \in Hosts /\ a[1] = "caller"
      BY <1>1, <3>1, Stations DEF Starts, StartOf, FlowRows, Starting
    <3> QED
      BY <3>1, <3>2, Who DEF Reaper
  <2>2. CASE Go(a, "reject")
    <3>1. Alone(a) /\ flow'[a].pc = "reject"
      BY <2>2, Moves DEF To
    <3> QED
      BY <2>1, <3>1, AsideStart DEF Launching
  <2>3. ASSUME NEW r \in Actors, r = Reaper(H(a)),
               \A b \in Actors \ {a, r} : flow'[b] = flow[b],
               flow'[r].pc \in {"await", "watch"},
               \/ flow'[a] = Nothing
               \/ flow'[a].pc = "accept" /\ Stays(a) /\ flow'[r].pc = "await"
        PROVE  Starts'
    <3>1. ASSUME NEW b \in Actors, b \notin {a, r}, Launches(b) PROVE H(b) # H(a)
      BY <2>1, <2>3, <3>1 DEF Starts, Launches, Launching
    <3>2. ASSUME NEW b \in Actors, b \notin {a, r}, Launches(b), H(b) # NoHost
          PROVE  flow'[Reaper(H(b))] = flow[Reaper(H(b))]
      <4>1. H(b) \in Hosts /\ Reaper(H(b)) \in Actors /\ Reaper(H(b)) # r /\ Reaper(H(b)) # a
        BY <1>1, <2>1, <2>3, <3>1, <3>2, Who DEF FlowRows, Reaper
      <4> QED
        BY <2>3, <4>1
    <3>3. ASSUME NEW b \in Actors, b \notin {a, r} PROVE StartOf(b)'
      <4>1. StartOf(b) /\ flow'[b] = flow[b]
        BY <2>3, <3>3 DEF Starts
      <4> QED
        BY <3>2, <3>3, <4>1 DEF StartOf, Launches, Launching
    <3>4. StartOf(r)'
      BY <2>3 DEF StartOf
    <3>5. StartOf(a)'
      BY <1>1, <2>1, <2>3 DEF StartOf, Stays, Nothing
    <3>6. ASSUME NEW b \in Actors, Launches(b)' PROVE Launches(b) /\ H(b)' = H(b)
      BY <2>1, <2>3, <3>6 DEF Launches, Launching, Stays, Nothing
    <3> QED
      BY <3>3, <3>4, <3>5, <3>6 DEF Starts
  <2>4. CASE flow' = [flow EXCEPT ![a].pc = "accept", ![Reaper(H(a))] = Doing("reap", "await", W(a), H(a))]
    <3>1. flow'[Reaper(H(a))] = Doing("reap", "await", W(a), H(a))
      BY <1>1, <2>1, <2>4
    <3>2. flow'[Reaper(H(a))].pc = "await"
      BY <3>1 DEF Doing
    <3>3. /\ flow'[a].pc = "accept" /\ Stays(a)
          /\ \A b \in Actors \ {a, Reaper(H(a))} : flow'[b] = flow[b]
      BY <1>1, <2>1, <2>4 DEF Stays, FlowRows
    <3> QED
      BY <2>1, <2>3, <3>2, <3>3
  <2>5. CASE flow' = [flow EXCEPT ![a] = Nothing, ![Reaper(H(a))].pc = "watch"]
    <3>1. /\ flow'[a] = Nothing /\ flow'[Reaper(H(a))].pc = "watch"
          /\ \A b \in Actors \ {a, Reaper(H(a))} : flow'[b] = flow[b]
      BY <1>1, <2>1, <2>5 DEF FlowRows
    <3> QED
      BY <2>1, <2>3, <3>1
  <2> QED
    BY <1>5, <2>2, <2>4, <2>5 DEF PublishClaude, CommitStart
<1>6. ASSUME NEW h \in Hosts, ReaperWakes(h) PROVE Starts'
  <2>1. Reaper(h) \in Actors /\ flow[Reaper(h)].pc = "watch"
    BY <1>6, Who DEF ReaperWakes, At
  <2>2. Return(Reaper(h)) \/ Go(Reaper(h), "begin")
    BY <1>6 DEF ReaperWakes
  <2>3. Alone(Reaper(h)) /\ flow'[Reaper(h)].pc \in {"idle", "begin"}
    BY <2>1, <2>2, Moves DEF To, Nothing
  <2> QED
    BY <2>1, <2>3, AsideStart DEF Launching
<1>7. CASE Snapshot
  <2> USE DEF W, H
  <2>1. ASSUME NEW a \in Actors, a[1] # "forced" PROVE flow'[a] = flow[a]
    BY <1>1, <1>7, <2>1 DEF Snapshot, Forced
  <2>2. ASSUME NEW a \in Actors, flow'[a] # flow[a] PROVE flow'[a].pc = "begin"
    BY <1>1, <1>7, <2>2 DEF Snapshot, Doing
  <2>3. ASSUME NEW a \in Actors PROVE StartOf(a)'
    <3>1. StartOf(a) /\ (flow[a].h # NoHost => flow'[Reaper(flow[a].h)] = flow[Reaper(flow[a].h)])
      BY <1>1, <2>1, Who DEF Starts, FlowRows, Reaper
    <3> QED
      BY <2>2, <3>1 DEF StartOf
  <2>4. ASSUME NEW a \in Actors, Launches(a)' PROVE Launches(a) /\ H(a)' = H(a)
    BY <2>2, <2>4 DEF Launches, Launching
  <2> QED
    BY <2>3, <2>4 DEF Starts
<1>8. ASSUME UNCHANGED flow PROVE Starts'
  BY <1>8 DEF Starts, StartOf, Launches, W, H
<1> QED
  BY <1>2, <1>3, <1>4, <1>5, <1>6, <1>7, <1>8
     DEF Next, Provider, PumpEnds, PumpSticks, TurnEnds, Shutdown, RefuseWork, Collect, Finalize, vars

-----------------------------------------------------------------------------
(* A slot changes hands.  Others(a): no other flow takes, gives or moves one. *)
Unmoved(b) ==
  /\ Holds(b)' <=> Holds(b)
  /\ Holds(b) => flow'[b].w = flow[b].w /\ PlaceOf(flow'[b].pc) = PlaceOf(flow[b].pc)
Others(a) == \A b \in Actors \ {a} : Unmoved(b)

LEMMA PlacePasses == \A pc : PlaceOf(pc) \in Passing
BY DEF PlaceOf, Passing

LEMMA TokensKept ==
  ASSUME TypeOK, Tokens, life' = life, \A b \in Actors : Unmoved(b)
  PROVE  Tokens'
<1> USE DEF W
<1>1. Match'
  BY DEF Tokens, Match, Unmoved
<1>2. Single'
  BY DEF Tokens, Single, Unmoved
<1>3. Held'
  BY DEF Tokens, Held, Unmoved
<1> QED
  BY <1>1, <1>2, <1>3 DEF Tokens

(* A flow takes a slot at rest. *)
LEMMA TokensTaken ==
  ASSUME TypeOK, Rows, Tokens, NEW a \in Actors, Others(a), NEW w \in WSIDs,
         ~Holds(a), life[w] \notin Passing,
         Holds(a)', flow'[a].w = w, life' = [life EXCEPT ![w] = PlaceOf(flow'[a].pc)]
  PROVE  Tokens'
<1> USE DEF W
<1>1. life \in [WSIDs -> M!Places]
  BY DEF TypeOK
<1>2. ASSUME NEW b \in Actors, Holds(b) PROVE flow[b].w # w /\ flow[b].w \in WSIDs
  <2>1. life[flow[b].w] \in Passing
    BY <1>2, PlacePasses DEF Tokens, Match
  <2>2. flow[b] # Nothing
    BY <1>2 DEF Holds, Nothing, Starting, Sending, Ending, Resetting
  <2> QED
    BY <2>1, <2>2, Stations
<1>3. Match'
  BY <1>1, <1>2 DEF Tokens, Match, Others, Unmoved
<1>4. Single'
  BY <1>2 DEF Tokens, Single, Others, Unmoved
<1>5. Held'
  BY <1>1 DEF Tokens, Held, Others, Unmoved
<1> QED
  BY <1>3, <1>4, <1>5 DEF Tokens

(* A holder brings its slot to rest. *)
LEMMA TokensGiven ==
  ASSUME TypeOK, Rows, Tokens, NEW a \in Actors, Others(a), NEW to,
         Holds(a), ~Holds(a)', to \notin Passing, life' = [life EXCEPT ![W(a)] = to]
  PROVE  Tokens'
<1> USE DEF W
<1>1. life \in [WSIDs -> M!Places]
  BY DEF TypeOK
<1>2. ASSUME NEW b \in Actors, Holds(b), b # a PROVE flow[b].w # flow[a].w
  BY <1>2 DEF Tokens, Single
<1>3. Match'
  BY <1>1, <1>2 DEF Tokens, Match, Others, Unmoved
<1>4. Single'
  BY <1>2 DEF Tokens, Single, Others, Unmoved
<1>5. Held'
  BY <1>1, <1>2 DEF Tokens, Held, Others, Unmoved
<1> QED
  BY <1>3, <1>4, <1>5 DEF Tokens

(* A holder moves its slot on. *)
LEMMA TokensPassed ==
  ASSUME TypeOK, Rows, Tokens, NEW a \in Actors, Others(a),
         Holds(a), Holds(a)', flow'[a].w = flow[a].w, life' = [life EXCEPT ![W(a)] = PlaceOf(flow'[a].pc)]
  PROVE  Tokens'
<1> USE DEF W
<1>1. life \in [WSIDs -> M!Places] /\ flow[a].w \in WSIDs
  <2>1. flow[a] # Nothing
    BY DEF Holds, Nothing, Starting, Sending, Ending, Resetting
  <2> QED
    BY <2>1, Stations DEF TypeOK
<1>2. ASSUME NEW b \in Actors, Holds(b), b # a PROVE flow[b].w # flow[a].w
  BY <1>2 DEF Tokens, Single
<1>3. Match'
  BY <1>1, <1>2 DEF Tokens, Match, Others, Unmoved
<1>4. Single'
  BY <1>2 DEF Tokens, Single, Others, Unmoved
<1>5. Held'
  BY <1>1, <1>2 DEF Tokens, Held, Others, Unmoved
<1> QED
  BY <1>3, <1>4, <1>5 DEF Tokens

(* Slots at rest change places. *)
LEMMA TokensApart ==
  ASSUME TypeOK, Rows, Tokens, \A b \in Actors : Unmoved(b),
         \A w \in WSIDs : life'[w] = life[w] \/ {life[w], life'[w]} \cap Passing = {}
  PROVE  Tokens'
<1> USE DEF W
<1>1. Match'
  <2> SUFFICES ASSUME NEW b \in Actors, Holds(b)' PROVE life'[flow'[b].w] = PlaceOf(flow'[b].pc)
    BY DEF Match
  <2>1. Holds(b) /\ flow'[b].w = flow[b].w /\ PlaceOf(flow'[b].pc) = PlaceOf(flow[b].pc)
    BY DEF Unmoved
  <2>2. life[flow[b].w] = PlaceOf(flow[b].pc) /\ life[flow[b].w] \in Passing
    BY <2>1, PlacePasses DEF Tokens, Match
  <2>3. flow[b].w \in WSIDs
    BY <2>1, Stations DEF Holds, Nothing, Starting, Sending, Ending, Resetting
  <2> QED
    BY <2>1, <2>2, <2>3
<1>2. Single'
  BY DEF Tokens, Single, Unmoved
<1>3. Held'
  BY DEF Tokens, Held, Unmoved
<1> QED
  BY <1>1, <1>2, <1>3 DEF Tokens

(* Which flows hold a slot, by where they stand. *)
HoldingPcs == Starting \cup Sending \cup Ending \cup Resetting

LEMMA Holding ==
  ASSUME TypeOK, Rows, NEW a \in Actors
  PROVE  /\ Holds(a) <=> flow[a].pc \in HoldingPcs /\ flow[a].op # "fallback"
         /\ Holds(a)' <=> flow'[a].pc \in HoldingPcs /\ flow'[a].op # "fallback"
         /\ flow[a].pc \in HoldingPcs \ Ending => Holds(a)
         /\ flow[a] = Nothing => ~Holds(a)
         /\ flow'[a] = Nothing => ~Holds(a)'
         /\ Holds(a) => flow[a] # Nothing /\ W(a) \in WSIDs
<1>1. /\ Holds(a) <=> flow[a].pc \in HoldingPcs /\ flow[a].op # "fallback"
      /\ Holds(a)' <=> flow'[a].pc \in HoldingPcs /\ flow'[a].op # "fallback"
  BY DEF Holds, Owns, HoldingPcs
<1>2. "idle" \notin HoldingPcs
  BY DEF HoldingPcs, Starting, Sending, Ending, Resetting
<1>3. flow[a].pc \in HoldingPcs \ Ending => flow[a].op # "fallback"
  BY Stations DEF HoldingPcs
<1> QED
  BY <1>1, <1>2, <1>3, Stations DEF Nothing

LEMMA AloneOthers ==
  ASSUME NEW a, Alone(a)
  PROVE  Others(a)
BY DEF Alone, Others, Unmoved, Holds

(* A flow moves to another station of the same place. *)
LEMMA SamePlace ==
  ASSUME TypeOK, Rows, NEW a \in Actors, Stays(a), flow'[a].op = flow[a].op,
         \E S \in {Starting, Sending, Ending} : flow[a].pc \in S /\ flow'[a].pc \in S
  PROVE  Unmoved(a)
<1>1. PlaceOf(flow'[a].pc) = PlaceOf(flow[a].pc)
  BY DEF PlaceOf, Starting, Sending, Ending
<1>2. Holds(a)' <=> Holds(a)
  BY Holding DEF HoldingPcs
<1> QED
  BY <1>1, <1>2 DEF Unmoved, Stays

(* A call on the manager moves the slot it names. *)
LEMMA Moved ==
  ASSUME TypeOK, NEW w, NEW to, M!Move(w, to)
  PROVE  /\ life' = [life EXCEPT ![w] = to]
         /\ to \in {"starting", "sending"} => life[w] \in {"idle", "active"}
         /\ to = "ending" => life[w] = "active"
         /\ to = "resetting" => life[w] \in {"idle", "ending"}
BY DEF M!Move, M!Arrows

LEMMA TokensOfStep ==
  ASSUME TypeOK, Rows, HostsNamed, Starts, Tokens, NEW a \in Actors, Step(a)
  PROVE  Tokens'
<1> USE DEF Starting, Sending, Ending, Resetting
<1>1. flow \in [Actors -> FlowRows] /\ NoHost \notin Hosts
  BY Who DEF TypeOK
<1>2. Alone(a) => Others(a)
  BY AloneOthers
<1>3. ASSUME Alone(a), Stays(a), flow'[a].op = flow[a].op, life' = life,
             \E S \in {Starting, Sending, Ending} : flow[a].pc \in S /\ flow'[a].pc \in S
      PROVE  Tokens'
  BY <1>2, <1>3, SamePlace, TokensKept DEF Others
<1>4. ASSUME Alone(a), ~Holds(a), ~Holds(a)', life' = life PROVE Tokens'
  BY <1>2, <1>4, TokensKept DEF Others, Unmoved
<1>5. CASE ReserveSocket(a) \/ PublishCodex(a)
  <2>1. life' = life /\ flow[a].pc = "spawn"
    BY <1>5 DEF ReserveSocket, PublishCodex, manager, At
  <2>2. \E pc \in Starting : Go(a, pc) \/ flow' = [flow EXCEPT ![a].pc = pc, ![a].h = Fresh]
    BY <1>5 DEF ReserveSocket, PublishCodex
  <2>3. Alone(a) /\ flow'[a].op = flow[a].op /\ flow'[a].w = flow[a].w /\ flow'[a].pc \in Starting
    <3>1. PICK pc \in Starting : Go(a, pc) \/ flow' = [flow EXCEPT ![a].pc = pc, ![a].h = Fresh]
      BY <2>2
    <3> QED
      BY <1>1, <3>1 DEF Go, FlowRows, Alone
  <2>4. Unmoved(a)
    <3>1. PlaceOf(flow'[a].pc) = PlaceOf(flow[a].pc)
      BY <2>1, <2>3 DEF PlaceOf
    <3>2. Holds(a)' <=> Holds(a)
      BY <2>1, <2>3, Holding DEF HoldingPcs
    <3> QED
      BY <2>3, <3>1, <3>2 DEF Unmoved
  <2> QED
    BY <1>2, <2>1, <2>3, <2>4, TokensKept DEF Others
<1>6. CASE FirstTurn(a) \/ Deliver(a) \/ TakeClaude(a) \/ Dispose(a) \/ TeardownCodex(a)
  <2>1. life' = life
    BY <1>6 DEF FirstTurn, Deliver, TakeClaude, Dispose, TeardownCodex, manager
  <2>2. \E S \in {Starting, Sending, Ending} : \E pc \in S : flow[a].pc \in S /\ Go(a, pc)
    BY <1>6 DEF FirstTurn, Deliver, TakeClaude, Dispose, TeardownCodex, At
  <2> QED
    BY <1>3, <2>1, <2>2, Moves DEF To
<1>7. CASE TeardownClaude(a) \/ Quiesce(a)
  <2>1. life' = life /\ flow[a].pc \in Ending
    BY <1>7 DEF TeardownClaude, Quiesce, manager, At
  <2>2. \E pc \in Ending : Go(a, pc) \/ \E ok : flow' = [flow EXCEPT ![a].pc = pc, ![a].ok = ok]
    BY <1>7 DEF TeardownClaude, Quiesce
  <2>3. Alone(a) /\ Stays(a) /\ flow'[a].op = flow[a].op /\ flow'[a].pc \in Ending
    <3>1. PICK pc \in Ending : Go(a, pc) \/ \E ok : flow' = [flow EXCEPT ![a].pc = pc, ![a].ok = ok]
      BY <2>2
    <3> QED
      BY <3>1, Moves DEF To
  <2> QED
    BY <1>3, <2>1, <2>3
<1>8. CASE PublishClaude(a) \/ CommitStart(a)
  <2>1. /\ flow[a].pc \in {"publish", "commit"} /\ H(a) \in Hosts /\ Reaper(H(a)) \in Actors /\ Reaper(H(a)) # a
        /\ life' = life /\ flow[Reaper(H(a))].pc \in {"idle", "await"}
    <3>1. flow[a].pc \in {"publish", "commit"} /\ life' = life /\ H(a) \in Hosts
      BY <1>1, <1>8 DEF PublishClaude, CommitStart, At, manager, Starts, StartOf, H, FlowRows
    <3>2. flow[Reaper(H(a))].pc \in {"idle", "await"} /\ a[1] = "caller"
      BY <3>1, Stations DEF Starts, StartOf, Nothing, H
    <3> QED
      BY <3>1, <3>2, Who DEF Reaper
  <2>2. CASE Go(a, "reject") /\ flow[a].pc = "publish"
    BY <1>3, <2>1, <2>2, Moves DEF To
  <2>3. CASE /\ flow' = [flow EXCEPT ![a].pc = "accept", ![Reaper(H(a))] = Doing("reap", "await", W(a), H(a))]
             /\ flow[a].pc = "publish"
    <3>1. flow'[Reaper(H(a))] = Doing("reap", "await", W(a), H(a))
      BY <1>1, <2>1, <2>3
    <3>2. /\ Stays(a) /\ flow'[a].op = flow[a].op /\ flow'[a].pc = "accept"
          /\ \A b \in Actors \ {a, Reaper(H(a))} : flow'[b] = flow[b]
      BY <1>1, <2>1, <2>3 DEF FlowRows, Stays
    <3> PICK r \in Actors : r = Reaper(H(a))
      BY <2>1
    <3>3. Unmoved(r)
      BY <2>1, <3>1 DEF Unmoved, Holds, Doing
    <3>4. Unmoved(a)
      BY <2>3, <3>2, SamePlace
    <3>5. \A b \in Actors : Unmoved(b)
      BY <3>2, <3>3, <3>4 DEF Unmoved, Holds
    <3> QED
      BY <2>1, <3>5, TokensKept
  <2>4. CASE flow' = [flow EXCEPT ![a] = Nothing, ![Reaper(H(a))].pc = "watch"] /\ flow[a].pc = "commit"
    <3>1. flow'[Reaper(H(a))].pc = "watch"
      BY <1>1, <2>1, <2>4 DEF FlowRows
    <3>2. flow'[a] = Nothing /\ \A b \in Actors \ {a, Reaper(H(a))} : flow'[b] = flow[b]
      BY <1>1, <2>1, <2>4
    <3> PICK r \in Actors : r = Reaper(H(a))
      BY <2>1
    <3>3. Unmoved(r) /\ Unmoved(a)
      BY <2>1, <2>4, <3>1, <3>2 DEF Unmoved, Holds, Nothing
    <3>4. \A b \in Actors : Unmoved(b)
      BY <3>2, <3>3 DEF Unmoved, Holds
    <3> QED
      BY <2>1, <3>4, TokensKept
  <2> QED
    BY <1>8, <2>2, <2>3, <2>4 DEF PublishClaude, CommitStart, At
<1>9. CASE AcceptStart(a) \/ RejectStart(a) \/ SettleSend(a) \/ FinishReset(a)
  <2>1. flow[a].pc \in {"accept", "reject", "sent", "unsent", "reset"} /\ \E to \in {"idle", "active"} : M!Move(W(a), to)
    BY <1>9 DEF AcceptStart, RejectStart, SettleSend, FinishReset, At
  <2>2. Holds(a)
    BY <2>1, Holding DEF HoldingPcs
  <2>3. Return(a) \/ Go(a, "commit")
    BY <1>9 DEF AcceptStart, RejectStart, SettleSend, FinishReset
  <2>4. Alone(a) /\ ~Holds(a)'
    BY <2>3, Moves, Holding DEF HoldingPcs, To, Nothing
  <2> QED
    BY <1>2, <2>1, <2>2, <2>4, Moved, TokensGiven DEF Passing
<1>10. CASE BeginSend(a)
  <2>1. flow[a].pc = "submit" /\ flow[a].op = "send" /\ W(a) \in WSIDs
    BY <1>10, Stations DEF BeginSend, At
  <2>2. ~Holds(a)
    BY <2>1, Holding DEF HoldingPcs
  <2>3. CASE Return(a) /\ UNCHANGED manager
    BY <1>4, <2>2, <2>3, Moves, Holding DEF manager
  <2>4. CASE M!Move(W(a), "sending") /\ Go(a, "deliver")
    <3>1. life' = [life EXCEPT ![W(a)] = "sending"] /\ life[W(a)] \notin Passing
      BY <2>4, Moved DEF Passing
    <3>2. Alone(a) /\ To(a, "deliver")
      BY <2>4, Moves
    <3>3. Holds(a)' /\ PlaceOf(flow'[a].pc) = "sending" /\ flow'[a].w = W(a)
      BY <2>1, <3>2, Holding DEF HoldingPcs, To, Stays, PlaceOf, W
    <3> QED
      BY <1>2, <2>1, <2>2, <3>1, <3>2, <3>3, TokensTaken
  <2> QED
    BY <1>10, <2>3, <2>4 DEF BeginSend
<1>11. CASE ReadHost(a)
  <2>1. flow[a].pc = "read" /\ life' = life /\ flow'[a].pc = "begin" /\ Alone(a)
    BY <1>1, <1>11 DEF ReadHost, At, manager, FlowRows, Alone
  <2> QED
    BY <1>4, <2>1, Holding DEF HoldingPcs
<1>12. CASE BeginEnd(a)
  <2>1. flow[a].pc = "begin" /\ flow[a].op \in UserOps \cup {"reap", "forced"} /\ W(a) \in WSIDs
    BY <1>12, Stations DEF BeginEnd, At
  <2>2. ~Holds(a) /\ flow[a].op # "fallback"
    BY <2>1, Holding DEF HoldingPcs, UserOps
  <2>3. CASE M!Move(W(a), "ending") /\ (Go(a, "busy") \/ Go(a, "teardown"))
    <3>1. life' = [life EXCEPT ![W(a)] = "ending"] /\ life[W(a)] \notin Passing
      BY <2>3, Moved DEF Passing
    <3>2. Alone(a) /\ (To(a, "busy") \/ To(a, "teardown"))
      BY <2>3, Moves
    <3>3. Holds(a)' /\ PlaceOf(flow'[a].pc) = "ending" /\ flow'[a].w = W(a)
      BY <2>2, <3>2, Holding DEF HoldingPcs, To, Stays, PlaceOf, W
    <3> QED
      BY <1>2, <2>1, <2>2, <3>1, <3>2, <3>3, TokensTaken
  <2>4. CASE (Return(a) \/ Go(a, "cleanup") \/ Go(a, "beginreset")) /\ UNCHANGED manager
    <3>1. Alone(a) /\ (flow'[a] = Nothing \/ flow'[a].pc \in {"cleanup", "beginreset"})
      BY <2>4, Moves DEF To
    <3> QED
      BY <1>4, <2>2, <2>4, <3>1, Holding DEF HoldingPcs, manager
  <2>5. CASE flow' = [flow EXCEPT ![a].op = "fallback", ![a].pc = "teardown"] /\ UNCHANGED manager
    <3>1. Alone(a) /\ flow'[a].op = "fallback"
      BY <1>1, <2>5 DEF Alone, FlowRows
    <3> QED
      BY <1>4, <2>2, <2>5, <3>1, Holding DEF manager
  <2> QED
    BY <1>12, <2>3, <2>4, <2>5 DEF BeginEnd
<1>13. CASE CheckBusy(a)
  <2>1. flow[a].pc = "busy" /\ flow[a].op \in UserOps
    BY <1>13, Stations DEF CheckBusy, At
  <2>2. Holds(a)
    BY <2>1, Holding DEF HoldingPcs, UserOps
  <2>3. CASE M!Move(W(a), "active") /\ Return(a)
    BY <1>2, <2>2, <2>3, Moved, Moves, Holding, TokensGiven DEF Passing
  <2>4. CASE Go(a, "teardown") /\ UNCHANGED manager
    BY <1>3, <2>1, <2>4, Moves DEF To, manager
  <2> QED
    BY <1>13, <2>3, <2>4 DEF CheckBusy
<1>14. CASE FinishEnd(a)
  <2>1. flow[a].pc = "finish"
    BY <1>14 DEF FinishEnd, At
  <2>2. CASE flow[a].op = "fallback" /\ Return(a) /\ UNCHANGED manager
    BY <1>4, <2>2, Moves, Holding DEF manager
  <2>3. CASE flow[a].op = "new" /\ M!Move(W(a), "resetting") /\ Go(a, "reset")
    <3>1. Alone(a) /\ To(a, "reset") /\ life' = [life EXCEPT ![W(a)] = "resetting"]
      BY <2>3, Moves, Moved
    <3>2. Holds(a) /\ Holds(a)' /\ PlaceOf(flow'[a].pc) = "resetting"
      BY <2>1, <2>3, <3>1, Holding DEF HoldingPcs, To, PlaceOf
    <3> QED
      BY <1>2, <3>1, <3>2, TokensPassed DEF To, Stays
  <2>4. CASE flow[a].op # "fallback" /\ M!Move(W(a), "idle") /\ (Go(a, "cleanup") \/ Return(a))
    <3>1. Alone(a) /\ (flow'[a] = Nothing \/ flow'[a].pc = "cleanup") /\ life' = [life EXCEPT ![W(a)] = "idle"]
      BY <2>4, Moves, Moved DEF To
    <3>2. Holds(a) /\ ~Holds(a)'
      BY <2>1, <2>4, <3>1, Holding DEF HoldingPcs
    <3> QED
      BY <1>2, <3>1, <3>2, TokensGiven DEF Passing
  <2> QED
    BY <1>14, <2>2, <2>3, <2>4 DEF FinishEnd
<1>15. CASE BeginReset(a)
  <2>1. flow[a].pc = "beginreset" /\ flow[a].op = "new" /\ W(a) \in WSIDs
    BY <1>15, Stations DEF BeginReset, At
  <2>2. ~Holds(a)
    BY <2>1, Holding DEF HoldingPcs
  <2>3. CASE life[W(a)] = "idle" /\ M!Move(W(a), "resetting") /\ Go(a, "reset")
    <3>1. Alone(a) /\ To(a, "reset") /\ life' = [life EXCEPT ![W(a)] = "resetting"]
      BY <2>3, Moves, Moved
    <3>2. Holds(a)' /\ PlaceOf(flow'[a].pc) = "resetting" /\ flow'[a].w = W(a)
      BY <2>1, <3>1, Holding DEF HoldingPcs, To, Stays, PlaceOf, W
    <3> QED
      BY <1>2, <2>1, <2>2, <2>3, <3>1, <3>2, TokensTaken DEF Passing
  <2>4. CASE Return(a) /\ UNCHANGED manager
    BY <1>4, <2>2, <2>4, Moves, Holding DEF manager
  <2> QED
    BY <1>15, <2>3, <2>4 DEF BeginReset
<1>16. CASE Tombstone(a) \/ ReleaseSlot(a)
  <2>1. flow[a].pc \in {"cleanup", "release"} /\ (Return(a) \/ Go(a, "release"))
    BY <1>16 DEF Tombstone, ReleaseSlot, At
  <2>2. Alone(a) /\ ~Holds(a) /\ ~Holds(a)'
    BY <2>1, Moves, Holding DEF To, HoldingPcs, Nothing
  <2>3. life' = life \/ (life[W(a)] = "idle" /\ life' = [life EXCEPT ![W(a)] = "gone"])
    BY <1>16, Zenon DEF Tombstone, ReleaseSlot, manager, M!Release
  <2>4. \A b \in Actors : Unmoved(b)
    BY <1>2, <2>2 DEF Others, Unmoved
  <2>5. \A w \in WSIDs : life'[w] = life[w] \/ {life[w], life'[w]} \cap Passing = {}
    BY <2>3 DEF Passing, TypeOK
  <2> QED
    BY <2>4, <2>5, TokensApart
<1> QED
  BY <1>5, <1>6, <1>7, <1>8, <1>9, <1>10, <1>11, <1>12, <1>13, <1>14, <1>15, <1>16 DEF Step

(* A binding that begins. *)
LEMMA Begins ==
  ASSUME TypeOK, NEW a \in Actors, Request(a)
  PROVE  /\ Alone(a) /\ flow[a] = Nothing /\ a[1] = "caller" /\ app = "ready"
         /\ UNCHANGED <<reg, sock, hosts, entry, app, snap>>
         /\ \/ \E w \in WSIDs : StartSession(a, w) /\ flow'[a].w = w /\ flow'[a].pc = "spawn" /\ flow'[a].op = "start"
            \/ UNCHANGED manager /\ flow'[a].pc \in {"submit", "begin", "read"}
<1>1. flow \in [Actors -> FlowRows]
  BY DEF TypeOK
<1>2. PICK w \in WSIDs : \/ StartSession(a, w) \/ SendMessage(a, w) \/ RemoveSession(a, w)
                        \/ \E op \in {"end", "new"} : EndOrNew(a, op, w)
  BY DEF Request
<1>3. flow[a] = Nothing /\ a[1] = "caller" /\ app = "ready"
  BY <1>2 DEF StartSession, SendMessage, RemoveSession, EndOrNew, Admits
<1>4. UNCHANGED <<reg, sock, hosts, entry, app, snap>>
  BY <1>2 DEF StartSession, SendMessage, RemoveSession, EndOrNew
<1>5. CASE StartSession(a, w)
  <2>1. flow' = [flow EXCEPT ![a] = Doing("start", "spawn", w, NoHost)]
    BY <1>5 DEF StartSession
  <2> QED
    BY <1>1, <1>3, <1>4, <1>5, <2>1 DEF Alone, Doing
<1>6. CASE ~StartSession(a, w)
  <2>1. PICK op, pc, h : flow' = [flow EXCEPT ![a] = Doing(op, pc, w, h)] /\ pc \in {"submit", "begin", "read"}
    BY <1>2, <1>6 DEF SendMessage, RemoveSession, EndOrNew
  <2>2. UNCHANGED manager
    BY <1>2, <1>6 DEF SendMessage, RemoveSession, EndOrNew
  <2> QED
    BY <1>1, <1>3, <1>4, <2>1, <2>2 DEF Alone, Doing
<1> QED
  BY <1>5, <1>6

LEMMA TokensStep == Inv /\ [Next]_vars => Tokens'
<1> SUFFICES ASSUME TypeOK, Rows, HostsNamed, Starts, Tokens, Phased, [Next]_vars PROVE Tokens'
  BY DEF Inv
<1>1. flow \in [Actors -> FlowRows]
  BY DEF TypeOK
<1>2. ASSUME NEW a \in Actors, Request(a) PROVE Tokens'
  <2>1. Others(a) /\ ~Holds(a)
    BY <1>2, Begins, AloneOthers, Holding
  <2>2. ASSUME NEW w \in WSIDs, StartSession(a, w), flow'[a].w = w, flow'[a].pc = "spawn", flow'[a].op = "start"
        PROVE  Tokens'
    <3>1. life' = [life EXCEPT ![w] = "starting"] /\ life[w] \notin Passing
      BY <2>2, Moved DEF StartSession, Passing
    <3>2. PlaceOf(flow'[a].pc) = "starting" /\ Holds(a)'
      <4>1. PlaceOf("spawn") = "starting"
        BY DEF PlaceOf, Starting, Sending, Ending
      <4>2. "spawn" \in HoldingPcs
        BY DEF HoldingPcs, Starting, Sending, Ending, Resetting
      <4> QED
        BY <2>2, <4>1, <4>2, Holding
    <3> QED
      BY <2>1, <2>2, <3>1, <3>2, TokensTaken
  <2>3. CASE UNCHANGED manager /\ flow'[a].pc \in {"submit", "begin", "read"}
    <3>1. ~Holds(a)'
      BY <2>3, Holding DEF HoldingPcs, Starting, Sending, Ending, Resetting
    <3> QED
      BY <2>1, <2>3, <3>1, TokensKept DEF Others, Unmoved, manager
  <2> QED
    BY <1>2, <2>2, <2>3, Begins
<1>3. ASSUME NEW a \in Actors, Step(a) PROVE Tokens'
  BY <1>3, TokensOfStep
<1>4. ASSUME NEW h \in Hosts, ReaperWakes(h) PROVE Tokens'
  <2> PICK a \in Actors : a = Reaper(h)
    BY Who
  <2>1. flow[a].pc = "watch" /\ (Go(a, "begin") \/ Return(a)) /\ life' = life
    BY <1>4 DEF ReaperWakes, At, manager
  <2>2. Alone(a) /\ flow'[a].pc \in {"begin", "idle"}
    BY <2>1, Moves DEF To, Nothing
  <2>3. ~Holds(a) /\ ~Holds(a)'
    BY <2>1, <2>2, Holding DEF HoldingPcs, Starting, Sending, Ending, Resetting
  <2> QED
    BY <2>1, <2>2, <2>3, AloneOthers, TokensKept DEF Others, Unmoved
<1>5. CASE Snapshot
  <2>1. life' = life
    BY <1>5 DEF Snapshot, manager
  <2>2. ASSUME NEW a \in Actors PROVE Unmoved(a)
    <3>1. CASE flow'[a] = flow[a]
      BY <3>1 DEF Unmoved, Holds
    <3>2. CASE flow'[a] # flow[a]
      <4>1. \E h \in Registered : a = Forced(h) /\ flow'[a].pc = "begin"
        BY <1>1, <1>5, <3>2 DEF Snapshot, Doing
      <4>2. flow[a] = Nothing
        BY <1>5, <4>1 DEF Phased, Snapshot, Registered, TypeOK
      <4>3. ~Holds(a) /\ ~Holds(a)'
        BY <4>1, <4>2, Holding DEF HoldingPcs, Starting, Sending, Ending, Resetting
      <4> QED
        BY <4>3 DEF Unmoved
    <3> QED
      BY <3>1, <3>2
  <2> QED
    BY <2>1, <2>2, TokensKept
<1>6. CASE Finalize
  <2>1. \A a \in Actors : Unmoved(a)
    BY <1>6 DEF Finalize, Unmoved, Holds
  <2>2. ASSUME NEW w \in WSIDs PROVE life[w] \notin {"starting", "sending"}
    <3>1. SUFFICES ASSUME life[w] \in {"starting", "sending"} PROVE FALSE
      OBVIOUS
    <3>2. PICK a \in Actors : Holds(a) /\ W(a) = w
      BY <3>1 DEF Tokens, Held, Passing
    <3>3. flow[a].pc \in Starting \cup Sending
      BY <3>1, <3>2 DEF Tokens, Match, PlaceOf, Holds
    <3>4. a[1] = "caller" /\ flow[a] # Nothing
      BY <3>2, <3>3, Stations, Holding
    <3> QED
      BY <1>6, <3>4, Who DEF Phased, Finalize
  <2>3. \A w \in WSIDs : life'[w] = life[w]
    BY <1>6, <2>2 DEF Finalize, M!Shut
  <2> QED
    BY <2>1, <2>3, TokensApart
<1>7. ASSUME UNCHANGED flow, UNCHANGED life PROVE Tokens'
  BY <1>7, TokensKept DEF Unmoved, Holds
<1> QED
  BY <1>2, <1>3, <1>4, <1>5, <1>6, <1>7
     DEF Next, Provider, PumpEnds, PumpSticks, TurnEnds, Shutdown, RefuseWork, Collect, vars, manager

-----------------------------------------------------------------------------
(* Shutdown. *)
LEMMA PhasedStep == Inv /\ [Next]_vars => Phased'
<1> SUFFICES ASSUME TypeOK, Rows, Starts, Phased, [Next]_vars PROVE Phased'
  BY DEF Inv
<1>1. flow \in [Actors -> FlowRows]
  BY DEF TypeOK
<1>2. ASSUME app' = app \/ {app, app'} \cap {"ready", "draining"} = {} \/ {app, app'} = {"ready", "draining"},
             NEW a \in Actors, flow[a] # Nothing \/ (a[1] = "caller" /\ app = "ready"),
             \A b \in Actors \ {a} : flow'[b] = flow[b] \/ (b[1] = "reaper")
      PROVE  Phased'
  <2>1. ASSUME NEW h \in Hosts, app \in {"ready", "draining"} PROVE flow'[Forced(h)] = Nothing
    <3>1. Forced(h) \in Actors /\ flow[Forced(h)] = Nothing /\ Forced(h)[1] = "forced"
      BY <2>1, Who DEF Phased, Forced
    <3> QED
      BY <1>2, <3>1
  <2>2. ASSUME NEW c \in Callers, app \notin {"ready", "draining"} PROVE flow'[<<"caller", c>>] = Nothing
    <3>1. <<"caller", c>> \in Actors /\ flow[<<"caller", c>>] = Nothing
      BY <2>2, Who DEF Phased
    <3> QED
      BY <1>2, <2>2, <3>1
  <2> QED
    BY <1>2, <2>1, <2>2 DEF Phased
<1>3. ASSUME NEW a \in Actors, Request(a) PROVE Phased'
  BY <1>2, <1>3, Begins DEF Alone
<1>4. ASSUME NEW a \in Actors, Step(a) PROVE Phased'
  <2>1. flow[a] # Nothing
    <3>1. flow[a].pc # "idle"
      BY <1>4 DEF Step, ReserveSocket, PublishClaude, PublishCodex, FirstTurn, AcceptStart, CommitStart,
         RejectStart, BeginSend, Deliver, SettleSend, ReadHost, BeginEnd, CheckBusy, TeardownClaude, Quiesce,
         TakeClaude, Dispose, TeardownCodex, FinishEnd, BeginReset, FinishReset, Tombstone, ReleaseSlot, At
    <3> QED
      BY <3>1, Stations
  <2>2. app' = app
    BY <1>4 DEF Step, ReserveSocket, PublishClaude, PublishCodex, FirstTurn, AcceptStart, CommitStart,
       RejectStart, BeginSend, Deliver, SettleSend, ReadHost, BeginEnd, CheckBusy, TeardownClaude, Quiesce,
       TakeClaude, Dispose, TeardownCodex, FinishEnd, BeginReset, FinishReset, Tombstone, ReleaseSlot
  <2>3. \A b \in Actors \ {a} : flow'[b] = flow[b] \/ b[1] = "reaper"
    <3>1. CASE PublishClaude(a) \/ CommitStart(a)
      <4>1. PICK r : /\ r[1] = "reaper"
                     /\ \/ \E pc : Go(a, pc)
                        \/ \E f : flow' = [flow EXCEPT ![a].pc = "accept", ![r] = f]
                        \/ \E pc : flow' = [flow EXCEPT ![a] = Nothing, ![r].pc = pc]
        <5>1. Reaper(H(a))[1] = "reaper"
          BY DEF Reaper
        <5> QED
          BY <3>1, <5>1, Zenon DEF PublishClaude, CommitStart
      <4> QED
        BY <1>1, <4>1 DEF Go
    <3>2. CASE ~PublishClaude(a) /\ ~CommitStart(a)
      <4>1. \/ Return(a)
            \/ \E pc : Go(a, pc)
            \/ \E pc, ok : flow' = [flow EXCEPT ![a].pc = pc, ![a].ok = ok]
            \/ \E pc, op : flow' = [flow EXCEPT ![a].op = op, ![a].pc = pc]
            \/ \E pc, h : flow' = [flow EXCEPT ![a].pc = pc, ![a].h = h]
        BY <1>4, <3>2, Zenon DEF Step, ReserveSocket, PublishCodex, FirstTurn, AcceptStart,
           RejectStart, BeginSend, Deliver, SettleSend, ReadHost, BeginEnd, CheckBusy, TeardownClaude, Quiesce,
           TakeClaude, Dispose, TeardownCodex, FinishEnd, BeginReset, FinishReset, Tombstone, ReleaseSlot
      <4> QED
        BY <1>1, <4>1 DEF Go, Return
    <3> QED
      BY <3>1, <3>2
  <2> QED
    BY <1>2, <2>1, <2>2, <2>3
<1>5. ASSUME NEW h \in Hosts, Provider(h) PROVE Phased'
  <2>1. app' = app /\ (flow' = flow \/ (flow[Reaper(h)].pc = "watch" /\ (Go(Reaper(h), "begin") \/ Return(Reaper(h)))))
    BY <1>5 DEF Provider, PumpEnds, PumpSticks, TurnEnds, ReaperWakes, At
  <2>2. \A b \in Actors : flow'[b] = flow[b] \/ b[1] = "reaper"
    BY <1>1, <2>1 DEF Go, Return, Reaper
  <2>3. CASE flow' = flow
    BY <2>1, <2>3 DEF Phased
  <2>4. CASE flow[Reaper(h)].pc = "watch"
    BY <1>2, <2>1, <2>2, <2>4, Who, Stations
  <2> QED
    BY <2>1, <2>3, <2>4
<1>6. CASE Snapshot
  <2>1. \A c \in Callers : flow'[<<"caller", c>>] = Nothing
    BY <1>1, <1>6, Who DEF Snapshot, InFlight, Forced
  <2> QED
    BY <1>6, <2>1 DEF Snapshot, Phased
<1>7. CASE RefuseWork \/ Collect \/ Finalize
  BY <1>7 DEF RefuseWork, Collect, Finalize, Phased
<1>8. CASE UNCHANGED vars
  BY <1>8 DEF vars, Phased
<1> QED
  BY <1>3, <1>4, <1>5, <1>6, <1>7, <1>8 DEF Next, Shutdown

-----------------------------------------------------------------------------
(* Only StartSession puts a flow where it waits for a host, and only         *)
(* CheckBusy sends a user's end of a Codex session on to its teardown.       *)
LEMMA Arrivals ==
  ASSUME TypeOK, Rows, Starts, [Next]_vars, NEW b \in Actors, flow'[b] # flow[b]
  PROVE  /\ flow'[b].pc = "spawn" => \E w \in WSIDs : StartSession(b, w)
         /\ flow'[b].pc = "teardown" =>
              \/ CheckBusy(b) /\ To(b, "teardown")
              \/ ~(ByUser(flow'[b].op) /\ flow'[b].w \in Codex)
<1>1. flow \in [Actors -> FlowRows]
  BY DEF TypeOK
<1>2. ASSUME NEW a \in Actors, Request(a)
      PROVE  /\ flow'[b].pc # "teardown"
             /\ flow'[b].pc = "spawn" => \E w \in WSIDs : StartSession(b, w)
  BY <1>2, Begins DEF Alone
<1>3. ASSUME NEW a \in Actors, PublishClaude(a) \/ CommitStart(a)
      PROVE  flow'[b].pc \notin {"spawn", "teardown"}
  <2>1. H(a) \in Hosts /\ Reaper(H(a)) \in Actors /\ a # Reaper(H(a))
    <3>1. flow[a].pc \in {"publish", "commit"}
      BY <1>3 DEF PublishClaude, CommitStart, At
    <3>2. H(a) \in Hosts /\ a[1] = "caller"
      BY <1>1, <3>1, Stations, Who DEF Starts, StartOf, FlowRows, Starting, H, W
    <3> QED
      BY <3>2, Who DEF Reaper
  <2> PICK r \in Actors : r = Reaper(H(a)) /\ r # a
    BY <2>1
  <2>2. CASE Go(a, "reject")
    BY <2>2, Moves DEF To, Alone
  <2>3. CASE flow' = [flow EXCEPT ![a].pc = "accept", ![r] = Doing("reap", "await", W(a), H(a))]
    BY <1>1, <2>3 DEF FlowRows, Doing
  <2>4. CASE flow' = [flow EXCEPT ![a] = Nothing, ![r].pc = "watch"]
    BY <1>1, <2>4 DEF FlowRows, Nothing
  <2> QED
    BY <1>3, <2>2, <2>3, <2>4 DEF PublishClaude, CommitStart
<1>4. ASSUME NEW a \in Actors, BeginEnd(a) \/ CheckBusy(a)
      PROVE  /\ flow'[b].pc # "spawn"
             /\ flow'[b].pc = "teardown" =>
                  \/ CheckBusy(b) /\ To(b, "teardown")
                  \/ ~(ByUser(flow'[b].op) /\ flow'[b].w \in Codex)
  <2>1. CASE CheckBusy(a)
    <3>1. Return(a) \/ Go(a, "teardown")
      BY <2>1 DEF CheckBusy
    <3>2. Alone(a) /\ (flow'[a] = Nothing \/ To(a, "teardown"))
      BY <3>1, Moves
    <3>3. b = a
      BY <3>2 DEF Alone
    <3> QED
      BY <2>1, <3>2, <3>3 DEF Nothing, To
  <2>2. CASE BeginEnd(a)
    <3>1. \/ Return(a)
          \/ Go(a, "busy") \/ Go(a, "cleanup") \/ Go(a, "beginreset")
          \/ Go(a, "teardown") /\ ~(ByUser(flow[a].op) /\ W(a) \in Codex)
          \/ flow' = [flow EXCEPT ![a].op = "fallback", ![a].pc = "teardown"]
      BY <2>2 DEF BeginEnd
    <3>2. /\ Alone(a) /\ flow'[a].pc # "spawn"
          /\ flow'[a].pc = "teardown" => ~(ByUser(flow'[a].op) /\ flow'[a].w \in Codex)
      <4>1. CASE Return(a) \/ Go(a, "busy") \/ Go(a, "cleanup") \/ Go(a, "beginreset")
        BY <4>1, Moves DEF To, Nothing
      <4>2. CASE Go(a, "teardown") /\ ~(ByUser(flow[a].op) /\ W(a) \in Codex)
        BY <4>2, Moves DEF To, Stays, W
      <4>3. CASE flow' = [flow EXCEPT ![a].op = "fallback", ![a].pc = "teardown"]
        BY <1>1, <4>3 DEF FlowRows, Alone, ByUser
      <4> QED
        BY <3>1, <4>1, <4>2, <4>3
    <3> QED
      BY <3>2 DEF Alone
  <2> QED
    BY <1>4, <2>1, <2>2
<1>5. ASSUME NEW a \in Actors, Step(a), ~PublishClaude(a), ~CommitStart(a), ~BeginEnd(a), ~CheckBusy(a)
      PROVE  flow'[b].pc \notin {"spawn", "teardown"}
  <2> DEFINE there == {"reject", "publish", "turn", "accept", "commit", "deliver", "sent", "unsent", "begin", "cleanup",
                       "finish", "quiesce", "take", "dispose", "reset", "release"}
  <2>1. \/ Return(a)
        \/ \E pc \in there : Go(a, pc)
        \/ \E pc \in there : \E ok : flow' = [flow EXCEPT ![a].pc = pc, ![a].ok = ok]
        \/ \E pc \in there : \E h : flow' = [flow EXCEPT ![a].pc = pc, ![a].h = h]
    BY <1>5 DEF Step, ReserveSocket, PublishCodex, FirstTurn, AcceptStart, RejectStart, BeginSend, Deliver,
       SettleSend, ReadHost, TeardownClaude, Quiesce, TakeClaude, Dispose, TeardownCodex, FinishEnd, BeginReset,
       FinishReset, Tombstone, ReleaseSlot
  <2>2. Alone(a) /\ (flow'[a] = Nothing \/ flow'[a].pc \in there)
    <3>1. CASE Return(a) \/ \E pc \in there : Go(a, pc)
      BY <3>1, Moves DEF To
    <3>2. ASSUME NEW pc \in there, NEW ok, flow' = [flow EXCEPT ![a].pc = pc, ![a].ok = ok]
          PROVE  Alone(a) /\ flow'[a].pc = pc
      BY <1>1, <3>2 DEF FlowRows, Alone
    <3>3. ASSUME NEW pc \in there, NEW h, flow' = [flow EXCEPT ![a].pc = pc, ![a].h = h]
          PROVE  Alone(a) /\ flow'[a].pc = pc
      BY <1>1, <3>3 DEF FlowRows, Alone
    <3> QED
      BY <2>1, <3>1, <3>2, <3>3
  <2> QED
    BY <2>2 DEF Alone, Nothing
<1>6. ASSUME NEW h \in Hosts, ReaperWakes(h) PROVE flow'[b].pc \notin {"spawn", "teardown"}
  <2> PICK r \in Actors : r = Reaper(h)
    BY Who
  <2>1. Return(r) \/ Go(r, "begin")
    BY <1>6 DEF ReaperWakes
  <2> QED
    BY <2>1, Moves DEF Alone, To, Nothing
<1>7. CASE Snapshot
  BY <1>1, <1>7 DEF Snapshot, Doing
<1> QED
  BY <1>2, <1>3, <1>4, <1>5, <1>6, <1>7
     DEF Next, Provider, PumpEnds, PumpSticks, TurnEnds, Shutdown, RefuseWork, Collect, Finalize, vars

LEMMA RoomStep == Inv /\ [Next]_vars => Room'
<1> SUFFICES ASSUME TypeOK, Rows, Starts, Room, [Next]_vars PROVE Room'
  BY DEF Inv
<1>1. /\ IsFiniteSet(Spawning) /\ IsFiniteSet(Unused) /\ IsFiniteSet(Spawning') /\ IsFiniteSet(Unused')
      /\ flow \in [Actors -> FlowRows] /\ hosts \in [Hosts -> HostRows] /\ NoSession \notin WSIDs
  BY ActorsFinite, FS_Subset, FlowsAssumption DEF Spawning, Unused, TypeOK, FlowsAssumption
<1>2. /\ Cardinality(Spawning) \in Nat /\ Cardinality(Unused) \in Nat
      /\ Cardinality(Spawning') \in Nat /\ Cardinality(Unused') \in Nat
      /\ Cardinality(Spawning) <= Cardinality(Unused)
  BY <1>1, FS_CardinalityType DEF Room
<1>3. CASE \E a \in Actors : ReserveSocket(a) \/ PublishCodex(a)
  <2> PICK a \in Actors : ReserveSocket(a) \/ PublishCodex(a)
    BY <1>3
  <2>1. a \in Spawning /\ a \notin Spawning'
    <3>1. flow[a].pc = "spawn"
      BY DEF ReserveSocket, PublishCodex, At
    <3>2. \E pc \in {"reject", "publish", "turn"} : \/ Go(a, pc)
                                                   \/ flow' = [flow EXCEPT ![a].pc = pc, ![a].h = Fresh]
      BY DEF ReserveSocket, PublishCodex
    <3>3. flow'[a].pc \in {"reject", "publish", "turn"}
      BY <1>1, <3>2 DEF Go, FlowRows
    <3> QED
      BY <3>1, <3>3 DEF Spawning, At
  <2>2. Spawning' \subseteq Spawning \ {a}
    <3>1. ASSUME NEW b \in Actors, flow'[b].pc = "spawn", flow[b].pc # "spawn" PROVE FALSE
      <4>1. flow'[b] # flow[b] /\ \E w \in WSIDs : StartSession(b, w)
        BY <3>1, Arrivals
      <4>2. UNCHANGED hosts /\ flow[b] = Nothing /\ b # a /\ flow' = [flow EXCEPT ![b] = flow'[b]]
        BY <1>1, <2>1, <3>1, <4>1, Zenon DEF StartSession, Admits, Spawning, At
      <4> QED
        BY <1>1, <2>1, <4>2 DEF Spawning, At
    <3> QED
      BY <2>1, <3>1 DEF Spawning, At
  <2>3. Unused \ {Fresh} \subseteq Unused'
    BY NamesStep DEF Unused
  <2>4. Cardinality(Spawning') <= Cardinality(Spawning) - 1
    <3>1. IsFiniteSet(Spawning \ {a}) /\ Cardinality(Spawning \ {a}) = Cardinality(Spawning) - 1
      BY <1>1, <2>1, FS_RemoveElement
    <3> QED
      BY <2>2, <3>1, FS_Subset
  <2>5. Cardinality(Unused) - 1 <= Cardinality(Unused')
    <3>1. CASE Fresh \in Unused
      <4>1. IsFiniteSet(Unused \ {Fresh}) /\ Cardinality(Unused \ {Fresh}) = Cardinality(Unused) - 1
        BY <1>1, <3>1, FS_RemoveElement
      <4> QED
        BY <1>1, <2>3, <4>1, FS_Subset
    <3>2. CASE Fresh \notin Unused
      BY <2>1, <3>2, FreshFound DEF Spawning
    <3> QED
      BY <3>1, <3>2
  <2> QED
    BY <1>2, <2>4, <2>5 DEF Room
<1>4. CASE \A a \in Actors : ~ReserveSocket(a) /\ ~PublishCodex(a)
  <2>1. Unused \subseteq Unused'
    BY <1>4, NamesStep DEF Unused
  <2>2. Cardinality(Unused) <= Cardinality(Unused')
    BY <1>1, <2>1, FS_Subset
  <2>3. CASE Spawning' \subseteq Spawning
    <3>1. Cardinality(Spawning') <= Cardinality(Spawning)
      BY <1>1, <2>3, FS_Subset
    <3> QED
      BY <1>2, <2>2, <3>1 DEF Room
  <2>4. CASE ~(Spawning' \subseteq Spawning)
    <3>1. PICK b \in Actors : flow'[b].pc = "spawn" /\ flow[b].pc # "spawn"
      BY <2>4 DEF Spawning, At
    <3>2. PICK w \in WSIDs : StartSession(b, w)
      BY <3>1, Arrivals
    <3>3. Cardinality(Unused) > Cardinality(Spawning)
      BY <3>2 DEF StartSession, Spawning
    <3>4. \A c \in Actors \ {b} : flow'[c] = flow[c]
      BY <1>1, <3>2 DEF StartSession
    <3>5. Spawning' \subseteq Spawning \cup {b} /\ b \notin Spawning
      BY <3>1, <3>4 DEF Spawning, At
    <3>6. IsFiniteSet(Spawning \cup {b}) /\ Cardinality(Spawning \cup {b}) = Cardinality(Spawning) + 1
      BY <1>1, <3>5, FS_AddElement
    <3>7. Cardinality(Spawning') <= Cardinality(Spawning) + 1
      BY <3>5, <3>6, FS_Subset
    <3> QED
      BY <1>2, <2>2, <3>3, <3>7 DEF Room
  <2> QED
    BY <2>3, <2>4
<1> QED
  BY <1>3, <1>4

-----------------------------------------------------------------------------
(* A turn begins on a host only by the flow that holds its session's slot. *)
LEMMA TurnBegins ==
  ASSUME TypeOK, Rows, HostsNamed, Starts, Room, [Next]_vars, NEW h \in Hosts, hosts'[h].turn, ~hosts[h].turn
  PROVE  \E b \in Actors : Holds(b) /\ H(b) = h /\ W(b) = hosts[h].w /\ flow'[b] # flow[b] /\ flow[b].pc # "teardown"
<1>1. hosts \in [Hosts -> HostRows] /\ flow \in [Actors -> FlowRows]
  BY DEF TypeOK
<1>2. ASSUME NEW b \in Actors, FirstTurn(b) \/ Deliver(b)
      PROVE  \E c \in Actors : /\ Holds(c) /\ H(c) = h /\ W(c) = hosts[h].w /\ flow'[c] # flow[c]
                               /\ flow[c].pc # "teardown"
  <2>1. flow[b].pc \in {"turn", "deliver"} /\ \E pc \in {"accept", "reject", "sent", "unsent"} : Go(b, pc)
    BY <1>2 DEF FirstTurn, Deliver, At
  <2>2. Holds(b) /\ flow'[b] # flow[b]
    <3>1. flow[b].pc \in HoldingPcs \ Ending
      BY <2>1 DEF HoldingPcs, Starting, Sending, Ending
    <3> QED
      BY <2>1, <3>1, Holding, Moves DEF To
  <2>3. UNCHANGED hosts \/ \E turn : Set(H(b), [hosts[H(b)] EXCEPT !.turn = turn])
    BY <1>2, Zenon DEF FirstTurn, Deliver
  <2>4. H(b) = h
    BY <1>1, <2>3 DEF Set, HostRows
  <2>5. W(b) = hosts[h].w
    BY <2>4, Who DEF HostsNamed
  <2> QED
    BY <2>1, <2>2, <2>4, <2>5
<1>4. ASSUME NEW b \in Actors, ReserveSocket(b) \/ PublishCodex(b) PROVE FALSE
  <2>1. UNCHANGED hosts \/ \E row : Set(Fresh, row) /\ ~row.turn
    <3>1. ~NewHost(W(b)).turn /\ \A i : ~[NewHost(W(b)) EXCEPT !.broker = TRUE, !.idx = i].turn
      BY DEF NewHost
    <3> QED
      BY <1>4, <3>1, Zenon DEF ReserveSocket, PublishCodex
  <2>2. Fresh \in Hosts
    BY <1>4, FreshFound DEF ReserveSocket, PublishCodex
  <2> QED
    BY <1>1, <2>1, <2>2 DEF Set
<1>5. ASSUME NEW g, \/ \E x : Set(g, [hosts[g] EXCEPT !.pump = x])
                    \/ \E x : Set(g, [hosts[g] EXCEPT !.broker = x])
                    \/ Set(g, [hosts[g] EXCEPT !.turn = FALSE])
                    \/ \E x, y : Set(g, [hosts[g] EXCEPT !.asked = x, !.once = y])
                    \/ \E x, y : Set(g, [hosts[g] EXCEPT !.broker = x, !.once = y])
      PROVE  FALSE
  <2>1. ASSUME NEW row, Set(g, row), g \in Hosts => (row.turn => hosts[g].turn) PROVE FALSE
    BY <1>1, <2>1 DEF Set
  <2>2. ASSUME NEW x, Set(g, [hosts[g] EXCEPT !.pump = x]) PROVE FALSE
    <3>1. g \in Hosts => [hosts[g] EXCEPT !.pump = x].turn = hosts[g].turn
      BY <1>1 DEF HostRows
    <3> QED
      BY <2>1, <2>2, <3>1
  <2>3. ASSUME NEW x, Set(g, [hosts[g] EXCEPT !.broker = x]) PROVE FALSE
    <3>1. g \in Hosts => [hosts[g] EXCEPT !.broker = x].turn = hosts[g].turn
      BY <1>1 DEF HostRows
    <3> QED
      BY <2>1, <2>3, <3>1
  <2>4. ASSUME Set(g, [hosts[g] EXCEPT !.turn = FALSE]) PROVE FALSE
    <3>1. g \in Hosts => ~[hosts[g] EXCEPT !.turn = FALSE].turn
      BY <1>1 DEF HostRows
    <3> QED
      BY <2>1, <2>4, <3>1
  <2>5. ASSUME NEW x, NEW y, Set(g, [hosts[g] EXCEPT !.asked = x, !.once = y]) PROVE FALSE
    <3>1. g \in Hosts => [hosts[g] EXCEPT !.asked = x, !.once = y].turn = hosts[g].turn
      BY <1>1 DEF HostRows
    <3> QED
      BY <2>1, <2>5, <3>1
  <2>6. ASSUME NEW x, NEW y, Set(g, [hosts[g] EXCEPT !.broker = x, !.once = y]) PROVE FALSE
    <3>1. g \in Hosts => [hosts[g] EXCEPT !.broker = x, !.once = y].turn = hosts[g].turn
      BY <1>1 DEF HostRows
    <3> QED
      BY <2>1, <2>6, <3>1
  <2> QED
    BY <1>5, <2>2, <2>3, <2>4, <2>5, <2>6, Zenon
<1>6. ASSUME NEW b \in Actors, PublishClaude(b) \/ TeardownClaude(b) \/ Dispose(b) PROVE FALSE
  <2>1. \/ UNCHANGED hosts
        \/ \E x : Set(H(b), [hosts[H(b)] EXCEPT !.pump = x])
        \/ \E x : Set(H(b), [hosts[H(b)] EXCEPT !.broker = x])
        \/ \E x, y : Set(H(b), [hosts[H(b)] EXCEPT !.asked = x, !.once = y])
        \/ \E x, y : Set(H(b), [hosts[H(b)] EXCEPT !.broker = x, !.once = y])
    BY <1>6, Zenon DEF PublishClaude, TeardownClaude, Dispose
  <2> QED
    BY <1>5, <2>1, Zenon
<1>7. ASSUME NEW g \in Hosts, PumpEnds(g) \/ PumpSticks(g) \/ TurnEnds(g) PROVE FALSE
  BY <1>5, <1>7, Zenon DEF PumpEnds, PumpSticks, TurnEnds
<1>8. CASE Snapshot \/ Finalize
  BY <1>1, <1>8 DEF Snapshot, Finalize, HostRows
<1> QED
  BY <1>2, <1>4, <1>6, <1>7, <1>8 DEF Next, Request, StartSession, SendMessage, RemoveSession, EndOrNew, Step,
     AcceptStart, CommitStart, RejectStart, BeginSend, SettleSend, ReadHost, BeginEnd, CheckBusy, Quiesce, TakeClaude,
     TeardownCodex, FinishEnd, BeginReset, FinishReset, Tombstone, ReleaseSlot, Provider, ReaperWakes, Shutdown,
     RefuseWork, Collect, vars

LEMMA EndRefusedStep == Inv /\ [Next]_vars => EndRefusedWhileBusy'
<1> SUFFICES ASSUME TypeOK, Rows, HostsNamed, Starts, Tokens, Room, EndRefusedWhileBusy, [Next]_vars,
                    NEW a \in Actors, flow'[a].pc = "teardown", ByUser(flow'[a].op), flow'[a].w \in Codex,
                    flow'[a].h # NoHost
             PROVE  ~hosts'[flow'[a].h].turn
  BY DEF Inv, EndRefusedWhileBusy, W, H
<1>1. flow[a].h = flow'[a].h /\ flow[a].w = flow'[a].w /\ flow[a].op = flow'[a].op /\ flow[a].h \in Hosts
      /\ flow[a].pc \in {"busy", "teardown"} /\ ~hosts[flow[a].h].turn
  <2>1. flow[a].h = flow'[a].h => flow[a].h \in Hosts
    BY DEF TypeOK, FlowRows
  <2>2. CASE flow'[a] = flow[a]
    BY <2>1, <2>2 DEF EndRefusedWhileBusy, W, H
  <2>3. CASE flow'[a] # flow[a]
    <3>1. CheckBusy(a) /\ To(a, "teardown")
      BY <2>3, Arrivals
    <3>2. flow[a].pc = "busy"
      BY <3>1 DEF CheckBusy, At
    <3>3. ~Return(a)
      BY <3>1, Moves DEF To, Nothing
    <3> QED
      BY <2>1, <3>1, <3>2, <3>3 DEF CheckBusy, To, Stays, H
  <2> QED
    BY <2>2, <2>3
<1>2. SUFFICES ASSUME hosts'[flow[a].h].turn PROVE FALSE
  BY <1>1
<1>3. PICK b \in Actors : /\ Holds(b) /\ H(b) = flow[a].h /\ W(b) = hosts[flow[a].h].w /\ flow'[b] # flow[b]
                          /\ flow[b].pc # "teardown"
  BY <1>1, <1>2, TurnBegins
<1>4. Holds(a) /\ W(a) = hosts[flow[a].h].w
  <2>1. flow[a].pc \in HoldingPcs /\ flow[a].op # "fallback"
    BY <1>1 DEF HoldingPcs, Ending, ByUser
  <2> QED
    BY <1>1, <2>1, Holding, Who DEF HostsNamed, H
<1>5. b = a
  BY <1>3, <1>4 DEF Tokens, Single
<1>6. hosts' = hosts
  <2>1. CheckBusy(a)
    BY <1>3, <1>5, Arrivals
  <2> QED
    BY <2>1 DEF CheckBusy
<1> QED
  BY <1>1, <1>2, <1>6

-----------------------------------------------------------------------------
LEMMA InvInit == Init => Inv
<1> SUFFICES ASSUME Init PROVE Inv
  OBVIOUS
<1>1. TypeOK
  BY TypeInit
<1>2. \A a \in Actors : flow[a] = Nothing
  BY DEF Init
<1>3. Rows
  BY <1>2 DEF Rows, Row
<1>4. HostsNamed
  BY <1>2, Who DEF Init, HostsNamed, H, Nothing
<1>5. \A a \in Actors : flow[a].pc = "idle"
  BY <1>2 DEF Nothing
<1>6. Starts
  BY <1>5 DEF Starts, StartOf, Launches, Launching
<1>7. Tokens
  <2>1. \A a \in Actors : ~Holds(a)
    BY <1>5 DEF Holds, Starting, Sending, Ending, Resetting
  <2>2. \A w \in WSIDs : life[w] \notin Passing
    BY DEF Init, Passing
  <2> QED
    BY <2>1, <2>2 DEF Tokens, Match, Single, Held
<1>8. Phased
  BY <1>2, Who DEF Init, Phased
<1>9. Room
  <2>1. Spawning = {}
    BY <1>5 DEF Spawning, At
  <2>2. Cardinality(Spawning) = 0 /\ IsFiniteSet(Unused)
    BY <2>1, FS_EmptySet, ActorsFinite, FS_Subset DEF Unused
  <2> QED
    BY <2>2, FS_CardinalityType DEF Room
<1>10. EndRefusedWhileBusy
  BY <1>5 DEF EndRefusedWhileBusy
<1> QED
  BY <1>1, <1>3, <1>4, <1>6, <1>7, <1>8, <1>9, <1>10 DEF Inv

LEMMA InvHolds == Spec => []Inv
<1>1. Inv /\ [Next]_vars => Inv'
  BY TypeOKStep, RowsStep, HostsNamedStep, StartsStep, TokensStep, PhasedStep, RoomStep, EndRefusedStep DEF Inv
<1> QED
  BY <1>1, InvInit, PTL DEF Spec

(* For any sessions, callers, hosts and sockets every variable keeps its type: *)
(* no flow of app.go works on a host or a session that does not exist.         *)
THEOREM TypeHolds == Spec => []TypeOK
<1>1. Inv => TypeOK
  BY DEF Inv
<1> QED
  BY <1>1, InvHolds, PTL

(* In whatever order bindings, reapers and shutdown interleave, a slot in      *)
(* passage has exactly one flow that will settle it, and that flow finds the   *)
(* slot where it left it: no Accept, Reject or Finish call presents a stale    *)
(* token.                                                                      *)
THEOREM TokensCurrentHolds == Spec => []TokensCurrent
<1>1. Inv => TokensCurrent
  <2> SUFFICES ASSUME TypeOK, Rows, Tokens, NEW w \in WSIDs
               PROVE  /\ \A a \in Holders(w) : life[w] = PlaceOf(flow[a].pc)
                      /\ Cardinality(Holders(w)) = IF life[w] \in Passing THEN 1 ELSE 0
    BY DEF Inv, TokensCurrent
  <2>1. \A a \in Holders(w) : life[w] = PlaceOf(flow[a].pc) /\ life[w] \in Passing
    BY PlacePasses DEF Holders, Tokens, Match
  <2>2. CASE life[w] \in Passing
    <3> PICK a \in Actors : Holds(a) /\ W(a) = w
      BY <2>2 DEF Tokens, Held
    <3>1. Holders(w) = {a}
      BY DEF Holders, Tokens, Single
    <3> QED
      BY <2>1, <2>2, <3>1, FS_Singleton
  <2>3. CASE life[w] \notin Passing
    <3>1. Holders(w) = {}
      BY <2>1, <2>3
    <3> QED
      BY <2>1, <2>3, <3>1, FS_EmptySet
  <2> QED
    BY <2>2, <2>3
<1> QED
  BY <1>1, InvHolds, PTL

(* No user's end, new conversation or removal tears a Codex host down over a   *)
(* turn in flight, although EndSessionFlow and newSession read the host before *)
(* they take the slot.                                                         *)
THEOREM EndRefusedWhileBusyHolds == Spec => []EndRefusedWhileBusy
<1>1. Inv => EndRefusedWhileBusy
  BY DEF Inv
<1> QED
  BY <1>1, InvHolds, PTL
=============================================================================
