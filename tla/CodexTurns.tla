----------------------------- MODULE CodexTurns -----------------------------
(***************************************************************************)
(* Sessions that share one app-server connection: starting a thread,       *)
(* running turns on it and taking it down (app.go, internal/codex/turns.go *)
(* and rpc.go), and the two answers to "whose frame is this": the route of *)
(* a frame to a session, and its place in the wire log's segments          *)
(* (app.go, internal/wirelog/segments.go).                                 *)
(*                                                                         *)
(* Each session has one caller, who starts it, sends to it and ends it;    *)
(* the callers, the connection's read loop, the goroutines of approval     *)
(* requests and the server run concurrently.  A call's number is also the  *)
(* id of the thread or the turn it creates.                                *)
(***************************************************************************)
EXTENDS Naturals, Sequences, FiniteSets, Functions

CONSTANTS Sessions,    \* the sessions (WSIDs)
          MaxCalls,    \* bound: thread and turn calls made
          MaxTimeouts, \* bound: calls that time out
          MaxItems     \* bound: items and approval requests of all turns

ASSUME BoundsAssumption ==
    MaxCalls \in Nat \ {0} /\ MaxTimeouts \in Nat /\ MaxItems \in Nat

None == "none"
ASSUME NoneAssumption == None \notin Sessions

Ids == 1..MaxCalls

VARIABLES
    call,     \* the calls made, in order: session, method and thread
    late,     \* calls whose caller gave up
    c2s,      \* calls on their way to the server
    s2c,      \* frames on their way to the application
    running,  \* server: per thread the turn that runs on it, 0 if none
    items,    \* server: items said so far
    pc,       \* per session: where its caller stands
    answer,   \* per session: what the call it waits for has got
    host,     \* per session: its published host, with its runner
    thread,   \* per session: the thread its caller works with, 0 if none
    kept,     \* per session: the thread to resume, 0 if none
    starting, \* codexStartMu's holder, whose start is the one registered as pending
    threadW,  \* codexThreadWSID
    turnW,    \* codexTurnWSID
    reqW,     \* wireReqWSID: whose a call is, until its response inherits it
    rd,       \* the read loop: the frame in hand, how far it is, whose it was found to be
    asks,     \* approval requests whose goroutine has not looked for the session yet
    open,     \* wireOpenSegs: sessions with an open segment
    overlap,  \* wireOverlap of each session's segment
    mixed,    \* sessions whose range has got a frame of another whose range was open too
    crossed   \* history: sessions whose range was open with one released before it began, or after

vars == <<call, late, c2s, s2c, running, items, pc, answer, host, thread, kept, starting,
          threadW, turnW, reqW, rd, asks, open, overlap, mixed, crossed>>
server == <<running, items>>
routes == <<threadW, turnW>>
segments == <<open, overlap, mixed, crossed>>
mine == <<answer, thread, kept>>

NoHost == [on |-> FALSE, thread |-> 0, pending |-> FALSE, active |-> 0, early |-> {}]
NoFrame == [kind |-> "none", id |-> 0, thread |-> 0]
Idle == [pc |-> "idle", frame |-> NoFrame, to |-> None]

Owner(th) == call[th].w

(* codexFrameIdentity: the turn a frame names, 0 if none. *)
TurnOf(f) == IF f.kind \in {"turnStarted", "item", "approval", "turnCompleted"} THEN f.id ELSE 0

(* deviation: the pending start is asked first *)
WSIDFor_PendingFirst(th, tu) ==
    IF starting # None THEN starting
    ELSE IF tu # 0 /\ turnW[tu] # None THEN turnW[tu]
    ELSE IF th # 0 /\ threadW[th] # None THEN threadW[th]
    ELSE None

(* codexWSIDFor: by turn, by thread, then the one start that is pending, for a *)
(* frame that names a thread or a turn at all.                                 *)
WSIDFor(th, tu) ==
    IF tu # 0 /\ turnW[tu] # None THEN turnW[tu]
    ELSE IF th # 0 /\ threadW[th] # None THEN threadW[th]
    ELSE IF th # 0 \/ tu # 0 THEN starting
    ELSE None

(* Segments released already, the ends of their ranges still to be read. *)
Ranging == {v \in Sessions : pc[v] = "range"}

(* Generation.Line numbers a frame found to be w's: it falls into every range  *)
(* whose end has not been read, and it is foreign to all of them but w's own.  *)
Numbered(w) == LET ranges == open \cup Ranging
               IN mixed' = mixed \cup (IF w \in ranges THEN ranges \ {w} ELSE {})

(* A range that begins finds those of Ranging registered no more.              *)
Crossing(w) == crossed' = (crossed \ {w}) \cup (IF Ranging # {} THEN Ranging \cup {w} ELSE {})

-----------------------------------------------------------------------------
(* The callers. *)

(* Conn.call and send: the frame is recorded, which remembers whose call it is *)
(* (a thread/start, which names nothing, belongs to the pending start), and    *)
(* written.                                                                    *)
Call(w, kind, th) ==
    /\ Len(call) < MaxCalls
    /\ LET id == Len(call) + 1
           whose == IF kind = "start" THEN starting ELSE WSIDFor(th, 0)
       IN /\ call' = Append(call, [w |-> w, kind |-> kind, thread |-> IF kind = "start" THEN id ELSE th])
          /\ c2s' = Append(c2s, id)
          /\ reqW' = [reqW EXCEPT ![id] = whose]
          /\ Numbered(whose)
    /\ answer' = [answer EXCEPT ![w] = "awaited"]

(* The last call made by w: the one it waits for. *)
CallOf(w) == CHOOSE id \in 1..Len(call) :
              call[id].w = w /\ \A j \in id + 1 .. Len(call) : call[j].w # w

GivesUp(w) ==
    /\ Cardinality(late) < MaxTimeouts
    /\ late' = late \cup {CallOf(w)}

(* deviation: only the newcomer's segment is marked *)
BeginSegment_MarksNew(w) ==
    /\ pc[w] = "idle"
    /\ overlap' = [overlap EXCEPT ![w] = open # {}]
    /\ open' = open \cup {w}
    /\ mixed' = mixed \ {w} /\ Crossing(w)
    /\ pc' = [pc EXCEPT ![w] = "lock"]
    /\ UNCHANGED <<call, late, c2s, s2c, server, mine, host, starting, routes, reqW, rd, asks>>

(* startCodexHost, beginWireSegment: the new segment and every open one are    *)
(* marked as overlapping.                                                      *)
BeginSegment(w) ==
    /\ pc[w] = "idle"
    /\ overlap' = [v \in Sessions |-> IF v = w THEN open # {} ELSE overlap[v] \/ v \in open]
    /\ open' = open \cup {w}
    /\ mixed' = mixed \ {w} /\ Crossing(w)
    /\ pc' = [pc EXCEPT ![w] = "lock"]
    /\ UNCHANGED <<call, late, c2s, s2c, server, mine, host, starting, routes, reqW, rd, asks>>

(* codexStartMu and beginCodexPendingStart, then EnsureThread's call. *)
BeginPending(w) ==
    /\ pc[w] = "lock" /\ starting = None
    /\ starting' = w
    /\ pc' = [pc EXCEPT ![w] = "ensure"]
    /\ UNCHANGED <<call, late, c2s, s2c, server, mine, host, routes, reqW, rd, asks, segments>>

EnsureThread(w) ==
    /\ pc[w] = "ensure"
    /\ \/ Call(w, "start", 0)
       \/ kept[w] # 0 /\ Call(w, "resume", kept[w])
    /\ pc' = [pc EXCEPT ![w] = "thread"]
    /\ UNCHANGED <<late, s2c, server, host, thread, kept, starting, routes, rd, asks, open, overlap, crossed>>

(* publishCodexHost: host and thread become known in one step. *)
Publish(w) ==
    /\ pc[w] = "thread" /\ answer[w] = "ok"
    /\ LET th == call[CallOf(w)].thread
       IN /\ host' = [host EXCEPT ![w] = [NoHost EXCEPT !.on = TRUE, !.thread = th]]
          /\ threadW' = [threadW EXCEPT ![th] = w]
          /\ thread' = [thread EXCEPT ![w] = th]
    /\ pc' = [pc EXCEPT ![w] = "published"]
    /\ UNCHANGED <<call, late, c2s, s2c, server, answer, kept, starting, turnW, reqW, rd, asks, segments>>

(* The thread call times out: the segment is closed, then the pending start.   *)
NoThread(w) ==
    /\ pc[w] = "thread" /\ GivesUp(w)
    /\ pc' = [pc EXCEPT ![w] = "release"]
    /\ UNCHANGED <<call, c2s, s2c, server, mine, host, starting, routes, reqW, rd, asks, segments>>

(* endCodexPendingStart, and codexStartMu is free. *)
EndPending(w) ==
    /\ pc[w] \in {"published", "unpend"}
    /\ starting' = None
    /\ pc' = [pc EXCEPT ![w] = IF @ = "published" THEN "turn" ELSE "idle"]
    /\ UNCHANGED <<call, late, c2s, s2c, server, mine, host, routes, reqW, rd, asks, segments>>

(* StartTurn, the first of a start and those of SendMessage: ErrTurnActive     *)
(* while the runner is pending or has an active turn.                          *)
StartTurn(w) ==
    /\ pc[w] \in {"turn", "active"}
    /\ ~host[w].pending /\ host[w].active = 0
    /\ Call(w, "turn", host[w].thread)
    /\ host' = [host EXCEPT ![w].pending = TRUE]
    /\ pc' = [pc EXCEPT ![w] = IF @ = "turn" THEN "first" ELSE "next"]
    /\ UNCHANGED <<late, s2c, server, thread, kept, starting, routes, rd, asks, open, overlap, crossed>>

(* deviation: a completion that came first is not looked for *)
TurnStarted_NoLatch(w) ==
    /\ pc[w] \in {"first", "next"} /\ answer[w] = "ok"
    /\ host' = [host EXCEPT ![w].pending = FALSE, ![w].active = CallOf(w)]
    /\ kept' = [kept EXCEPT ![w] = thread[w]]
    /\ pc' = [pc EXCEPT ![w] = "active"]
    /\ UNCHANGED <<call, late, c2s, s2c, server, answer, thread, starting, routes, reqW, rd, asks, segments>>

(* The response of turn/start.  A completion that came first is set off        *)
(* against it.  With the first turn the session is accepted, and its thread    *)
(* becomes the one to resume.                                                  *)
TurnStarted(w) ==
    /\ pc[w] \in {"first", "next"} /\ answer[w] = "ok"
    /\ host' = [host EXCEPT ![w].pending = FALSE,
                            ![w].early = @ \ {CallOf(w)},
                            ![w].active = IF CallOf(w) \in host[w].early THEN 0 ELSE CallOf(w)]
    /\ kept' = [kept EXCEPT ![w] = thread[w]]
    /\ pc' = [pc EXCEPT ![w] = "active"]
    /\ UNCHANGED <<call, late, c2s, s2c, server, answer, thread, starting, routes, reqW, rd, asks, segments>>

(* turn/start is refused or times out: a start is rolled back, a message is    *)
(* rejected and the session goes on.                                           *)
TurnFails(w) ==
    /\ pc[w] \in {"first", "next"}
    /\ \/ answer[w] = "refused" /\ UNCHANGED late
       \/ GivesUp(w)
    /\ host' = [host EXCEPT ![w].pending = FALSE]
    /\ pc' = [pc EXCEPT ![w] = IF @ = "first" THEN "take" ELSE "active"]
    /\ UNCHANGED <<call, c2s, s2c, server, mine, starting, routes, reqW, rd, asks, segments>>

(* deviation: the busy check is left out *)
EndSession_Busy(w) ==
    /\ pc[w] = "active"
    /\ pc' = [pc EXCEPT ![w] = "take"]
    /\ UNCHANGED <<call, late, c2s, s2c, server, mine, host, starting, routes, reqW, rd, asks, segments>>

(* EndSession: refused (ErrProviderBusy) while the runner has an active turn.  *)
EndSession(w) ==
    /\ pc[w] = "active" /\ host[w].active = 0
    /\ pc' = [pc EXCEPT ![w] = "take"]
    /\ UNCHANGED <<call, late, c2s, s2c, server, mine, host, starting, routes, reqW, rd, asks, segments>>

(* codexTeardown, and the roll back of a start: take the host, forget its      *)
(* routes, close its segment.                                                  *)
TakeHost(w) ==
    /\ pc[w] = "take"
    /\ host' = [host EXCEPT ![w] = NoHost]
    /\ pc' = [pc EXCEPT ![w] = "forget"]
    /\ UNCHANGED <<call, late, c2s, s2c, server, mine, starting, routes, reqW, rd, asks, segments>>

ForgetRouting(w) ==
    /\ pc[w] = "forget"
    /\ threadW' = [threadW EXCEPT ![thread[w]] = IF @ = w THEN None ELSE @]
    /\ turnW' = [tu \in Ids |-> IF turnW[tu] = w THEN None ELSE turnW[tu]]
    /\ pc' = [pc EXCEPT ![w] = "release"]
    /\ UNCHANGED <<call, late, c2s, s2c, server, mine, host, starting, reqW, rd, asks, segments>>

(* closeWireSegment: the segment leaves the open ones and its overlap is read; *)
(* after that the end of its range is read and the row is written.             *)
ReleaseSegment(w) ==
    /\ pc[w] = "release"
    /\ open' = open \ {w}
    /\ pc' = [pc EXCEPT ![w] = "range"]
    /\ UNCHANGED <<call, late, c2s, s2c, server, mine, host, starting, routes, reqW, rd, asks, overlap, mixed, crossed>>

CloseSegment(w) ==
    /\ pc[w] = "range"
    /\ pc' = [pc EXCEPT ![w] = IF starting = w THEN "unpend" ELSE "idle"]
    /\ thread' = [thread EXCEPT ![w] = 0]
    /\ UNCHANGED <<call, late, c2s, s2c, server, answer, kept, host, starting, routes, reqW, rd, asks, segments>>

-----------------------------------------------------------------------------
(* The read loop: every frame is recorded first and dispatched then. *)

(* resolveWireFrameWSID: a response is whose its call was, once; anything else *)
(* is looked up by what it names.                                              *)
Resolved(f) == IF f.kind \in {"ok", "refused"} THEN reqW[f.id] ELSE WSIDFor(f.thread, TurnOf(f))

Record ==
    /\ rd.pc = "idle" /\ s2c # <<>>
    /\ rd' = [pc |-> "recorded", frame |-> Head(s2c), to |-> None]
    /\ s2c' = Tail(s2c)
    /\ Numbered(Resolved(Head(s2c)))
    /\ reqW' = IF Head(s2c).kind \in {"ok", "refused"} THEN [reqW EXCEPT ![Head(s2c).id] = None] ELSE reqW
    /\ UNCHANGED <<call, late, c2s, server, pc, mine, host, starting, routes, asks, open, overlap, crossed>>

Notification(f) == f.kind \in {"threadStarted", "turnStarted", "item", "turnCompleted"}

(* A notification is attributed, or fails loud and is dropped. *)
Route ==
    /\ rd.pc = "recorded" /\ Notification(rd.frame)
    /\ LET w == WSIDFor(rd.frame.thread, TurnOf(rd.frame))
       IN rd' = IF w = None THEN Idle ELSE [rd EXCEPT !.pc = "routed", !.to = w]
    /\ UNCHANGED <<call, late, c2s, s2c, server, pc, mine, host, starting, routes, reqW, asks, segments>>

(* The runner remembers the turn when it still waits for the response of       *)
(* turn/start, and lets go of its active turn when it is this one.             *)
NoteTurnEnded(r, tu) ==
    [r EXCEPT !.early = IF r.pending /\ r.active = 0 THEN @ \cup {tu} ELSE @,
              !.active = IF @ = tu THEN 0 ELSE @]

(* dispatchCodexNotification: turn/started binds the turn; turn/completed      *)
(* tells the runner, if the session has a published host, and unbinds.         *)
Dispatch ==
    /\ rd.pc = "routed"
    /\ rd' = Idle
    /\ LET w == rd.to  tu == TurnOf(rd.frame)  r == host[rd.to]
       IN CASE rd.frame.kind = "turnStarted" ->
                 turnW' = [turnW EXCEPT ![tu] = w] /\ UNCHANGED host
            [] rd.frame.kind = "turnCompleted" ->
                 /\ turnW' = [turnW EXCEPT ![tu] = None]
                 /\ host' = IF r.on THEN [host EXCEPT ![w] = NoteTurnEnded(r, tu)] ELSE host
            [] OTHER -> UNCHANGED <<turnW, host>>
    /\ UNCHANGED <<call, late, c2s, s2c, server, pc, mine, starting, threadW, reqW, asks, segments>>

(* A response reaches its caller if the caller still waits for it. *)
Respond ==
    /\ rd.pc = "recorded" /\ rd.frame.kind \in {"ok", "refused"}
    /\ rd' = Idle
    /\ answer' = IF rd.frame.id \in late THEN answer
                 ELSE [answer EXCEPT ![call[rd.frame.id].w] = rd.frame.kind]
    /\ UNCHANGED <<call, late, c2s, s2c, server, pc, host, thread, kept, starting, routes, reqW, asks, segments>>

(* A request of the server gets a goroutine of its own. *)
HandOver ==
    /\ rd.pc = "recorded" /\ rd.frame.kind = "approval"
    /\ rd' = Idle
    /\ asks' = asks \cup {rd.frame}
    /\ UNCHANGED <<call, late, c2s, s2c, server, pc, mine, host, starting, routes, reqW, segments>>

(* codexApproval: the dialog of the session found by then, or a decline.  The  *)
(* answer is not modelled here.                                                *)
Ask ==
    /\ \E f \in asks : asks' = asks \ {f}
    /\ UNCHANGED <<call, late, c2s, s2c, server, pc, mine, host, starting, routes, reqW, rd, segments>>

-----------------------------------------------------------------------------
(* The server. *)

Frame(kind, id, th) == [kind |-> kind, id |-> id, thread |-> th]

(* Calls are served in order, and a notification may come before or after the  *)
(* response.  One turn runs on a thread.                                       *)
Serve ==
    /\ c2s # <<>>
    /\ c2s' = Tail(c2s)
    /\ LET id == Head(c2s)  th == call[id].thread  ok == Frame("ok", id, 0)
           Both(f) == s2c' = s2c \o <<ok, f>> \/ s2c' = s2c \o <<f, ok>>
       IN CASE call[id].kind = "start" -> Both(Frame("threadStarted", id, th)) /\ UNCHANGED running
            [] call[id].kind = "resume" -> s2c' = Append(s2c, ok) /\ UNCHANGED running
            [] call[id].kind = "turn" ->
                 IF running[th] # 0
                 THEN s2c' = Append(s2c, Frame("refused", id, 0)) /\ UNCHANGED running
                 ELSE Both(Frame("turnStarted", id, th)) /\ running' = [running EXCEPT ![th] = id]
    /\ UNCHANGED <<call, late, items, pc, mine, host, starting, routes, reqW, rd, asks, segments>>

(* A turn says something, with its thread or without, or asks for an approval. *)
Say ==
    /\ items < MaxItems
    /\ items' = items + 1
    /\ \E th \in Ids : running[th] # 0 /\
         \E f \in {Frame("item", running[th], th), Frame("item", running[th], 0),
                   Frame("approval", running[th], th)} : s2c' = Append(s2c, f)
    /\ UNCHANGED <<call, late, c2s, running, pc, mine, host, starting, routes, reqW, rd, asks, segments>>

Complete ==
    /\ \E th \in Ids : /\ running[th] # 0
                       /\ running' = [running EXCEPT ![th] = 0]
                       /\ s2c' = Append(s2c, Frame("turnCompleted", running[th], th))
    /\ UNCHANGED <<call, late, c2s, items, pc, mine, host, starting, routes, reqW, rd, asks, segments>>

-----------------------------------------------------------------------------
Init ==
    /\ call = <<>> /\ late = {} /\ c2s = <<>> /\ s2c = <<>>
    /\ running = [th \in Ids |-> 0] /\ items = 0
    /\ pc = [w \in Sessions |-> "idle"] /\ answer = [w \in Sessions |-> "awaited"]
    /\ host = [w \in Sessions |-> NoHost]
    /\ thread = [w \in Sessions |-> 0] /\ kept = [w \in Sessions |-> 0]
    /\ starting = None
    /\ threadW = [th \in Ids |-> None] /\ turnW = [tu \in Ids |-> None] /\ reqW = [id \in Ids |-> None]
    /\ rd = Idle /\ asks = {}
    /\ open = {} /\ overlap = [w \in Sessions |-> FALSE]
    /\ mixed = {} /\ crossed = {}

Caller(w) ==
    \/ BeginSegment(w) \/ BeginPending(w) \/ EnsureThread(w) \/ Publish(w) \/ NoThread(w) \/ EndPending(w)
    \/ StartTurn(w) \/ TurnStarted(w) \/ TurnFails(w) \/ EndSession(w)
    \/ TakeHost(w) \/ ForgetRouting(w) \/ ReleaseSegment(w) \/ CloseSegment(w)

ReadLoop == Record \/ Route \/ Dispatch \/ Respond \/ HandOver

Server == Serve \/ Say \/ Complete

Next == (\E w \in Sessions : Caller(w)) \/ ReadLoop \/ Ask \/ Server

Spec == Init /\ [][Next]_vars

-----------------------------------------------------------------------------
(* Properties. *)

(* A frame nothing leads from to its session: the session is not starting, and *)
(* its thread has no route, because the start failed or the session was taken  *)
(* down, or it names only a turn, and the call of the turn was given up.       *)
(* While a turn that was not given up is said to run or to end, its thread     *)
(* does have its route.                                                        *)
Unrouted(f) ==
    /\ starting # Owner(f.id)
    /\ \/ /\ threadW[call[f.id].thread] = None
          /\ f.kind \in {"threadStarted", "approval"} \/ f.id \in late
       \/ f.thread = 0 /\ f.id \in late

(* A given-up turn was bound by such a frame, to the session that was starting *)
(* then: the residue that codexWSIDFor's comment (app.go:8372) accepts.        *)
Residue(tu) == tu \in late /\ turnW[tu] \notin {None, Owner(tu)}

(* A frame goes to the session whose thread it is from, whatever is starting,  *)
(* running or ending beside it, and no frame of a session that is starting or  *)
(* up is dropped as one that belongs to nobody.  So every notification of a    *)
(* turn whose call was not given up does; excepted are the frames that nothing *)
(* leads from, and those of a given-up turn that one of them has bound.        *)
Mine(f, w) == w = Owner(f.id) \/ Residue(TurnOf(f)) \/ Unrouted(f)
RoutesOwn ==
    [][/\ rd.pc = "recorded" /\ Notification(rd.frame) /\ rd'.pc # "recorded" => Mine(rd.frame, rd'.to)
       /\ \A f \in asks \ asks' : Mine(f, WSIDFor(f.thread, TurnOf(f)))]_vars

(* A turn keeps its session busy no longer than it runs: when a runner has an  *)
(* active turn, the turn runs or its completion is still to be dispatched,     *)
(* also if the completion overtook the response of turn/start.                 *)
CompletedIsNotBusy ==
    \A w \in Sessions : LET tu == host[w].active IN
        tu # 0 => \/ running[call[tu].thread] = tu
                  \/ \E f \in Range(s2c) \cup {rd.frame} : f.kind = "turnCompleted" /\ f.id = tu

(* And no shorter: a turn that runs, and whose call was not given up, has a    *)
(* registered runner on its thread that waits for it or knows it, so that the  *)
(* session cannot be ended over it.                                            *)
TurnHasRunner ==
    \A th \in Ids : LET tu == running[th] IN
        tu # 0 /\ tu \notin late =>
            \E w \in Sessions : host[w].on /\ host[w].thread = th
                                  /\ (host[w].pending \/ host[w].active = tu)

(* A segment whose range has got a frame of a session whose range was open at  *)
(* the same time is marked as overlapping, on both sides, so that its row does *)
(* not say "exclusive".  Excepted are two ranges of which one was released,    *)
(* its end still to be read (app.go:7937 and 7941), when the other began: each *)
(* may hold frames of the other, and neither knows.                            *)
OverlapIsMarked == \A w \in mixed : overlap[w] \/ w \in crossed

=============================================================================
