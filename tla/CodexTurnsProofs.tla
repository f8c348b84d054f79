--------------------------- MODULE CodexTurnsProofs ---------------------------
(***************************************************************************)
(* What holds of CodexTurns for any sessions and any number of calls,      *)
(* timeouts and items: whose turn a runner knows and for how long, where a *)
(* frame goes, and which segments are marked.                              *)
(***************************************************************************)
EXTENDS CodexTurns, SequenceTheorems, TLAPS

Calls == [w : Sessions, kind : {"start", "resume", "turn"}, thread : Ids]
Kinds == {"none", "ok", "refused", "threadStarted", "turnStarted", "item", "approval", "turnCompleted"}
Frames == [kind : Kinds, id : Ids \cup {0}, thread : Ids \cup {0}]
Stations == {"idle", "lock", "ensure", "thread", "published", "unpend", "turn", "first", "next",
             "active", "take", "forget", "release", "range"}
Hosts == [on : BOOLEAN, thread : Ids \cup {0}, pending : BOOLEAN, active : Ids \cup {0}, early : SUBSET Ids]

Types ==
    /\ call \in Seq(Calls) /\ Len(call) <= MaxCalls /\ late \subseteq 1 .. Len(call)
    /\ c2s \in Seq(Ids) /\ Len(c2s) <= Len(call) /\ s2c \in Seq(Frames)
    /\ running \in [Ids -> Ids \cup {0}]
    /\ pc \in [Sessions -> Stations] /\ answer \in [Sessions -> {"awaited", "ok", "refused"}]
    /\ host \in [Sessions -> Hosts]
    /\ thread \in [Sessions -> Ids \cup {0}] /\ kept \in [Sessions -> Ids \cup {0}]
    /\ starting \in Sessions \cup {None}
    /\ threadW \in [Ids -> Sessions \cup {None}] /\ turnW \in [Ids -> Sessions \cup {None}]
    /\ rd \in [pc : {"idle", "recorded", "routed"}, frame : Frames, to : Sessions \cup {None}]
    /\ asks \subseteq Frames

\* The calls made, and those the server has taken: it takes them in their order.
Made == 1 .. Len(call)
Served == 1 .. Len(call) - Len(c2s)
InOrder == \A i \in 1 .. Len(c2s) : c2s[i] = Len(call) - Len(c2s) + i

\* A thread belongs to the session that made the call for it, and is used and routed for no other.
OwnThread(w, th) == th \in Made /\ call[th].w = w
Threads ==
    /\ \A i \in Made : OwnThread(call[i].w, call[i].thread)
    /\ \A w \in Sessions : /\ kept[w] # 0 => OwnThread(w, kept[w])
                           /\ thread[w] # 0 => OwnThread(w, thread[w])
    /\ \A th \in Ids : threadW[th] # None => OwnThread(threadW[th], th)

\* What the caller of a session can rely on at its stations.
Up == {"published", "turn", "first", "next", "active", "take"}
Awaiting == {"thread", "first", "next"}
Last(w, id) == id \in Made /\ call[id].w = w /\ \A j \in id + 1 .. Len(call) : call[j].w # w
Station(w) ==
    /\ pc[w] \notin Up => host[w] = NoHost
    /\ pc[w] \in Up => /\ host[w].on /\ host[w].thread = thread[w] /\ thread[w] # 0
                       /\ threadW[thread[w]] = w
    /\ host[w].pending <=> pc[w] \in {"first", "next"}
    /\ host[w].active # 0 => pc[w] = "active"
    /\ pc[w] \in Awaiting => Last(w, CallOf(w)) /\ CallOf(w) \notin late
    /\ pc[w] = "thread" => call[CallOf(w)].kind # "turn"
    /\ pc[w] \in {"first", "next"} => /\ call[CallOf(w)].kind = "turn"
                                      /\ call[CallOf(w)].thread = host[w].thread

\* A call that is on its way, or whose response is, is one its caller waits for.
Expected(id) ==
    LET w == call[id].w IN pc[w] \in Awaiting /\ CallOf(w) = id /\ answer[w] = "awaited"
Response(f) == f.kind \in {"ok", "refused"}
Reading == rd.pc = "recorded" /\ Response(rd.frame)
Responses ==
    /\ \A i \in 1 .. Len(c2s) : c2s[i] \notin late => Expected(c2s[i])
    /\ \A i \in 1 .. Len(s2c) : Response(s2c[i]) /\ s2c[i].id \notin late => Expected(s2c[i].id)
    /\ Reading /\ rd.frame.id \notin late => Expected(rd.frame.id)
    /\ \A i, j \in 1 .. Len(s2c) :
         Response(s2c[i]) /\ Response(s2c[j]) /\ s2c[i].id = s2c[j].id => i = j
    /\ Reading => \A i \in 1 .. Len(s2c) : Response(s2c[i]) => s2c[i].id # rd.frame.id

\* A frame is about a call the server has taken, and a turn on the thread of its call.
OfTurn(f) == f.kind \in {"turnStarted", "item", "approval", "turnCompleted"}
InFlight(f) == f \in Range(s2c) \/ f = rd.frame
FrameOK(f) ==
    /\ f.kind # "none" => f.id \in Served
    /\ f.kind = "threadStarted" => f.thread = call[f.id].thread
    /\ OfTurn(f) => /\ call[f.id].kind = "turn"
                    /\ f.thread = call[f.id].thread \/ (f.kind = "item" /\ f.thread = 0)
    /\ f.kind \in {"refused", "turnCompleted"} => running[call[f.id].thread] # f.id
FramesOK ==
    /\ \A i \in 1 .. Len(s2c) : FrameOK(s2c[i]) /\ s2c[i].kind # "none"
    /\ FrameOK(rd.frame) /\ (rd.pc = "idle" => rd.frame = NoFrame)
    /\ rd.pc = "routed" => Notification(rd.frame) /\ rd.to # None
    /\ \A f \in asks : f.kind = "approval" /\ f.thread # 0 /\ f.id \in Served /\ f.thread = call[f.id].thread
    /\ \A th \in Ids : running[th] # 0 =>
         running[th] \in Served /\ call[running[th]].thread = th /\ call[running[th]].kind = "turn"
    /\ \A tu \in Ids : turnW[tu] # None => tu \in Served
    /\ \A w \in Sessions : /\ host[w].early \subseteq {tu \in Served : running[call[tu].thread] # tu}
                           /\ pc[w] \in {"first", "next"} /\ answer[w] = "refused" =>
                                running[call[CallOf(w)].thread] # CallOf(w)

\* The turn a session's runner waits for or knows.
Current(w, tu) ==
    /\ tu \in Made /\ call[tu].w = w /\ tu \notin late
    /\ call[tu].kind = "turn" /\ call[tu].thread = host[w].thread
    /\ (pc[w] \in {"first", "next"} /\ tu = CallOf(w)) \/ host[w].active = tu

Ends(f, tu) == f.kind = "turnCompleted" /\ f.id = tu
Alive(tu) ==
    \/ running[call[tu].thread] = tu
    \/ \E i \in 1 .. Len(s2c) : Ends(s2c[i], tu)
    \/ Ends(rd.frame, tu)
Accepted(w, tu) ==
    \/ \E i \in 1 .. Len(s2c) : s2c[i].kind = "ok" /\ s2c[i].id = tu
    \/ rd.frame.kind = "ok" /\ rd.frame.id = tu
    \/ pc[w] \in {"first", "next"} /\ answer[w] = "ok"
    \/ host[w].active = tu

Turns ==
    /\ \A w \in Sessions : host[w].active # 0 => Current(w, host[w].active)
    /\ \A w \in Sessions, tu \in Ids : Current(w, tu) =>
         /\ turnW[tu] \in {None, w}
         /\ rd.pc = "routed" /\ OfTurn(rd.frame) /\ rd.frame.id = tu => rd.to = w
         /\ Accepted(w, tu) => Alive(tu) \/ (host[w].pending /\ tu \in host[w].early)
    /\ \A th \in Ids : running[th] # 0 /\ running[th] \notin late =>
         Current(call[running[th]].w, running[th])

\* The registered segments are those of the sessions that have begun one and not released it.
\* A segment beside whose range another was ever open is marked, or was crossed by it.
Ranges == open \cup Ranging
Marked ==
    /\ open = {w \in Sessions : pc[w] \notin {"idle", "range", "unpend"}}
    /\ overlap \in [Sessions -> BOOLEAN] /\ mixed \subseteq Sessions
    /\ \A v, w \in Ranges : v # w => overlap[v] \/ v \in crossed
    /\ OverlapIsMarked

\* The frames of a turn come after its start and before its end, which the read loop keeps;
\* of one that is refused, or whose end came first, there is none.
Starts(f, tu) == f.kind = "turnStarted" /\ f.id = tu
Over(tu) ==
    \/ \E w \in Sessions : tu \in host[w].early
    \/ \E w \in Sessions : pc[w] \in {"first", "next"} /\ answer[w] = "refused" /\ CallOf(w) = tu
    \/ \E i \in 1 .. Len(s2c) : s2c[i].kind = "refused" /\ s2c[i].id = tu
    \/ rd.frame.kind = "refused" /\ rd.frame.id = tu
Ordered ==
    /\ \A tu \in Ids : Over(tu) => /\ \A j \in 1 .. Len(s2c) : OfTurn(s2c[j]) => s2c[j].id # tu
                                   /\ OfTurn(rd.frame) => rd.frame.id # tu
    /\ \A i, j \in 1 .. Len(s2c) : i < j /\ OfTurn(s2c[j]) => ~Ends(s2c[i], s2c[j].id)
    /\ \A j \in 1 .. Len(s2c) : OfTurn(s2c[j]) => ~Ends(rd.frame, s2c[j].id)
Bound(tu) == turnW[tu] = call[tu].w
Begun ==
    /\ \A th \in Ids : LET tu == running[th] IN tu # 0 /\ tu \notin late =>
         Bound(tu) \/ Starts(rd.frame, tu) \/ \E i \in 1 .. Len(s2c) : Starts(s2c[i], tu)
    /\ \A j \in 1 .. Len(s2c) : s2c[j].kind \in {"item", "turnCompleted"} /\ s2c[j].id \notin late =>
         /\ Current(call[s2c[j].id].w, s2c[j].id)
         /\ Bound(s2c[j].id) \/ Starts(rd.frame, s2c[j].id) \/ \E i \in 1 .. j - 1 : Starts(s2c[i], s2c[j].id)
    /\ rd.frame.kind \in {"item", "turnCompleted"} /\ rd.frame.id \notin late =>
         Current(call[rd.frame.id].w, rd.frame.id) /\ Bound(rd.frame.id)

IInv ==
    /\ Types /\ InOrder /\ Threads /\ (\A w \in Sessions : Station(w))
    /\ Responses /\ FramesOK /\ Turns /\ Ordered /\ Begun

-----------------------------------------------------------------------------
(* Sequences. *)
LEMMA TwoMore ==
  ASSUME NEW S, NEW s \in Seq(S), NEW x \in S, NEW y \in S
  PROVE  /\ s \o <<x, y>> \in Seq(S) /\ Len(s \o <<x, y>>) = Len(s) + 2
         /\ \A i \in 1 .. Len(s) : (s \o <<x, y>>)[i] = s[i]
         /\ (s \o <<x, y>>)[Len(s) + 1] = x /\ (s \o <<x, y>>)[Len(s) + 2] = y
<1>1. <<x, y>> \in Seq(S) /\ Len(<<x, y>>) = 2 /\ <<x, y>>[1] = x /\ <<x, y>>[2] = y
  OBVIOUS
<1> QED
  BY <1>1, ConcatProperties

LEMMA OneMore ==
  ASSUME NEW S, NEW s \in Seq(S), NEW x \in S
  PROVE  /\ Append(s, x) \in Seq(S) /\ Len(Append(s, x)) = Len(s) + 1
         /\ \A i \in 1 .. Len(s) : Append(s, x)[i] = s[i]
         /\ Append(s, x)[Len(s) + 1] = x
BY AppendProperties

LEMMA OneLess ==
  ASSUME NEW S, NEW s \in Seq(S), s # <<>>
  PROVE  /\ Len(s) \in Nat \ {0} /\ Head(s) = s[1] /\ Head(s) \in S
         /\ Tail(s) \in Seq(S) /\ Len(Tail(s)) = Len(s) - 1
         /\ \A i \in 1 .. Len(s) - 1 : Tail(s)[i] = s[i + 1]
BY HeadTailProperties

LEMMA CallTyped ==
  ASSUME Types, NEW id \in Made
  PROVE  /\ call[id] \in Calls /\ call[id].w \in Sessions /\ call[id].thread \in Ids
         /\ call[id].kind \in {"start", "resume", "turn"} /\ id \in Ids
<1>1. call \in Seq(Calls) /\ id \in 1 .. Len(call) /\ Len(call) \in Nat /\ Len(call) <= MaxCalls
  BY DEF Types, Made
<1>2. call[id] \in Calls
  BY <1>1, ElementOfSeq
<1> QED
  BY <1>1, <1>2, BoundsAssumption DEF Calls, Ids

(* The last call of a session is the one it waits for. *)
LEMMA LastIsCallOf ==
  ASSUME Types, NEW w \in Sessions, NEW id, Last(w, id)
  PROVE  CallOf(w) = id
<1>1. Len(call) \in Nat
  BY DEF Types
<1>2. \A j \in Made : Last(w, j) => j = id
  BY <1>1 DEF Last, Made
<1>3. CallOf(w) = CHOOSE j \in Made : Last(w, j)
  BY DEF CallOf, Last, Made
<1> QED
  BY <1>2, <1>3 DEF Last

-----------------------------------------------------------------------------
(* A step in which the caller of w waits for no turn, before and after, and   *)
(* nothing else moves: frames and turns are not concerned.                    *)
Quiet(w) ==
    /\ UNCHANGED <<call, c2s, s2c, running, answer, rd, asks, kept>>
    /\ \A v \in Sessions \ {w} : pc'[v] = pc[v] /\ host'[v] = host[v] /\ thread'[v] = thread[v]
    /\ {pc[w], pc'[w]} \cap {"first", "next"} = {}
    /\ host[w].active = 0 /\ host'[w].active = 0 /\ host'[w].early \subseteq host[w].early
    /\ late \subseteq late' /\ late' \subseteq late \cup {CallOf(w)}
    /\ late' # late => pc[w] \in Awaiting
    /\ pc[w] \in Awaiting => CallOf(w) \in late' \/ answer[w] # "awaited"
    /\ thread'[w] # 0 => OwnThread(w, thread'[w])
    /\ \A th \in Ids : threadW'[th] # threadW[th] => OwnThread(w, th) /\ threadW'[th] \in {w, None}
    /\ \A tu \in Ids : turnW'[tu] # turnW[tu] => turnW[tu] = w /\ turnW'[tu] = None

LEMMA CallsStay ==
  ASSUME call' = call
  PROVE  /\ Made' = Made /\ \A v : CallOf(v)' = CallOf(v)
         /\ \A v, id : Last(v, id)' <=> Last(v, id)
         /\ \A v, th : OwnThread(v, th)' <=> OwnThread(v, th)
BY DEF Made, CallOf, Last, OwnThread

LEMMA QuietThreads == ASSUME IInv, Types', NEW w \in Sessions, Quiet(w) PROVE Threads'
<1>1. call' = call /\ kept' = kept /\ Made' = Made
  BY CallsStay DEF Quiet
<1>2. \A v \in Sessions : thread'[v] # 0 => OwnThread(v, thread'[v])
  BY DEF Quiet, IInv, Threads
<1>3. \A th \in Ids : threadW'[th] # None => OwnThread(threadW'[th], th)
  BY DEF Quiet, IInv, Threads
<1> QED
  BY <1>1, <1>2, <1>3, CallsStay DEF IInv, Threads, OwnThread

LEMMA QuietStation ==
  ASSUME IInv, Types', NEW w \in Sessions, Quiet(w), NEW v \in Sessions \ {w}
  PROVE  Station(v)'
<1>1. Station(v) /\ call' = call
  BY DEF IInv, Quiet
<1>2. pc'[v] = pc[v] /\ host'[v] = host[v] /\ thread'[v] = thread[v]
  BY DEF Quiet
<1>3. pc[v] \in Up => thread[v] \in Ids /\ OwnThread(v, thread[v]) /\ threadW[thread[v]] = v
  <2>1. thread[v] \in Ids \cup {0}
    BY DEF IInv, Types
  <2> QED
    BY <1>1, <2>1 DEF IInv, Threads, Station
<1>4. pc[v] \in Up => threadW'[thread[v]] = v
  BY <1>3 DEF Quiet, OwnThread
<1>5. pc[v] \in Awaiting => CallOf(v) \notin late'
  <2> SUFFICES ASSUME pc[v] \in Awaiting, CallOf(v) \in late' PROVE FALSE
    OBVIOUS
  <2>1. CallOf(v) = CallOf(w) /\ pc[w] \in Awaiting
    BY <1>1 DEF Quiet, Station
  <2>2. Last(v, CallOf(v)) /\ Last(w, CallOf(w))
    BY <2>1 DEF IInv, Station
  <2> QED
    BY <2>1, <2>2 DEF Last
<1> QED
  BY <1>1, <1>2, <1>4, <1>5, CallsStay DEF Station

(* A call on its way, or whose response is, was made. *)
LEMMA CallsKnown ==
  ASSUME IInv
  PROVE  /\ \A i \in 1 .. Len(c2s) : c2s[i] \in Made
         /\ \A i \in 1 .. Len(s2c) : s2c[i].id \in Served /\ s2c[i].id \in Made
         /\ rd.frame.kind # "none" => rd.frame.id \in Served /\ rd.frame.id \in Made
         /\ Reading => rd.frame.id \in Served /\ rd.frame.id \in Made
         /\ Served \subseteq Made /\ Made \subseteq Ids
<1>1. /\ Len(call) \in Nat /\ Len(c2s) \in Nat /\ Len(c2s) <= Len(call) /\ Served \subseteq Made
      /\ Made \subseteq Ids
  BY BoundsAssumption DEF IInv, Types, Made, Served, Ids
<1>2. \A i \in 1 .. Len(c2s) : c2s[i] \in Made
  BY <1>1 DEF IInv, InOrder, Made
<1>3. \A i \in 1 .. Len(s2c) : s2c[i].id \in Served
  BY DEF IInv, FramesOK, FrameOK
<1>4. rd.frame.kind # "none" => rd.frame.id \in Served
  BY DEF IInv, FramesOK, FrameOK
<1> QED
  BY <1>1, <1>2, <1>3, <1>4 DEF Reading, Response

LEMMA QuietResponses == ASSUME IInv, Types', NEW w \in Sessions, Quiet(w) PROVE Responses'
<1>1. UNCHANGED <<call, c2s, s2c, rd, answer>> /\ late \subseteq late'
  BY DEF Quiet
<1>2. ASSUME NEW id \in Made, id \notin late', Expected(id)
      PROVE  Expected(id)'
  <2>1. call[id].w \in Sessions
    BY CallTyped DEF IInv
  <2>2. call[id].w # w
    BY <1>2 DEF Expected, Quiet
  <2> QED
    BY <1>1, <1>2, <2>1, <2>2, CallsStay DEF Expected, Quiet
<1> QED
  BY <1>1, <1>2, CallsKnown DEF IInv, Responses, Reading, Response

LEMMA QuietFrames == ASSUME IInv, Types', NEW w \in Sessions, Quiet(w) PROVE FramesOK'
<1>1. /\ UNCHANGED <<call, c2s, s2c, running, answer, rd, asks>> /\ Served' = Served
      /\ Len(call) \in Nat /\ Len(c2s) \in Nat
  BY DEF Quiet, Served, IInv, Types
<1>2. \A f : FrameOK(f)' <=> FrameOK(f)
  BY <1>1 DEF FrameOK, OfTurn
<1>3. \A tu \in Ids : turnW'[tu] # None => tu \in Served
  BY DEF Quiet, IInv, FramesOK
<1>4. \A v \in Sessions : host'[v].early \subseteq host[v].early
  BY DEF Quiet
<1>5. \A v \in Sessions : pc'[v] \in {"first", "next"} => pc[v] \in {"first", "next"} /\ v # w
  BY DEF Quiet
<1>6. \A v \in Sessions : pc'[v] \in {"first", "next"} /\ answer[v] = "refused" =>
        running[call[CallOf(v)].thread] # CallOf(v)
  BY <1>5 DEF IInv, FramesOK
<1> QED
  BY <1>1, <1>2, <1>3, <1>4, <1>6, CallsStay DEF IInv, FramesOK

(* Whose turn is current stays, if the call is not given up. *)
LEMMA QuietCurrent ==
  ASSUME IInv, Types', NEW w \in Sessions, Quiet(w), NEW v \in Sessions, NEW tu \in Ids
  PROVE  /\ Current(v, tu)' => Current(v, tu) /\ v # w
         /\ Current(v, tu) /\ tu \notin late' => Current(v, tu)' /\ v # w
<1>1. call' = call /\ late \subseteq late' /\ Made' = Made /\ CallOf(v)' = CallOf(v)
  BY CallsStay DEF Quiet
<1>2. v # w => pc'[v] = pc[v] /\ host'[v] = host[v]
  BY DEF Quiet
<1>3. ~Current(w, tu) /\ ~Current(w, tu)'
  <2>1. tu # 0
    BY BoundsAssumption DEF Ids
  <2>2. pc[w] \notin {"first", "next"} /\ host[w].active # tu
    BY <2>1 DEF Quiet
  <2>3. pc'[w] \notin {"first", "next"} /\ host'[w].active # tu
    BY <2>1 DEF Quiet
  <2> QED
    BY <2>2, <2>3 DEF Current
<1> QED
  BY <1>1, <1>2, <1>3 DEF Current

LEMMA QuietTurns == ASSUME IInv, Types', NEW w \in Sessions, Quiet(w) PROVE Turns' /\ Begun'
<1>1. /\ UNCHANGED <<call, c2s, s2c, running, answer, rd>> /\ Made' = Made /\ late \subseteq late'
  BY CallsStay DEF Quiet
<1>2. ASSUME NEW v \in Sessions, host'[v].active # 0 PROVE host'[v].active = host[v].active /\ Current(v, host[v].active)'
  <2>1. v # w /\ host'[v] = host[v] /\ host[v].active \in Ids
    BY <1>2 DEF Quiet, IInv, Types, Hosts
  <2>2. Current(v, host[v].active) /\ pc[v] = "active" /\ host[v].active \notin late
    BY <1>2, <2>1 DEF IInv, Turns, Station, Current
  <2>3. host[v].active \notin late'
    <3> SUFFICES ASSUME host[v].active \in late' PROVE FALSE
      OBVIOUS
    <3>1. host[v].active = CallOf(w) /\ pc[w] \in Awaiting
      BY <2>2 DEF Quiet
    <3> QED
      BY <2>1, <2>2, <3>1 DEF Current, IInv, Station, Last
  <2> QED
    BY <2>1, <2>2, <2>3, QuietCurrent
<1>3. ASSUME NEW v \in Sessions, NEW tu \in Ids, Current(v, tu)'
      PROVE  /\ turnW'[tu] \in {None, v}
             /\ rd'.pc = "routed" /\ OfTurn(rd'.frame) /\ rd'.frame.id = tu => rd'.to = v
             /\ Accepted(v, tu)' => Alive(tu)' \/ (host'[v].pending /\ tu \in host'[v].early)
  <2>1. Current(v, tu) /\ v # w /\ pc'[v] = pc[v] /\ host'[v] = host[v]
    BY <1>3, QuietCurrent DEF Quiet
  <2>2. Accepted(v, tu)' <=> Accepted(v, tu)
    BY <1>1, <2>1 DEF Accepted
  <2>3. Alive(tu)' <=> Alive(tu)
    BY <1>1 DEF Alive, Ends
  <2>4. turnW'[tu] \in {turnW[tu], None}
    BY DEF Quiet
  <2> QED
    BY <1>1, <2>1, <2>2, <2>3, <2>4 DEF IInv, Turns
<1>4. ASSUME NEW tu \in Ids, tu \notin late', NEW v \in Sessions, v = call[tu].w, Current(v, tu)
      PROVE  Current(v, tu)' /\ (Bound(tu)' <=> Bound(tu))
  <2>1. Current(v, tu)' /\ v # w
    BY <1>4, QuietCurrent
  <2>2. turnW'[tu] # turnW[tu] => turnW[tu] = w /\ turnW'[tu] = None
    BY DEF Quiet
  <2>3. v # None
    BY NoneAssumption
  <2> QED
    BY <1>1, <1>4, <2>1, <2>2, <2>3 DEF Bound, IInv, Turns
<1>5. \A f : f.kind # "none" /\ FrameOK(f) => f.id \in Ids /\ call[f.id].w \in Sessions
  BY CallTyped DEF IInv, FrameOK, Served, Made, Types
<1>6. \A th \in Ids : running[th] # 0 => running[th] \in Ids /\ call[running[th]].w \in Sessions
  BY CallTyped DEF IInv, FramesOK, Served, Made, Types
<1>7. Turns'
  <2>1. \A th \in Ids : running[th] # 0 /\ running[th] \notin late' =>
          Current(call[running[th]].w, running[th])'
    BY <1>1, <1>4, <1>6 DEF IInv, Turns
  <2> QED
    BY <1>1, <1>2, <1>3, <2>1 DEF Turns
<1>8. Begun'
  <2>1. \A th \in Ids : LET tu == running[th] IN tu # 0 /\ tu \notin late' =>
          Bound(tu)' \/ Starts(rd.frame, tu) \/ \E i \in 1 .. Len(s2c) : Starts(s2c[i], tu)
    BY <1>1, <1>4, <1>6 DEF IInv, Turns, Begun
  <2>2. ASSUME NEW j \in 1 .. Len(s2c), s2c[j].kind \in {"item", "turnCompleted"}, s2c[j].id \notin late'
        PROVE  /\ Current(call[s2c[j].id].w, s2c[j].id)'
               /\ Bound(s2c[j].id)' \/ Starts(rd.frame, s2c[j].id)
                    \/ \E i \in 1 .. j - 1 : Starts(s2c[i], s2c[j].id)
    <3>1. s2c[j].id \in Ids /\ call[s2c[j].id].w \in Sessions
      BY <1>5, <2>2 DEF IInv, FramesOK
    <3> QED
      BY <1>1, <1>4, <2>2, <3>1 DEF IInv, Begun
  <2>3. ASSUME rd.frame.kind \in {"item", "turnCompleted"}, rd.frame.id \notin late'
        PROVE  Current(call[rd.frame.id].w, rd.frame.id)' /\ Bound(rd.frame.id)'
    <3>1. rd.frame.id \in Ids /\ call[rd.frame.id].w \in Sessions
      BY <1>5, <2>3 DEF IInv, FramesOK
    <3> QED
      BY <1>1, <1>4, <2>3, <3>1 DEF IInv, Begun
  <2> QED
    BY <1>1, <2>1, <2>2, <2>3 DEF Begun, Bound, Starts
<1> QED
  BY <1>7, <1>8

LEMMA QuietOrdered == ASSUME IInv, NEW w \in Sessions, Quiet(w) PROVE Ordered'
<1>1. UNCHANGED <<s2c, rd, answer, call>>
  BY DEF Quiet
<1>2. ASSUME NEW tu, Over(tu)' PROVE Over(tu)
  <2>1. \A v \in Sessions : tu \in host'[v].early => tu \in host[v].early
    BY DEF Quiet
  <2>2. \A v \in Sessions : pc'[v] \in {"first", "next"} => pc[v] \in {"first", "next"}
    BY DEF Quiet
  <2> QED
    BY <1>1, <1>2, <2>1, <2>2, CallsStay DEF Over
<1> QED
  BY <1>1, <1>2 DEF IInv, Ordered, OfTurn, Ends

LEMMA QuietKeeps ==
  ASSUME IInv, Types', NEW w \in Sessions, Quiet(w), Station(w)'
  PROVE  IInv'
<1>1. InOrder' /\ Ordered'
  BY QuietOrdered DEF IInv, InOrder, Quiet
<1>2. \A v \in Sessions : Station(v)'
  BY QuietStation
<1> QED
  BY <1>1, <1>2, QuietThreads, QuietResponses, QuietFrames, QuietTurns DEF IInv

(* The steps of a caller that waits for no turn. *)
LEMMA Ready ==
  ASSUME IInv, NEW w \in Sessions
  PROVE  /\ Types /\ Station(w) /\ w # None /\ 0 \notin Ids /\ host[w] \in Hosts /\ NoHost \in Hosts
         /\ \A v \in Sessions : v # None
BY BoundsAssumption, NoneAssumption DEF IInv, Types, Hosts, NoHost, Ids

LEMMA Moved ==
  ASSUME IInv, NEW w \in Sessions, NEW p \in Stations, pc' = [pc EXCEPT ![w] = p]
  PROVE  pc'[w] = p /\ pc' \in [Sessions -> Stations] /\ \A v \in Sessions \ {w} : pc'[v] = pc[v]
BY DEF IInv, Types

LEMMA Down == ASSUME IInv, NEW w \in Sessions, pc[w] \notin Up PROVE host[w] = NoHost
BY DEF IInv, Station

LEMMA BeginSegmentKeeps == ASSUME IInv, NEW w \in Sessions, BeginSegment(w) PROVE IInv'
<1> USE DEF server, mine, routes
<1>1. pc[w] = "idle" /\ pc' = [pc EXCEPT ![w] = "lock"] /\ pc'[w] = "lock" /\ host[w] = NoHost
  BY Moved, Down DEF BeginSegment, Stations, Up
<1>2. Types'
  BY <1>1, Ready DEF BeginSegment, Types, Stations
<1>3. Quiet(w)
  BY <1>1, Ready DEF BeginSegment, Quiet, Types, Awaiting, NoHost, IInv, Threads
<1>4. Station(w)'
  BY <1>1, Ready DEF BeginSegment, Station, Up, Awaiting, NoHost
<1> QED
  BY <1>2, <1>3, <1>4, QuietKeeps

LEMMA BeginPendingKeeps == ASSUME IInv, NEW w \in Sessions, BeginPending(w) PROVE IInv'
<1> USE DEF server, mine, routes, segments
<1>1. pc[w] = "lock" /\ pc' = [pc EXCEPT ![w] = "ensure"] /\ pc'[w] = "ensure" /\ host[w] = NoHost
  BY Moved, Down DEF BeginPending, Stations, Up
<1>2. Types'
  BY <1>1, Ready DEF BeginPending, Types, Stations
<1>3. Quiet(w)
  BY <1>1, Ready DEF BeginPending, Quiet, Types, Awaiting, NoHost, IInv, Threads
<1>4. Station(w)'
  BY <1>1, Ready DEF BeginPending, Station, Up, Awaiting, NoHost
<1> QED
  BY <1>2, <1>3, <1>4, QuietKeeps

LEMMA NewHost ==
  ASSUME NEW th \in Ids, NoHost \in Hosts
  PROVE  LET up == [NoHost EXCEPT !.on = TRUE, !.thread = th]
         IN up \in Hosts /\ up.on /\ up.thread = th /\ ~up.pending /\ up.active = 0 /\ up.early = {}
<1> DEFINE up == [NoHost EXCEPT !.on = TRUE, !.thread = th]
<1>1. up.on = TRUE /\ up.thread = th
  BY DEF NoHost
<1>2. up.pending = FALSE /\ up.active = 0 /\ up.early = {}
  BY DEF NoHost
<1>3. up \in Hosts
  BY DEF Hosts
<1> QED
  BY <1>1, <1>2, <1>3

LEMMA PublishKeeps == ASSUME IInv, NEW w \in Sessions, Publish(w) PROVE IInv'
<1> DEFINE th == call[CallOf(w)].thread
<1> USE DEF server, routes, segments
<1>1. /\ pc[w] = "thread" /\ pc' = [pc EXCEPT ![w] = "published"] /\ pc'[w] = "published"
      /\ host[w] = NoHost /\ answer[w] = "ok"
  BY Moved, Down DEF Publish, Stations, Up
<1>2. th \in Ids /\ OwnThread(w, th) /\ th # 0
  <2>1. Last(w, CallOf(w))
    BY <1>1, Ready DEF Station, Awaiting
  <2> QED
    BY <2>1, CallTyped, Ready DEF Last, IInv, Threads
<1> DEFINE up == [NoHost EXCEPT !.on = TRUE, !.thread = th]
<1>8. up \in Hosts /\ up.on /\ up.thread = th /\ ~up.pending /\ up.active = 0 /\ up.early = {}
  BY <1>2, NewHost, Ready
<1>3. /\ host' = [host EXCEPT ![w] = up] /\ host'[w] = up
      /\ threadW' = [threadW EXCEPT ![th] = w] /\ threadW'[th] = w
      /\ thread' = [thread EXCEPT ![w] = th] /\ thread'[w] = th
  BY <1>2, Ready DEF Publish, Types
<1> HIDE DEF th, up
<1>9. /\ host' \in [Sessions -> Hosts] /\ threadW' \in [Ids -> Sessions \cup {None}]
      /\ thread' \in [Sessions -> Ids \cup {0}] /\ pc' \in [Sessions -> Stations]
  <2>1. host' \in [Sessions -> Hosts]
    BY <1>3, <1>8, Ready DEF Types
  <2> QED
    BY <1>1, <1>2, <1>3, <2>1, Ready, Moved DEF Types, Stations
<1>4. Types'
  BY <1>9, Ready DEF Publish, Types
<1>5. Quiet(w)
  <2>1. \A v \in Sessions \ {w} : pc'[v] = pc[v] /\ host'[v] = host[v] /\ thread'[v] = thread[v]
    BY <1>1, <1>3, Ready DEF Types
  <2>2. \A t \in Ids : threadW'[t] # threadW[t] => OwnThread(w, t) /\ threadW'[t] \in {w, None}
    BY <1>2, <1>3, Ready DEF Types
  <2>3. UNCHANGED <<call, late, c2s, s2c, running, answer, rd, asks, kept, turnW>>
    BY DEF Publish
  <2>4. host[w].active = 0 /\ host'[w].active = 0 /\ host'[w].early \subseteq host[w].early
    BY <1>1, <1>3, <1>8 DEF NoHost
  <2> QED
    BY <1>1, <1>2, <1>3, <2>1, <2>2, <2>3, <2>4 DEF Quiet
<1>6. Station(w)'
  BY <1>1, <1>2, <1>3, <1>8, Ready DEF Station, Up, Awaiting
<1> QED
  BY <1>4, <1>5, <1>6, QuietKeeps

LEMMA NoThreadKeeps == ASSUME IInv, NEW w \in Sessions, NoThread(w) PROVE IInv'
<1> USE DEF server, mine, routes, segments
<1>1. /\ pc[w] = "thread" /\ pc' = [pc EXCEPT ![w] = "release"] /\ pc'[w] = "release"
      /\ host[w] = NoHost /\ late' = late \cup {CallOf(w)}
  BY Moved, Down DEF NoThread, GivesUp, Stations, Up
<1>2. CallOf(w) \in 1 .. Len(call)
  BY <1>1, Ready DEF Station, Awaiting, Last, Made
<1>3. Types'
  BY <1>1, <1>2, Ready DEF NoThread, Types, Stations
<1>4. Quiet(w)
  BY <1>1, Ready DEF NoThread, Quiet, Types, Awaiting, NoHost, IInv, Threads
<1>5. Station(w)'
  BY <1>1, Ready DEF NoThread, Station, Up, Awaiting, NoHost
<1> QED
  BY <1>3, <1>4, <1>5, QuietKeeps

LEMMA EndPendingKeeps == ASSUME IInv, NEW w \in Sessions, EndPending(w) PROVE IInv'
<1> USE DEF server, mine, routes, segments
<1> DEFINE p == IF pc[w] = "published" THEN "turn" ELSE "idle"
<1>1. /\ pc[w] \in {"published", "unpend"} /\ pc' = [pc EXCEPT ![w] = p] /\ pc'[w] = p
      /\ host' = host /\ thread' = thread /\ threadW' = threadW
  BY Moved DEF EndPending, Stations
<1>0. host[w].active = 0
  BY <1>1, Ready DEF Station
<1>2. Types'
  BY <1>1, Ready, Moved DEF EndPending, Types, Stations
<1>3. Quiet(w)
  BY <1>0, <1>1, Ready DEF EndPending, Quiet, Types, Awaiting, IInv, Threads
<1>4. Station(w)'
  BY <1>1, Ready DEF Station, Up, Awaiting
<1> QED
  BY <1>2, <1>3, <1>4, QuietKeeps

LEMMA EndSessionKeeps == ASSUME IInv, NEW w \in Sessions, EndSession(w) PROVE IInv'
<1> USE DEF server, mine, routes, segments
<1>1. /\ pc[w] = "active" /\ pc' = [pc EXCEPT ![w] = "take"] /\ pc'[w] = "take"
      /\ host[w].active = 0 /\ host' = host /\ thread' = thread /\ threadW' = threadW
  BY Ready DEF EndSession, Types
<1>2. Types'
  BY <1>1, Ready DEF EndSession, Types, Stations
<1>3. Quiet(w)
  BY <1>1, Ready DEF EndSession, Quiet, Types, Awaiting, IInv, Threads
<1>4. Station(w)'
  BY <1>1, Ready DEF Station, Up, Awaiting
<1> QED
  BY <1>2, <1>3, <1>4, QuietKeeps

LEMMA TakeHostKeeps == ASSUME IInv, NEW w \in Sessions, TakeHost(w) PROVE IInv'
<1> USE DEF server, mine, routes, segments
<1>1. /\ pc[w] = "take" /\ pc' = [pc EXCEPT ![w] = "forget"] /\ pc'[w] = "forget"
      /\ host[w].active = 0 /\ host' = [host EXCEPT ![w] = NoHost] /\ host'[w] = NoHost
  BY Ready DEF TakeHost, Types, Station
<1>2. Types'
  BY <1>1, Ready DEF TakeHost, Types, Stations
<1>3. Quiet(w)
  BY <1>1, Ready DEF TakeHost, Quiet, Types, Awaiting, NoHost, IInv, Threads
<1>4. Station(w)'
  BY <1>1, Ready DEF Station, Up, Awaiting, NoHost
<1> QED
  BY <1>2, <1>3, <1>4, QuietKeeps

LEMMA ForgetRoutingKeeps == ASSUME IInv, NEW w \in Sessions, ForgetRouting(w) PROVE IInv'
<1> USE DEF server, mine, segments
<1>1. /\ pc[w] = "forget" /\ pc' = [pc EXCEPT ![w] = "release"] /\ pc'[w] = "release"
      /\ host[w] = NoHost /\ host' = host
  BY Moved, Down DEF ForgetRouting, Stations, Up
<1>2. /\ threadW' = [threadW EXCEPT ![thread[w]] = IF @ = w THEN None ELSE @]
      /\ turnW' = [tu \in Ids |-> IF turnW[tu] = w THEN None ELSE turnW[tu]]
  BY DEF ForgetRouting
<1>3. threadW' \in [Ids -> Sessions \cup {None}] /\ turnW' \in [Ids -> Sessions \cup {None}]
  BY <1>2, Ready DEF Types
<1>4. Types'
  <2>1. pc' \in [Sessions -> Stations]
    BY <1>1, Moved DEF Stations
  <2> QED
    BY <1>3, <2>1, Ready DEF ForgetRouting, Types
<1>5. \A th \in Ids : threadW'[th] # threadW[th] => OwnThread(w, th) /\ threadW'[th] = None
  BY <1>2, Ready DEF Types, IInv, Threads
<1>6. \A tu \in Ids : turnW'[tu] # turnW[tu] => turnW[tu] = w /\ turnW'[tu] = None
  BY <1>2, Ready DEF Types
<1>7. Quiet(w)
  BY <1>1, <1>5, <1>6, Ready DEF ForgetRouting, Quiet, Types, Awaiting, NoHost, IInv, Threads
<1>8. Station(w)'
  BY <1>1, Ready DEF Station, Up, Awaiting, NoHost
<1> QED
  BY <1>4, <1>7, <1>8, QuietKeeps

LEMMA ReleaseSegmentKeeps == ASSUME IInv, NEW w \in Sessions, ReleaseSegment(w) PROVE IInv'
<1> USE DEF server, mine, routes
<1>1. pc[w] = "release" /\ pc' = [pc EXCEPT ![w] = "range"] /\ pc'[w] = "range" /\ host[w] = NoHost
  BY Moved, Down DEF ReleaseSegment, Stations, Up
<1>2. Types'
  BY <1>1, Ready, Moved DEF ReleaseSegment, Types, Stations
<1>3. Quiet(w)
  BY <1>1, Ready DEF ReleaseSegment, Quiet, Types, Awaiting, NoHost, IInv, Threads
<1>4. Station(w)'
  BY <1>1, Ready DEF ReleaseSegment, Station, Up, Awaiting, NoHost
<1> QED
  BY <1>2, <1>3, <1>4, QuietKeeps

LEMMA CloseSegmentKeeps == ASSUME IInv, NEW w \in Sessions, CloseSegment(w) PROVE IInv'
<1> DEFINE p == IF starting = w THEN "unpend" ELSE "idle"
<1> USE DEF server, routes, segments
<1>1. /\ pc[w] = "range" /\ pc' = [pc EXCEPT ![w] = p] /\ pc'[w] = p /\ host[w] = NoHost
      /\ thread' = [thread EXCEPT ![w] = 0] /\ host' = host
  BY Moved, Down DEF CloseSegment, Stations, Up
<1>2. Types'
  BY <1>1, Ready, Moved DEF CloseSegment, Types, Stations
<1>3. Quiet(w)
  BY <1>1, Ready DEF CloseSegment, Quiet, Types, Awaiting, NoHost
<1>4. Station(w)'
  BY <1>1, Ready DEF Station, Up, Awaiting, NoHost
<1> QED
  BY <1>2, <1>3, <1>4, QuietKeeps

-----------------------------------------------------------------------------
(* A call is made. *)
LEMMA LastUnique ==
  ASSUME NEW s, Len(s) \in Nat, NEW w, NEW id \in 1 .. Len(s),
         s[id].w = w, \A j \in id + 1 .. Len(s) : s[j].w # w
  PROVE  id = CHOOSE j \in 1 .. Len(s) : s[j].w = w /\ \A k \in j + 1 .. Len(s) : s[k].w # w
<1> DEFINE Q(j) == s[j].w = w /\ \A k \in j + 1 .. Len(s) : s[k].w # w
<1>1. \A j \in 1 .. Len(s) : Q(j) => j = id
  OBVIOUS
<1>2. Q(id)
  OBVIOUS
<1> HIDE DEF Q
<1>3. id = CHOOSE j \in 1 .. Len(s) : Q(j)
  BY <1>1, <1>2
<1> QED
  BY <1>3 DEF Q

NewId == Len(call) + 1
NewCall(w, kind, th) == [w |-> w, kind |-> kind, thread |-> IF kind = "start" THEN NewId ELSE th]

LEMMA CallGrows ==
  ASSUME IInv, NEW w \in Sessions, NEW kind \in {"start", "resume", "turn"}, NEW th,
         Call(w, kind, th), kind # "start" => th \in Ids
  PROVE  /\ NewId \in Ids /\ NewId \notin Made /\ Made' = Made \cup {NewId}
         /\ Served' = Served /\ Served \subseteq Made
         /\ \A i \in Made : call'[i] = call[i]
         /\ call'[NewId] = NewCall(w, kind, th) /\ NewCall(w, kind, th) \in Calls
         /\ call' \in Seq(Calls) /\ Len(call') <= MaxCalls /\ Len(call') = NewId
         /\ c2s' \in Seq(Ids) /\ Len(c2s') = Len(c2s) + 1 /\ Len(c2s') <= Len(call')
         /\ c2s'[Len(c2s) + 1] = NewId /\ \A i \in 1 .. Len(c2s) : c2s'[i] = c2s[i]
         /\ InOrder'
         /\ answer' \in [Sessions -> {"awaited", "ok", "refused"}] /\ answer'[w] = "awaited"
         /\ \A v \in Sessions \ {w} : answer'[v] = answer[v]
<1> DEFINE id == Len(call) + 1
           r == NewCall(w, kind, th)
<1>1. /\ Len(call) \in Nat /\ Len(c2s) \in Nat /\ Len(c2s) <= Len(call) /\ Len(call) < MaxCalls
      /\ call \in Seq(Calls) /\ c2s \in Seq(Ids) /\ MaxCalls \in Nat
  BY BoundsAssumption DEF Call, IInv, Types
<1>2. id \in Ids
  BY <1>1 DEF Ids
<1>3. call' = Append(call, r) /\ c2s' = Append(c2s, id) /\ answer' = [answer EXCEPT ![w] = "awaited"]
  BY DEF Call, NewCall, NewId
<1>4. r \in Calls
  BY <1>2 DEF Calls, NewCall, NewId
<1> HIDE DEF r
<1>5. /\ call' \in Seq(Calls) /\ Len(call') = Len(call) + 1 /\ call'[id] = r
      /\ \A i \in 1 .. Len(call) : call'[i] = call[i]
  BY <1>1, <1>3, <1>4, OneMore
<1>6. /\ c2s' \in Seq(Ids) /\ Len(c2s') = Len(c2s) + 1 /\ c2s'[Len(c2s) + 1] = id
      /\ \A i \in 1 .. Len(c2s) : c2s'[i] = c2s[i]
  BY <1>1, <1>2, <1>3, OneMore
<1>7. InOrder'
  <2>1. ASSUME NEW i \in 1 .. Len(c2s') PROVE c2s'[i] = Len(call') - Len(c2s') + i
    <3>1. CASE i = Len(c2s) + 1
      BY <1>1, <1>5, <1>6, <3>1
    <3>2. CASE i \in 1 .. Len(c2s)
      BY <1>1, <1>5, <1>6, <3>2 DEF IInv, InOrder
    <3> QED
      BY <1>1, <1>6, <3>1, <3>2
  <2> QED
    BY <2>1 DEF InOrder
<1>8. Made' = Made \cup {id} /\ id \notin Made /\ Served' = Served /\ Served \subseteq Made
  BY <1>1, <1>5, <1>6 DEF Made, Served
<1>9. /\ answer' \in [Sessions -> {"awaited", "ok", "refused"}] /\ answer'[w] = "awaited"
      /\ \A v \in Sessions \ {w} : answer'[v] = answer[v]
  BY <1>3 DEF IInv, Types
<1>10. Len(call') <= MaxCalls /\ Len(c2s') <= Len(call') /\ Made = 1 .. Len(call)
  BY <1>1, <1>5, <1>6 DEF Made
<1> QED
  BY <1>2, <1>4, <1>5, <1>6, <1>7, <1>8, <1>9, <1>10 DEF r, NewId

LEMMA CallOfGrows ==
  ASSUME IInv, NEW w \in Sessions, NEW kind \in {"start", "resume", "turn"}, NEW th,
         Call(w, kind, th), kind # "start" => th \in Ids
  PROVE  /\ Last(w, CallOf(w))' /\ CallOf(w)' = NewId
         /\ \A v \in Sessions \ {w} : Last(v, CallOf(v)) => Last(v, CallOf(v))' /\ CallOf(v)' = CallOf(v)
<1> DEFINE id == Len(call) + 1
<1>0. NewCall(w, kind, th).w = w
  BY DEF NewCall
<1>1. /\ Len(call) \in Nat /\ Len(call') = id /\ Made' = Made \cup {id} /\ Made = 1 .. Len(call)
      /\ \A i \in Made : call'[i] = call[i]
      /\ call'[id].w = w
  BY <1>0, CallGrows DEF IInv, Types, Made, NewId
<1>2. Last(w, CallOf(w))' /\ CallOf(w)' = id
  <2>1. id \in 1 .. Len(call') /\ id + 1 .. Len(call') = {} /\ Len(call') \in Nat
    BY <1>1
  <2>2. CallOf(w)' = id
    BY <1>1, <2>1, LastUnique DEF CallOf
  <2> QED
    BY <1>1, <2>1, <2>2 DEF Last
<1>3. ASSUME NEW v \in Sessions \ {w}, Last(v, CallOf(v))
      PROVE  Last(v, CallOf(v))' /\ CallOf(v)' = CallOf(v)
  <2>1. PICK c : c = CallOf(v)
    OBVIOUS
  <2>2. c \in 1 .. Len(call) /\ call[c].w = v /\ \A j \in c + 1 .. Len(call) : call[j].w # v
    BY <1>1, <1>3, <2>1 DEF Last
  <2>3. /\ c \in 1 .. Len(call') /\ call'[c].w = v /\ Len(call') \in Nat
        /\ \A j \in c + 1 .. Len(call') : call'[j].w # v
    <3>1. c \in 1 .. Len(call') /\ call'[c].w = v /\ Len(call') \in Nat
      BY <1>1, <2>2
    <3>2. ASSUME NEW j \in c + 1 .. Len(call') PROVE call'[j].w # v
      <4>1. j = id \/ (j \in c + 1 .. Len(call) /\ j \in Made)
        BY <1>1, <2>2
      <4> QED
        BY <1>1, <2>2, <4>1
    <3> QED
      BY <3>1, <3>2
  <2>4. CallOf(v)' = c
    BY <2>3, LastUnique DEF CallOf
  <2> QED
    BY <2>1, <2>3, <2>4 DEF Last, Made
<1> QED
  BY <1>1, <1>2, <1>3 DEF NewId

(* A call is made by a caller who waited for none, and nothing else moves. *)
Calling(w, kind, th) ==
    /\ Call(w, kind, th) /\ kind \in {"start", "resume", "turn"} /\ (kind # "start" => OwnThread(w, th))
    /\ UNCHANGED <<late, s2c, running, rd, asks, kept, thread, threadW, turnW>>
    /\ \A v \in Sessions \ {w} : pc'[v] = pc[v] /\ host'[v] = host[v]
    /\ pc[w] \notin Awaiting /\ pc'[w] \in Awaiting /\ (pc'[w] \in {"first", "next"} => kind = "turn")
    /\ host[w].active = 0 /\ host'[w].active = 0 /\ host'[w].early = host[w].early
    /\ host'[w].thread = host[w].thread /\ (kind = "turn" => th = host[w].thread)

LEMMA CallingGrows ==
  ASSUME IInv, NEW w \in Sessions, NEW kind, NEW th, Calling(w, kind, th)
  PROVE  /\ NewId \in Ids /\ NewId \notin Made /\ Made' = Made \cup {NewId}
         /\ Served' = Served /\ Served \subseteq Made /\ InOrder'
         /\ \A i \in Made : call'[i] = call[i]
         /\ call'[NewId] = NewCall(w, kind, th)
         /\ call' \in Seq(Calls) /\ Len(call') <= MaxCalls /\ Len(call') = NewId
         /\ c2s' \in Seq(Ids) /\ Len(c2s') = Len(c2s) + 1 /\ Len(c2s') <= Len(call')
         /\ c2s'[Len(c2s) + 1] = NewId /\ \A i \in 1 .. Len(c2s) : c2s'[i] = c2s[i]
         /\ answer' \in [Sessions -> {"awaited", "ok", "refused"}] /\ answer'[w] = "awaited"
         /\ \A v \in Sessions \ {w} : answer'[v] = answer[v]
         /\ Last(w, CallOf(w))' /\ CallOf(w)' = NewId
         /\ \A v \in Sessions \ {w} : Last(v, CallOf(v)) => Last(v, CallOf(v))' /\ CallOf(v)' = CallOf(v)
         /\ NewId \notin late /\ late \subseteq Made /\ NewCall(w, kind, th).w = w
         /\ NewCall(w, kind, th).kind = kind
         /\ NewCall(w, kind, th).thread = IF kind = "start" THEN NewId ELSE th
<1>1. kind # "start" => th \in Ids
  BY CallTyped DEF Calling, OwnThread, IInv
<1>2. Len(call) \in Nat /\ late \subseteq 1 .. Len(call)
  BY DEF IInv, Types
<1>3. NewId \notin late /\ late \subseteq Made
  BY <1>2 DEF NewId, Made
<1>4. /\ NewCall(w, kind, th).w = w /\ NewCall(w, kind, th).kind = kind
      /\ NewCall(w, kind, th).thread = IF kind = "start" THEN NewId ELSE th
  BY DEF NewCall
<1> QED
  BY <1>1, <1>3, <1>4, CallGrows, CallOfGrows DEF Calling

LEMMA CallingThreads ==
  ASSUME IInv, NEW w \in Sessions, NEW kind, NEW th, Calling(w, kind, th)
  PROVE  Threads'
<1> DEFINE Own(v, t) == t \in Made' /\ call'[t].w = v
<1>1. \A v, t : OwnThread(v, t) => Own(v, t)
  BY CallingGrows DEF OwnThread
<1>2. Own(w, call'[NewId].thread) /\ call'[NewId].w = w
  <2>1. /\ call'[NewId].w = w /\ call'[NewId].thread = IF kind = "start" THEN NewId ELSE th
        /\ NewId \in Made'
    BY CallingGrows
  <2>2. kind # "start" => OwnThread(w, th)
    BY DEF Calling
  <2> QED
    BY <1>1, <2>1, <2>2
<1>3. \A i \in Made : Own(call[i].w, call[i].thread) /\ call'[i] = call[i]
  BY <1>1, CallingGrows DEF IInv, Threads
<1>4. \A i \in Made' : Own(call'[i].w, call'[i].thread)
  BY <1>2, <1>3, CallingGrows
<1>5. kept' = kept /\ thread' = thread /\ threadW' = threadW
  BY DEF Calling
<1>6. /\ \A v \in Sessions : (kept[v] # 0 => Own(v, kept[v])) /\ (thread[v] # 0 => Own(v, thread[v]))
      /\ \A t \in Ids : threadW[t] # None => Own(threadW[t], t)
  BY <1>1 DEF IInv, Threads
<1> QED
  BY <1>4, <1>5, <1>6 DEF Threads, OwnThread

LEMMA CallingStation ==
  ASSUME IInv, NEW w \in Sessions, NEW kind, NEW th, Calling(w, kind, th), NEW v \in Sessions \ {w}
  PROVE  Station(v)'
<1>1. Station(v)
  BY DEF IInv
<1>2. /\ pc'[v] = pc[v] /\ host'[v] = host[v] /\ thread'[v] = thread[v] /\ threadW' = threadW /\ late' = late
  BY DEF Calling
<1>3. pc[v] \in Awaiting =>
        /\ CallOf(v)' = CallOf(v) /\ Last(v, CallOf(v))' /\ call'[CallOf(v)] = call[CallOf(v)]
        /\ CallOf(v) \notin late
  BY <1>1, CallingGrows DEF Station, Last
<1> QED
  BY <1>1, <1>2, <1>3 DEF Station, Awaiting

LEMMA CallingResponses ==
  ASSUME IInv, NEW w \in Sessions, NEW kind, NEW th, Calling(w, kind, th)
  PROVE  Responses'
<1>1. UNCHANGED <<s2c, rd, late>> /\ Len(c2s) \in Nat /\ Len(call) \in Nat /\ Len(c2s) <= Len(call)
  BY DEF Calling, IInv, Types
<1>2. ASSUME NEW id \in Made, Expected(id)
      PROVE  Expected(id)'
  <2>1. PICK v \in Sessions : v = call[id].w
    BY CallTyped DEF IInv
  <2>2. v # w /\ pc[v] \in Awaiting /\ Last(v, CallOf(v)) /\ CallOf(v) = id /\ answer[v] = "awaited"
    BY <1>2, <2>1 DEF Expected, Calling, IInv, Station
  <2>3. call'[id] = call[id] /\ CallOf(v)' = id /\ answer'[v] = "awaited" /\ pc'[v] = pc[v]
    BY <2>2, CallingGrows DEF Calling
  <2> QED
    BY <2>1, <2>2, <2>3 DEF Expected, Awaiting
<1>3. PICK new : new = NewId
  OBVIOUS
<1>8. Expected(new)'
  <2>1. call'[new].w = w /\ CallOf(w)' = new /\ answer'[w] = "awaited" /\ pc'[w] \in Awaiting
    BY <1>3, CallingGrows DEF Calling
  <2> QED
    BY <2>1 DEF Expected, Awaiting
<1>4. /\ \A i \in 1 .. Len(s2c) : Response(s2c[i]) => s2c[i].id \in Made
      /\ Reading => rd.frame.id \in Made
  BY CallingGrows DEF IInv, FramesOK, FrameOK, Response, Reading
<1>5. \A i \in 1 .. Len(c2s) : c2s[i] \in Made
  BY <1>1 DEF IInv, InOrder, Made
<1>6. ASSUME NEW i \in 1 .. Len(c2s'), c2s'[i] \notin late'
      PROVE  Expected(c2s[i])'
  <2>1. c2s'[i] = new \/ (i \in 1 .. Len(c2s) /\ c2s'[i] = c2s[i])
    BY <1>1, <1>3, CallingGrows
  <2> QED
    BY <1>1, <1>2, <1>5, <1>6, <1>8, <2>1 DEF IInv, Responses
<1>7. \A i \in 1 .. Len(s2c) : Response(s2c[i]) /\ s2c[i].id \notin late => Expected(s2c[i].id)'
  BY <1>1, <1>2, <1>4 DEF IInv, Responses
<1>9. Reading /\ rd.frame.id \notin late => Expected(rd.frame.id)'
  BY <1>1, <1>2, <1>4 DEF IInv, Responses
<1> QED
  BY <1>1, <1>6, <1>7, <1>9 DEF IInv, Responses, Reading, Response

LEMMA CallingFrames ==
  ASSUME IInv, NEW w \in Sessions, NEW kind, NEW th, Calling(w, kind, th)
  PROVE  FramesOK'
<1>1. UNCHANGED <<s2c, rd, late, running, asks, turnW>> /\ Served' = Served /\ Served \subseteq Made
  BY CallingGrows DEF Calling
<1>2. \A id \in Served : call'[id] = call[id]
  BY CallingGrows
<1>3. \A f : FrameOK(f) => FrameOK(f)'
  <2> SUFFICES ASSUME NEW f, FrameOK(f) PROVE FrameOK(f)'
    OBVIOUS
  <2>1. f.kind # "none" => f.id \in Served /\ call'[f.id] = call[f.id]
    BY <1>2 DEF FrameOK
  <2> QED
    BY <1>1, <2>1 DEF FrameOK, OfTurn
<1>4. \A f \in asks : f.thread = call'[f.id].thread
  BY <1>2 DEF IInv, FramesOK
<1>5. \A t \in Ids : running[t] # 0 =>
        running[t] \in Served /\ call'[running[t]].thread = t /\ call'[running[t]].kind = "turn"
  BY <1>2 DEF IInv, FramesOK
<1>6. ASSUME NEW v \in Sessions
      PROVE  /\ host'[v].early \subseteq {tu \in Served : running[call'[tu].thread] # tu}
             /\ pc'[v] \in {"first", "next"} /\ answer'[v] = "refused" =>
                  running[call'[CallOf(v)'].thread] # CallOf(v)'
  <2>1. host'[v].early = host[v].early
    BY DEF Calling
  <2>2. host[v].early \subseteq {tu \in Served : running[call[tu].thread] # tu}
    BY DEF IInv, FramesOK
  <2>3. host'[v].early \subseteq {tu \in Served : running[call'[tu].thread] # tu}
    BY <1>2, <2>1, <2>2
  <2>4. ASSUME pc'[v] \in {"first", "next"}, answer'[v] = "refused"
        PROVE  running[call'[CallOf(v)'].thread] # CallOf(v)'
    <3>1. v # w /\ pc'[v] = pc[v] /\ answer'[v] = answer[v]
      BY <2>4, CallingGrows DEF Calling
    <3>2. Last(v, CallOf(v)) /\ running[call[CallOf(v)].thread] # CallOf(v)
      BY <2>4, <3>1 DEF IInv, FramesOK, Station, Awaiting
    <3>3. CallOf(v)' = CallOf(v) /\ call'[CallOf(v)] = call[CallOf(v)]
      BY <3>1, <3>2, CallingGrows DEF Last
    <3> QED
      BY <3>2, <3>3
  <2> QED
    BY <2>3, <2>4
<1> QED
  BY <1>1, <1>3, <1>4, <1>5, <1>6 DEF IInv, FramesOK

LEMMA CallingCurrent ==
  ASSUME IInv, NEW w \in Sessions, NEW kind, NEW th, Calling(w, kind, th),
         NEW v \in Sessions, NEW tu \in Ids
  PROVE  /\ Current(v, tu) => v # w /\ tu \in Made /\ Current(v, tu)'
         /\ Current(v, tu)' => (v # w /\ Current(v, tu)) \/ (v = w /\ tu = NewId /\ pc'[w] \in {"first", "next"})
<1>1. late' = late /\ tu # 0
  BY BoundsAssumption DEF Calling, Ids
<1>2. ~Current(w, tu)
  BY <1>1 DEF Current, Calling, Awaiting
<1>3. Current(w, tu)' => tu = NewId /\ pc'[w] \in {"first", "next"}
  BY <1>1, CallingGrows DEF Current, Calling
<1>4. ASSUME v # w
      PROVE  Current(v, tu)' <=> Current(v, tu)
  <2>1. pc'[v] = pc[v] /\ host'[v] = host[v]
    BY <1>4 DEF Calling
  <2>2. pc[v] \in {"first", "next"} => CallOf(v)' = CallOf(v)
    BY <1>4, CallingGrows DEF IInv, Station, Awaiting
  <2>3. tu \in Made => tu \in Made' /\ call'[tu] = call[tu]
    BY CallingGrows
  <2>4. tu \in Made' /\ call'[tu].w = v => tu \in Made
    BY <1>4, CallingGrows
  <2> QED
    BY <1>1, <2>1, <2>2, <2>3, <2>4 DEF Current
<1> QED
  BY <1>2, <1>3, <1>4 DEF Current

LEMMA CallingTurns ==
  ASSUME IInv, NEW w \in Sessions, NEW kind, NEW th, Calling(w, kind, th)
  PROVE  Turns' /\ Begun'
<1>1. /\ UNCHANGED <<s2c, rd, late, running, turnW>> /\ Served \subseteq Made /\ 0 \notin Ids /\ Made \subseteq Ids
      /\ NewId \notin Served /\ NewId # 0
  <2>1. UNCHANGED <<s2c, rd, late, running, turnW>>
    BY DEF Calling
  <2>2. Made \subseteq Ids /\ 0 \notin Ids
    BY BoundsAssumption DEF Ids, IInv, Types, Made
  <2>3. Served \subseteq Made /\ NewId \notin Made /\ NewId \in Ids
    BY CallingGrows
  <2> QED
    BY <2>1, <2>2, <2>3
<1>2. ASSUME NEW tu \in Made
      PROVE  /\ call'[tu] = call[tu] /\ call[tu].w \in Sessions /\ (Alive(tu)' <=> Alive(tu)) /\ (Bound(tu)' <=> Bound(tu))
             /\ \A v : v = call[tu].w /\ Current(v, tu) => Current(v, tu)'
  <2>1. call'[tu] = call[tu] /\ call[tu].w \in Sessions /\ tu \in Ids
    BY <1>1, CallingGrows, CallTyped DEF IInv
  <2>2. (Alive(tu)' <=> Alive(tu)) /\ (Bound(tu)' <=> Bound(tu))
    BY <1>1, <2>1 DEF Alive, Bound, Ends
  <2>3. ASSUME NEW v, v = call[tu].w, Current(v, tu)
        PROVE  Current(v, tu)'
    BY <2>1, <2>3, CallingCurrent
  <2> QED
    BY <2>1, <2>2, <2>3
<1>3. ASSUME NEW v \in Sessions, host'[v].active # 0 PROVE Current(v, host[v].active)'
  <2>1. v # w /\ host'[v] = host[v] /\ host[v].active \in Ids
    BY <1>3 DEF Calling, IInv, Types, Hosts
  <2>2. PICK a \in Ids : a = host[v].active
    BY <2>1
  <2>3. Current(v, a)
    BY <1>3, <2>1, <2>2 DEF IInv, Turns
  <2>4. Current(v, a)'
    BY <2>3, CallingCurrent
  <2> QED
    BY <2>1, <2>2, <2>4
<1>5. ASSUME NEW v \in Sessions, NEW tu \in Ids, Current(v, tu)'
      PROVE  /\ turnW[tu] \in {None, v}
             /\ rd.pc = "routed" /\ OfTurn(rd.frame) /\ rd.frame.id = tu => rd.to = v
             /\ Accepted(v, tu)' => Alive(tu)' \/ (host'[v].pending /\ tu \in host'[v].early)
  <2>1. CASE v # w
    <3>1. Current(v, tu) /\ tu \in Made /\ host'[v] = host[v] /\ pc'[v] = pc[v]
      BY <1>5, <2>1, CallingCurrent DEF Calling
    <3>2. pc[v] \in {"first", "next"} => answer'[v] = answer[v]
      BY <2>1, CallingGrows
    <3>3. Accepted(v, tu)' <=> Accepted(v, tu)
      BY <1>1, <3>1, <3>2 DEF Accepted
    <3> QED
      BY <1>1, <1>2, <3>1, <3>3 DEF IInv, Turns
  <2>2. CASE v = w
    <3>1. tu = NewId
      BY <1>5, <2>2, CallingCurrent
    <3>2. turnW[tu] = None
      BY <1>1, <3>1 DEF IInv, FramesOK
    <3>3. \A f : FrameOK(f) /\ f.kind # "none" => f.id # tu
      BY <1>1, <3>1 DEF FrameOK
    <3>4. \A i \in 1 .. Len(s2c) : s2c[i].id # tu
      BY <3>3 DEF IInv, FramesOK
    <3>5. FrameOK(rd.frame)
      BY DEF IInv, FramesOK
    <3>6. ~Accepted(v, tu)'
      <4>1. host'[v].active = 0 /\ answer'[v] = "awaited" /\ tu # 0
        BY <1>1, <2>2, <3>1, CallingGrows DEF Calling
      <4> QED
        BY <1>1, <3>3, <3>4, <3>5, <4>1 DEF Accepted
    <3> QED
      BY <3>2, <3>3, <3>5, <3>6 DEF OfTurn
  <2> QED
    BY <2>1, <2>2
<1>6. \A t \in Ids : running[t] # 0 => running[t] \in Made
  BY <1>1 DEF IInv, FramesOK
<1>7. Turns'
  <2>1. ASSUME NEW t \in Ids, running[t] # 0, running[t] \notin late
        PROVE  Current(call[running[t]].w, running[t])'
    <3>1. PICK tu \in Made, v \in Sessions : tu = running[t] /\ v = call[tu].w
      BY <1>2, <1>6, <2>1
    <3>2. Current(v, tu)' /\ call'[tu].w = v
      BY <1>2, <2>1, <3>1 DEF IInv, Turns
    <3> QED
      BY <1>1, <3>1, <3>2
  <2> QED
    BY <1>1, <1>3, <1>5, <2>1 DEF Turns
<1>8. Begun'
  <2>1. ASSUME NEW t \in Ids, running[t] # 0, running[t] \notin late
        PROVE  \/ Bound(running[t])' \/ Starts(rd.frame, running[t])
               \/ \E i \in 1 .. Len(s2c) : Starts(s2c[i], running[t])
    <3>1. PICK tu \in Made : tu = running[t]
      BY <1>6, <2>1
    <3>2. Bound(tu)' <=> Bound(tu)
      BY <1>2
    <3> QED
      BY <1>1, <2>1, <3>1, <3>2 DEF IInv, Begun
  <2>2. \A f : FrameOK(f) /\ f.kind # "none" => f.id \in Made
    BY <1>1 DEF FrameOK
  <2>3. ASSUME NEW j \in 1 .. Len(s2c), s2c[j].kind \in {"item", "turnCompleted"}, s2c[j].id \notin late
        PROVE  /\ Current(call[s2c[j].id].w, s2c[j].id)'
               /\ Bound(s2c[j].id)' \/ Starts(rd.frame, s2c[j].id)
                    \/ \E i \in 1 .. j - 1 : Starts(s2c[i], s2c[j].id)
    <3>1. PICK tu \in Made, v \in Sessions : tu = s2c[j].id /\ v = call[tu].w
      BY <1>2, <2>2 DEF IInv, FramesOK
    <3>2. /\ Current(v, tu)
          /\ Bound(tu) \/ Starts(rd.frame, tu) \/ \E i \in 1 .. j - 1 : Starts(s2c[i], tu)
      BY <2>3, <3>1 DEF IInv, Begun
    <3>3. Current(v, tu)' /\ call'[tu].w = v /\ (Bound(tu)' <=> Bound(tu))
      BY <1>2, <3>1, <3>2
    <3> QED
      BY <1>1, <3>1, <3>2, <3>3
  <2>4. ASSUME rd.frame.kind \in {"item", "turnCompleted"}, rd.frame.id \notin late
        PROVE  Current(call[rd.frame.id].w, rd.frame.id)' /\ Bound(rd.frame.id)'
    <3>1. PICK tu \in Made, v \in Sessions : tu = rd.frame.id /\ v = call[tu].w
      BY <1>2, <2>2, <2>4 DEF IInv, FramesOK
    <3>2. Current(v, tu) /\ Bound(tu)
      BY <2>4, <3>1 DEF IInv, Begun
    <3>3. Current(v, tu)' /\ call'[tu].w = v /\ Bound(tu)'
      BY <1>2, <3>1, <3>2
    <3> QED
      BY <1>1, <3>1, <3>3
  <2> QED
    BY <1>1, <2>1, <2>3, <2>4 DEF Begun, Bound, Starts
<1> QED
  BY <1>7, <1>8

LEMMA CallingOrdered ==
  ASSUME IInv, NEW w \in Sessions, NEW kind, NEW th, Calling(w, kind, th)
  PROVE  Ordered'
<1>1. UNCHANGED <<s2c, rd>>
  BY DEF Calling
<1>2. ASSUME NEW tu, Over(tu)' PROVE Over(tu)
  <2>1. \A v \in Sessions : tu \in host'[v].early => tu \in host[v].early
    BY DEF Calling
  <2>2. ASSUME NEW v \in Sessions, pc'[v] \in {"first", "next"}, answer'[v] = "refused", CallOf(v)' = tu
        PROVE  pc[v] \in {"first", "next"} /\ answer[v] = "refused" /\ CallOf(v) = tu
    <3>1. v # w /\ answer[v] = "refused" /\ pc[v] \in {"first", "next"}
      BY <2>2, CallingGrows DEF Calling
    <3> QED
      BY <2>2, <3>1, CallingGrows DEF IInv, Station, Awaiting
  <2> QED
    BY <1>1, <1>2, <2>1, <2>2 DEF Over
<1> QED
  BY <1>1, <1>2 DEF IInv, Ordered, OfTurn, Ends

LEMMA CallingKeeps ==
  ASSUME IInv, Types', NEW w \in Sessions, NEW kind, NEW th, Calling(w, kind, th), Station(w)'
  PROVE  IInv'
<1>1. Ordered'
  BY CallingOrdered
<1>2. \A v \in Sessions : Station(v)'
  BY CallingStation
<1> QED
  BY <1>1, <1>2, CallingGrows, CallingThreads, CallingResponses, CallingFrames, CallingTurns DEF IInv

LEMMA EnsureThreadKeeps == ASSUME IInv, NEW w \in Sessions, EnsureThread(w) PROVE IInv'
<1> USE DEF server, routes
<1>1. /\ pc[w] = "ensure" /\ pc' = [pc EXCEPT ![w] = "thread"] /\ pc'[w] = "thread"
      /\ pc' \in [Sessions -> Stations] /\ \A v \in Sessions \ {w} : pc'[v] = pc[v]
      /\ host[w] = NoHost /\ host' = host
  BY Moved, Down DEF EnsureThread, Stations, Up
<1>2. PICK kind \in {"start", "resume"}, th \in {0, kept[w]} :
        Call(w, kind, th) /\ (kind # "start" => th = kept[w] /\ kept[w] # 0)
  BY DEF EnsureThread
<1>3. kind # "start" => OwnThread(w, th)
  BY <1>2 DEF IInv, Threads
<1>4. UNCHANGED <<late, s2c, running, rd, asks, kept, thread, threadW, turnW, starting>>
  BY DEF EnsureThread
<1>5. Calling(w, kind, th)
  BY <1>1, <1>2, <1>3, <1>4 DEF Calling, Awaiting, NoHost
<1>6. Types'
  BY <1>1, <1>4, <1>5, CallingGrows, Ready DEF Types, Made
<1>7. Station(w)'
  <2>1. PICK id : id = NewId
    OBVIOUS
  <2>2. CallOf(w)' = id /\ id \notin late /\ call'[id].kind = kind /\ Last(w, CallOf(w))'
    BY <1>5, <2>1, CallingGrows
  <2> QED
    BY <1>1, <1>4, <2>2 DEF Station, Up, Awaiting, NoHost
<1> QED
  BY <1>5, <1>6, <1>7, CallingKeeps

LEMMA StartTurnKeeps == ASSUME IInv, NEW w \in Sessions, StartTurn(w) PROVE IInv'
<1> USE DEF server, routes
<1> DEFINE p == IF pc[w] = "turn" THEN "first" ELSE "next"
           th == host[w].thread
<1>1. /\ pc[w] \in {"turn", "active"} /\ pc' = [pc EXCEPT ![w] = p] /\ pc'[w] = p
      /\ pc' \in [Sessions -> Stations] /\ \A v \in Sessions \ {w} : pc'[v] = pc[v]
  BY Moved DEF StartTurn, Stations
<1>2. /\ host[w].on /\ host[w].thread = thread[w] /\ thread[w] # 0 /\ threadW[thread[w]] = w
      /\ host[w].active = 0
  BY <1>1, Ready DEF Station, Up, StartTurn
<1>3. Call(w, "turn", th) /\ OwnThread(w, th)
  BY <1>2 DEF StartTurn, IInv, Threads
<1>4. UNCHANGED <<late, s2c, running, rd, asks, kept, thread, threadW, turnW, starting>>
  BY DEF StartTurn
<1>5. /\ host' = [host EXCEPT ![w] = [host[w] EXCEPT !.pending = TRUE]]
      /\ host \in [Sessions -> Hosts]
  BY Ready DEF StartTurn, Types
<1>6. /\ host'[w] = [host[w] EXCEPT !.pending = TRUE] /\ \A v \in Sessions \ {w} : host'[v] = host[v]
  BY <1>5
<1>7. /\ host'[w].pending = TRUE /\ host'[w].on = host[w].on /\ host'[w].thread = th
      /\ host'[w].active = 0 /\ host'[w].early = host[w].early /\ host'[w] \in Hosts
  <2>1. PICK h \in Hosts : h = host[w] /\ h.active = 0
    BY <1>2, Ready
  <2> DEFINE g == [h EXCEPT !.pending = TRUE]
  <2>2. /\ g.pending = TRUE /\ g.on = h.on /\ g.thread = h.thread /\ g.active = h.active /\ g.early = h.early
        /\ g \in Hosts
    BY DEF Hosts
  <2>3. host'[w] = g
    BY <1>6, <2>1
  <2> QED
    BY <2>1, <2>2, <2>3
<1>8. host' \in [Sessions -> Hosts]
  BY <1>5, <1>7
<1> HIDE DEF th
<1>9. Calling(w, "turn", th)
  BY <1>1, <1>2, <1>3, <1>4, <1>6, <1>7 DEF Calling, Awaiting, th
<1>10. Types'
  <2>1. late \subseteq 1 .. Len(call')
    BY <1>9, CallingGrows DEF Made
  <2>2. /\ call' \in Seq(Calls) /\ Len(call') <= MaxCalls /\ c2s' \in Seq(Ids) /\ Len(c2s') <= Len(call')
        /\ answer' \in [Sessions -> {"awaited", "ok", "refused"}]
    BY <1>9, CallingGrows
  <2> QED
    BY <1>1, <1>4, <1>8, <2>1, <2>2, Ready DEF Types
<1>11. Station(w)'
  <2>1. PICK id : id = NewId
    OBVIOUS
  <2>2. /\ CallOf(w)' = id /\ id \notin late /\ Last(w, CallOf(w))'
        /\ call'[id].kind = "turn" /\ call'[id].thread = th
    BY <1>9, <2>1, CallingGrows
  <2> QED
    BY <1>1, <1>2, <1>4, <1>7, <2>2 DEF Station, Up, Awaiting, th
<1> QED
  BY <1>9, <1>10, <1>11, CallingKeeps

-----------------------------------------------------------------------------
(* The caller of w stops waiting for a turn: it knows the turn then, or the   *)
(* call was given up or refused, or the turn has ended already.               *)
Settles(w) ==
    /\ UNCHANGED <<call, c2s, s2c, running, answer, rd, asks, thread, threadW, turnW, starting>>
    /\ \A v \in Sessions \ {w} : pc'[v] = pc[v] /\ host'[v] = host[v] /\ kept'[v] = kept[v]
    /\ pc[w] \in {"first", "next"} /\ pc'[w] \in {"active", "take"}
    /\ host'[w].on = host[w].on /\ host'[w].thread = host[w].thread
    /\ host'[w].pending = FALSE /\ host'[w].early \subseteq host[w].early
    /\ late \subseteq late' /\ late' \subseteq late \cup {CallOf(w)}
    /\ CallOf(w) \in late' \/ answer[w] # "awaited"
    /\ \/ host'[w].active = CallOf(w) /\ answer[w] = "ok" /\ CallOf(w) \notin host[w].early /\ pc'[w] = "active"
          /\ late' = late
       \/ host'[w].active = 0 /\ (CallOf(w) \in late' \/ answer[w] = "refused" \/ CallOf(w) \in host[w].early)
    /\ kept'[w] \in {kept[w], thread[w]}

LEMMA Waits ==
  ASSUME IInv, NEW w \in Sessions, pc[w] \in {"first", "next"}
  PROVE  /\ CallOf(w) \in Made /\ CallOf(w) \in Ids /\ call[CallOf(w)].w = w /\ CallOf(w) \notin late
         /\ call[CallOf(w)].kind = "turn" /\ call[CallOf(w)].thread = host[w].thread
         /\ host[w].active = 0 /\ host[w].pending = TRUE /\ host[w].on /\ Current(w, CallOf(w))
<1>1. Station(w) /\ 0 \notin Ids
  BY Ready
<1>2. /\ Last(w, CallOf(w)) /\ CallOf(w) \notin late /\ call[CallOf(w)].kind = "turn"
      /\ call[CallOf(w)].thread = host[w].thread /\ host[w].active = 0 /\ host[w].pending /\ host[w].on
  BY <1>1 DEF Station, Awaiting, Up
<1>3. CallOf(w) \in Ids
  BY <1>2, CallTyped DEF IInv, Last
<1>4. host[w].pending = TRUE
  BY <1>2, Ready DEF Hosts
<1> QED
  BY <1>2, <1>3, <1>4 DEF Last, Current

LEMMA SettlesCurrent ==
  ASSUME IInv, NEW w \in Sessions, Settles(w), NEW v \in Sessions, NEW tu \in Ids
  PROVE  /\ Current(v, tu)' => Current(v, tu) /\ (v = w => tu = CallOf(w) /\ host'[w].active = tu)
         /\ Current(v, tu) /\ tu \notin late' /\ ~Over(tu) => Current(v, tu)'
         /\ Current(v, tu) /\ tu \notin late' /\ (v = w => host'[w].active = tu) => Current(v, tu)'
<1>1. call' = call /\ late \subseteq late' /\ Made' = Made /\ CallOf(v)' = CallOf(v)
  BY CallsStay DEF Settles
<1>2. v # w => pc'[v] = pc[v] /\ host'[v] = host[v]
  BY DEF Settles
<1>3. Current(w, tu)' => Current(w, tu) /\ tu = CallOf(w) /\ host'[w].active = tu
  <2>1. tu # 0 /\ pc'[w] \notin {"first", "next"}
    BY BoundsAssumption DEF Ids, Settles
  <2>2. Current(w, tu)' => host'[w].active = tu
    BY <2>1 DEF Current
  <2>3. Current(w, CallOf(w))
    BY Waits DEF Settles
  <2> QED
    BY <2>1, <2>2, <2>3 DEF Settles
<1>4. Current(w, tu) /\ tu \notin late' /\ ~Over(tu) => Current(w, tu)'
  <2> SUFFICES ASSUME Current(w, tu), tu \notin late', ~Over(tu) PROVE Current(w, tu)'
    OBVIOUS
  <2>1. tu = CallOf(w)
    <3>1. host[w].active = 0 /\ tu # 0
      BY Waits, Ready DEF Settles
    <3> QED
      BY <3>1 DEF Current
  <2>2. tu \notin host[w].early /\ answer[w] # "refused"
    BY <2>1 DEF Over, Settles
  <2>3. host'[w].active = tu /\ host'[w].thread = host[w].thread
    BY <2>1, <2>2 DEF Settles
  <2> QED
    BY <1>1, <2>3 DEF Current
<1>5. Current(w, tu) /\ tu \notin late' /\ host'[w].active = tu => Current(w, tu)'
  BY <1>1 DEF Current, Settles
<1> QED
  BY <1>1, <1>2, <1>3, <1>4, <1>5 DEF Current

LEMMA SettlesStation ==
  ASSUME IInv, NEW w \in Sessions, Settles(w), NEW v \in Sessions
  PROVE  Station(v)'
<1>1. Station(v) /\ call' = call /\ thread' = thread /\ threadW' = threadW
  BY DEF IInv, Settles
<1>2. CASE v = w
  BY <1>1, <1>2 DEF Station, Settles, Up, Awaiting
<1>3. CASE v # w
  <2>1. pc'[v] = pc[v] /\ host'[v] = host[v]
    BY <1>3 DEF Settles
  <2>2. pc[v] \in Awaiting => CallOf(v) \notin late'
    <3> SUFFICES ASSUME pc[v] \in Awaiting, CallOf(v) \in late' PROVE FALSE
      OBVIOUS
    <3>1. CallOf(v) = CallOf(w)
      BY <1>1 DEF Settles, Station
    <3> QED
      BY <1>1, <1>3, <3>1, Waits DEF Settles, Station, Last
  <2> QED
    BY <1>1, <2>1, <2>2, CallsStay DEF Station
<1> QED
  BY <1>2, <1>3

LEMMA SettlesResponses == ASSUME IInv, NEW w \in Sessions, Settles(w) PROVE Responses'
<1>1. UNCHANGED <<call, c2s, s2c, rd, answer>> /\ late \subseteq late'
  BY DEF Settles
<1>2. ASSUME NEW id \in Made, id \notin late', Expected(id)
      PROVE  Expected(id)'
  <2>1. call[id].w \in Sessions
    BY CallTyped DEF IInv
  <2>2. call[id].w # w
    BY <1>2 DEF Expected, Settles
  <2> QED
    BY <1>1, <1>2, <2>1, <2>2, CallsStay DEF Expected, Settles
<1> QED
  BY <1>1, <1>2, CallsKnown DEF IInv, Responses, Reading, Response

LEMMA SettlesFrames == ASSUME IInv, NEW w \in Sessions, Settles(w) PROVE FramesOK'
<1>1. /\ UNCHANGED <<call, c2s, s2c, running, answer, rd, asks, turnW>> /\ Served' = Served
      /\ Len(call) \in Nat /\ Len(c2s) \in Nat
  BY DEF Settles, Served, IInv, Types
<1>2. \A f : FrameOK(f)' <=> FrameOK(f)
  BY <1>1 DEF FrameOK, OfTurn
<1>4. \A v \in Sessions : host'[v].early \subseteq host[v].early
  BY DEF Settles
<1>5. \A v \in Sessions : pc'[v] \in {"first", "next"} => pc[v] \in {"first", "next"}
  BY DEF Settles
<1>6. \A v \in Sessions : pc'[v] \in {"first", "next"} /\ answer[v] = "refused" =>
        running[call[CallOf(v)].thread] # CallOf(v)
  BY <1>5 DEF IInv, FramesOK
<1> QED
  BY <1>1, <1>2, <1>4, <1>6, CallsStay DEF IInv, FramesOK

LEMMA SettlesOrdered == ASSUME IInv, NEW w \in Sessions, Settles(w) PROVE Ordered'
<1>1. UNCHANGED <<s2c, rd, answer, call>>
  BY DEF Settles
<1>2. ASSUME NEW tu, Over(tu)' PROVE Over(tu)
  <2>1. \A v \in Sessions : tu \in host'[v].early => tu \in host[v].early
    BY DEF Settles
  <2>2. \A v \in Sessions : pc'[v] \in {"first", "next"} => pc[v] \in {"first", "next"}
    BY DEF Settles
  <2> QED
    BY <1>1, <1>2, <2>1, <2>2, CallsStay DEF Over
<1> QED
  BY <1>1, <1>2 DEF IInv, Ordered, OfTurn, Ends

(* Where the frames of a turn are not at issue, what is known of the turns in *)
(* flight follows from whose turns stay current.                              *)
LEMMA StillBegun ==
  ASSUME IInv, UNCHANGED <<call, s2c, running, rd, turnW>>, late \subseteq late',
         \A v \in Sessions, tu \in Ids : Current(v, tu) /\ tu \notin late' /\ ~Over(tu) => Current(v, tu)'
  PROVE  /\ Begun'
         /\ \A th \in Ids : running[th] # 0 /\ running[th] \notin late' /\ ~Over(running[th]) =>
              Current(call[running[th]].w, running[th])'
<1>1. ASSUME NEW tu \in Made
      PROVE  /\ call[tu].w \in Sessions /\ tu \in Ids /\ (Bound(tu)' <=> Bound(tu))
             /\ \A v : v = call[tu].w /\ Current(v, tu) /\ tu \notin late' /\ ~Over(tu) => Current(v, tu)'
  <2>1. call[tu].w \in Sessions /\ tu \in Ids
    BY CallTyped DEF IInv
  <2> QED
    BY <2>1 DEF Bound
<1>2. \A th \in Ids : running[th] # 0 => running[th] \in Made
  BY CallsKnown DEF IInv, FramesOK
<1>3. ASSUME NEW th \in Ids, running[th] # 0, running[th] \notin late'
      PROVE  /\ ~Over(running[th]) => Current(call[running[th]].w, running[th])'
             /\ \/ Bound(running[th])' \/ Starts(rd.frame, running[th])
                \/ \E i \in 1 .. Len(s2c) : Starts(s2c[i], running[th])
  <2>1. PICK tu \in Made, v \in Sessions : tu = running[th] /\ v = call[tu].w
    BY <1>1, <1>2, <1>3
  <2>2. Current(v, tu) /\ (~Over(tu) => Current(v, tu)')
    BY <1>1, <1>3, <2>1 DEF IInv, Turns
  <2>3. Bound(tu)' <=> Bound(tu)
    BY <1>1
  <2> QED
    BY <1>3, <2>1, <2>2, <2>3 DEF IInv, Begun
<1>4. ASSUME NEW j \in 1 .. Len(s2c), s2c[j].kind \in {"item", "turnCompleted"}, s2c[j].id \notin late'
      PROVE  /\ Current(call[s2c[j].id].w, s2c[j].id)'
             /\ Bound(s2c[j].id)' \/ Starts(rd.frame, s2c[j].id)
                  \/ \E i \in 1 .. j - 1 : Starts(s2c[i], s2c[j].id)
  <2>1. PICK tu \in Made, v \in Sessions : tu = s2c[j].id /\ v = call[tu].w
    BY <1>1, CallsKnown
  <2>2. ~Over(tu) /\ (Bound(tu)' <=> Bound(tu))
    BY <1>1, <1>4, <2>1 DEF IInv, Ordered, OfTurn
  <2>3. Current(v, tu)
    BY <1>4, <2>1 DEF IInv, Begun
  <2>4. Current(v, tu)'
    BY <1>1, <1>4, <2>1, <2>2, <2>3
  <2> QED
    BY <1>4, <2>1, <2>2, <2>4 DEF IInv, Begun
<1>5. ASSUME rd.frame.kind \in {"item", "turnCompleted"}, rd.frame.id \notin late'
      PROVE  Current(call[rd.frame.id].w, rd.frame.id)' /\ Bound(rd.frame.id)'
  <2>1. PICK tu \in Made, v \in Sessions : tu = rd.frame.id /\ v = call[tu].w
    BY <1>1, <1>5, CallsKnown
  <2>2. ~Over(tu) /\ (Bound(tu)' <=> Bound(tu))
    BY <1>1, <1>5, <2>1 DEF IInv, Ordered, OfTurn
  <2>3. Current(v, tu) /\ Bound(tu)
    BY <1>5, <2>1 DEF IInv, Begun
  <2>4. Current(v, tu)'
    BY <1>1, <1>5, <2>1, <2>2, <2>3
  <2> QED
    BY <2>1, <2>2, <2>3, <2>4
<1> QED
  BY <1>3, <1>4, <1>5 DEF Begun, Bound, Starts

LEMMA RunningIsNotOver ==
  ASSUME IInv, NEW th \in Ids, running[th] # 0
  PROVE  running[th] \in Made /\ call[running[th]].thread = th /\ ~Over(running[th])
<1>1. PICK tu \in Made : tu = running[th] /\ call[tu].thread = th
  BY CallsKnown DEF IInv, FramesOK
<1>2. \A w \in Sessions : tu \notin host[w].early
  BY <1>1 DEF IInv, FramesOK
<1>3. \A w \in Sessions : pc[w] \in {"first", "next"} /\ answer[w] = "refused" => CallOf(w) # tu
  BY <1>1 DEF IInv, FramesOK
<1>4. \A f : FrameOK(f) /\ f.kind = "refused" => f.id # tu
  BY <1>1 DEF FrameOK
<1> QED
  BY <1>1, <1>2, <1>3, <1>4 DEF Over, IInv, FramesOK

LEMMA SettlesTurns == ASSUME IInv, NEW w \in Sessions, Settles(w) PROVE Turns' /\ Begun'
<1>1. /\ UNCHANGED <<call, c2s, s2c, running, answer, rd, turnW>> /\ late \subseteq late' /\ 0 \notin Ids
  BY Ready DEF Settles
<1>2. /\ CallOf(w) \in Ids /\ call[CallOf(w)].w = w /\ CallOf(w) \notin late /\ Current(w, CallOf(w))
      /\ pc[w] \in {"first", "next"}
  BY Waits DEF Settles
<1>3. ASSUME NEW v \in Sessions, host'[v].active # 0 PROVE Current(v, host[v].active)'
  <2>1. CASE v = w
    <3>1. PICK c \in Ids : c = CallOf(w)
      BY <1>2
    <3>2. host'[v].active = c /\ c \notin late'
      BY <1>2, <1>3, <2>1, <3>1 DEF Settles
    <3> QED
      BY <1>2, <2>1, <3>1, <3>2, SettlesCurrent
  <2>2. CASE v # w
    <3>1. PICK a \in Ids : a = host[v].active /\ host'[v] = host[v]
      BY <1>3, <2>2 DEF Settles, IInv, Types, Hosts
    <3>2. Current(v, a)
      BY <1>1, <3>1 DEF IInv, Turns
    <3>3. a \notin late'
      BY <1>2, <2>2, <3>2 DEF Current, Settles
    <3> QED
      BY <2>2, <3>1, <3>2, <3>3, SettlesCurrent
  <2> QED
    BY <2>1, <2>2
<1>4. ASSUME NEW v \in Sessions, NEW tu \in Ids, Current(v, tu)'
      PROVE  /\ turnW[tu] \in {None, v}
             /\ rd.pc = "routed" /\ OfTurn(rd.frame) /\ rd.frame.id = tu => rd.to = v
             /\ Accepted(v, tu)' => Alive(tu)' \/ (host'[v].pending /\ tu \in host'[v].early)
  <2>1. Current(v, tu) /\ (v = w => tu = CallOf(w) /\ host'[w].active = tu)
    BY <1>4, SettlesCurrent
  <2>2. Alive(tu)' <=> Alive(tu)
    BY <1>1 DEF Alive, Ends
  <2>3. CASE v # w
    <3>1. host'[v] = host[v] /\ pc'[v] = pc[v]
      BY <2>3 DEF Settles
    <3>2. Accepted(v, tu)' <=> Accepted(v, tu)
      BY <1>1, <3>1 DEF Accepted
    <3> QED
      BY <2>1, <2>2, <3>1, <3>2 DEF IInv, Turns
  <2>4. CASE v = w
    <3>1. answer[w] = "ok" /\ tu \notin host[w].early
      BY <1>1, <2>1, <2>4 DEF Settles
    <3>2. Accepted(w, tu)
      BY <1>2, <3>1 DEF Accepted
    <3> QED
      BY <2>1, <2>2, <2>4, <3>1, <3>2 DEF IInv, Turns
  <2> QED
    BY <2>3, <2>4
<1>5. /\ Begun'
      /\ \A th \in Ids : running[th] # 0 /\ running[th] \notin late' /\ ~Over(running[th]) =>
           Current(call[running[th]].w, running[th])'
  BY <1>1, SettlesCurrent, StillBegun
<1> QED
  BY <1>1, <1>3, <1>4, <1>5, RunningIsNotOver DEF Turns

LEMMA SettlesKeeps ==
  ASSUME IInv, Types', NEW w \in Sessions, Settles(w)
  PROVE  IInv'
<1>1. InOrder'
  BY DEF IInv, InOrder, Settles
<1>2. Threads'
  <2>1. call' = call /\ thread' = thread /\ threadW' = threadW /\ Made' = Made
    BY CallsStay DEF Settles
  <2>2. thread[w] # 0
    BY Ready DEF Settles, Station, Up
  <2>3. \A v \in Sessions : kept'[v] # 0 => OwnThread(v, kept'[v])
    BY <2>2 DEF Settles, IInv, Threads
  <2> QED
    BY <2>1, <2>3 DEF IInv, Threads, OwnThread
<1> QED
  BY <1>1, <1>2, SettlesStation, SettlesResponses, SettlesFrames, SettlesOrdered, SettlesTurns DEF IInv

LEMMA TurnStartedKeeps == ASSUME IInv, NEW w \in Sessions, TurnStarted(w) PROVE IInv'
<1> USE DEF server, routes, segments
<1>1. /\ pc[w] \in {"first", "next"} /\ answer[w] = "ok" /\ pc' = [pc EXCEPT ![w] = "active"]
      /\ pc'[w] = "active" /\ pc' \in [Sessions -> Stations] /\ \A v \in Sessions \ {w} : pc'[v] = pc[v]
  BY Moved DEF TurnStarted, Stations
<1>2. PICK c \in Ids : c = CallOf(w)
  BY <1>1, Waits
<1>3. PICK h \in Hosts : h = host[w]
  BY Ready
<1> DEFINE g == [h EXCEPT !.pending = FALSE, !.early = h.early \ {c},
                          !.active = IF c \in h.early THEN 0 ELSE c]
<1>4. /\ g.pending = FALSE /\ g.early = h.early \ {c} /\ g.active = (IF c \in h.early THEN 0 ELSE c)
      /\ g.on = h.on /\ g.thread = h.thread
  BY DEF Hosts
<1>5. g \in Hosts
  BY DEF Hosts
<1>6. host' = [host EXCEPT ![w] = g]
  BY <1>2, <1>3 DEF TurnStarted
<1> HIDE DEF g
<1>7. host' \in [Sessions -> Hosts] /\ host'[w] = g /\ \A v \in Sessions \ {w} : host'[v] = host[v]
  BY <1>5, <1>6, Ready DEF Types
<1>8. /\ kept' \in [Sessions -> Ids \cup {0}] /\ kept'[w] = thread[w]
      /\ \A v \in Sessions \ {w} : kept'[v] = kept[v]
  BY Ready DEF TurnStarted, Types
<1>9. UNCHANGED <<call, late, c2s, s2c, running, answer, rd, asks, thread, threadW, turnW, starting>>
  BY DEF TurnStarted
<1>10. Types'
  BY <1>1, <1>7, <1>8, <1>9, Ready DEF Types
<1>11. Settles(w)
  BY <1>1, <1>2, <1>3, <1>4, <1>7, <1>8, <1>9 DEF Settles
<1> QED
  BY <1>10, <1>11, SettlesKeeps

LEMMA TurnFailsKeeps == ASSUME IInv, NEW w \in Sessions, TurnFails(w) PROVE IInv'
<1> USE DEF server, mine, routes, segments
<1> DEFINE p == IF pc[w] = "first" THEN "take" ELSE "active"
<1>1. /\ pc[w] \in {"first", "next"} /\ pc' = [pc EXCEPT ![w] = p]
      /\ pc'[w] = p /\ pc' \in [Sessions -> Stations] /\ \A v \in Sessions \ {w} : pc'[v] = pc[v]
  BY Moved DEF TurnFails, Stations
<1>2. PICK h \in Hosts : h = host[w]
  BY Ready
<1> DEFINE g == [h EXCEPT !.pending = FALSE]
<1>3. /\ g.pending = FALSE /\ g.early = h.early /\ g.active = h.active /\ g.on = h.on /\ g.thread = h.thread
      /\ g \in Hosts
  BY DEF Hosts
<1>4. host' = [host EXCEPT ![w] = g]
  BY <1>2 DEF TurnFails
<1> HIDE DEF g
<1>5. host' \in [Sessions -> Hosts] /\ host'[w] = g /\ \A v \in Sessions \ {w} : host'[v] = host[v]
  BY <1>3, <1>4, Ready DEF Types
<1>6. UNCHANGED <<call, c2s, s2c, running, answer, rd, asks, kept, thread, threadW, turnW, starting>>
  BY DEF TurnFails
<1>7. (answer[w] = "refused" /\ late' = late) \/ late' = late \cup {CallOf(w)}
  BY DEF TurnFails, GivesUp
<1>8. CallOf(w) \in Made /\ host[w].active = 0
  BY <1>1, Waits
<1>9. Types'
  <2>1. late' \subseteq 1 .. Len(call)
    BY <1>7, <1>8, Ready DEF Types, Made
  <2> QED
    BY <1>1, <1>5, <1>6, <2>1, Ready DEF Types
<1>10. Settles(w)
  BY <1>1, <1>2, <1>3, <1>5, <1>6, <1>7, <1>8 DEF Settles
<1> QED
  BY <1>9, <1>10, SettlesKeeps

-----------------------------------------------------------------------------
(* The read loop and the server: the callers stay where they are. *)
CallersStay == UNCHANGED <<call, late, pc, host, thread, kept, threadW, starting>>

LEMMA CallersStayKeeps ==
  ASSUME IInv, CallersStay
  PROVE  /\ Threads' /\ \A v \in Sessions : Station(v)'
         /\ Made' = Made /\ \A v : CallOf(v)' = CallOf(v)
         /\ \A v, tu : Current(v, tu)' <=> Current(v, tu)
         /\ answer' = answer => \A id : Expected(id)' <=> Expected(id)
<1>1. UNCHANGED <<call, late, pc, host, thread, kept, threadW, starting>>
  BY DEF CallersStay
<1>2. Made' = Made /\ \A v : CallOf(v)' = CallOf(v)
  BY <1>1, CallsStay
<1>3. Threads'
  BY <1>1, <1>2 DEF IInv, Threads, OwnThread
<1>4. ASSUME NEW v \in Sessions PROVE Station(v)'
  BY <1>1, CallsStay DEF IInv, Station
<1>5. \A v, tu : Current(v, tu)' <=> Current(v, tu)
  BY <1>1, <1>2 DEF Current
<1>6. answer' = answer => \A id : Expected(id)' <=> Expected(id)
  BY <1>1, <1>2 DEF Expected
<1> QED
  BY <1>2, <1>3, <1>4, <1>5, <1>6

LEMMA RecordKeeps == ASSUME IInv, Record PROVE IInv'
<1> USE DEF server, mine, routes
<1> DEFINE f == Head(s2c)
<1>1. /\ CallersStay /\ UNCHANGED <<call, late, c2s, running, answer, turnW, asks, host, pc>>
      /\ rd.pc = "idle" /\ rd.frame = NoFrame /\ rd.frame.kind = "none" /\ s2c # <<>>
      /\ rd' = [pc |-> "recorded", frame |-> f, to |-> None] /\ s2c' = Tail(s2c)
  BY DEF Record, CallersStay, IInv, FramesOK, NoFrame
<1>2. /\ Len(s2c) \in Nat \ {0} /\ f = s2c[1] /\ f \in Frames
      /\ s2c' \in Seq(Frames) /\ Len(s2c') = Len(s2c) - 1
      /\ \A i \in 1 .. Len(s2c') : i + 1 \in 1 .. Len(s2c) /\ s2c'[i] = s2c[i + 1]
  BY <1>1, OneLess DEF IInv, Types
<1>3. rd'.pc = "recorded" /\ rd'.frame = f
  BY <1>1
<1>4. Types'
  <2>1. rd' \in [pc : {"idle", "recorded", "routed"}, frame : Frames, to : Sessions \cup {None}]
    BY <1>1, <1>2
  <2> QED
    BY <1>1, <1>2, <2>1 DEF IInv, Types, CallersStay, Record
<1> HIDE DEF f
<1>5. InOrder' /\ Served' = Served
  BY <1>1 DEF IInv, InOrder, Served
<1>6. Responses'
  <2>1. \A i \in 1 .. Len(c2s) : c2s[i] \notin late => Expected(c2s[i])'
    BY <1>1, CallersStayKeeps DEF IInv, Responses
  <2>2. \A i \in 1 .. Len(s2c') : Response(s2c'[i]) /\ s2c'[i].id \notin late => Expected(s2c[i + 1].id)
    BY <1>2 DEF IInv, Responses
  <2>3. ASSUME NEW i \in 1 .. Len(s2c'), Response(s2c'[i]), s2c'[i].id \notin late PROVE Expected(s2c[i].id)'
    <3>1. PICK id : id = s2c'[i].id /\ Expected(id)
      BY <1>2, <2>2, <2>3
    <3> QED
      BY <1>1, <3>1, CallersStayKeeps
  <2>4. ASSUME Response(f), f.id \notin late PROVE Expected(rd.frame.id)'
    <3>1. PICK id : id = f.id /\ Expected(id)
      BY <1>2, <2>4 DEF IInv, Responses
    <3> QED
      BY <1>1, <1>3, <3>1, CallersStayKeeps
  <2>5. \A i, j \in 1 .. Len(s2c') :
          Response(s2c'[i]) /\ Response(s2c'[j]) /\ s2c'[i].id = s2c'[j].id => i = j
    BY <1>2 DEF IInv, Responses
  <2>6. ASSUME Response(f), NEW i \in 1 .. Len(s2c'), Response(s2c'[i]) PROVE s2c'[i].id # f.id
    <3>1. /\ i + 1 \in 1 .. Len(s2c) /\ 1 \in 1 .. Len(s2c) /\ i + 1 # 1
          /\ s2c'[i] = s2c[i + 1] /\ f = s2c[1]
      BY <1>2
    <3>2. \A k, l \in 1 .. Len(s2c) : Response(s2c[k]) /\ Response(s2c[l]) /\ s2c[k].id = s2c[l].id => k = l
      BY DEF IInv, Responses
    <3> QED
      BY <2>6, <3>1, <3>2
  <2> QED
    BY <1>1, <1>3, <2>1, <2>3, <2>4, <2>5, <2>6 DEF Responses, Reading, Response
<1>7. FramesOK'
  <2>1. \A g : FrameOK(g)' <=> FrameOK(g)
    BY <1>1, <1>5 DEF FrameOK, OfTurn
  <2>2. FrameOK(f) /\ \A i \in 1 .. Len(s2c') : FrameOK(s2c'[i]) /\ s2c'[i].kind # "none"
    BY <1>2 DEF IInv, FramesOK
  <2>3. FrameOK(rd.frame)' /\ \A i \in 1 .. Len(s2c') : FrameOK(s2c[i])'
    BY <1>3, <2>1, <2>2
  <2>4. \A w \in Sessions : pc[w] \in {"first", "next"} /\ answer[w] = "refused" =>
          running[call'[CallOf(w)'].thread] # CallOf(w)'
    BY <1>1, CallersStayKeeps DEF IInv, FramesOK
  <2> QED
    BY <1>1, <1>3, <1>5, <2>2, <2>3, <2>4 DEF IInv, FramesOK
<1>8. Ordered'
  <2>1. ASSUME NEW tu, Over(tu)' PROVE Over(tu)
    BY <1>1, <1>2, <1>3, <2>1, CallersStayKeeps DEF Over
  <2>2. ASSUME NEW tu \in Ids, Over(tu)
        PROVE  /\ \A j \in 1 .. Len(s2c') : OfTurn(s2c'[j]) => s2c'[j].id # tu
               /\ OfTurn(f) => f.id # tu
    BY <1>2, <2>2 DEF IInv, Ordered
  <2>3. \A i, j \in 1 .. Len(s2c') : i < j /\ OfTurn(s2c'[j]) => ~Ends(s2c'[i], s2c'[j].id)
    BY <1>2 DEF IInv, Ordered
  <2>4. \A j \in 1 .. Len(s2c') : OfTurn(s2c'[j]) => ~Ends(f, s2c'[j].id)
    <3>1. ASSUME NEW j \in 1 .. Len(s2c'), OfTurn(s2c'[j]) PROVE ~Ends(f, s2c'[j].id)
      <4>1. s2c'[j] = s2c[j + 1] /\ 1 < j + 1 /\ 1 \in 1 .. Len(s2c) /\ j + 1 \in 1 .. Len(s2c)
        BY <1>2
      <4> QED
        BY <1>2, <3>1, <4>1 DEF IInv, Ordered
    <3> QED
      BY <3>1
  <2> QED
    BY <1>3, <2>1, <2>2, <2>3, <2>4 DEF Ordered, OfTurn, Ends
<1>9. \A v, tu : Current(v, tu)' <=> Current(v, tu)
  BY <1>1, CallersStayKeeps
<1>10. Turns'
  <2>1. \A v, tu : Accepted(v, tu)' => Accepted(v, tu)
    BY <1>1, <1>2, <1>3 DEF Accepted, Record
  <2>2. \A tu : Alive(tu) => Alive(tu)'
    <3> SUFFICES ASSUME NEW tu, Alive(tu), running[call[tu].thread] # tu PROVE Alive(tu)'
      BY <1>1 DEF Alive
    <3>1. PICK i \in 1 .. Len(s2c) : Ends(s2c[i], tu)
      BY <1>1 DEF Alive, Ends
    <3>2. CASE i = 1
      BY <1>2, <1>3, <3>1, <3>2 DEF Alive, Ends
    <3>3. CASE i # 1
      <4>1. i - 1 \in 1 .. Len(s2c') /\ s2c'[i - 1] = s2c[i]
        BY <1>2, <3>3
      <4> QED
        BY <3>1, <4>1 DEF Alive, Ends
    <3> QED
      BY <3>2, <3>3
  <2>3. \A v \in Sessions : host[v].active # 0 => Current(v, host[v].active)'
    BY <1>1, <1>9 DEF IInv, Turns
  <2>4. \A th \in Ids : running[th] # 0 /\ running[th] \notin late => Current(call[running[th]].w, running[th])'
    BY <1>1, <1>9 DEF IInv, Turns
  <2> QED
    BY <1>1, <1>3, <1>9, <2>1, <2>2, <2>3, <2>4 DEF IInv, Turns
<1>11. Begun'
  <2>1. \A tu : ~Starts(rd.frame, tu) /\ (Bound(tu)' <=> Bound(tu))
    BY <1>1 DEF Starts, Bound
  <2>2. ASSUME NEW th \in Ids, running[th] # 0, running[th] \notin late
        PROVE  \/ Bound(running[th])' \/ Starts(f, running[th])
               \/ \E i \in 1 .. Len(s2c') : Starts(s2c'[i], running[th])
    <3>1. CASE Bound(running[th])
      BY <1>1, <2>1, <3>1 DEF Bound
    <3>2. CASE ~Bound(running[th])
      <4>1. PICK i \in 1 .. Len(s2c) : Starts(s2c[i], running[th])
        BY <2>1, <2>2, <3>2 DEF IInv, Begun
      <4>2. i = 1 \/ (i - 1 \in 1 .. Len(s2c') /\ s2c'[i - 1] = s2c[i])
        BY <1>2
      <4> QED
        BY <1>2, <4>1, <4>2
    <3> QED
      BY <3>1, <3>2
  <2>3. ASSUME NEW j \in 1 .. Len(s2c'), s2c'[j].kind \in {"item", "turnCompleted"}, s2c'[j].id \notin late
        PROVE  /\ Current(call[s2c[j].id].w, s2c[j].id)'
               /\ Bound(s2c[j].id)' \/ Starts(f, s2c'[j].id) \/ \E i \in 1 .. j - 1 : Starts(s2c'[i], s2c'[j].id)
    <3>1. PICK tu : tu = s2c'[j].id
      OBVIOUS
    <3>2. j + 1 \in 1 .. Len(s2c) /\ s2c'[j] = s2c[j + 1]
      BY <1>2
    <3>3. /\ Current(call[tu].w, tu)
          /\ Bound(tu) \/ \E i \in 1 .. j : Starts(s2c[i], tu)
      BY <2>1, <2>3, <3>1, <3>2 DEF IInv, Begun
    <3>4. Current(call[tu].w, tu)'
      BY <1>1, <1>9, <3>3
    <3>5. CASE Bound(tu)
      BY <1>1, <3>1, <3>4, <3>5 DEF Bound
    <3>6. ASSUME NEW i \in 1 .. j, Starts(s2c[i], tu)
          PROVE  Starts(f, tu) \/ \E k \in 1 .. j - 1 : Starts(s2c'[k], tu)
      <4>1. i = 1 \/ (i - 1 \in 1 .. j - 1 /\ s2c'[i - 1] = s2c[i])
        BY <1>2
      <4> QED
        BY <1>2, <3>6, <4>1
    <3> QED
      BY <3>1, <3>3, <3>4, <3>5, <3>6
  <2>4. ASSUME f.kind \in {"item", "turnCompleted"}, f.id \notin late
        PROVE  Current(call[rd.frame.id].w, rd.frame.id)' /\ Bound(rd.frame.id)'
    <3>1. PICK tu : tu = f.id
      OBVIOUS
    <3>2. Current(call[tu].w, tu) /\ Bound(tu)
      <4>1. 1 \in 1 .. Len(s2c) /\ \A i \in 1 .. 1 - 1 : FALSE
        BY <1>2
      <4> QED
        BY <1>2, <2>1, <2>4, <3>1, <4>1 DEF IInv, Begun
    <3> QED
      BY <1>1, <1>3, <1>9, <3>1, <3>2 DEF Bound
  <2> QED
    BY <1>1, <1>3, <2>2, <2>3, <2>4 DEF Begun, Starts
<1> QED
  BY <1>1, <1>4, <1>5, <1>6, <1>7, <1>8, <1>10, <1>11, CallersStayKeeps DEF IInv

(* A frame of a turn that some runner waits for or knows is attributed to it. *)
LEMMA CurrentIsUp ==
  ASSUME IInv, NEW v \in Sessions, NEW tu, Current(v, tu)
  PROVE  /\ tu \in Ids /\ tu # 0 /\ pc[v] \in {"first", "next", "active"} /\ host[v].on
         /\ threadW[host[v].thread] = v /\ call[tu].thread = host[v].thread
<1>1. tu \in Ids /\ tu # 0
  BY CallsKnown, Ready DEF Current
<1>2. pc[v] \in {"first", "next", "active"}
  BY <1>1, Ready DEF Current, Station
<1> QED
  BY <1>1, <1>2, Ready DEF Current, Station, Up

LEMMA RouteOfTurn ==
  ASSUME IInv, NEW f, OfTurn(f), FrameOK(f), NEW v \in Sessions, Current(v, f.id),
         f.thread # 0 \/ turnW[f.id] = v
  PROVE  WSIDFor(f.thread, TurnOf(f)) = v
<1>1. TurnOf(f) = f.id /\ f.id \in Ids /\ f.id # 0 /\ v # None
  BY CurrentIsUp, Ready DEF TurnOf, OfTurn
<1>2. turnW[f.id] \in {None, v}
  BY <1>1 DEF IInv, Turns
<1>3. f.thread # 0 => threadW[f.thread] = v
  BY CurrentIsUp DEF FrameOK
<1> QED
  BY <1>1, <1>2, <1>3 DEF WSIDFor

LEMMA RouteKeeps == ASSUME IInv, Route PROVE IInv'
<1> USE DEF server, mine, routes, segments
<1> DEFINE f == rd.frame
           w == WSIDFor(f.thread, TurnOf(f))
<1>1. /\ CallersStay /\ UNCHANGED <<call, late, c2s, s2c, running, answer, turnW, asks, host, pc>>
      /\ rd.pc = "recorded" /\ Notification(f)
      /\ rd' = IF w = None THEN Idle ELSE [rd EXCEPT !.pc = "routed", !.to = w]
  BY DEF Route, CallersStay
<1>2. /\ f \in Frames /\ FrameOK(f) /\ f.kind # "none" /\ ~Response(f)
      /\ \A i \in 1 .. Len(s2c) : s2c[i] \in Frames
  BY <1>1, ElementOfSeq DEF IInv, Types, FramesOK, Notification, Response
<1>3. w \in Sessions \cup {None}
  <2>1. f.thread \in Ids \cup {0} /\ TurnOf(f) \in Ids \cup {0}
    BY <1>2 DEF Frames, TurnOf
  <2> QED
    BY <2>1 DEF WSIDFor, IInv, Types
<1>4. \/ w = None /\ rd' = Idle /\ rd'.pc = "idle" /\ rd'.frame = NoFrame
      \/ w \in Sessions /\ w # None /\ rd'.pc = "routed" /\ rd'.frame = f /\ rd'.to = w
  BY <1>1, <1>3 DEF Idle, IInv, Types
<1>5. rd' \in [pc : {"idle", "recorded", "routed"}, frame : Frames, to : Sessions \cup {None}]
  <2>1. NoFrame \in Frames
    BY DEF NoFrame, Frames, Kinds
  <2>2. Idle \in [pc : {"idle", "recorded", "routed"}, frame : Frames, to : Sessions \cup {None}]
    BY <2>1 DEF Idle
  <2> QED
    BY <1>1, <1>3, <2>2 DEF IInv, Types
<1>6. Types'
  BY <1>1, <1>5 DEF IInv, Types, CallersStay, Route
<1> HIDE DEF f, w
<1>7. InOrder' /\ Served' = Served
  BY <1>1 DEF IInv, InOrder, Served
<1>8. \A v, tu : Current(v, tu)' <=> Current(v, tu)
  BY <1>1, CallersStayKeeps
<1>9. ASSUME NEW v \in Sessions, OfTurn(f), Current(v, f.id), f.thread # 0 \/ turnW[f.id] = v
      PROVE  w = v
  BY <1>2, <1>9, RouteOfTurn DEF w
<1>10. Responses'
  <2>1. \A id : Expected(id)' <=> Expected(id)
    BY <1>1, CallersStayKeeps
  <2>2. ~Reading'
    BY <1>4 DEF Reading
  <2> QED
    BY <1>1, <2>1, <2>2 DEF IInv, Responses, Response
<1>11. FramesOK'
  <2>1. \A g : FrameOK(g)' <=> FrameOK(g)
    BY <1>1, <1>7 DEF FrameOK, OfTurn
  <2>2. FrameOK(f) /\ FrameOK(NoFrame)
    BY <1>2 DEF FrameOK, NoFrame, OfTurn
  <2>3. FrameOK(rd.frame)' /\ (rd'.pc = "idle" => rd'.frame = NoFrame)
    BY <1>4, <2>1, <2>2
  <2>4. \A v \in Sessions : pc[v] \in {"first", "next"} /\ answer[v] = "refused" =>
          running[call'[CallOf(v)'].thread] # CallOf(v)'
    BY <1>1, CallersStayKeeps DEF IInv, FramesOK
  <2>5. rd'.pc = "routed" => Notification(rd'.frame) /\ rd'.to # None
    BY <1>1, <1>4 DEF f
  <2> QED
    BY <1>1, <1>7, <2>1, <2>3, <2>4, <2>5 DEF IInv, FramesOK, Notification
<1>12. Ordered'
  <2>1. ASSUME NEW tu, Over(tu)' PROVE Over(tu)
    BY <1>1, <1>4, <2>1, CallersStayKeeps DEF Over, f, NoFrame
  <2>2. \A tu : OfTurn(rd'.frame) \/ Ends(rd'.frame, tu) => rd'.frame = f
    BY <1>4 DEF OfTurn, NoFrame, Ends
  <2> QED
    BY <1>1, <2>1, <2>2 DEF IInv, Ordered, OfTurn, Ends, f
<1>13. Turns'
  <2>1. \A v, tu : Accepted(v, tu)' => Accepted(v, tu)
    BY <1>1, <1>4 DEF Accepted, f, NoFrame
  <2>2. ASSUME NEW v \in Sessions, NEW tu, Current(v, tu), Alive(tu) PROVE Alive(tu)'
    <3>1. CASE Ends(f, tu)
      <4>1. f.id = tu /\ OfTurn(f) /\ f.thread # 0
        BY <1>2, <2>2, <3>1, CurrentIsUp, CallTyped, Ready DEF Ends, OfTurn, FrameOK, Current
      <4>2. w = v
        BY <1>9, <2>2, <4>1
      <4> QED
        BY <1>4, <3>1, <4>2, Ready DEF Alive, Ends
    <3>2. CASE ~Ends(f, tu)
      BY <1>1, <2>2, <3>2 DEF Alive, Ends, f
    <3> QED
      BY <3>1, <3>2
  <2>3. ASSUME NEW v \in Sessions, NEW tu \in Ids, Current(v, tu),
               rd'.pc = "routed", OfTurn(rd'.frame), rd'.frame.id = tu
        PROVE  rd'.to = v
    <3>1. rd'.frame = f /\ rd'.to = w /\ OfTurn(f) /\ f.id = tu
      BY <1>4, <2>3
    <3>2. f.thread # 0 \/ turnW[f.id] = v
      <4>1. CASE f.kind = "item"
        BY <2>3, <3>1, <4>1 DEF IInv, Begun, Bound, Current, f
      <4>2. CASE f.kind # "item"
        BY <1>2, <2>3, <3>1, <4>2, CallTyped, Ready DEF FrameOK, Current
      <4> QED
        BY <4>1, <4>2
    <3> QED
      BY <1>9, <2>3, <3>1, <3>2
  <2>4. \A v \in Sessions : host[v].active # 0 => Current(v, host[v].active)'
    BY <1>1, <1>8 DEF IInv, Turns
  <2>5. \A th \in Ids : running[th] # 0 /\ running[th] \notin late => Current(call[running[th]].w, running[th])'
    BY <1>1, <1>8 DEF IInv, Turns
  <2> QED
    BY <1>1, <1>8, <2>1, <2>2, <2>3, <2>4, <2>5 DEF IInv, Turns, OfTurn
<1>14. Begun'
  <2>1. \A tu : Bound(tu)' <=> Bound(tu)
    BY <1>1 DEF Bound
  <2>2. ASSUME NEW v \in Sessions, NEW tu, Current(v, tu), Starts(rd.frame, tu) PROVE Starts(rd'.frame, tu)
    <3>1. f.id = tu /\ OfTurn(f) /\ f.thread # 0
      BY <1>2, <2>2, CallTyped, Ready DEF Starts, OfTurn, FrameOK, Current, f
    <3>2. w = v
      BY <1>9, <2>2, <3>1
    <3> QED
      BY <1>4, <2>2, <3>2, Ready DEF f
  <2>3. ASSUME NEW th \in Ids, running[th] # 0, running[th] \notin late
        PROVE  \/ Bound(running[th])' \/ Starts(rd'.frame, running[th])
               \/ \E i \in 1 .. Len(s2c) : Starts(s2c[i], running[th])
    <3>1. PICK tu \in Made, v \in Sessions : tu = running[th] /\ v = call[tu].w /\ Current(v, tu)
      BY <2>3, RunningIsNotOver, CallTyped DEF IInv, Turns
    <3> QED
      BY <1>1, <2>1, <2>2, <2>3, <3>1 DEF IInv, Begun, Bound
  <2>4. ASSUME NEW j \in 1 .. Len(s2c), s2c[j].kind \in {"item", "turnCompleted"}, s2c[j].id \notin late
        PROVE  /\ Current(call[s2c[j].id].w, s2c[j].id)'
               /\ Bound(s2c[j].id)' \/ Starts(rd'.frame, s2c[j].id)
                    \/ \E i \in 1 .. j - 1 : Starts(s2c[i], s2c[j].id)
    <3>1. PICK tu \in Made, v \in Sessions : tu = s2c[j].id /\ v = call[tu].w
      BY CallsKnown, CallTyped DEF IInv
    <3>2. /\ Current(v, tu)
          /\ Bound(tu) \/ Starts(rd.frame, tu) \/ \E i \in 1 .. j - 1 : Starts(s2c[i], tu)
      BY <2>4, <3>1 DEF IInv, Begun
    <3> QED
      BY <1>1, <1>8, <2>1, <2>2, <3>1, <3>2 DEF Bound
  <2>5. rd'.frame.kind \in {"item", "turnCompleted"} /\ rd'.frame.id \notin late =>
          Current(call[rd.frame.id].w, rd.frame.id)' /\ Bound(rd.frame.id)'
    <3> SUFFICES ASSUME rd'.frame.kind \in {"item", "turnCompleted"}, rd'.frame.id \notin late
                 PROVE  Current(call[rd.frame.id].w, rd.frame.id)' /\ Bound(rd.frame.id)'
      OBVIOUS
    <3>1. rd'.frame = rd.frame
      BY <1>4 DEF f, NoFrame
    <3>2. PICK tu : tu = rd.frame.id
      OBVIOUS
    <3>3. Current(call[tu].w, tu) /\ Bound(tu)
      BY <3>1, <3>2 DEF IInv, Begun
    <3> QED
      BY <1>1, <1>8, <3>1, <3>2, <3>3 DEF Bound
  <2> QED
    BY <1>1, <2>3, <2>4, <2>5 DEF Begun, Starts
<1> QED
  BY <1>1, <1>6, <1>7, <1>10, <1>11, <1>12, <1>13, <1>14, CallersStayKeeps DEF IInv

LEMMA IdleTyped ==
  /\ Idle \in [pc : {"idle", "recorded", "routed"}, frame : Frames, to : Sessions \cup {None}]
  /\ Idle.pc = "idle" /\ Idle.frame = NoFrame /\ NoFrame.kind = "none" /\ NoFrame.id = 0
<1>1. NoFrame \in Frames
  BY DEF NoFrame, Frames, Kinds
<1> QED
  BY <1>1 DEF Idle, NoFrame

(* The read loop is through with a frame that starts and ends no turn. *)
LEMMA DropKeeps ==
  ASSUME IInv, CallersStay, UNCHANGED <<c2s, s2c, running, answer, turnW>>, rd' = Idle,
         rd.frame.kind \notin {"ok", "refused", "turnStarted", "turnCompleted"},
         \A f \in asks' : f \in asks \/ (f = rd.frame /\ f.kind = "approval")
  PROVE  IInv'
<1>1. UNCHANGED <<call, late, c2s, s2c, running, answer, turnW, host, pc>> /\ Served' = Served
  BY DEF CallersStay, Served
<1>2. rd'.pc = "idle" /\ rd'.frame = NoFrame /\ rd'.frame.kind = "none"
  BY IdleTyped
<1>3. Types'
  <2>1. asks' \subseteq Frames
    BY DEF IInv, Types
  <2> QED
    BY <1>1, <2>1, IdleTyped DEF IInv, Types, CallersStay
<1>4. InOrder'
  BY <1>1 DEF IInv, InOrder
<1>5. \A v, tu : Current(v, tu)' <=> Current(v, tu)
  BY <1>1, CallersStayKeeps
<1>6. Responses'
  <2>1. \A id : Expected(id)' <=> Expected(id)
    BY <1>1, CallersStayKeeps
  <2>2. ~Reading'
    BY <1>2 DEF Reading
  <2> QED
    BY <1>1, <2>1, <2>2 DEF IInv, Responses, Response
<1>7. FramesOK'
  <2>1. \A g : FrameOK(g)' <=> FrameOK(g)
    BY <1>1 DEF FrameOK, OfTurn
  <2>2. FrameOK(rd.frame)' /\ (rd'.pc = "idle" => rd'.frame = NoFrame)
    <3>1. FrameOK(NoFrame)
      BY IdleTyped DEF FrameOK, OfTurn
    <3> QED
      BY <1>2, <2>1, <3>1
  <2>3. \A v \in Sessions : pc[v] \in {"first", "next"} /\ answer[v] = "refused" =>
          running[call'[CallOf(v)'].thread] # CallOf(v)'
    BY <1>1, CallersStayKeeps DEF IInv, FramesOK
  <2>4. \A f \in asks' : f.kind = "approval" /\ f.thread # 0 /\ f.id \in Served /\ f.thread = call[f.id].thread
    <3>1. ASSUME rd.frame.kind = "approval"
          PROVE  /\ rd.frame.thread # 0 /\ rd.frame.id \in Served
                 /\ rd.frame.thread = call[rd.frame.id].thread
      <4>1. FrameOK(rd.frame)
        BY DEF IInv, FramesOK
      <4>2. rd.frame.id \in Served /\ rd.frame.thread = call[rd.frame.id].thread
        BY <3>1, <4>1 DEF FrameOK, OfTurn
      <4> QED
        BY <4>2, CallsKnown, CallTyped, BoundsAssumption DEF IInv, Ids
    <3> QED
      BY <3>1 DEF IInv, FramesOK
  <2> QED
    BY <1>1, <1>2, <2>1, <2>2, <2>3, <2>4 DEF IInv, FramesOK
<1>8. Ordered'
  <2>1. ASSUME NEW tu, Over(tu)' PROVE Over(tu)
    BY <1>1, <1>2, <2>1, CallersStayKeeps DEF Over
  <2> QED
    BY <1>1, <1>2, <2>1 DEF IInv, Ordered, OfTurn, Ends
<1>9. Turns'
  <2>1. \A v, tu : Accepted(v, tu)' => Accepted(v, tu)
    BY <1>1, <1>2 DEF Accepted
  <2>2. \A tu : Alive(tu) => Alive(tu)'
    BY <1>1 DEF Alive, Ends
  <2>3. \A v \in Sessions : host[v].active # 0 => Current(v, host[v].active)'
    BY <1>1, <1>5 DEF IInv, Turns
  <2>4. \A th \in Ids : running[th] # 0 /\ running[th] \notin late => Current(call[running[th]].w, running[th])'
    BY <1>1, <1>5 DEF IInv, Turns
  <2> QED
    BY <1>1, <1>2, <1>5, <2>1, <2>2, <2>3, <2>4 DEF IInv, Turns
<1>10. Begun'
  <2>1. \A tu : ~Starts(rd.frame, tu) /\ (Bound(tu)' <=> Bound(tu))
    BY <1>1 DEF Bound, Starts
  <2>2. \A j \in 1 .. Len(s2c) : s2c[j].kind \in {"item", "turnCompleted"} /\ s2c[j].id \notin late =>
          Current(call[s2c[j].id].w, s2c[j].id)'
    BY <1>1, <1>5 DEF IInv, Begun
  <2>3. \A th \in Ids : running[th] # 0 /\ running[th] \notin late =>
          Bound(running[th])' \/ \E i \in 1 .. Len(s2c) : Starts(s2c[i], running[th])
    BY <1>1, <2>1 DEF IInv, Begun, Bound
  <2>4. \A j \in 1 .. Len(s2c) : s2c[j].kind \in {"item", "turnCompleted"} /\ s2c[j].id \notin late =>
          Bound(s2c[j].id)' \/ \E i \in 1 .. j - 1 : Starts(s2c[i], s2c[j].id)
    BY <1>1, <2>1 DEF IInv, Begun, Bound
  <2> QED
    BY <1>1, <1>2, <2>2, <2>3, <2>4 DEF Begun, Starts
<1> QED
  BY <1>3, <1>4, <1>6, <1>7, <1>8, <1>9, <1>10, CallersStayKeeps DEF IInv

LEMMA HandOverKeeps == ASSUME IInv, HandOver PROVE IInv'
<1> USE DEF server, mine, routes, segments
<1>1. CallersStay /\ UNCHANGED <<c2s, s2c, running, answer, turnW>> /\ rd' = Idle
  BY DEF HandOver, CallersStay
<1>2. rd.frame.kind = "approval" /\ asks' = asks \cup {rd.frame}
  BY DEF HandOver
<1> QED
  BY <1>1, <1>2, DropKeeps

LEMMA StutterKeeps ==
  ASSUME IInv, CallersStay, UNCHANGED <<c2s, s2c, running, answer, turnW, rd>>, asks' \subseteq asks
  PROVE  IInv'
<1>1. /\ UNCHANGED <<call, late, c2s, s2c, running, answer, turnW, host, pc, rd>> /\ Served' = Served
  BY DEF CallersStay, Served
<1>2. Types' /\ InOrder'
  BY <1>1 DEF IInv, Types, InOrder, CallersStay
<1>3. /\ \A v, tu : Current(v, tu)' <=> Current(v, tu)
      /\ \A id : Expected(id)' <=> Expected(id)
  BY <1>1, CallersStayKeeps
<1>4. Responses'
  BY <1>1, <1>3 DEF IInv, Responses, Response, Reading
<1>5. FramesOK'
  <2>1. \A g : FrameOK(g)' <=> FrameOK(g)
    BY <1>1 DEF FrameOK, OfTurn
  <2>2. \A v \in Sessions : pc[v] \in {"first", "next"} /\ answer[v] = "refused" =>
          running[call'[CallOf(v)'].thread] # CallOf(v)'
    BY <1>1, CallersStayKeeps DEF IInv, FramesOK
  <2> QED
    BY <1>1, <2>1, <2>2 DEF IInv, FramesOK
<1>6. Ordered'
  <2>1. \A tu : Over(tu)' <=> Over(tu)
    BY <1>1, CallersStayKeeps DEF Over
  <2> QED
    BY <1>1, <2>1 DEF IInv, Ordered, OfTurn, Ends
<1>7. Turns' /\ Begun'
  <2>1. \A v, tu : Accepted(v, tu)' <=> Accepted(v, tu)
    BY <1>1 DEF Accepted
  <2>2. \A tu : (Alive(tu)' <=> Alive(tu)) /\ (Bound(tu)' <=> Bound(tu))
    BY <1>1 DEF Alive, Ends, Bound
  <2> QED
    BY <1>1, <1>3, <2>1, <2>2 DEF IInv, Turns, Begun, Starts
<1> QED
  BY <1>1, <1>2, <1>4, <1>5, <1>6, <1>7, CallersStayKeeps DEF IInv

LEMMA AskKeeps == ASSUME IInv, Ask PROVE IInv'
<1> USE DEF server, mine, routes, segments
<1>1. CallersStay /\ UNCHANGED <<c2s, s2c, running, answer, turnW, rd>> /\ asks' \subseteq asks
  BY DEF Ask, CallersStay
<1> QED
  BY <1>1, StutterKeeps

LEMMA RespondKeeps == ASSUME IInv, Respond PROVE IInv'
<1> USE DEF server, mine, routes, segments
<1> DEFINE id == rd.frame.id
           v == call[id].w
<1>1. /\ CallersStay /\ UNCHANGED <<call, late, c2s, s2c, running, turnW, asks, host, pc>>
      /\ Reading /\ rd' = Idle /\ rd'.pc = "idle" /\ rd'.frame = NoFrame /\ rd'.frame.kind = "none"
      /\ Served' = Served
      /\ answer' = IF id \in late THEN answer ELSE [answer EXCEPT ![v] = rd.frame.kind]
  BY IdleTyped DEF Respond, CallersStay, Reading, Response, Served
<1>2. /\ id \in Served /\ id \in Made /\ v \in Sessions /\ rd.frame.kind \in {"ok", "refused"}
      /\ FrameOK(rd.frame) /\ answer \in [Sessions -> {"awaited", "ok", "refused"}]
  BY <1>1, CallsKnown, CallTyped DEF IInv, Types, FramesOK, Reading, Response
<1> HIDE DEF id, v
<1>3. /\ answer' \in [Sessions -> {"awaited", "ok", "refused"}]
      /\ \A w \in Sessions \ {v} : answer'[w] = answer[w]
      /\ id \notin late => answer'[v] = rd.frame.kind
      /\ id \in late => answer' = answer
  BY <1>1, <1>2
<1>4. id \notin late => pc[v] \in Awaiting /\ CallOf(v) = id
  BY <1>1 DEF IInv, Responses, Expected, id, v
<1>5. Types' /\ InOrder'
  BY <1>1, <1>3, IdleTyped DEF IInv, Types, InOrder, CallersStay
<1>6. \A w, tu : Current(w, tu)' <=> Current(w, tu)
  BY <1>1, CallersStayKeeps
<1>7. ASSUME NEW x, x # id, x \in Made, Expected(x) PROVE Expected(x)'
  <2>1. PICK w \in Sessions : w = call[x].w
    BY <1>7, CallTyped DEF IInv
  <2>2. pc[w] \in Awaiting /\ CallOf(w) = x /\ answer[w] = "awaited"
    BY <1>7, <2>1 DEF Expected
  <2>3. answer'[w] = "awaited"
    BY <1>3, <1>4, <1>7, <2>2
  <2> QED
    BY <1>1, <2>1, <2>2, <2>3, CallersStayKeeps DEF Expected
<1>8. Responses'
  <2>1. \A i \in 1 .. Len(c2s) : c2s[i] \in Made /\ c2s[i] # id
    <3>1. Len(call) \in Nat /\ Len(c2s) \in Nat
      BY DEF IInv, Types
    <3> QED
      BY <1>2, <3>1, CallsKnown DEF IInv, InOrder, Served
  <2>2. \A i \in 1 .. Len(s2c) : Response(s2c[i]) => s2c[i].id \in Made /\ s2c[i].id # id
    BY <1>1, CallsKnown DEF IInv, Responses, id
  <2>3. \A i \in 1 .. Len(c2s) : c2s[i] \notin late => Expected(c2s[i])'
    BY <1>1, <1>7, <2>1 DEF IInv, Responses
  <2>4. \A i \in 1 .. Len(s2c) : Response(s2c[i]) /\ s2c[i].id \notin late => Expected(s2c[i].id)'
    BY <1>1, <1>7, <2>2 DEF IInv, Responses
  <2>5. ~Reading'
    BY <1>1 DEF Reading
  <2> QED
    BY <1>1, <2>3, <2>4, <2>5 DEF IInv, Responses, Response
<1>9. \A w \in Sessions : pc[w] \in {"first", "next"} /\ answer'[w] # answer[w] =>
        w = v /\ CallOf(w) = id /\ answer'[w] = rd.frame.kind
  BY <1>3, <1>4
<1>10. FramesOK'
  <2>1. \A g : FrameOK(g)' <=> FrameOK(g)
    BY <1>1 DEF FrameOK, OfTurn
  <2>2. FrameOK(rd.frame)' /\ (rd'.pc = "idle" => rd'.frame = NoFrame)
    <3>1. FrameOK(NoFrame)
      BY IdleTyped DEF FrameOK, OfTurn
    <3> QED
      BY <1>1, <2>1, <3>1
  <2>3. ASSUME NEW w \in Sessions, pc[w] \in {"first", "next"}, answer'[w] = "refused"
        PROVE  running[call'[CallOf(w)'].thread] # CallOf(w)'
    <3>1. running[call[CallOf(w)].thread] # CallOf(w)
      <4>1. CASE answer[w] = "refused"
        BY <2>3, <4>1 DEF IInv, FramesOK
      <4>2. CASE answer[w] # "refused"
        BY <1>2, <1>9, <2>3, <4>2 DEF FrameOK, id
      <4> QED
        BY <4>1, <4>2
    <3> QED
      BY <1>1, <3>1, CallersStayKeeps
  <2> QED
    BY <1>1, <2>1, <2>2, <2>3 DEF IInv, FramesOK
<1>11. Ordered'
  <2>1. ASSUME NEW tu, Over(tu)' PROVE Over(tu)
    <3>1. ASSUME NEW w \in Sessions, pc'[w] \in {"first", "next"}, answer'[w] = "refused", CallOf(w)' = tu
          PROVE  Over(tu)
      <4>1. CallOf(w) = tu /\ pc[w] \in {"first", "next"}
        BY <1>1, <3>1, CallersStayKeeps
      <4>2. CASE answer[w] = "refused"
        BY <4>1, <4>2 DEF Over
      <4>3. CASE answer[w] # "refused"
        BY <1>9, <3>1, <4>1, <4>3 DEF Over, id
      <4> QED
        BY <4>2, <4>3
    <3> QED
      BY <1>1, <2>1, <3>1 DEF Over
  <2> QED
    BY <1>1, <2>1 DEF IInv, Ordered, OfTurn, Ends
<1>12. Turns'
  <2>1. ASSUME NEW w \in Sessions, NEW tu, Current(w, tu), Accepted(w, tu)' PROVE Accepted(w, tu)
    <3>1. CASE pc[w] \in {"first", "next"} /\ answer'[w] = "ok" /\ answer[w] # "ok"
      <4>1. tu = id /\ rd.frame.kind = "ok"
        <5>1. host[w].active = 0 /\ tu # 0
          BY <2>1, <3>1, Waits, CurrentIsUp
        <5>2. tu = CallOf(w)
          BY <2>1, <5>1 DEF Current
        <5> QED
          BY <1>9, <3>1, <5>2
      <4> QED
        BY <4>1 DEF Accepted, id
    <3>2. CASE ~(pc[w] \in {"first", "next"} /\ answer'[w] = "ok" /\ answer[w] # "ok")
      BY <1>1, <2>1, <3>2 DEF Accepted
    <3> QED
      BY <3>1, <3>2
  <2>2. \A tu : Alive(tu) => Alive(tu)'
    BY <1>1 DEF Alive, Ends, Reading, Response
  <2>3. \A w \in Sessions : host[w].active # 0 => Current(w, host[w].active)'
    BY <1>1, <1>6 DEF IInv, Turns
  <2>4. \A th \in Ids : running[th] # 0 /\ running[th] \notin late => Current(call[running[th]].w, running[th])'
    BY <1>1, <1>6 DEF IInv, Turns
  <2> QED
    BY <1>1, <1>6, <2>1, <2>2, <2>3, <2>4 DEF IInv, Turns
<1>13. Begun'
  <2>1. \A tu : ~Starts(rd.frame, tu) /\ (Bound(tu)' <=> Bound(tu))
    BY <1>1 DEF Bound, Starts, Reading, Response
  <2>2. \A j \in 1 .. Len(s2c) : s2c[j].kind \in {"item", "turnCompleted"} /\ s2c[j].id \notin late =>
          Current(call[s2c[j].id].w, s2c[j].id)'
    BY <1>1, <1>6 DEF IInv, Begun
  <2>3. \A th \in Ids : running[th] # 0 /\ running[th] \notin late =>
          Bound(running[th])' \/ \E i \in 1 .. Len(s2c) : Starts(s2c[i], running[th])
    BY <1>1, <2>1 DEF IInv, Begun, Bound
  <2>4. \A j \in 1 .. Len(s2c) : s2c[j].kind \in {"item", "turnCompleted"} /\ s2c[j].id \notin late =>
          Bound(s2c[j].id)' \/ \E i \in 1 .. j - 1 : Starts(s2c[i], s2c[j].id)
    BY <1>1, <2>1 DEF IInv, Begun, Bound
  <2> QED
    BY <1>1, <2>2, <2>3, <2>4 DEF Begun, Starts
<1> QED
  BY <1>1, <1>5, <1>8, <1>10, <1>11, <1>12, <1>13, CallersStayKeeps DEF IInv

LEMMA DispatchStartedKeeps ==
  ASSUME IInv, CallersStay, UNCHANGED <<c2s, s2c, running, answer, asks>>, rd' = Idle,
         rd.pc = "routed", rd.frame.kind = "turnStarted",
         turnW' = [turnW EXCEPT ![rd.frame.id] = rd.to]
  PROVE  IInv'
<1> DEFINE id == rd.frame.id
<1>1. /\ UNCHANGED <<call, late, c2s, s2c, running, answer, asks, host, pc>> /\ Served' = Served
      /\ rd'.pc = "idle" /\ rd'.frame = NoFrame /\ rd'.frame.kind = "none"
  BY IdleTyped DEF CallersStay, Served
<1>2. /\ id \in Served /\ id \in Ids /\ rd.to \in Sessions /\ FrameOK(rd.frame)
      /\ turnW \in [Ids -> Sessions \cup {None}]
  BY CallsKnown DEF IInv, Types, FramesOK
<1>3. /\ turnW' \in [Ids -> Sessions \cup {None}] /\ turnW'[id] = rd.to
      /\ \A tu \in Ids \ {id} : turnW'[tu] = turnW[tu]
  BY <1>2
<1> HIDE DEF id
<1>4. Types' /\ InOrder'
  BY <1>1, <1>3, IdleTyped DEF IInv, Types, InOrder, CallersStay
<1>5. \A v, tu : Current(v, tu)' <=> Current(v, tu)
  BY <1>1, CallersStayKeeps
<1>6. ASSUME NEW v \in Sessions, Current(v, id) PROVE rd.to = v
  BY <1>2, <1>6 DEF IInv, Turns, OfTurn, id
<1>7. Responses'
  <2>1. \A x : Expected(x)' <=> Expected(x)
    BY <1>1, CallersStayKeeps
  <2>2. ~Reading'
    BY <1>1 DEF Reading
  <2> QED
    BY <1>1, <2>1, <2>2 DEF IInv, Responses, Response
<1>8. FramesOK'
  <2>1. \A g : FrameOK(g)' <=> FrameOK(g)
    BY <1>1 DEF FrameOK, OfTurn
  <2>2. FrameOK(rd.frame)' /\ (rd'.pc = "idle" => rd'.frame = NoFrame)
    <3>1. FrameOK(NoFrame)
      BY IdleTyped DEF FrameOK, OfTurn
    <3> QED
      BY <1>1, <2>1, <3>1
  <2>3. \A v \in Sessions : pc[v] \in {"first", "next"} /\ answer[v] = "refused" =>
          running[call'[CallOf(v)'].thread] # CallOf(v)'
    BY <1>1, CallersStayKeeps DEF IInv, FramesOK
  <2>4. \A tu \in Ids : turnW'[tu] # None => tu \in Served
    BY <1>2, <1>3 DEF IInv, FramesOK
  <2> QED
    BY <1>1, <2>1, <2>2, <2>3, <2>4 DEF IInv, FramesOK
<1>9. Ordered'
  <2>1. ASSUME NEW tu, Over(tu)' PROVE Over(tu)
    BY <1>1, <2>1, CallersStayKeeps DEF Over
  <2> QED
    BY <1>1, <2>1 DEF IInv, Ordered, OfTurn, Ends
<1>10. Turns'
  <2>1. \A v, tu : Accepted(v, tu)' => Accepted(v, tu)
    BY <1>1 DEF Accepted
  <2>2. \A tu : Alive(tu) => Alive(tu)'
    BY <1>1 DEF Alive, Ends
  <2>3. \A v \in Sessions : host[v].active # 0 => Current(v, host[v].active)'
    BY <1>1, <1>5 DEF IInv, Turns
  <2>4. \A th \in Ids : running[th] # 0 /\ running[th] \notin late => Current(call[running[th]].w, running[th])'
    BY <1>1, <1>5 DEF IInv, Turns
  <2>5. \A v \in Sessions, tu \in Ids : Current(v, tu) => turnW'[tu] \in {None, v}
    BY <1>3, <1>6 DEF IInv, Turns
  <2> QED
    BY <1>1, <1>5, <2>1, <2>2, <2>3, <2>4, <2>5 DEF IInv, Turns
<1>11. Begun'
  <2>1. ASSUME NEW tu \in Ids, NEW v \in Sessions, v = call[tu].w, Current(v, tu)
        PROVE  Bound(tu) \/ Starts(rd.frame, tu) => Bound(tu)'
    <3>1. tu # id => ~Starts(rd.frame, tu) /\ turnW'[tu] = turnW[tu]
      BY <1>3 DEF Starts, id
    <3>2. tu = id => turnW'[tu] = v
      BY <1>3, <1>6, <2>1
    <3> QED
      BY <1>1, <2>1, <3>1, <3>2 DEF Bound
  <2>2. ASSUME NEW th \in Ids, running[th] # 0, running[th] \notin late
        PROVE  Bound(running[th])' \/ \E i \in 1 .. Len(s2c) : Starts(s2c[i], running[th])
    <3>1. PICK tu \in Ids, v \in Sessions : tu = running[th] /\ v = call[tu].w /\ Current(v, tu)
      BY <2>2, RunningIsNotOver, CallTyped, CallsKnown DEF IInv, Turns
    <3>2. Bound(tu)' \/ \E i \in 1 .. Len(s2c) : Starts(s2c[i], tu)
      BY <2>1, <2>2, <3>1 DEF IInv, Begun
    <3> QED
      BY <1>1, <3>1, <3>2 DEF Bound
  <2>3. ASSUME NEW j \in 1 .. Len(s2c), s2c[j].kind \in {"item", "turnCompleted"}, s2c[j].id \notin late
        PROVE  /\ Current(call[s2c[j].id].w, s2c[j].id)'
               /\ Bound(s2c[j].id)' \/ \E i \in 1 .. j - 1 : Starts(s2c[i], s2c[j].id)
    <3>1. PICK tu \in Ids, v \in Sessions : tu = s2c[j].id /\ v = call[tu].w
      BY CallsKnown, CallTyped DEF IInv
    <3>2. Current(v, tu) /\ (Bound(tu) \/ Starts(rd.frame, tu) \/ \E i \in 1 .. j - 1 : Starts(s2c[i], tu))
      BY <2>3, <3>1 DEF IInv, Begun
    <3>3. Bound(tu)' \/ \E i \in 1 .. j - 1 : Starts(s2c[i], tu)
      BY <2>1, <3>1, <3>2
    <3> QED
      BY <1>1, <1>5, <3>1, <3>2, <3>3 DEF Bound
  <2> QED
    BY <1>1, <2>2, <2>3 DEF Begun, Starts
<1> QED
  BY <1>1, <1>4, <1>7, <1>8, <1>9, <1>10, <1>11, CallersStayKeeps DEF IInv

LEMMA NotedEnd ==
  ASSUME NEW r \in Hosts, NEW tu \in Ids
  PROVE  LET n == NoteTurnEnded(r, tu)
         IN /\ n \in Hosts /\ n.on = r.on /\ n.thread = r.thread /\ n.pending = r.pending
            /\ n.early = (IF r.pending /\ r.active = 0 THEN r.early \cup {tu} ELSE r.early)
            /\ n.active = (IF r.active = tu THEN 0 ELSE r.active)
<1> DEFINE n == NoteTurnEnded(r, tu)
<1>1. n.on = r.on /\ n.thread = r.thread /\ n.pending = r.pending
  BY DEF NoteTurnEnded, Hosts
<1>2. n.early = (IF r.pending /\ r.active = 0 THEN r.early \cup {tu} ELSE r.early)
  BY DEF NoteTurnEnded, Hosts
<1>3. n.active = (IF r.active = tu THEN 0 ELSE r.active)
  BY DEF NoteTurnEnded, Hosts
<1>4. n \in Hosts
  BY DEF NoteTurnEnded, Hosts
<1> QED
  BY <1>1, <1>2, <1>3, <1>4

(* What the end of a turn does to the hosts. *)
Ended(w, tu) ==
    /\ UNCHANGED <<call, late, pc, thread, kept, threadW, starting, c2s, s2c, running, answer, asks>>
    /\ rd' = Idle /\ turnW' = [turnW EXCEPT ![tu] = None]
    /\ host' = IF host[w].on THEN [host EXCEPT ![w] = NoteTurnEnded(host[w], tu)] ELSE host
    /\ rd.pc = "routed" /\ rd.frame.kind = "turnCompleted" /\ rd.frame.id = tu /\ rd.to = w

LEMMA EndedHosts ==
  ASSUME IInv, NEW w, NEW tu, Ended(w, tu)
  PROVE  /\ tu \in Served /\ tu \in Ids /\ w \in Sessions /\ FrameOK(rd.frame) /\ running[call[tu].thread] # tu
         /\ host' \in [Sessions -> Hosts]
         /\ \A v \in Sessions : /\ host'[v].on = host[v].on /\ host'[v].thread = host[v].thread
                                /\ host'[v].pending = host[v].pending
                                /\ host[v].early \subseteq host'[v].early
                                /\ host'[v].early \subseteq host[v].early \cup {tu}
                                /\ host'[v].active = host[v].active \/ (host'[v].active = 0 /\ host[v].active = tu)
                                /\ ~host[v].on => host'[v] = host[v]
         /\ host[w].on => /\ host[w].pending /\ host[w].active = 0 => tu \in host'[w].early
                          /\ host'[w].active # tu
<1>1. tu \in Served /\ tu \in Ids /\ w \in Sessions /\ FrameOK(rd.frame) /\ running[call[tu].thread] # tu
  <2>1. w \in Sessions /\ FrameOK(rd.frame)
    BY DEF Ended, IInv, Types, FramesOK
  <2> QED
    BY <2>1, CallsKnown DEF Ended, FrameOK
<1>2. host \in [Sessions -> Hosts] /\ host[w] \in Hosts /\ tu # 0
  BY <1>1, Ready DEF Types
<1> DEFINE n == NoteTurnEnded(host[w], tu)
<1>3. /\ n \in Hosts /\ n.on = host[w].on /\ n.thread = host[w].thread /\ n.pending = host[w].pending
      /\ n.early = (IF host[w].pending /\ host[w].active = 0 THEN host[w].early \cup {tu} ELSE host[w].early)
      /\ n.active = (IF host[w].active = tu THEN 0 ELSE host[w].active)
  BY <1>1, <1>2, NotedEnd
<1> HIDE DEF n
<1>4. CASE host[w].on
  <2>1. host' = [host EXCEPT ![w] = n]
    BY <1>4 DEF Ended, n
  <2>2. host'[w] = n /\ \A v \in Sessions \ {w} : host'[v] = host[v]
    BY <1>1, <1>2, <2>1
  <2>3. host' \in [Sessions -> Hosts]
    BY <1>2, <1>3, <2>1
  <2> QED
    BY <1>1, <1>2, <1>3, <1>4, <2>2, <2>3
<1>5. CASE ~host[w].on
  BY <1>1, <1>2, <1>5 DEF Ended
<1> QED
  BY <1>4, <1>5

LEMMA EndedCurrent ==
  ASSUME IInv, NEW w, NEW tu, Ended(w, tu), NEW v \in Sessions, NEW x
  PROVE  /\ Current(v, x)' => Current(v, x)
         /\ Current(v, x) /\ x # tu => Current(v, x)'
         /\ Current(v, tu) => v = w
         /\ Current(v, tu)' => host'[v].pending /\ tu \in host'[v].early
<1>1. UNCHANGED <<call, late, pc>> /\ Made' = Made /\ CallOf(v)' = CallOf(v)
  BY CallsStay DEF Ended
<1>2. /\ host'[v].thread = host[v].thread
      /\ host'[v].active = host[v].active \/ (host'[v].active = 0 /\ host[v].active = tu)
  BY EndedHosts
<1>3. x \in Made => x # 0
  BY CallsKnown, Ready
<1>4. Current(v, x)' => Current(v, x)
  BY <1>1, <1>2, <1>3 DEF Current
<1>5. Current(v, x) /\ x # tu => Current(v, x)'
  BY <1>1, <1>2, <1>3 DEF Current
<1>6. Current(v, tu) => v = w
  <2>1. tu \in Ids /\ rd.pc = "routed" /\ OfTurn(rd.frame) /\ rd.frame.id = tu /\ rd.to = w
    BY EndedHosts DEF Ended, OfTurn
  <2> QED
    BY <2>1 DEF IInv, Turns
<1>7. ASSUME Current(v, tu)' PROVE host'[v].pending /\ tu \in host'[v].early
  <2>1. Current(v, tu)
    <3>1. tu # 0
      BY EndedHosts, Ready
    <3> QED
      BY <1>1, <1>2, <1>7, <3>1 DEF Current
  <2>2. v = w /\ host[w].on
    BY <1>6, <2>1, CurrentIsUp
  <2>3. host'[w].active # tu
    BY <2>2, EndedHosts
  <2>4. pc[v] \in {"first", "next"}
    BY <1>1, <1>7, <2>2, <2>3 DEF Current
  <2>5. host[v].pending /\ host[v].active = 0
    BY <2>4, Waits
  <2> QED
    BY <2>2, <2>5, EndedHosts
<1> QED
  BY <1>4, <1>5, <1>6, <1>7

LEMMA EndedKeeps == ASSUME IInv, NEW w, NEW tu, Ended(w, tu) PROVE IInv'
<1>1. /\ UNCHANGED <<call, late, c2s, s2c, running, answer, asks, pc, thread, kept, threadW, starting>>
      /\ Served' = Served /\ Made' = Made /\ \A v : CallOf(v)' = CallOf(v)
      /\ rd'.pc = "idle" /\ rd'.frame = NoFrame /\ rd'.frame.kind = "none"
  BY IdleTyped, CallsStay DEF Ended, Served
<1>2. /\ tu \in Served /\ tu \in Ids /\ w \in Sessions /\ FrameOK(rd.frame) /\ running[call[tu].thread] # tu
      /\ turnW \in [Ids -> Sessions \cup {None}] /\ rd.frame.kind = "turnCompleted" /\ rd.frame.id = tu
  <2>1. turnW \in [Ids -> Sessions \cup {None}] /\ rd.frame.kind = "turnCompleted" /\ rd.frame.id = tu
    BY DEF IInv, Types, Ended
  <2> QED
    BY <2>1, EndedHosts
<1>3. /\ turnW' \in [Ids -> Sessions \cup {None}] /\ turnW'[tu] = None
      /\ \A x \in Ids \ {tu} : turnW'[x] = turnW[x]
  BY <1>2 DEF Ended
<1>4. Types' /\ InOrder' /\ Threads'
  <2>1. Types'
    <3>1. host' \in [Sessions -> Hosts]
      BY EndedHosts
    <3>2. rd' \in [pc : {"idle", "recorded", "routed"}, frame : Frames, to : Sessions \cup {None}]
      BY IdleTyped DEF Ended
    <3> QED
      BY <1>1, <1>3, <3>1, <3>2 DEF IInv, Types
  <2> QED
    BY <1>1, <2>1 DEF IInv, InOrder, Threads, OwnThread
<1>5. ASSUME NEW v \in Sessions PROVE Station(v)'
  <2>1. Station(v) /\ NoHost.on = FALSE
    BY DEF IInv, NoHost
  <2>2. pc[v] \notin Up => host'[v] = NoHost
    BY <2>1, EndedHosts DEF Station
  <2>3. host'[v].on = host[v].on /\ host'[v].thread = host[v].thread /\ host'[v].pending = host[v].pending
    BY EndedHosts
  <2>4. host'[v].active = host[v].active \/ host'[v].active = 0
    BY EndedHosts
  <2> QED
    BY <1>1, <2>1, <2>2, <2>3, <2>4, CallsStay DEF Station
<1>6. Responses'
  <2>1. \A x : Expected(x)' <=> Expected(x)
    BY <1>1 DEF Expected
  <2>2. ~Reading'
    BY <1>1 DEF Reading
  <2> QED
    BY <1>1, <2>1, <2>2 DEF IInv, Responses, Response
<1>7. FramesOK'
  <2>1. \A g : FrameOK(g)' <=> FrameOK(g)
    BY <1>1 DEF FrameOK, OfTurn
  <2>2. FrameOK(rd.frame)' /\ (rd'.pc = "idle" => rd'.frame = NoFrame)
    <3>1. FrameOK(NoFrame)
      BY IdleTyped DEF FrameOK, OfTurn
    <3> QED
      BY <1>1, <2>1, <3>1
  <2>3. \A v \in Sessions : pc[v] \in {"first", "next"} /\ answer[v] = "refused" =>
          running[call'[CallOf(v)'].thread] # CallOf(v)'
    BY <1>1 DEF IInv, FramesOK
  <2>4. \A x \in Ids : turnW'[x] # None => x \in Served
    BY <1>3 DEF IInv, FramesOK
  <2>5. \A v \in Sessions : host'[v].early \subseteq {x \in Served : running[call[x].thread] # x}
    BY <1>2, EndedHosts DEF IInv, FramesOK
  <2> QED
    BY <1>1, <2>1, <2>2, <2>3, <2>4, <2>5 DEF IInv, FramesOK
<1>8. \A j \in 1 .. Len(s2c) : OfTurn(s2c[j]) => s2c[j].id # tu
  BY <1>2 DEF IInv, Ordered, Ends
<1>9. Ordered'
  <2>1. ASSUME NEW x, Over(x)' PROVE Over(x) \/ x = tu
    <3>1. \A v \in Sessions : x \in host'[v].early => x \in host[v].early \/ x = tu
      BY EndedHosts
    <3> QED
      BY <1>1, <2>1, <3>1 DEF Over
  <2> QED
    BY <1>1, <1>8, <2>1 DEF IInv, Ordered, OfTurn, Ends
<1>10. \A x \in Ids \ {tu} : (Bound(x)' <=> Bound(x)) /\ ~Starts(rd.frame, x)
  BY <1>1, <1>2, <1>3 DEF Bound, Starts
<1>11. \A t \in Ids : running[t] # 0 => running[t] \in Ids /\ running[t] # tu /\ call[running[t]].w \in Sessions
  BY <1>2, RunningIsNotOver, CallTyped, CallsKnown DEF IInv
<1>12. Turns'
  <2>1. ASSUME NEW v \in Sessions, host'[v].active # 0 PROVE Current(v, host[v].active)'
    <3>1. PICK a : a = host[v].active
      OBVIOUS
    <3>2. host'[v].active = a /\ Current(v, a)
      BY <2>1, <3>1, EndedHosts DEF IInv, Turns
    <3>3. a # tu
      <4>1. CASE a = tu
        <5>1. v = w /\ host[w].on
          BY <3>2, <4>1, EndedCurrent, CurrentIsUp
        <5> QED
          BY <3>2, <4>1, <5>1, EndedHosts
      <4> QED
        BY <4>1
    <3>4. Current(v, a)'
      BY <3>2, <3>3, EndedCurrent
    <3> QED
      BY <3>1, <3>2, <3>4
  <2>2. ASSUME NEW v \in Sessions, NEW x \in Ids, Current(v, x)'
        PROVE  /\ turnW'[x] \in {None, v}
               /\ Accepted(v, x)' => Alive(x)' \/ (host'[v].pending /\ x \in host'[v].early)
    <3>1. Current(v, x)
      BY <2>2, EndedCurrent
    <3>2. turnW'[x] \in {None, v}
      BY <1>3, <3>1 DEF IInv, Turns
    <3>3. CASE x = tu
      BY <2>2, <3>2, <3>3, EndedCurrent
    <3>4. CASE x # tu
      <4>1. Alive(x) => Alive(x)'
        BY <1>1, <1>2, <3>4 DEF Alive, Ends
      <4>2. Accepted(v, x)' => Accepted(v, x)
        <5>1. host'[v].active = x => host[v].active = x
          BY EndedHosts, Ready
        <5> QED
          BY <1>1, <5>1 DEF Accepted
      <4>3. host'[v].pending = host[v].pending /\ host[v].early \subseteq host'[v].early
        BY EndedHosts
      <4> QED
        BY <3>1, <3>2, <4>1, <4>2, <4>3 DEF IInv, Turns
    <3> QED
      BY <3>3, <3>4
  <2>3. ASSUME NEW t \in Ids, running[t] # 0, running[t] \notin late
        PROVE  Current(call[running[t]].w, running[t])'
    <3>1. PICK x \in Ids, v \in Sessions : x = running[t] /\ x # tu /\ v = call[x].w
      BY <1>11, <2>3
    <3>2. Current(v, x)'
      BY <2>3, <3>1, EndedCurrent DEF IInv, Turns
    <3> QED
      BY <1>1, <3>1, <3>2
  <2> QED
    BY <1>1, <2>1, <2>2, <2>3 DEF Turns
<1>13. Begun'
  <2>1. ASSUME NEW t \in Ids, running[t] # 0, running[t] \notin late
        PROVE  Bound(running[t])' \/ \E i \in 1 .. Len(s2c) : Starts(s2c[i], running[t])
    <3>1. PICK x \in Ids : x = running[t] /\ x # tu
      BY <1>11, <2>1
    <3>2. Bound(x)' \/ \E i \in 1 .. Len(s2c) : Starts(s2c[i], x)
      BY <1>10, <2>1, <3>1 DEF IInv, Begun
    <3> QED
      BY <1>1, <3>1, <3>2 DEF Bound
  <2>2. ASSUME NEW j \in 1 .. Len(s2c), s2c[j].kind \in {"item", "turnCompleted"}, s2c[j].id \notin late
        PROVE  /\ Current(call[s2c[j].id].w, s2c[j].id)'
               /\ Bound(s2c[j].id)' \/ \E i \in 1 .. j - 1 : Starts(s2c[i], s2c[j].id)
    <3>1. PICK x \in Ids, v \in Sessions : x = s2c[j].id /\ v = call[x].w
      BY CallsKnown, CallTyped DEF IInv
    <3>2. x # tu
      BY <1>8, <2>2, <3>1 DEF OfTurn
    <3>3. Current(v, x) /\ (Bound(x) \/ Starts(rd.frame, x) \/ \E i \in 1 .. j - 1 : Starts(s2c[i], x))
      BY <2>2, <3>1 DEF IInv, Begun
    <3>4. Current(v, x)' /\ (Bound(x)' \/ \E i \in 1 .. j - 1 : Starts(s2c[i], x))
      BY <1>10, <3>2, <3>3, EndedCurrent
    <3> QED
      BY <1>1, <3>1, <3>4 DEF Bound
  <2> QED
    BY <1>1, <2>1, <2>2 DEF Begun, Starts
<1> QED
  BY <1>4, <1>5, <1>6, <1>7, <1>9, <1>12, <1>13 DEF IInv

LEMMA DispatchKeeps == ASSUME IInv, Dispatch PROVE IInv'
<1> USE DEF server, mine, routes, segments
<1>1. /\ rd.pc = "routed" /\ rd' = Idle /\ Notification(rd.frame)
      /\ UNCHANGED <<call, late, pc, thread, kept, threadW, starting, c2s, s2c, running, answer, asks>>
  BY DEF Dispatch, IInv, FramesOK
<1>2. CASE rd.frame.kind = "turnStarted"
  <2>1. turnW' = [turnW EXCEPT ![rd.frame.id] = rd.to] /\ host' = host
    BY <1>2 DEF Dispatch, TurnOf
  <2> QED
    BY <1>1, <1>2, <2>1, DispatchStartedKeeps DEF CallersStay
<1>3. CASE rd.frame.kind = "turnCompleted"
  <2>1. PICK w, tu : w = rd.to /\ tu = rd.frame.id
    OBVIOUS
  <2>2. Ended(w, tu)
    BY <1>1, <1>3, <2>1 DEF Dispatch, Ended, TurnOf
  <2> QED
    BY <2>2, EndedKeeps
<1>4. CASE rd.frame.kind \notin {"turnStarted", "turnCompleted"}
  <2>1. UNCHANGED <<turnW, host>>
    BY <1>4 DEF Dispatch
  <2> QED
    BY <1>1, <1>4, <2>1, DropKeeps DEF CallersStay, Notification
<1> QED
  BY <1>2, <1>3, <1>4

(* The server says something of a turn that runs, at last that it has ended. *)
Tells(th, tu, f) ==
    /\ CallersStay /\ UNCHANGED <<c2s, answer, rd, turnW, asks>>
    /\ running[th] = tu /\ tu # 0 /\ s2c' = Append(s2c, f)
    /\ f.id = tu /\ f.kind \in {"item", "approval", "turnCompleted"}
    /\ f.thread = th \/ (f.kind = "item" /\ f.thread = 0)
    /\ running' = IF f.kind = "turnCompleted" THEN [running EXCEPT ![th] = 0] ELSE running

LEMMA TellsKeeps ==
  ASSUME IInv, NEW th \in Ids, NEW tu, NEW f \in Frames, Tells(th, tu, f)
  PROVE  IInv'
<1> DEFINE n == Len(s2c) + 1
<1>1. /\ UNCHANGED <<call, late, c2s, answer, rd, turnW, asks, host, pc>> /\ Served' = Served
      /\ CallersStay /\ running \in [Ids -> Ids \cup {0}] /\ Len(s2c) \in Nat /\ s2c \in Seq(Frames)
  BY DEF Tells, CallersStay, Served, IInv, Types
<1>2. /\ f.id = tu /\ f.kind \in {"item", "approval", "turnCompleted"} /\ OfTurn(f) /\ ~Response(f)
      /\ f.thread = th \/ (f.kind = "item" /\ f.thread = 0)
  BY DEF Tells, OfTurn, Response
<1>3. /\ tu \in Served /\ tu \in Made /\ tu \in Ids /\ tu # 0 /\ call[tu].thread = th /\ call[tu].kind = "turn"
      /\ call[tu].w \in Sessions /\ running[th] = tu /\ ~Over(tu)
  <2>1. running[th] = tu /\ tu # 0
    BY DEF Tells
  <2>2. tu \in Made /\ call[tu].thread = th /\ ~Over(tu)
    BY <2>1, RunningIsNotOver
  <2>3. tu \in Served /\ call[tu].kind = "turn"
    BY <2>1 DEF IInv, FramesOK
  <2> QED
    BY <2>1, <2>2, <2>3, CallTyped DEF IInv
<1>4. /\ s2c' \in Seq(Frames) /\ Len(s2c') = n /\ s2c'[n] = f /\ \A i \in 1 .. Len(s2c) : s2c'[i] = s2c[i]
      /\ \A i \in 1 .. Len(s2c') : i = n \/ i \in 1 .. Len(s2c)
  <2>1. s2c' = Append(s2c, f)
    BY DEF Tells
  <2> QED
    BY <1>1, <2>1, OneMore
<1> HIDE DEF n
<1>0. n = Len(s2c) + 1 /\ n \in 1 .. Len(s2c') /\ \A j \in 1 .. n - 1 : j \in 1 .. Len(s2c)
  BY <1>1, <1>4 DEF n
<1>5. /\ running' \in [Ids -> Ids \cup {0}]
      /\ \A t \in Ids : running'[t] # 0 => running'[t] = running[t]
      /\ \A t \in Ids : t # th => running'[t] = running[t]
      /\ f.kind = "turnCompleted" => running'[th] = 0
      /\ f.kind # "turnCompleted" => running' = running
  BY <1>1 DEF Tells
<1>6. Types' /\ InOrder'
  BY <1>1, <1>4, <1>5 DEF IInv, Types, InOrder, CallersStay
<1>7. /\ \A v, x : Current(v, x)' <=> Current(v, x)
      /\ \A x : Expected(x)' <=> Expected(x)
  BY <1>1, CallersStayKeeps
<1>8. Responses'
  <2>1. \A i \in 1 .. Len(s2c') : Response(s2c'[i]) => i \in 1 .. Len(s2c) /\ s2c'[i] = s2c[i]
    BY <1>2, <1>4
  <2>2. ASSUME NEW i \in 1 .. Len(s2c'), Response(s2c'[i]), s2c'[i].id \notin late PROVE Expected(s2c[i].id)'
    <3>1. PICK id : id = s2c'[i].id
      OBVIOUS
    <3>2. Expected(id)
      BY <2>1, <2>2, <3>1 DEF IInv, Responses
    <3> QED
      BY <1>7, <3>1, <3>2
  <2> QED
    BY <1>1, <1>7, <2>1, <2>2 DEF IInv, Responses, Response, Reading
<1>9. FramesOK'
  <2>1. ASSUME NEW x \in Served, running[call[x].thread] # x PROVE running'[call[x].thread] # x
    <3>1. x # 0 /\ call[x].thread \in Ids
      BY CallsKnown, CallTyped, Ready DEF IInv
    <3> QED
      BY <1>5, <2>1, <3>1
  <2>2. \A g : FrameOK(g) => FrameOK(g)'
    BY <1>1, <2>1 DEF FrameOK, OfTurn
  <2>3. FrameOK(f)'
    <3>1. f.kind = "turnCompleted" => running'[call[tu].thread] # tu
      BY <1>3, <1>5
    <3> QED
      BY <1>1, <1>2, <1>3, <3>1 DEF FrameOK, OfTurn
  <2>4. \A i \in 1 .. Len(s2c') : FrameOK(s2c[i])' /\ s2c'[i].kind # "none"
    <3>1. ASSUME NEW i \in 1 .. Len(s2c') PROVE FrameOK(s2c[i])' /\ s2c'[i].kind # "none"
      <4>1. CASE i = n
        BY <1>2, <1>4, <2>3, <4>1
      <4>2. CASE i \in 1 .. Len(s2c)
        BY <1>4, <2>2, <4>2 DEF IInv, FramesOK
      <4> QED
        BY <1>4, <4>1, <4>2
    <3> QED
      BY <3>1
  <2>5. ASSUME NEW w \in Sessions, pc[w] \in {"first", "next"}, answer[w] = "refused"
        PROVE  running'[call'[CallOf(w)'].thread] # CallOf(w)'
    <3>1. running[call[CallOf(w)].thread] # CallOf(w) /\ CallOf(w) \in Made
      BY <2>5, Waits DEF IInv, FramesOK
    <3>2. CallOf(w) # 0 /\ call[CallOf(w)].thread \in Ids
      BY <3>1, CallsKnown, CallTyped, Ready DEF IInv
    <3>3. CallOf(w)' = CallOf(w)
      BY <1>1, CallersStayKeeps
    <3> QED
      BY <1>1, <1>5, <3>1, <3>2, <3>3
  <2>6. \A w \in Sessions : host[w].early \subseteq {x \in Served : running'[call[x].thread] # x}
    BY <2>1 DEF IInv, FramesOK
  <2>7. FrameOK(rd.frame)'
    BY <1>1, <2>2 DEF IInv, FramesOK
  <2>8. \A t \in Ids : running'[t] # 0 =>
          running'[t] \in Served /\ call[running'[t]].thread = t /\ call[running'[t]].kind = "turn"
    BY <1>5 DEF IInv, FramesOK
  <2> QED
    BY <1>1, <2>4, <2>5, <2>6, <2>7, <2>8 DEF IInv, FramesOK
<1>10. Ordered'
  <2>1. ASSUME NEW x, Over(x)' PROVE Over(x)
    BY <1>1, <1>2, <1>4, <2>1, CallersStayKeeps DEF Over
  <2>2. \A i \in 1 .. Len(s2c) : ~Ends(s2c[i], tu)
    BY <1>3 DEF IInv, FramesOK, FrameOK, Ends
  <2>3. ~Ends(rd.frame, tu)
    BY <1>3 DEF IInv, FramesOK, FrameOK, Ends
  <2>4. ASSUME NEW x \in Ids, Over(x), NEW j \in 1 .. Len(s2c'), OfTurn(s2c'[j]) PROVE s2c'[j].id # x
    BY <1>2, <1>3, <1>4, <2>4 DEF IInv, Ordered
  <2>5. ASSUME NEW i \in 1 .. Len(s2c'), NEW j \in 1 .. Len(s2c'), i < j, OfTurn(s2c'[j])
        PROVE  ~Ends(s2c'[i], s2c'[j].id)
    <3>1. i \in 1 .. Len(s2c) /\ s2c'[i] = s2c[i]
      BY <1>0, <1>1, <1>4, <2>5
    <3>2. CASE j = n
      BY <1>2, <1>4, <2>2, <3>1, <3>2
    <3>3. CASE j \in 1 .. Len(s2c)
      BY <1>4, <2>5, <3>1, <3>3 DEF IInv, Ordered
    <3> QED
      BY <1>4, <3>2, <3>3
  <2>6. \A j \in 1 .. Len(s2c') : OfTurn(s2c'[j]) => ~Ends(rd.frame, s2c'[j].id)
    BY <1>2, <1>4, <2>3 DEF IInv, Ordered
  <2> QED
    BY <1>1, <2>1, <2>4, <2>5, <2>6 DEF IInv, Ordered, OfTurn, Ends
<1>11. Turns'
  <2>1. \A v, x : Accepted(v, x)' => Accepted(v, x)
    BY <1>1, <1>2, <1>4 DEF Accepted
  <2>2. ASSUME NEW x \in Ids, Alive(x), x \in Made PROVE Alive(x)'
    <3>1. CASE running[call[x].thread] = x
      <4>1. call[x].thread \in Ids
        BY <2>2, CallTyped DEF IInv
      <4>2. CASE f.kind = "turnCompleted" /\ call[x].thread = th
        BY <1>0, <1>2, <1>3, <1>4, <3>1, <4>2 DEF Alive, Ends
      <4>3. CASE ~(f.kind = "turnCompleted" /\ call[x].thread = th)
        BY <1>1, <1>5, <3>1, <4>1, <4>3 DEF Alive
      <4> QED
        BY <4>2, <4>3
    <3>2. CASE running[call[x].thread] # x
      <4>1. 1 .. Len(s2c) \subseteq 1 .. Len(s2c')
        BY <1>0, <1>1, <1>4
      <4> QED
        BY <1>1, <1>4, <2>2, <3>2, <4>1 DEF Alive, Ends
    <3> QED
      BY <3>1, <3>2
  <2>3. \A v \in Sessions : host[v].active # 0 => Current(v, host[v].active)'
    BY <1>1, <1>7 DEF IInv, Turns
  <2>4. \A t \in Ids : running'[t] # 0 /\ running'[t] \notin late => Current(call[running[t]].w, running[t])'
    BY <1>1, <1>5, <1>7 DEF IInv, Turns
  <2>5. \A v \in Sessions, x \in Ids : Current(v, x) => x \in Made
    BY DEF Current
  <2> QED
    BY <1>1, <1>5, <1>7, <2>1, <2>2, <2>3, <2>4, <2>5 DEF IInv, Turns
<1>12. Begun'
  <2>1. \A x : Bound(x)' <=> Bound(x)
    BY <1>1 DEF Bound
  <2>2. 1 .. Len(s2c) \subseteq 1 .. Len(s2c')
    BY <1>0, <1>1, <1>4
  <2>3. ASSUME NEW t \in Ids, running'[t] # 0, running'[t] \notin late
        PROVE  \/ Bound(running[t])' \/ Starts(rd.frame, running'[t])
               \/ \E i \in 1 .. Len(s2c') : Starts(s2c'[i], running'[t])
    <3>1. PICK x : x = running[t] /\ x = running'[t]
      BY <1>5, <2>3
    <3>2. Bound(x) \/ Starts(rd.frame, x) \/ \E i \in 1 .. Len(s2c) : Starts(s2c[i], x)
      BY <2>3, <3>1 DEF IInv, Begun
    <3> QED
      BY <1>4, <2>1, <2>2, <3>1, <3>2
  <2>4. ASSUME NEW j \in 1 .. Len(s2c'), s2c'[j].kind \in {"item", "turnCompleted"}, s2c'[j].id \notin late
        PROVE  /\ Current(call[s2c[j].id].w, s2c[j].id)'
               /\ Bound(s2c[j].id)' \/ Starts(rd.frame, s2c'[j].id)
                    \/ \E i \in 1 .. j - 1 : Starts(s2c'[i], s2c'[j].id)
    <3>1. PICK x : x = s2c'[j].id
      OBVIOUS
    <3>2. CASE j = n
      <4>1. x = tu
        BY <1>2, <1>4, <3>1, <3>2
      <4>2. Current(call[tu].w, tu)
        BY <1>3, <2>4, <3>1, <4>1 DEF IInv, Turns
      <4>3. Bound(tu) \/ Starts(rd.frame, tu) \/ \E i \in 1 .. Len(s2c) : Starts(s2c[i], tu)
        BY <1>3, <2>4, <3>1, <4>1 DEF IInv, Begun
      <4>4. Bound(tu) \/ Starts(rd.frame, tu) \/ \E i \in 1 .. n - 1 : Starts(s2c'[i], tu)
        BY <1>0, <1>1, <1>4, <4>3
      <4> QED
        BY <1>1, <1>7, <2>1, <3>1, <3>2, <4>1, <4>2, <4>4
    <3>3. CASE j \in 1 .. Len(s2c)
      <4>1. x = s2c[j].id /\ s2c[j].kind \in {"item", "turnCompleted"} /\ x \notin late
        BY <1>4, <2>4, <3>1, <3>3
      <4>2. Current(call[x].w, x) /\ (Bound(x) \/ Starts(rd.frame, x) \/ \E i \in 1 .. j - 1 : Starts(s2c[i], x))
        BY <3>3, <4>1 DEF IInv, Begun
      <4>3. \A i \in 1 .. j - 1 : s2c'[i] = s2c[i]
        BY <1>1, <1>4, <3>3
      <4> QED
        BY <1>1, <1>7, <2>1, <3>1, <4>2, <4>3
    <3> QED
      BY <1>4, <3>2, <3>3
  <2>5. rd.frame.kind \in {"item", "turnCompleted"} /\ rd.frame.id \notin late =>
          Current(call[rd.frame.id].w, rd.frame.id)' /\ Bound(rd.frame.id)'
    BY <1>1, <1>7, <2>1 DEF IInv, Begun, Bound
  <2> QED
    BY <1>1, <2>3, <2>4, <2>5 DEF Begun, Starts
<1> QED
  BY <1>1, <1>6, <1>8, <1>9, <1>10, <1>11, <1>12, CallersStayKeeps DEF IInv

LEMMA FrameTyped ==
  ASSUME NEW kind \in Kinds, NEW id \in Ids \cup {0}, NEW th \in Ids \cup {0}
  PROVE  LET f == Frame(kind, id, th) IN f \in Frames /\ f.kind = kind /\ f.id = id /\ f.thread = th
BY DEF Frame, Frames

LEMMA SayKeeps == ASSUME IInv, Say PROVE IInv'
<1> USE DEF server, mine, routes, segments
<1>1. CallersStay /\ UNCHANGED <<c2s, running, answer, rd, turnW, asks>>
  BY DEF Say, CallersStay
<1>2. PICK th \in Ids : running[th] # 0 /\
        \E f \in {Frame("item", running[th], th), Frame("item", running[th], 0),
                  Frame("approval", running[th], th)} : s2c' = Append(s2c, f)
  BY DEF Say
<1>3. PICK tu \in Ids : tu = running[th] /\ tu # 0
  BY <1>2 DEF IInv, Types
<1>4. PICK f \in {Frame("item", tu, th), Frame("item", tu, 0), Frame("approval", tu, th)} : s2c' = Append(s2c, f)
  BY <1>2, <1>3
<1>5. /\ f \in Frames /\ f.id = tu /\ f.kind \in {"item", "approval"}
      /\ f.thread = th \/ (f.kind = "item" /\ f.thread = 0)
  <2>1. {"item", "approval"} \subseteq Kinds
    BY DEF Kinds
  <2> QED
    BY <1>4, <2>1, FrameTyped
<1>6. Tells(th, tu, f)
  BY <1>1, <1>3, <1>4, <1>5 DEF Tells
<1> QED
  BY <1>5, <1>6, TellsKeeps

LEMMA CompleteKeeps == ASSUME IInv, Complete PROVE IInv'
<1> USE DEF server, mine, routes, segments
<1>1. CallersStay /\ UNCHANGED <<c2s, answer, rd, turnW, asks>>
  BY DEF Complete, CallersStay
<1>2. PICK th \in Ids : /\ running[th] # 0 /\ running' = [running EXCEPT ![th] = 0]
                        /\ s2c' = Append(s2c, Frame("turnCompleted", running[th], th))
  BY DEF Complete
<1>3. PICK tu \in Ids : tu = running[th] /\ tu # 0
  BY <1>2 DEF IInv, Types
<1>4. PICK f : f = Frame("turnCompleted", tu, th)
  OBVIOUS
<1>5. f \in Frames /\ f.id = tu /\ f.kind = "turnCompleted" /\ f.thread = th
  <2>1. "turnCompleted" \in Kinds
    BY DEF Kinds
  <2> QED
    BY <1>4, <2>1, FrameTyped
<1>6. Tells(th, tu, f)
  BY <1>1, <1>2, <1>3, <1>4, <1>5 DEF Tells
<1> QED
  BY <1>5, <1>6, TellsKeeps

-----------------------------------------------------------------------------
(* The server takes a call and answers it. *)
Answers(id, th, k) ==
    /\ CallersStay /\ UNCHANGED <<answer, rd, turnW, asks>>
    /\ c2s # <<>> /\ id = Head(c2s) /\ c2s' = Tail(c2s) /\ th = call[id].thread
    /\ s2c' \in Seq(Frames) /\ Len(s2c') \in {Len(s2c) + 1, Len(s2c) + 2}
    /\ \A i \in 1 .. Len(s2c) : s2c'[i] = s2c[i]
    /\ k \in Len(s2c) + 1 .. Len(s2c') /\ s2c'[k].id = id
    /\ \/ s2c'[k].kind = "ok" /\ (call[id].kind = "turn" => running[th] = 0 /\ running' = [running EXCEPT ![th] = id])
       \/ s2c'[k].kind = "refused" /\ Len(s2c') = Len(s2c) + 1 /\ running[th] # 0
    /\ call[id].kind # "turn" \/ s2c'[k].kind = "refused" => running' = running
    /\ \A i \in Len(s2c) + 1 .. Len(s2c') : i # k =>
         /\ s2c'[i].id = id /\ s2c'[i].thread = th
         /\ s2c'[i].kind = IF call[id].kind = "turn" THEN "turnStarted" ELSE "threadStarted"
    /\ call[id].kind = "turn" /\ s2c'[k].kind = "ok" => Len(s2c') = Len(s2c) + 2

LEMMA TwoFrames ==
  ASSUME NEW s \in Seq(Frames), NEW f \in Frames, NEW g \in Frames
  PROVE  LET t == s \o <<f, g>>
         IN /\ t \in Seq(Frames) /\ Len(t) = Len(s) + 2 /\ t[Len(s) + 1] = f /\ t[Len(s) + 2] = g
            /\ \A i \in 1 .. Len(s) : t[i] = s[i]
            /\ \A i \in Len(s) + 1 .. Len(t) : i = Len(s) + 1 \/ i = Len(s) + 2
<1>1. Len(s) \in Nat
  OBVIOUS
<1> QED
  BY <1>1, TwoMore

LEMMA ServeAnswers ==
  ASSUME IInv, Serve
  PROVE  \E id \in Ids, th \in Ids, k \in Nat : Answers(id, th, k)
<1> USE DEF server, mine, routes, segments
<1>1. CallersStay /\ UNCHANGED <<answer, rd, turnW, asks>> /\ c2s # <<>> /\ c2s' = Tail(c2s)
  BY DEF Serve, CallersStay
<1>2. PICK id \in Ids : id = Head(c2s) /\ id \in Made
  BY <1>1, OneLess, CallsKnown DEF IInv, Types
<1>3. PICK th \in Ids : th = call[id].thread
  BY <1>2, CallTyped DEF IInv
<1>4. PICK ok, no, s, t : /\ ok = Frame("ok", id, 0) /\ no = Frame("refused", id, 0)
                          /\ s = Frame("threadStarted", id, th) /\ t = Frame("turnStarted", id, th)
  OBVIOUS
<1>5. /\ {ok, no, s, t} \subseteq Frames /\ \A f \in {ok, no, s, t} : f.id = id
      /\ ok.kind = "ok" /\ no.kind = "refused" /\ s.kind = "threadStarted" /\ t.kind = "turnStarted"
      /\ s.thread = th /\ t.thread = th
  <2>1. {"ok", "refused", "threadStarted", "turnStarted"} \subseteq Kinds
    BY DEF Kinds
  <2> QED
    BY <1>4, <2>1, FrameTyped
<1>6. s2c \in Seq(Frames) /\ Len(s2c) \in Nat
  BY DEF IInv, Types
<1>7. CASE call[id].kind = "start"
  <2>1. (s2c' = s2c \o <<ok, s>> \/ s2c' = s2c \o <<s, ok>>) /\ running' = running
    BY <1>2, <1>3, <1>4, <1>7 DEF Serve
  <2>2. CASE s2c' = s2c \o <<ok, s>>
    <3>1. Answers(id, th, Len(s2c) + 1)
      BY <1>1, <1>2, <1>3, <1>5, <1>6, <1>7, <2>1, <2>2, TwoFrames DEF Answers
    <3> QED
      BY <1>6, <3>1
  <2>3. CASE s2c' = s2c \o <<s, ok>>
    <3>1. Answers(id, th, Len(s2c) + 2)
      BY <1>1, <1>2, <1>3, <1>5, <1>6, <1>7, <2>1, <2>3, TwoFrames DEF Answers
    <3> QED
      BY <1>6, <3>1
  <2> QED
    BY <2>1, <2>2, <2>3
<1>8. CASE call[id].kind = "resume"
  <2>1. s2c' = Append(s2c, ok) /\ running' = running
    BY <1>2, <1>4, <1>8 DEF Serve
  <2>2. Answers(id, th, Len(s2c) + 1)
    BY <1>1, <1>2, <1>3, <1>5, <1>6, <1>8, <2>1, OneMore DEF Answers
  <2> QED
    BY <1>6, <2>2
<1>9. CASE call[id].kind = "turn" /\ running[th] # 0
  <2>1. s2c' = Append(s2c, no) /\ running' = running
    BY <1>2, <1>3, <1>4, <1>9 DEF Serve
  <2>2. Answers(id, th, Len(s2c) + 1)
    BY <1>1, <1>2, <1>3, <1>5, <1>6, <1>9, <2>1, OneMore DEF Answers
  <2> QED
    BY <1>6, <2>2
<1>10. CASE call[id].kind = "turn" /\ running[th] = 0
  <2>1. (s2c' = s2c \o <<ok, t>> \/ s2c' = s2c \o <<t, ok>>) /\ running' = [running EXCEPT ![th] = id]
    BY <1>2, <1>3, <1>4, <1>10 DEF Serve
  <2>2. CASE s2c' = s2c \o <<ok, t>>
    <3>1. Answers(id, th, Len(s2c) + 1)
      BY <1>1, <1>2, <1>3, <1>5, <1>6, <1>10, <2>1, <2>2, TwoFrames DEF Answers
    <3> QED
      BY <1>6, <3>1
  <2>3. CASE s2c' = s2c \o <<t, ok>>
    <3>1. Answers(id, th, Len(s2c) + 2)
      BY <1>1, <1>2, <1>3, <1>5, <1>6, <1>10, <2>1, <2>3, TwoFrames DEF Answers
    <3> QED
      BY <1>6, <3>1
  <2> QED
    BY <2>1, <2>2, <2>3
<1> QED
  BY <1>2, <1>7, <1>8, <1>9, <1>10, CallTyped DEF IInv

LEMMA Answered ==
  ASSUME IInv, NEW id \in Ids, NEW th \in Ids, NEW k \in Nat, Answers(id, th, k)
  PROVE  /\ UNCHANGED <<call, late, answer, rd, turnW, asks, host, pc>> /\ CallersStay
         /\ id \in Made /\ id \notin Served /\ Served' = Served \cup {id} /\ id # 0 /\ id \in Served'
         /\ call[id].w \in Sessions /\ call[id].thread = th
         /\ Len(c2s) \in Nat \ {0} /\ c2s' \in Seq(Ids) /\ Len(c2s') = Len(c2s) - 1 /\ c2s[1] = id
         /\ \A i \in 1 .. Len(c2s') : i + 1 \in 1 .. Len(c2s) /\ c2s'[i] = c2s[i + 1]
         /\ InOrder'
         /\ id \notin late => Expected(id)
         /\ \A f : FrameOK(f) /\ f.kind # "none" => f.id # id
         /\ ~Over(id)
<1>1. UNCHANGED <<call, late, answer, rd, turnW, asks, host, pc>> /\ CallersStay
  BY DEF Answers, CallersStay
<1>2. /\ Len(c2s) \in Nat \ {0} /\ c2s' \in Seq(Ids) /\ Len(c2s') = Len(c2s) - 1 /\ c2s[1] = id
      /\ \A i \in 1 .. Len(c2s') : i + 1 \in 1 .. Len(c2s) /\ c2s'[i] = c2s[i + 1]
  BY OneLess DEF Answers, IInv, Types
<1>3. Len(call) \in Nat /\ Len(c2s) <= Len(call) /\ 1 \in 1 .. Len(c2s)
  BY <1>2 DEF IInv, Types
<1>4. id = Len(call) - Len(c2s) + 1
  BY <1>2, <1>3 DEF IInv, InOrder
<1>5. id \in Made /\ id \notin Served /\ Served' = Served \cup {id} /\ id # 0 /\ id \in Served'
  BY <1>1, <1>2, <1>3, <1>4 DEF Made, Served
<1>6. call[id].w \in Sessions /\ call[id].thread = th
  BY <1>5, CallTyped DEF IInv, Answers
<1>7. InOrder'
  <2>1. ASSUME NEW i \in 1 .. Len(c2s') PROVE c2s'[i] = Len(call) - Len(c2s') + i
    <3>1. c2s'[i] = Len(call) - Len(c2s) + (i + 1)
      BY <1>2, <2>1 DEF IInv, InOrder
    <3> QED
      BY <1>2, <1>3, <3>1
  <2> QED
    BY <1>1, <2>1 DEF InOrder
<1>8. id \notin late => Expected(id)
  BY <1>2, <1>3 DEF IInv, Responses
<1>9. \A f : FrameOK(f) /\ f.kind # "none" => f.id # id
  BY <1>5 DEF FrameOK
<1>10. ~Over(id)
  <2>1. \A w \in Sessions : id \notin host[w].early
    BY <1>5 DEF IInv, FramesOK
  <2>2. \A w \in Sessions : ~(pc[w] \in {"first", "next"} /\ answer[w] = "refused" /\ CallOf(w) = id)
    <3>1. ASSUME NEW w \in Sessions, pc[w] \in {"first", "next"}, answer[w] = "refused", CallOf(w) = id PROVE FALSE
      <4>1. call[id].w = w /\ id \notin late
        BY <3>1, Waits
      <4> QED
        BY <1>8, <3>1, <4>1 DEF Expected
    <3> QED
      BY <3>1
  <2>3. \A i \in 1 .. Len(s2c) : s2c[i].id # id
    BY <1>9 DEF IInv, FramesOK
  <2>4. rd.frame.kind = "refused" => rd.frame.id # id
    BY <1>9 DEF IInv, FramesOK
  <2> QED
    BY <2>1, <2>2, <2>3, <2>4 DEF Over
<1> QED
  BY <1>1, <1>2, <1>5, <1>6, <1>7, <1>8, <1>9, <1>10

LEMMA AnswersSent ==
  ASSUME IInv, NEW id \in Ids, NEW th \in Ids, NEW k \in Nat, Answers(id, th, k)
  PROVE  /\ s2c' \in Seq(Frames) /\ \A i \in 1 .. Len(s2c) : i \in 1 .. Len(s2c') /\ s2c'[i] = s2c[i]
         /\ k \in 1 .. Len(s2c') /\ k \notin 1 .. Len(s2c) /\ s2c'[k].id = id /\ s2c'[k].kind \in {"ok", "refused"}
         /\ \A i \in 1 .. Len(s2c') \ 1 .. Len(s2c) :
              /\ s2c'[i].id = id /\ (i # k => ~Response(s2c'[i]))
              /\ s2c'[i].kind \in {"ok", "refused", "threadStarted", "turnStarted"}
              /\ s2c'[i].kind \in {"threadStarted", "turnStarted"} => s2c'[i].thread = th
              /\ OfTurn(s2c'[i]) => /\ s2c'[i].kind = "turnStarted" /\ call[id].kind = "turn"
                                    /\ running' = [running EXCEPT ![th] = id]
              /\ s2c'[i].kind = "ok" /\ call[id].kind = "turn" => running' = [running EXCEPT ![th] = id]
              /\ s2c'[i].kind = "refused" => running' = running
         /\ \/ running' = running
            \/ /\ running[th] = 0 /\ running' = [running EXCEPT ![th] = id] /\ call[id].kind = "turn"
               /\ \E i \in 1 .. Len(s2c') : Starts(s2c'[i], id)
<1>1. Len(s2c) \in Nat /\ Len(s2c') \in {Len(s2c) + 1, Len(s2c) + 2} /\ k \in Len(s2c) + 1 .. Len(s2c')
  BY DEF IInv, Types, Answers
<1>2. /\ s2c' \in Seq(Frames) /\ \A i \in 1 .. Len(s2c) : i \in 1 .. Len(s2c') /\ s2c'[i] = s2c[i]
      /\ k \in 1 .. Len(s2c') /\ k \notin 1 .. Len(s2c) /\ s2c'[k].id = id /\ s2c'[k].kind \in {"ok", "refused"}
  BY <1>1 DEF Answers
<1>3. ASSUME NEW i \in 1 .. Len(s2c') \ 1 .. Len(s2c)
      PROVE  /\ s2c'[i].id = id /\ (i # k => ~Response(s2c'[i]))
             /\ s2c'[i].kind \in {"ok", "refused", "threadStarted", "turnStarted"}
             /\ s2c'[i].kind \in {"threadStarted", "turnStarted"} => s2c'[i].thread = th
             /\ OfTurn(s2c'[i]) => /\ s2c'[i].kind = "turnStarted" /\ call[id].kind = "turn"
                                   /\ running' = [running EXCEPT ![th] = id]
             /\ s2c'[i].kind = "ok" /\ call[id].kind = "turn" => running' = [running EXCEPT ![th] = id]
             /\ s2c'[i].kind = "refused" => running' = running
  <2>1. i \in Len(s2c) + 1 .. Len(s2c')
    BY <1>1
  <2>2. CASE i = k
    BY <1>2, <2>2 DEF Answers, OfTurn, Response
  <2>3. CASE i # k
    <3>1. /\ s2c'[i].id = id /\ s2c'[i].thread = th
          /\ s2c'[i].kind = IF call[id].kind = "turn" THEN "turnStarted" ELSE "threadStarted"
      BY <2>1, <2>3 DEF Answers
    <3>2. s2c'[k].kind = "ok"
      BY <1>1, <2>1, <2>3 DEF Answers
    <3> QED
      BY <3>1, <3>2 DEF Answers, OfTurn, Response
  <2> QED
    BY <2>2, <2>3
<1>4. ASSUME running' # running
      PROVE  /\ running[th] = 0 /\ running' = [running EXCEPT ![th] = id] /\ call[id].kind = "turn"
             /\ \E i \in 1 .. Len(s2c') : Starts(s2c'[i], id)
  <2>1. call[id].kind = "turn" /\ s2c'[k].kind = "ok" /\ Len(s2c') = Len(s2c) + 2
    BY <1>2, <1>4 DEF Answers
  <2>2. PICK i \in Len(s2c) + 1 .. Len(s2c') : i # k
    <3>1. CASE k = Len(s2c) + 1
      BY <1>1, <2>1, <3>1
    <3>2. CASE k # Len(s2c) + 1
      BY <1>1, <2>1, <3>2
    <3> QED
      BY <3>1, <3>2
  <2>3. Starts(s2c'[i], id) /\ i \in 1 .. Len(s2c')
    BY <1>1, <2>1, <2>2 DEF Answers, Starts
  <2> QED
    BY <1>4, <2>1, <2>3 DEF Answers
<1> QED
  BY <1>2, <1>3, <1>4

LEMMA AnswersKeeps ==
  ASSUME IInv, NEW id \in Ids, NEW th \in Ids, NEW k \in Nat, Answers(id, th, k)
  PROVE  IInv'
<1>1. /\ UNCHANGED <<call, late, answer, rd, turnW, asks, host, pc>> /\ CallersStay
      /\ id \in Made /\ id \notin Served /\ Served' = Served \cup {id} /\ id # 0 /\ id \in Served' /\ InOrder'
      /\ call[id].w \in Sessions /\ call[id].thread = th /\ ~Over(id)
      /\ \A f : FrameOK(f) /\ f.kind # "none" => f.id # id
  BY Answered
<1>2. /\ s2c' \in Seq(Frames) /\ \A i \in 1 .. Len(s2c) : i \in 1 .. Len(s2c') /\ s2c'[i] = s2c[i]
      /\ running \in [Ids -> Ids \cup {0}]
  BY AnswersSent DEF IInv, Types
<1>3. \A i \in 1 .. Len(s2c) : s2c[i].id # id /\ s2c[i].id \in Served
  BY <1>1, CallsKnown DEF IInv, FramesOK
<1>4. /\ running' \in [Ids -> Ids \cup {0}]
      /\ \A t \in Ids : running'[t] # running[t] =>
           /\ t = th /\ running[t] = 0 /\ running'[t] = id /\ call[id].kind = "turn"
           /\ \E i \in 1 .. Len(s2c') : Starts(s2c'[i], id)
  BY <1>2, AnswersSent
<1>5. Types'
  BY <1>1, <1>2, <1>4, Answered DEF IInv, Types, CallersStay
<1>6. /\ \A v, x : Current(v, x)' <=> Current(v, x)
      /\ \A x : Expected(x)' <=> Expected(x)
  BY <1>1, CallersStayKeeps
<1>7. Responses'
  <2>1. ASSUME NEW i \in 1 .. Len(c2s'), c2s'[i] \notin late PROVE Expected(c2s[i])'
    <3>1. PICK x : x = c2s'[i]
      OBVIOUS
    <3>2. Expected(x)
      BY <2>1, <3>1, Answered DEF IInv, Responses
    <3> QED
      BY <1>6, <3>1, <3>2
  <2>2. ASSUME NEW i \in 1 .. Len(s2c'), Response(s2c'[i]), s2c'[i].id \notin late PROVE Expected(s2c[i].id)'
    <3>1. PICK x : x = s2c'[i].id
      OBVIOUS
    <3>2. Expected(x)
      <4>1. CASE i \in 1 .. Len(s2c)
        BY <1>2, <2>2, <3>1, <4>1 DEF IInv, Responses
      <4>2. CASE i \notin 1 .. Len(s2c)
        BY <2>2, <3>1, <4>2, AnswersSent, Answered
      <4> QED
        BY <4>1, <4>2
    <3> QED
      BY <1>6, <3>1, <3>2
  <2>3. ASSUME NEW i \in 1 .. Len(s2c'), NEW j \in 1 .. Len(s2c'),
               Response(s2c'[i]), Response(s2c'[j]), s2c'[i].id = s2c'[j].id
        PROVE  i = j
    <3>1. CASE i \in 1 .. Len(s2c) /\ j \in 1 .. Len(s2c)
      BY <1>2, <2>3, <3>1 DEF IInv, Responses
    <3>2. CASE i \notin 1 .. Len(s2c) /\ j \notin 1 .. Len(s2c)
      BY <2>3, <3>2, AnswersSent
    <3>3. CASE i \in 1 .. Len(s2c) /\ j \notin 1 .. Len(s2c)
      BY <1>2, <1>3, <2>3, <3>3, AnswersSent
    <3>4. CASE i \notin 1 .. Len(s2c) /\ j \in 1 .. Len(s2c)
      BY <1>2, <1>3, <2>3, <3>4, AnswersSent
    <3> QED
      BY <3>1, <3>2, <3>3, <3>4
  <2>4. ASSUME Reading, NEW i \in 1 .. Len(s2c'), Response(s2c'[i]) PROVE s2c'[i].id # rd.frame.id
    <3>1. CASE i \in 1 .. Len(s2c)
      BY <1>2, <2>4, <3>1 DEF IInv, Responses
    <3>2. CASE i \notin 1 .. Len(s2c)
      BY <1>1, <2>4, <3>2, AnswersSent, CallsKnown
    <3> QED
      BY <3>1, <3>2
  <2>5. Reading /\ rd.frame.id \notin late => Expected(rd.frame.id)'
    BY <1>1, <1>6 DEF IInv, Responses
  <2> QED
    BY <1>1, <2>1, <2>2, <2>3, <2>4, <2>5 DEF Responses, Reading, Response
<1>8. ASSUME NEW x \in Ids, NEW t \in Ids, x # id, running[t] # x PROVE running'[t] # x
  BY <1>4, <1>8
<1>9. FramesOK'
  <2>1. \A x \in Served : x # id /\ x \in Ids /\ call[x].thread \in Ids
    BY <1>1, CallsKnown, CallTyped DEF IInv
  <2>2. ASSUME NEW f, FrameOK(f) PROVE FrameOK(f)'
    BY <1>1, <1>8, <2>1, <2>2 DEF FrameOK, OfTurn
  <2>3. ASSUME NEW i \in 1 .. Len(s2c') PROVE FrameOK(s2c[i])' /\ s2c'[i].kind # "none"
    <3>1. PICK f : f = s2c'[i]
      OBVIOUS
    <3>2. FrameOK(f)' /\ f.kind # "none"
      <4>1. CASE i \in 1 .. Len(s2c)
        BY <1>2, <2>2, <3>1, <4>1 DEF IInv, FramesOK
      <4>2. CASE i \notin 1 .. Len(s2c)
        <5>1. /\ f.id = id /\ f.kind \in {"ok", "refused", "threadStarted", "turnStarted"}
              /\ f.kind \in {"threadStarted", "turnStarted"} => f.thread = th
              /\ OfTurn(f) => f.kind = "turnStarted" /\ call[id].kind = "turn"
              /\ f.kind = "refused" => running' = running
          BY <3>1, <4>2, AnswersSent
        <5>2. running[th] # id
          BY <1>1 DEF IInv, FramesOK
        <5> QED
          BY <1>1, <5>1, <5>2 DEF FrameOK, OfTurn
      <4> QED
        BY <4>1, <4>2
    <3> QED
      BY <3>1, <3>2
  <2>4. FrameOK(rd.frame)'
    BY <1>1, <2>2 DEF IInv, FramesOK
  <2>5. ASSUME NEW w \in Sessions, pc[w] \in {"first", "next"}, answer[w] = "refused"
        PROVE  running'[call'[CallOf(w)'].thread] # CallOf(w)'
    <3>1. /\ running[call[CallOf(w)].thread] # CallOf(w) /\ CallOf(w) \in Made /\ CallOf(w) \in Ids
          /\ CallOf(w) # id
      BY <1>1, <2>5, Waits DEF IInv, FramesOK, Over
    <3>2. call[CallOf(w)].thread \in Ids
      BY <3>1, CallTyped DEF IInv
    <3>3. CallOf(w)' = CallOf(w)
      BY <1>1, CallersStayKeeps
    <3> QED
      BY <1>1, <1>8, <3>1, <3>2, <3>3
  <2>6. \A w \in Sessions : host[w].early \subseteq {x \in Served : running'[call[x].thread] # x}
    BY <1>8, <2>1 DEF IInv, FramesOK
  <2>7. \A t \in Ids : running'[t] # 0 =>
          running'[t] \in Served' /\ call[running'[t]].thread = t /\ call[running'[t]].kind = "turn"
    BY <1>1, <1>4 DEF IInv, FramesOK
  <2> QED
    BY <1>1, <2>3, <2>4, <2>5, <2>6, <2>7 DEF IInv, FramesOK
<1>10. Ordered'
  <2>1. ASSUME NEW x, Over(x)'
        PROVE  Over(x) \/ (x = id /\ running' = running /\ \A j \in 1 .. Len(s2c') : OfTurn(s2c'[j]) => s2c'[j].id # id)
    <3>1. CASE \E i \in 1 .. Len(s2c') \ 1 .. Len(s2c) : s2c'[i].kind = "refused" /\ s2c'[i].id = x
      <4>1. x = id /\ running' = running
        BY <3>1, AnswersSent
      <4>2. \A j \in 1 .. Len(s2c') : OfTurn(s2c'[j]) => s2c'[j].id # id
        <5>1. ASSUME NEW j \in 1 .. Len(s2c') \ 1 .. Len(s2c) PROVE ~OfTurn(s2c'[j])
          <6>1. running[th] # id
            BY <1>1 DEF IInv, FramesOK
          <6>2. OfTurn(s2c'[j]) => running' = [running EXCEPT ![th] = id]
            BY AnswersSent
          <6> QED
            BY <1>2, <4>1, <6>1, <6>2
        <5> QED
          BY <1>2, <1>3, <5>1
      <4> QED
        BY <4>1, <4>2
    <3>2. CASE ~ \E i \in 1 .. Len(s2c') \ 1 .. Len(s2c) : s2c'[i].kind = "refused" /\ s2c'[i].id = x
      BY <1>1, <1>2, <2>1, <3>2, CallersStayKeeps DEF Over
    <3> QED
      BY <3>1, <3>2
  <2>2. ASSUME NEW x \in Ids, Over(x)'
        PROVE  /\ \A j \in 1 .. Len(s2c') : OfTurn(s2c'[j]) => s2c'[j].id # x
               /\ OfTurn(rd.frame) => rd.frame.id # x
    <3>1. CASE Over(x)
      <4>1. x # id
        BY <1>1, <3>1
      <4> QED
        BY <1>2, <3>1, <4>1, AnswersSent DEF IInv, Ordered
    <3>2. CASE ~Over(x)
      BY <1>1, <2>1, <2>2, <3>2 DEF IInv, FramesOK, OfTurn
    <3> QED
      BY <3>1, <3>2
  <2>3. ASSUME NEW i \in 1 .. Len(s2c'), NEW j \in 1 .. Len(s2c'), i < j, OfTurn(s2c'[j])
        PROVE  ~Ends(s2c'[i], s2c'[j].id)
    <3>1. CASE i \in 1 .. Len(s2c) /\ j \in 1 .. Len(s2c)
      BY <1>2, <2>3, <3>1 DEF IInv, Ordered
    <3>2. CASE i \in 1 .. Len(s2c) /\ j \notin 1 .. Len(s2c)
      BY <1>2, <1>3, <3>2, AnswersSent DEF Ends
    <3>3. CASE i \notin 1 .. Len(s2c)
      BY <3>3, AnswersSent DEF Ends
    <3> QED
      BY <3>1, <3>2, <3>3
  <2>4. ASSUME NEW j \in 1 .. Len(s2c'), OfTurn(s2c'[j]) PROVE ~Ends(rd.frame, s2c'[j].id)
    <3>1. CASE j \in 1 .. Len(s2c)
      BY <1>2, <2>4, <3>1 DEF IInv, Ordered
    <3>2. CASE j \notin 1 .. Len(s2c)
      BY <1>1, <3>2, AnswersSent DEF Ends, IInv, FramesOK
    <3> QED
      BY <3>1, <3>2
  <2> QED
    BY <1>1, <2>2, <2>3, <2>4 DEF Ordered, OfTurn, Ends
<1>11. Turns'
  <2>1. ASSUME NEW v \in Sessions, NEW x \in Ids, Current(v, x), Accepted(v, x)'
        PROVE  Alive(x)' \/ (host[v].pending /\ x \in host[v].early)
    <3>1. call[x].thread \in Ids /\ x \in Made /\ x # 0
      BY <2>1, CallTyped, CurrentIsUp DEF IInv, Current
    <3>2. CASE Accepted(v, x)
      <4>1. Alive(x) => Alive(x)'
        BY <1>1, <1>2, <1>4, <3>1 DEF Alive, Ends
      <4> QED
        BY <2>1, <3>2, <4>1 DEF IInv, Turns
    <3>3. CASE ~Accepted(v, x)
      <4>1. PICK i \in 1 .. Len(s2c') \ 1 .. Len(s2c) : s2c'[i].kind = "ok" /\ s2c'[i].id = x
        BY <1>1, <1>2, <2>1, <3>3 DEF Accepted
      <4>2. x = id /\ call[id].kind = "turn"
        BY <2>1, <4>1, AnswersSent DEF Current
      <4>3. running'[th] = x
        BY <1>2, <4>1, <4>2, AnswersSent
      <4> QED
        BY <1>1, <4>2, <4>3 DEF Alive
    <3> QED
      BY <3>2, <3>3
  <2>2. \A v \in Sessions : host[v].active # 0 => Current(v, host[v].active)'
    BY <1>1, <1>6 DEF IInv, Turns
  <2>3. ASSUME NEW t \in Ids, running'[t] # 0, running'[t] \notin late
        PROVE  Current(call[running[t]].w, running[t])'
    <3>1. CASE running'[t] = running[t]
      BY <1>1, <1>6, <2>3, <3>1 DEF IInv, Turns
    <3>2. CASE running'[t] # running[t]
      <4>1. running'[t] = id /\ call[id].kind = "turn" /\ id \notin late
        BY <1>4, <2>3, <3>2
      <4>2. PICK v \in Sessions : v = call[id].w
        BY <1>1
      <4>3. pc[v] \in Awaiting /\ CallOf(v) = id
        BY <4>1, <4>2, Answered DEF Expected
      <4>4. pc[v] \in {"first", "next"}
        BY <4>1, <4>3 DEF IInv, Station, Awaiting
      <4>5. Current(v, id)
        BY <4>3, <4>4, Waits
      <4> QED
        BY <1>1, <1>6, <4>1, <4>2, <4>5
    <3> QED
      BY <3>1, <3>2
  <2> QED
    BY <1>1, <1>6, <2>1, <2>2, <2>3 DEF IInv, Turns
<1>12. Begun'
  <2>1. \A x : Bound(x)' <=> Bound(x)
    BY <1>1 DEF Bound
  <2>2. ASSUME NEW t \in Ids, running'[t] # 0, running'[t] \notin late
        PROVE  \/ Bound(running[t])' \/ Starts(rd.frame, running'[t])
               \/ \E i \in 1 .. Len(s2c') : Starts(s2c'[i], running'[t])
    <3>1. PICK x : x = running'[t]
      OBVIOUS
    <3>2. CASE running'[t] = running[t]
      <4>1. Bound(x) \/ Starts(rd.frame, x) \/ \E i \in 1 .. Len(s2c) : Starts(s2c[i], x)
        BY <2>2, <3>1, <3>2 DEF IInv, Begun
      <4> QED
        BY <1>2, <2>1, <3>1, <4>1
    <3>3. CASE running'[t] # running[t]
      BY <1>4, <3>3
    <3> QED
      BY <3>2, <3>3
  <2>3. ASSUME NEW j \in 1 .. Len(s2c'), s2c'[j].kind \in {"item", "turnCompleted"}, s2c'[j].id \notin late
        PROVE  /\ Current(call[s2c[j].id].w, s2c[j].id)'
               /\ Bound(s2c[j].id)' \/ Starts(rd.frame, s2c'[j].id)
                    \/ \E i \in 1 .. j - 1 : Starts(s2c'[i], s2c'[j].id)
    <3>1. j \in 1 .. Len(s2c)
      BY <2>3, AnswersSent
    <3>2. PICK x : x = s2c'[j].id /\ x = s2c[j].id
      BY <1>2, <3>1
    <3>3. Current(call[x].w, x) /\ (Bound(x) \/ Starts(rd.frame, x) \/ \E i \in 1 .. j - 1 : Starts(s2c[i], x))
      BY <1>2, <2>3, <3>1, <3>2 DEF IInv, Begun
    <3>4. \A i \in 1 .. j - 1 : s2c'[i] = s2c[i]
      <4>1. Len(s2c) \in Nat
        BY DEF IInv, Types
      <4> QED
        BY <1>2, <3>1, <4>1
    <3> QED
      BY <1>1, <1>6, <2>1, <3>2, <3>3, <3>4
  <2>4. rd.frame.kind \in {"item", "turnCompleted"} /\ rd.frame.id \notin late =>
          Current(call[rd.frame.id].w, rd.frame.id)' /\ Bound(rd.frame.id)'
    BY <1>1, <1>6, <2>1 DEF IInv, Begun, Bound
  <2> QED
    BY <1>1, <2>2, <2>3, <2>4 DEF Begun, Starts
<1> QED
  BY <1>1, <1>5, <1>7, <1>9, <1>10, <1>11, <1>12, CallersStayKeeps DEF IInv

LEMMA ServeKeeps == ASSUME IInv, Serve PROVE IInv'
BY ServeAnswers, AnswersKeeps

-----------------------------------------------------------------------------
LEMMA InitHolds == Init => IInv
<1> SUFFICES ASSUME Init PROVE IInv
  OBVIOUS
<1>1. /\ call = <<>> /\ c2s = <<>> /\ s2c = <<>> /\ Len(call) = 0 /\ Len(c2s) = 0 /\ Len(s2c) = 0
      /\ <<>> \in Seq(Calls) /\ <<>> \in Seq(Ids) /\ <<>> \in Seq(Frames) /\ MaxCalls \in Nat \ {0}
  BY BoundsAssumption, EmptySeq DEF Init
<1>2. NoHost \in Hosts /\ ~NoHost.on /\ ~NoHost.pending /\ NoHost.active = 0 /\ NoHost.early = {}
  BY DEF NoHost, Hosts
<1>3. Types
  BY <1>1, <1>2, IdleTyped DEF Init, Types, Stations
<1>4. Made = {} /\ Served = {} /\ 1 .. Len(s2c) = {} /\ 1 .. Len(c2s) = {}
  BY <1>1 DEF Made, Served
<1>5. InOrder /\ Threads
  BY <1>4, NoneAssumption DEF InOrder, Threads, Init
<1>6. \A w \in Sessions : Station(w)
  BY <1>2 DEF Init, Station, Up, Awaiting
<1>7. rd.pc = "idle" /\ rd.frame = NoFrame /\ rd.frame.kind = "none"
  BY IdleTyped DEF Init
<1>8. Responses
  BY <1>4, <1>7 DEF Responses, Reading
<1>9. FramesOK
  BY <1>2, <1>4, <1>7 DEF FramesOK, FrameOK, OfTurn, Init
<1>10. \A v \in Sessions, tu \in Ids : ~Current(v, tu)
  BY <1>4 DEF Current
<1>11. Turns /\ Ordered /\ Begun
  BY <1>2, <1>4, <1>7, <1>10 DEF Turns, Ordered, Begun, Init, OfTurn, Ends
<1> QED
  BY <1>3, <1>5, <1>6, <1>8, <1>9, <1>11 DEF IInv

LEMMA NextKeeps == IInv /\ [Next]_vars => IInv'
<1> SUFFICES ASSUME IInv, [Next]_vars PROVE IInv'
  OBVIOUS
<1>1. ASSUME NEW w \in Sessions, Caller(w) PROVE IInv'
  BY <1>1, BeginSegmentKeeps, BeginPendingKeeps, EnsureThreadKeeps, PublishKeeps, NoThreadKeeps,
     EndPendingKeeps, StartTurnKeeps, TurnStartedKeeps, TurnFailsKeeps, EndSessionKeeps, TakeHostKeeps,
     ForgetRoutingKeeps, ReleaseSegmentKeeps, CloseSegmentKeeps DEF Caller
<1>2. CASE ReadLoop
  BY <1>2, RecordKeeps, RouteKeeps, DispatchKeeps, RespondKeeps, HandOverKeeps DEF ReadLoop
<1>3. CASE Ask
  BY <1>3, AskKeeps
<1>4. CASE Server
  BY <1>4, ServeKeeps, SayKeeps, CompleteKeeps DEF Server
<1>5. CASE UNCHANGED vars
  <2>1. CallersStay /\ UNCHANGED <<c2s, s2c, running, answer, turnW, rd, asks>>
    BY <1>5 DEF vars, CallersStay
  <2>2. asks' \subseteq asks
    BY <2>1
  <2> QED
    BY <2>1, <2>2, StutterKeeps
<1> QED
  BY <1>1, <1>2, <1>3, <1>4, <1>5 DEF Next

(* The inductive invariant, for any sessions, calls, timeouts and items: what *)
(* each caller of StartTurn stands at, which responses may still come, whose  *)
(* every thread and every turn is, and in which order the frames of a turn    *)
(* arrive at the read loop.                                                   *)
THEOREM InvHolds == Spec => []IInv
BY InitHolds, NextKeeps, PTL DEF Spec

(* Whoever ends a session that has a turn is refused: a turn that runs, and   *)
(* whose call was not given up, has a runner that waits for it or knows it.   *)
THEOREM TurnHasRunnerHolds == Spec => []TurnHasRunner
<1>1. IInv => TurnHasRunner
  <2> SUFFICES ASSUME IInv, NEW th \in Ids, running[th] # 0, running[th] \notin late
               PROVE  \E w \in Sessions : host[w].on /\ host[w].thread = th
                                            /\ (host[w].pending \/ host[w].active = running[th])
    BY DEF TurnHasRunner
  <2>1. PICK tu \in Made, w \in Sessions : tu = running[th] /\ w = call[tu].w
    BY RunningIsNotOver, CallTyped DEF IInv
  <2>2. Current(w, tu) /\ call[tu].thread = th
    BY <2>1, RunningIsNotOver DEF IInv, Turns
  <2>3. host[w].on /\ host[w].thread = th
    BY <2>2, CurrentIsUp
  <2>4. host[w].pending \/ host[w].active = tu
    BY <2>2, Ready DEF Current, Station
  <2> QED
    BY <2>1, <2>3, <2>4
<1> QED
  BY <1>1, InvHolds, PTL

(* A session is busy with a turn no longer than the turn runs and its end is  *)
(* on the way, whichever of the response and the end came first.              *)
THEOREM CompletedIsNotBusyHolds == Spec => []CompletedIsNotBusy
<1>1. IInv => CompletedIsNotBusy
  <2> SUFFICES ASSUME IInv, NEW w \in Sessions, host[w].active # 0
               PROVE  \/ running[call[host[w].active].thread] = host[w].active
                      \/ \E f \in Range(s2c) \cup {rd.frame} : f.kind = "turnCompleted" /\ f.id = host[w].active
    BY DEF CompletedIsNotBusy
  <2>1. PICK tu \in Ids : tu = host[w].active /\ Current(w, tu)
    BY Ready DEF Hosts, IInv, Turns
  <2>2. ~host[w].pending
    BY Ready DEF Station
  <2>3. Alive(tu)
    BY <2>1, <2>2 DEF IInv, Turns, Accepted
  <2>4. \A i \in 1 .. Len(s2c) : s2c[i] \in Range(s2c)
    BY DEF Range, IInv, Types
  <2> QED
    BY <2>1, <2>3, <2>4 DEF Alive, Ends
<1> QED
  BY <1>1, InvHolds, PTL

-----------------------------------------------------------------------------
(* Routes.  A turn that was not given up is bound to nobody but its session:  *)
(* when its start is read, it runs or its end comes after, so that a runner   *)
(* waits for it or knows it.                                                  *)
Opened ==
    \A tu \in Ids : Starts(rd.frame, tu) \/ (\E i \in 1 .. Len(s2c) : Starts(s2c[i], tu)) =>
        running[call[tu].thread] = tu \/ \E i \in 1 .. Len(s2c) : Ends(s2c[i], tu)
Homed ==
    \A tu \in Ids \ late :
        /\ turnW[tu] # None => turnW[tu] = call[tu].w
        /\ rd.pc = "routed" /\ Starts(rd.frame, tu) => rd.to = call[tu].w

LEMMA CallsFixed ==
  ASSUME IInv, [Next]_vars
  PROVE  (\A i \in Made : i \in Made' /\ call'[i] = call[i]) /\ late \subseteq late'
<1>1. ASSUME NEW w \in Sessions, EnsureThread(w) \/ StartTurn(w)
      PROVE  (\A i \in Made : i \in Made' /\ call'[i] = call[i]) /\ late' = late
  <2>1. PICK kind \in {"start", "resume", "turn"} :
          \E th : Call(w, kind, th) /\ (kind # "start" => th \in Ids)
    <3>1. kept[w] \in Ids \cup {0} /\ host[w].thread \in Ids \cup {0}
      BY Ready DEF IInv, Types, Hosts
    <3>2. StartTurn(w) => host[w].thread \in Ids
      BY <3>1, Ready DEF StartTurn, Station, Up, IInv, Types
    <3> QED
      BY <1>1, <3>1, <3>2 DEF EnsureThread, StartTurn
  <2>2. late' = late
    BY <1>1 DEF EnsureThread, StartTurn
  <2>3. Made' = Made \cup {NewId} /\ \A i \in Made : call'[i] = call[i]
    <3>1. PICK th : Call(w, kind, th) /\ (kind # "start" => th \in Ids)
      BY <2>1
    <3> QED
      BY <3>1, CallGrows
  <2> QED
    BY <2>2, <2>3
<1>2. ASSUME NEW w \in Sessions, Caller(w)
      PROVE  EnsureThread(w) \/ StartTurn(w) \/ (call' = call /\ late \subseteq late')
  BY <1>2 DEF Caller, BeginSegment, BeginPending, Publish, NoThread, GivesUp, EndPending, TurnStarted,
     TurnFails, EndSession, TakeHost, ForgetRouting, ReleaseSegment, CloseSegment
<1>3. ReadLoop \/ Ask \/ Server \/ UNCHANGED vars => call' = call /\ late' = late
  BY DEF ReadLoop, Record, Route, Dispatch, Respond, HandOver, Ask, Server, Serve, Say, Complete, vars
<1>4. call' = call => \A i \in Made : i \in Made' /\ call'[i] = call[i]
  BY DEF Made
<1> QED
  BY <1>1, <1>2, <1>3, <1>4 DEF Next

(* What the read loop has in hand and the server has sent, as all but Record  *)
(* and the server leave it.                                                   *)
LEMMA FramesStay ==
  ASSUME IInv, [Next]_vars, ~Record, ~Server
  PROVE  /\ UNCHANGED <<s2c, running>>
         /\ rd' = rd \/ Route \/ (rd'.pc = "idle" /\ rd'.frame = NoFrame)
         /\ rd'.frame = rd.frame \/ rd'.frame = NoFrame
<1>1. ASSUME NEW w \in Sessions, Caller(w) PROVE UNCHANGED <<s2c, running, rd>>
  BY <1>1 DEF Caller, BeginSegment, BeginPending, EnsureThread, Publish, NoThread, EndPending, StartTurn,
     TurnStarted, TurnFails, EndSession, TakeHost, ForgetRouting, ReleaseSegment, CloseSegment, server
<1>2. Ask \/ UNCHANGED vars => UNCHANGED <<s2c, running, rd>>
  BY DEF Ask, vars, server
<1>3. Dispatch \/ Respond \/ HandOver => UNCHANGED <<s2c, running>> /\ rd' = Idle
  BY DEF Dispatch, Respond, HandOver, server
<1>4. Route => UNCHANGED <<s2c, running>> /\ (rd' = Idle \/ rd'.frame = rd.frame)
  BY DEF Route, server, IInv, Types
<1> QED
  BY <1>1, <1>2, <1>3, <1>4 DEF Next, ReadLoop, Idle

LEMMA OpenedKept == ASSUME IInv, Opened, [Next]_vars PROVE Opened'
<1>2. \A tu \in Ids : Starts(rd.frame, tu) \/ (\E i \in 1 .. Len(s2c) : Starts(s2c[i], tu)) =>
        tu \in Made /\ call'[tu] = call[tu]
  BY CallsKnown, CallsFixed DEF Starts
<1>3. CASE ~Record /\ ~Server
  <2>1. UNCHANGED <<s2c, running>> /\ (rd'.frame = rd.frame \/ rd'.frame.kind = "none")
    BY <1>3, FramesStay DEF NoFrame
  <2> QED
    BY <1>2, <2>1 DEF Opened, Starts, Ends
<1>4. CASE Record
  <2>1. /\ Len(s2c) \in Nat \ {0} /\ rd'.frame = s2c[1] /\ Len(s2c') = Len(s2c) - 1
        /\ \A i \in 1 .. Len(s2c') : i + 1 \in 1 .. Len(s2c) /\ s2c'[i] = s2c[i + 1]
        /\ running' = running /\ 1 \in 1 .. Len(s2c)
    BY <1>4, OneLess DEF Record, server, IInv, Types
  <2> SUFFICES ASSUME NEW tu \in Ids,
                      Starts(rd'.frame, tu) \/ \E i \in 1 .. Len(s2c') : Starts(s2c'[i], tu)
               PROVE  running'[call'[tu].thread] = tu \/ \E i \in 1 .. Len(s2c') : Ends(s2c'[i], tu)
    BY DEF Opened, Starts, Ends
  <2>2. PICK k \in 1 .. Len(s2c) : Starts(s2c[k], tu) /\ (k = 1 => s2c[1] = rd'.frame)
    BY <2>1
  <2>3. CASE running[call[tu].thread] = tu
    BY <1>2, <2>1, <2>2, <2>3
  <2>4. ASSUME NEW i \in 1 .. Len(s2c), Ends(s2c[i], tu)
        PROVE  \E j \in 1 .. Len(s2c') : Ends(s2c'[j], tu)
    <3>1. i # 1
      <4> SUFFICES ASSUME i = 1 PROVE FALSE
        OBVIOUS
      <4>1. k # 1 /\ 1 < k
        BY <2>2, <2>4 DEF Starts, Ends
      <4>2. OfTurn(s2c[k]) /\ s2c[k].id = tu
        BY <2>2 DEF Starts, OfTurn
      <4> QED
        BY <2>4, <4>1, <4>2 DEF IInv, Ordered
    <3>2. i - 1 \in 1 .. Len(s2c') /\ s2c'[i - 1] = s2c[i]
      BY <2>1, <3>1
    <3> QED
      BY <2>4, <3>2
  <2> QED
    BY <2>2, <2>3, <2>4 DEF Opened
<1>5. CASE Say \/ Complete
  <2>1. PICK th, tu, f :
          /\ th \in Ids /\ tu \in Ids /\ tu = running[th] /\ s2c' = Append(s2c, f) /\ f \in Frames
          /\ f.id = tu /\ f.kind \in {"item", "approval", "turnCompleted"} /\ rd' = rd
          /\ \/ running' = running
             \/ running' = [running EXCEPT ![th] = 0] /\ f.kind = "turnCompleted"
    <3>1. {"item", "approval", "turnCompleted"} \subseteq Kinds
      BY DEF Kinds
    <3>2. ASSUME NEW th \in Ids, running[th] # 0 PROVE running[th] \in Ids
      BY <3>2 DEF IInv, Types
    <3>3. CASE Say
      <4>1. PICK th \in Ids : running[th] # 0 /\
              \E f \in {Frame("item", running[th], th), Frame("item", running[th], 0),
                        Frame("approval", running[th], th)} : s2c' = Append(s2c, f)
        BY <3>3 DEF Say
      <4>2. running' = running /\ rd' = rd
        BY <3>3 DEF Say
      <4>3. PICK tu \in Ids : tu = running[th]
        BY <3>2, <4>1
      <4>4. PICK f \in {Frame("item", tu, th), Frame("item", tu, 0), Frame("approval", tu, th)} : s2c' = Append(s2c, f)
        BY <4>1, <4>3
      <4>5. f \in Frames /\ f.id = tu /\ f.kind \in {"item", "approval"}
        BY <3>1, <4>4, FrameTyped
      <4> QED
        BY <4>2, <4>3, <4>4, <4>5
    <3>4. CASE Complete
      <4>1. PICK th \in Ids : /\ running[th] # 0 /\ running' = [running EXCEPT ![th] = 0]
                              /\ s2c' = Append(s2c, Frame("turnCompleted", running[th], th))
        BY <3>4 DEF Complete
      <4>2. rd' = rd
        BY <3>4 DEF Complete
      <4>3. PICK tu \in Ids : tu = running[th]
        BY <3>2, <4>1
      <4>4. PICK f : f = Frame("turnCompleted", tu, th)
        OBVIOUS
      <4>5. f \in Frames /\ f.id = tu /\ f.kind = "turnCompleted"
        BY <3>1, <4>4, FrameTyped
      <4> QED
        BY <4>1, <4>2, <4>3, <4>4, <4>5
    <3> QED
      BY <1>5, <3>3, <3>4
  <2>2. /\ Len(s2c') = Len(s2c) + 1 /\ s2c'[Len(s2c) + 1] = f /\ Len(s2c) \in Nat
        /\ \A i \in 1 .. Len(s2c) : s2c'[i] = s2c[i] /\ i \in 1 .. Len(s2c')
        /\ \A i \in 1 .. Len(s2c') : i \in 1 .. Len(s2c) \/ i = Len(s2c) + 1
        /\ Len(s2c) + 1 \in 1 .. Len(s2c')
    BY <2>1, OneMore DEF IInv, Types
  <2> SUFFICES ASSUME NEW u \in Ids,
                      Starts(rd'.frame, u) \/ \E i \in 1 .. Len(s2c') : Starts(s2c'[i], u)
               PROVE  running'[call'[u].thread] = u \/ \E i \in 1 .. Len(s2c') : Ends(s2c'[i], u)
    BY DEF Opened, Starts, Ends
  <2>3. Starts(rd.frame, u) \/ \E i \in 1 .. Len(s2c) : Starts(s2c[i], u)
    BY <2>1, <2>2 DEF Starts
  <2>4. u \in Made /\ call'[u] = call[u]
    BY <1>2, <2>3
  <2>5. running[call[u].thread] = u \/ \E i \in 1 .. Len(s2c) : Ends(s2c[i], u)
    BY <2>3 DEF Opened
  <2>6. CASE running[call[u].thread] = u
    <3>1. call[u].thread \in Ids /\ running \in [Ids -> Ids \cup {0}]
      BY <2>4, CallTyped DEF IInv, Types
    <3>2. CASE call[u].thread = th
      BY <2>1, <2>2, <2>4, <2>6, <3>1, <3>2 DEF Ends
    <3>3. CASE call[u].thread # th
      BY <2>1, <2>4, <2>6, <3>1, <3>3
    <3> QED
      BY <3>2, <3>3
  <2>7. CASE \E i \in 1 .. Len(s2c) : Ends(s2c[i], u)
    BY <2>2, <2>7
  <2> QED
    BY <2>5, <2>6, <2>7
<1>6. CASE Serve
  <2>1. PICK id \in Ids, th \in Ids, k \in Nat : Answers(id, th, k)
    BY <1>6, ServeAnswers
  <2>2. UNCHANGED <<call, rd>> /\ th = call[id].thread /\ Len(s2c) \in Nat /\ running \in [Ids -> Ids \cup {0}]
    BY <2>1 DEF Answers, CallersStay, IInv, Types
  <2> SUFFICES ASSUME NEW u \in Ids,
                      Starts(rd'.frame, u) \/ \E i \in 1 .. Len(s2c') : Starts(s2c'[i], u)
               PROVE  running'[call'[u].thread] = u \/ \E i \in 1 .. Len(s2c') : Ends(s2c'[i], u)
    BY DEF Opened, Starts, Ends
  <2>3. \A i \in 1 .. Len(s2c) : i \in 1 .. Len(s2c') /\ s2c'[i] = s2c[i]
    BY <2>1, <2>2 DEF Answers
  <2>4. running' = running \/ (running[th] = 0 /\ running' = [running EXCEPT ![th] = id])
    BY <2>1 DEF Answers
  <2>5. CASE Starts(rd.frame, u) \/ \E i \in 1 .. Len(s2c) : Starts(s2c[i], u)
    <3>1. u \in Made /\ call[u].thread \in Ids /\ u # 0
      BY <1>2, <2>5, CallTyped, BoundsAssumption DEF IInv, Ids
    <3>2. running[call[u].thread] = u => running'[call[u].thread] = u
      BY <2>2, <2>4, <3>1
    <3> QED
      BY <2>2, <2>3, <2>5, <3>2 DEF Opened
  <2>6. ASSUME NEW i \in Len(s2c) + 1 .. Len(s2c'), Starts(s2c'[i], u)
        PROVE  running'[call'[u].thread] = u
    <3>1. i # k /\ k \in Len(s2c) + 1 .. Len(s2c') /\ Len(s2c') \in {Len(s2c) + 1, Len(s2c) + 2}
      BY <2>1, <2>6 DEF Answers, Starts
    <3>2. s2c'[i].id = id /\ call[id].kind = "turn" /\ u = id
      BY <2>1, <2>6, <3>1 DEF Answers, Starts
    <3>3. s2c'[k].kind = "ok"
      BY <2>1, <2>2, <3>1 DEF Answers
    <3>4. running' = [running EXCEPT ![th] = id]
      BY <2>1, <3>2, <3>3 DEF Answers
    <3> QED
      BY <2>2, <3>2, <3>4
  <2>7. \A i \in 1 .. Len(s2c') : i \in 1 .. Len(s2c) \/ i \in Len(s2c) + 1 .. Len(s2c')
    BY <2>1, <2>2 DEF Answers
  <2> QED
    BY <2>2, <2>3, <2>5, <2>6, <2>7
<1> QED
  BY <1>3, <1>4, <1>5, <1>6 DEF Server

(* Whose start is read, and which was not given up, is waited for or known.   *)
LEMMA StartIsCurrent ==
  ASSUME IInv, Opened, NEW tu \in Made \ late, Starts(rd.frame, tu)
  PROVE  Current(call[tu].w, tu)
<1>1. call[tu].thread \in Ids /\ tu \in Ids /\ tu # 0
  BY CallTyped, CallsKnown, BoundsAssumption DEF IInv, Ids
<1>2. CASE running[call[tu].thread] = tu
  BY <1>1, <1>2 DEF IInv, Turns
<1>3. CASE \E i \in 1 .. Len(s2c) : Ends(s2c[i], tu)
  BY <1>3 DEF IInv, Begun, Ends
<1> QED
  BY <1>1, <1>2, <1>3 DEF Opened

LEMMA HomedKept == ASSUME IInv, Opened, Homed, [Next]_vars PROVE Homed'
<1>1. /\ \A tu \in Ids : turnW[tu] # None => tu \in Made /\ call'[tu] = call[tu]
      /\ \A tu \in Ids : Starts(rd.frame, tu) => tu \in Made /\ call'[tu] = call[tu]
      /\ late \subseteq late' /\ turnW \in [Ids -> Sessions \cup {None}]
  <2>1. \A tu \in Ids : turnW[tu] # None => tu \in Made
    BY CallsKnown DEF IInv, FramesOK
  <2>2. \A tu \in Ids : Starts(rd.frame, tu) => tu \in Made
    BY CallsKnown DEF Starts
  <2> QED
    BY <2>1, <2>2, CallsFixed DEF IInv, Types
<1>2. ASSUME \A tu \in Ids : turnW'[tu] = turnW[tu] \/ turnW'[tu] = None,
             \A tu \in Ids : rd'.pc = "routed" /\ Starts(rd'.frame, tu) => rd' = rd
      PROVE  Homed'
  BY <1>1, <1>2 DEF Homed, Starts
<1>3. ASSUME NEW w \in Sessions, Caller(w) PROVE Homed'
  <2>1. ForgetRouting(w) \/ turnW' = turnW
    BY <1>3 DEF Caller, BeginSegment, BeginPending, EnsureThread, Publish, NoThread, EndPending, StartTurn,
       TurnStarted, TurnFails, EndSession, TakeHost, ReleaseSegment, CloseSegment, routes
  <2>2. ForgetRouting(w) => \A tu \in Ids : turnW'[tu] = turnW[tu] \/ turnW'[tu] = None
    BY DEF ForgetRouting
  <2>3. rd' = rd
    BY <1>3 DEF Caller, BeginSegment, BeginPending, EnsureThread, Publish, NoThread, EndPending, StartTurn,
       TurnStarted, TurnFails, EndSession, TakeHost, ForgetRouting, ReleaseSegment, CloseSegment
  <2> QED
    BY <1>2, <2>1, <2>2, <2>3
<1>4. CASE Route
  <2>1. turnW' = turnW /\ late' = late /\ rd.pc = "recorded"
    BY <1>4 DEF Route, routes
  <2>2. ASSUME NEW tu \in Ids \ late, rd'.pc = "routed", Starts(rd'.frame, tu)
        PROVE  rd'.to = call[tu].w
    <3>1. PICK f : f = rd.frame
      OBVIOUS
    <3>2. rd'.frame = f /\ rd'.to = WSIDFor(f.thread, TurnOf(f))
      BY <1>4, <2>2, <3>1 DEF Route, Idle, IInv, Types
    <3>3. Starts(f, tu) /\ tu \in Made
      BY <1>1, <2>2, <3>1, <3>2
    <3>4. Current(call[tu].w, tu)
      BY <3>1, <3>3, StartIsCurrent
    <3>5. OfTurn(f) /\ FrameOK(f) /\ f.id = tu /\ f.thread # 0 /\ call[tu].w \in Sessions
      <4>1. OfTurn(f) /\ FrameOK(f) /\ f.id = tu /\ f.kind = "turnStarted"
        BY <3>1, <3>3 DEF Starts, OfTurn, IInv, FramesOK
      <4>2. f.thread = call[tu].thread /\ call[tu].thread \in Ids /\ call[tu].w \in Sessions
        BY <3>3, <4>1, CallTyped DEF FrameOK, IInv
      <4> QED
        BY <4>1, <4>2, BoundsAssumption DEF Ids
    <3> QED
      BY <3>2, <3>4, <3>5, RouteOfTurn
  <2> QED
    BY <1>1, <1>4, <2>1, <2>2 DEF Homed, Route
<1>5. CASE Dispatch
  <2>1. rd.pc = "routed" /\ rd'.pc = "idle" /\ late' = late /\ call' = call
    BY <1>5 DEF Dispatch, Idle
  <2>2. CASE rd.frame.kind = "turnStarted"
    <3>1. turnW' = [turnW EXCEPT ![rd.frame.id] = rd.to] /\ Starts(rd.frame, rd.frame.id)
      BY <1>5, <2>2 DEF Dispatch, TurnOf, Starts
    <3> QED
      BY <1>1, <2>1, <3>1 DEF Homed
  <2>3. CASE rd.frame.kind # "turnStarted"
    <3>1. turnW' = turnW \/ turnW' = [turnW EXCEPT ![TurnOf(rd.frame)] = None]
      BY <1>5, <2>3 DEF Dispatch
    <3>2. \A tu \in Ids : turnW'[tu] = turnW[tu] \/ turnW'[tu] = None
      BY <1>1, <3>1
    <3> QED
      BY <1>2, <2>1, <3>2
  <2> QED
    BY <2>2, <2>3
<1>6. CASE Record
  <2>1. turnW' = turnW /\ rd'.pc = "recorded"
    BY <1>6 DEF Record, routes
  <2> QED
    BY <1>2, <2>1
<1>7. CASE Respond \/ HandOver
  <2>1. turnW' = turnW /\ rd'.pc = "idle"
    BY <1>7 DEF Respond, HandOver, routes, Idle
  <2> QED
    BY <1>2, <2>1
<1>8. CASE Ask \/ Server \/ UNCHANGED vars
  <2>1. turnW' = turnW /\ rd' = rd
    BY <1>8 DEF Ask, Server, Serve, Say, Complete, routes, vars
  <2> QED
    BY <1>2, <2>1
<1> QED
  BY <1>3, <1>4, <1>5, <1>6, <1>7, <1>8 DEF Next, ReadLoop

LEMMA RoutesInit == Init => Opened /\ Homed
BY BoundsAssumption DEF Init, Opened, Homed, Starts, Idle, NoFrame

(* The answer of codexWSIDFor for a turn that was not given up, in any frame  *)
(* but a request for approval.                                                *)
LEMMA TurnIsOwn ==
  ASSUME IInv, Opened, NEW f, f = rd.frame, OfTurn(f), f.kind # "approval", f.id \notin late
  PROVE  WSIDFor(f.thread, TurnOf(f)) = Owner(f.id)
<1>1. f.id \in Made /\ FrameOK(f) /\ f.kind # "none"
  BY CallsKnown DEF OfTurn, IInv, FramesOK
<1>2. PICK v, tu, th : v = call[f.id].w /\ tu = f.id /\ th = call[f.id].thread
  OBVIOUS
<1>3. v \in Sessions /\ th \in Ids /\ th # 0
  BY <1>1, <1>2, CallTyped, BoundsAssumption DEF IInv, Ids
<1>4. Current(v, tu) /\ (f.thread # 0 \/ turnW[tu] = v)
  <2>1. CASE f.kind = "turnStarted"
    <3>1. Current(v, tu)
      BY <1>1, <1>2, <2>1, StartIsCurrent DEF Starts
    <3>2. f.thread = th
      BY <1>1, <1>2, <2>1 DEF FrameOK, OfTurn
    <3> QED
      BY <1>3, <3>1, <3>2
  <2>2. CASE f.kind \in {"item", "turnCompleted"}
    BY <1>2, <2>2 DEF IInv, Begun, Bound
  <2> QED
    BY <2>1, <2>2 DEF OfTurn
<1> QED
  BY <1>1, <1>2, <1>3, <1>4, RouteOfTurn DEF Owner

(* And for what may come when the session is gone: a thread that has started, *)
(* a request for approval, a turn that was given up.                          *)
LEMMA RouteIsMine ==
  ASSUME IInv, Homed, NEW f, f.id \in Made,
         f.kind \in {"threadStarted", "turnStarted", "item", "approval", "turnCompleted"},
         f.kind \in {"threadStarted", "approval"} \/ f.id \in late,
         f.thread = call[f.id].thread \/ (f.kind = "item" /\ f.thread = 0 /\ f.id \in late)
  PROVE  Mine(f, WSIDFor(f.thread, TurnOf(f)))
<1> DEFINE o == Owner(f.id)
           th == call[f.id].thread
           w == WSIDFor(f.thread, TurnOf(f))
<1>1. f.id \in Ids /\ f.id # 0 /\ o \in Sessions /\ o # None /\ o = call[f.id].w /\ th \in Ids /\ th # 0
  <2>1. f.id \in Ids /\ o \in Sessions /\ o = call[f.id].w /\ th \in Ids
    BY CallsKnown, CallTyped DEF IInv, Owner
  <2> QED
    BY <2>1, NoneAssumption, BoundsAssumption DEF Ids
<1>2. /\ TurnOf(f) = 0 \/ TurnOf(f) = f.id
      /\ f.thread = th \/ (f.thread = 0 /\ TurnOf(f) = f.id /\ f.id \in late)
  BY DEF TurnOf
<1>3. threadW[th] # None => threadW[th] = o
  BY <1>1 DEF IInv, Threads, OwnThread
<1>4. f.id \notin late => turnW[f.id] \in {None, o}
  BY <1>1 DEF Homed
<1>5. w = o \/ (turnW[f.id] \notin {None, o} /\ TurnOf(f) = f.id)
      \/ (w \in {starting, None} /\ (f.thread = 0 \/ threadW[f.thread] = None))
  <2>1. CASE TurnOf(f) # 0 /\ turnW[TurnOf(f)] # None
    BY <1>2, <2>1 DEF WSIDFor, w
  <2>2. CASE ~(TurnOf(f) # 0 /\ turnW[TurnOf(f)] # None) /\ f.thread # 0 /\ threadW[f.thread] # None
    BY <1>2, <1>3, <2>2 DEF WSIDFor, w
  <2>3. CASE ~(TurnOf(f) # 0 /\ turnW[TurnOf(f)] # None) /\ ~(f.thread # 0 /\ threadW[f.thread] # None)
    BY <2>3 DEF WSIDFor, w
  <2> QED
    BY <2>1, <2>2, <2>3
<1> HIDE DEF o, th, w
<1>6. CASE w = o
  BY <1>6 DEF Mine, w, o
<1>7. CASE turnW[f.id] \notin {None, o} /\ TurnOf(f) = f.id
  BY <1>4, <1>7 DEF Mine, Residue, o
<1>8. CASE w # o /\ w \in {starting, None} /\ (f.thread = 0 \/ threadW[f.thread] = None)
  <2>1. CASE w = starting
    <3>1. starting # o /\ (threadW[th] = None \/ (f.thread = 0 /\ f.id \in late))
      BY <1>1, <1>2, <1>8, <2>1
    <3> QED
      BY <3>1 DEF Mine, Unrouted, o, th
  <2>2. CASE w # starting
    <3>1. TurnOf(f) = 0 /\ f.thread = 0
      BY <1>1, <1>2, <1>8, <2>2 DEF WSIDFor, w
    <3> QED
      BY <1>1, <1>2, <3>1
  <2> QED
    BY <2>1, <2>2
<1> QED
  BY <1>5, <1>6, <1>7, <1>8

(* A notification and a request for approval go to the session whose thread   *)
(* they are from (codexWSIDFor, dispatchCodexNotification, codexApproval of   *)
(* app.go), and of a turn that was not given up every notification does.      *)
(* Excepted are frames of given-up calls, and what a session that was taken   *)
(* down has left, where nothing leads to its session any more.                *)
THEOREM RoutesOwnHolds == Spec => RoutesOwn
<1> DEFINE A == /\ rd.pc = "recorded" /\ Notification(rd.frame) /\ rd'.pc # "recorded" => Mine(rd.frame, rd'.to)
                /\ \A f \in asks \ asks' : Mine(f, WSIDFor(f.thread, TurnOf(f)))
<1>1. IInv /\ Opened /\ Homed /\ [Next]_vars => [A]_vars
  <2> SUFFICES ASSUME IInv, Opened, Homed, Next PROVE A
    OBVIOUS
  <2>1. ASSUME NEW f \in asks PROVE Mine(f, WSIDFor(f.thread, TurnOf(f)))
    <3>1. f.kind = "approval" /\ f.id \in Made /\ f.thread = call[f.id].thread
      BY CallsKnown DEF IInv, FramesOK
    <3> QED
      BY <3>1, RouteIsMine
  <2>2. ASSUME Notification(rd.frame), Route PROVE Mine(rd.frame, rd'.to)
    <3>1. PICK f, w : f = rd.frame /\ w = WSIDFor(f.thread, TurnOf(f))
      OBVIOUS
    <3>2. f.id \in Made /\ FrameOK(f) /\ Notification(f)
      BY <2>2, <3>1, CallsKnown DEF Notification, IInv, FramesOK
    <3>3. rd'.to = w
      BY <2>2, <3>1 DEF Route, Idle, IInv, Types
    <3>4. Mine(f, w)
      <4>1. CASE f.kind # "threadStarted" /\ f.id \notin late
        <5>1. w = Owner(f.id)
          BY <3>1, <3>2, <4>1, TurnIsOwn DEF Notification, OfTurn
        <5> QED
          BY <5>1 DEF Mine
      <4>2. CASE f.kind = "threadStarted" \/ f.id \in late
        BY <3>1, <3>2, <4>2, RouteIsMine DEF Notification, FrameOK, OfTurn
      <4> QED
        BY <4>1, <4>2
    <3> QED
      BY <3>1, <3>3, <3>4
  <2>3. rd.pc = "recorded" /\ Notification(rd.frame) => Route \/ rd' = rd
    <3>1. ASSUME rd.pc = "recorded", Notification(rd.frame) PROVE Route \/ rd' = rd
      <4>1. ~Record /\ ~Dispatch /\ ~Respond /\ ~HandOver
        BY <3>1 DEF Record, Dispatch, Respond, HandOver, Notification
      <4>2. (\E w \in Sessions : Caller(w)) => rd' = rd
        BY DEF Caller, BeginSegment, BeginPending, EnsureThread, Publish, NoThread, EndPending, StartTurn,
           TurnStarted, TurnFails, EndSession, TakeHost, ForgetRouting, ReleaseSegment, CloseSegment
      <4>3. Ask \/ Server => rd' = rd
        BY DEF Ask, Server, Serve, Say, Complete
      <4> QED
        BY <4>1, <4>2, <4>3 DEF Next, ReadLoop
    <3> QED
      BY <3>1
  <2>4. rd.pc = "recorded" /\ Notification(rd.frame) /\ rd'.pc # "recorded" => Mine(rd.frame, rd'.to)
    BY <2>2, <2>3
  <2> QED
    BY <2>1, <2>4
<1> QED
  BY <1>1, InvHolds, RoutesInit, OpenedKept, HomedKept, PTL DEF Spec, RoutesOwn

-----------------------------------------------------------------------------
(* Segments. *)
LEMMA NumberedMarks ==
  ASSUME Marked, NEW w, Numbered(w)
  PROVE  mixed' \subseteq Sessions /\ \A v \in mixed' : overlap[v] \/ v \in crossed
<1>1. mixed' = mixed \cup (IF w \in Ranges THEN Ranges \ {w} ELSE {})
  BY DEF Numbered, Ranges
<1>2. Ranges \subseteq Sessions
  BY DEF Ranges, Ranging, Marked
<1> QED
  BY <1>1, <1>2 DEF Marked, OverlapIsMarked

(* A step of w that neither begins nor releases a segment.                    *)
LEMMA SegmentsStay ==
  ASSUME Marked, UNCHANGED <<open, overlap, crossed>>,
         \A v \in Sessions : /\ pc'[v] \in {"idle", "range", "unpend"} <=> pc[v] \in {"idle", "range", "unpend"}
                             /\ pc'[v] = "range" => pc[v] = "range",
         mixed' = mixed \/ \E w : Numbered(w)
  PROVE  Marked'
<1>1. Ranges' \subseteq Ranges
  BY DEF Ranges, Ranging
<1>2. mixed' \subseteq Sessions /\ \A v \in mixed' : overlap[v] \/ v \in crossed
  BY NumberedMarks DEF Marked, OverlapIsMarked
<1> QED
  BY <1>1, <1>2 DEF Marked, OverlapIsMarked

LEMMA MarkedKept == IInv /\ Marked /\ [Next]_vars => Marked'
<1> SUFFICES ASSUME IInv, Marked, [Next]_vars PROVE Marked'
  OBVIOUS
<1>0. pc \in [Sessions -> Stations]
  BY DEF IInv, Types
<1>1. CASE UNCHANGED <<open, overlap, crossed, pc>> /\ (mixed' = mixed \/ \E w : Numbered(w))
  BY <1>1, SegmentsStay
<1>2. ASSUME NEW w \in Sessions, BeginSegment(w) PROVE Marked'
  <2>1. /\ overlap' = [v \in Sessions |-> IF v = w THEN open # {} ELSE overlap[v] \/ v \in open]
        /\ open' = open \cup {w} /\ mixed' = mixed \ {w}
        /\ crossed' = (crossed \ {w}) \cup (IF Ranging # {} THEN Ranging \cup {w} ELSE {})
        /\ pc[w] = "idle" /\ pc' = [pc EXCEPT ![w] = "lock"]
    BY <1>2 DEF BeginSegment, Crossing
  <2>2. /\ w \notin Ranges /\ Ranging' = Ranging /\ Ranges' = Ranges \cup {w}
        /\ overlap' \in [Sessions -> BOOLEAN]
        /\ open' = {v \in Sessions : pc'[v] \notin {"idle", "range", "unpend"}}
    BY <1>0, <2>1 DEF Marked, Ranges, Ranging
  <2>3. ASSUME NEW v \in Sessions \ {w}, overlap[v] \/ v \in crossed PROVE overlap'[v] \/ v \in crossed'
    BY <2>1, <2>3
  <2>4. ASSUME NEW u \in Ranges', NEW v \in Ranges', u # v PROVE overlap'[u] \/ u \in crossed'
    <3>1. u \in Sessions
      BY <2>2, <2>4 DEF Marked, Ranges, Ranging
    <3>2. CASE u # w /\ v # w
      BY <2>2, <2>3, <2>4, <3>1, <3>2 DEF Marked
    <3>3. CASE u = w \/ v = w
      <4>1. PICK x \in Ranges : x = u \/ x = v
        BY <2>2, <2>4, <3>3
      <4>2. CASE x \in open
        BY <2>1, <2>2, <2>4, <3>1, <3>3, <4>1, <4>2
      <4>3. CASE x \in Ranging
        BY <2>1, <2>2, <2>4, <3>3, <4>1, <4>3
      <4> QED
        BY <4>2, <4>3 DEF Ranges
    <3> QED
      BY <3>2, <3>3
  <2>5. mixed' \subseteq Sessions /\ \A v \in mixed' : overlap'[v] \/ v \in crossed'
    BY <2>1, <2>3 DEF Marked, OverlapIsMarked
  <2> QED
    BY <2>2, <2>4, <2>5 DEF Marked, OverlapIsMarked
<1>3. ASSUME NEW w \in Sessions, ReleaseSegment(w) PROVE Marked'
  <2>1. /\ pc[w] = "release" /\ pc' = [pc EXCEPT ![w] = "range"] /\ open' = open \ {w}
        /\ UNCHANGED <<overlap, mixed, crossed>>
    BY <1>3 DEF ReleaseSegment
  <2>2. Ranges' = Ranges /\ open' = {v \in Sessions : pc'[v] \notin {"idle", "range", "unpend"}}
    BY <1>0, <2>1 DEF Marked, Ranges, Ranging
  <2> QED
    BY <2>1, <2>2 DEF Marked, OverlapIsMarked
<1>4. ASSUME NEW w \in Sessions, EnsureThread(w) \/ StartTurn(w) PROVE Marked'
  <2>1. (\E v : Numbered(v)) /\ UNCHANGED <<open, overlap, crossed>>
    BY <1>4 DEF EnsureThread, StartTurn, Call
  <2>2. \/ pc[w] = "ensure" /\ pc' = [pc EXCEPT ![w] = "thread"]
        \/ pc[w] \in {"turn", "active"} /\ (pc' = [pc EXCEPT ![w] = "first"] \/ pc' = [pc EXCEPT ![w] = "next"])
    BY <1>4 DEF EnsureThread, StartTurn
  <2> QED
    BY <1>0, <2>1, <2>2, SegmentsStay
<1>5. ASSUME NEW w \in Sessions, CloseSegment(w) PROVE Marked'
  <2>1. /\ pc[w] = "range" /\ UNCHANGED segments
        /\ pc' = [pc EXCEPT ![w] = "unpend"] \/ pc' = [pc EXCEPT ![w] = "idle"]
    BY <1>5 DEF CloseSegment
  <2> QED
    BY <1>0, <2>1, SegmentsStay DEF segments
<1>6. ASSUME NEW w \in Sessions, EndPending(w) PROVE Marked'
  <2>1. /\ UNCHANGED segments
        /\ \/ pc[w] = "published" /\ pc' = [pc EXCEPT ![w] = "turn"]
           \/ pc[w] = "unpend" /\ pc' = [pc EXCEPT ![w] = "idle"]
    BY <1>6 DEF EndPending
  <2> QED
    BY <1>0, <2>1, SegmentsStay DEF segments
<1>7. ASSUME NEW w \in Sessions,
             BeginPending(w) \/ Publish(w) \/ NoThread(w) \/ TurnStarted(w) \/ TurnFails(w)
               \/ EndSession(w) \/ TakeHost(w) \/ ForgetRouting(w)
      PROVE  Marked'
  <2>1. /\ UNCHANGED segments /\ pc[w] \notin {"idle", "range", "unpend"}
        /\ \E p \in Stations \ {"idle", "range", "unpend"} : pc' = [pc EXCEPT ![w] = p]
    BY <1>7 DEF BeginPending, Publish, NoThread, TurnStarted, TurnFails, EndSession, TakeHost, ForgetRouting,
       Stations
  <2> QED
    BY <1>0, <2>1, SegmentsStay DEF segments
<1>8. ASSUME NEW w \in Sessions, Caller(w) PROVE Marked'
  BY <1>2, <1>3, <1>4, <1>5, <1>6, <1>7, <1>8 DEF Caller
<1>9. ReadLoop \/ Ask \/ Server => Record \/ (UNCHANGED segments /\ pc' = pc)
  BY DEF ReadLoop, Route, Dispatch, Respond, HandOver, Ask, Server, Serve, Say, Complete
<1>10. Record => UNCHANGED <<open, overlap, crossed, pc>> /\ \E w : Numbered(w)
  BY DEF Record
<1>11. UNCHANGED vars => UNCHANGED segments /\ pc' = pc
  BY DEF vars, segments
<1> QED
  BY <1>1, <1>8, <1>9, <1>10, <1>11 DEF Next, segments

(* A segment whose range has got a frame of another whose range was open too  *)
(* is marked as overlapping, whichever began first, but for two that crossed: *)
(* one had been released, its end still to be read, when the other began.     *)
THEOREM OverlapIsMarkedHolds == Spec => []OverlapIsMarked
<1>1. Init => Marked
  BY DEF Init, Marked, OverlapIsMarked, Ranges, Ranging
<1>2. Marked => OverlapIsMarked
  BY DEF Marked
<1> QED
  BY <1>1, <1>2, InvHolds, MarkedKept, PTL DEF Spec
=============================================================================
