-------------------------- MODULE WireFramesProofs ---------------------------
(***************************************************************************)
(* What holds of WireFrames for any sessions and any bounds: a queued job  *)
(* is always about to be seen by the worker, a job that was put down is    *)
(* not forgotten before its result is in the audit, and a result that says *)
(* it is whole is.                                                         *)
(***************************************************************************)
EXTENDS WireFrames, SequenceTheorems, FiniteSetTheorems, TLAPS

(* The parts of the types that matter here. *)
Shape ==
  /\ DOMAIN pc = Sessions /\ DOMAIN todo = Sessions /\ DOMAIN result = Views
  /\ {"pc", "view"} \subseteq DOMAIN worker
  /\ queue \in Seq(Views)
  /\ Len(views) \in 0..MaxViews /\ \E S : views \in Seq(S)

(* The stop of the worker is closed only when no session is left. *)
StopIsLast == stop => app \notin {"up", "ending", "draining", "down"}

(* A job and a view in the hand of a caller or of the worker are views that  *)
(* were audited as pending.                                                  *)
Numbered ==
  /\ jobs \subseteq 1..Len(views)
  /\ \A w \in Sessions : pc[w] \in {"persist", "queue", "signal"} => todo[w] \in 1..Len(views)
  /\ worker.pc \in {"off", "look", "wait"} => worker.view = 0
  /\ worker.pc \notin {"off", "look", "wait"} => worker.view \in Views

(* What is crossed off has its result, and so has what is about to be. *)
Audited(v) == result[v].status # "none"
CrossedOff ==
  /\ \A v \in done \cap Views : Audited(v)
  /\ worker.pc = "mark" => Audited(worker.view)

Held(v) ==
  \/ v \in Range(queue) \/ worker.view = v
  \/ \E w \in Sessions : todo[w] = v /\ pc[w] = "queue"
Remembered == app # "down" => \A v \in jobs : Audited(v) \/ Held(v)

Inv == Shape /\ StopIsLast /\ Numbered /\ CrossedOff /\ Remembered

-----------------------------------------------------------------------------
LEMMA WorkerFields ==
  /\ DOMAIN NoWorker = DOMAIN Fresh
  /\ {"pc", "view"} \subseteq DOMAIN NoWorker
  /\ NoWorker.pc = "off" /\ NoWorker.view = 0
  /\ Fresh.pc = "look" /\ Fresh.view = 0
BY DEF NoWorker, Fresh

LEMMA InOrderOK ==
  ASSUME NEW S \in SUBSET Views, NEW q \in InOrder(S)
  PROVE  q \in Seq(Views) /\ Range(q) = S
<1>1. IsFiniteSet(S)
  <2>1. IsFiniteSet(1..MaxViews)
    BY BoundsAssumption, FS_Interval
  <2> QED
    BY <2>1, FS_Subset DEF Views
<1>2. Cardinality(S) \in Nat
  BY <1>1, FS_CardinalityType
<1>3. q \in [1..Cardinality(S) -> Views]
  BY DEF InOrder
<1>4. q \in Seq(Views)
  BY <1>2, <1>3, SeqDef
<1> QED
  BY <1>4 DEF InOrder

(* The queue, as a sequence and as a set. *)
LEMMA QueueOK ==
  ASSUME queue \in Seq(Views)
  PROVE  /\ Range(queue) \subseteq Views
         /\ \A v \in Views : /\ Append(queue, v) \in Seq(Views)
                            /\ Range(Append(queue, v)) = Range(queue) \cup {v}
                            /\ Append(queue, v) # <<>>
         /\ queue # <<>> => /\ Head(queue) \in Views
                            /\ Tail(queue) \in Seq(Views)
                            /\ Range(queue) \subseteq Range(Tail(queue)) \cup {Head(queue)}
<1>1. Len(queue) \in Nat /\ DOMAIN queue = 1..Len(queue) /\ \A i \in 1..Len(queue) : queue[i] \in Views
  BY LenProperties, ElementOfSeq
<1>2. Range(queue) = {queue[i] : i \in 1..Len(queue)}
  BY <1>1 DEF Range
<1>3. ASSUME NEW v \in Views
      PROVE  /\ Append(queue, v) \in Seq(Views)
             /\ Range(Append(queue, v)) = Range(queue) \cup {v}
             /\ Append(queue, v) # <<>>
  <2>1. /\ Append(queue, v) \in Seq(Views) /\ Append(queue, v) # <<>>
        /\ Len(Append(queue, v)) = Len(queue) + 1
        /\ \A i \in 1..Len(queue) : Append(queue, v)[i] = queue[i]
        /\ Append(queue, v)[Len(queue) + 1] = v
    BY AppendProperties
  <2>2. DOMAIN Append(queue, v) = 1..Len(queue) \cup {Len(queue) + 1}
    BY <1>1, <2>1, LenProperties
  <2>3. Range(Append(queue, v)) = Range(queue) \cup {v}
    BY <1>2, <2>1, <2>2 DEF Range
  <2> QED
    BY <2>1, <2>3
<1>4. ASSUME queue # <<>>
      PROVE  /\ Head(queue) \in Views
             /\ Tail(queue) \in Seq(Views)
             /\ Range(queue) \subseteq Range(Tail(queue)) \cup {Head(queue)}
  <2>1. /\ Head(queue) \in Views /\ Tail(queue) \in Seq(Views)
        /\ Len(Tail(queue)) = Len(queue) - 1
        /\ \A i \in 1..Len(Tail(queue)) : Tail(queue)[i] = queue[i + 1]
        /\ Len(queue) >= 1
    BY <1>4, HeadTailProperties, EmptySeq
  <2>2. Head(queue) = queue[1]
    BY <1>4
  <2>3. DOMAIN Tail(queue) = 1..Len(queue) - 1
    BY <2>1, LenProperties
  <2>4. ASSUME NEW i \in 1..Len(queue) PROVE queue[i] \in Range(Tail(queue)) \cup {Head(queue)}
    <3>1. CASE i = 1
      BY <2>2, <3>1
    <3>2. CASE i # 1
      <4>1. i - 1 \in DOMAIN Tail(queue) /\ Tail(queue)[i - 1] = queue[i]
        BY <1>1, <2>1, <2>3, <3>2
      <4> QED
        BY <4>1 DEF Range
    <3> QED
      BY <3>1, <3>2
  <2> QED
    BY <1>2, <2>1, <2>4
<1> QED
  BY <1>1, <1>2, <1>3, <1>4

LEMMA JobsAreViews ==
  ASSUME Shape, Numbered
  PROVE  /\ jobs \subseteq Views
         /\ \A w \in Sessions : pc[w] \in {"persist", "queue", "signal"} => todo[w] \in Views
BY BoundsAssumption DEF Shape, Numbered, Views

LEMMA InvInit == Init => Inv
<1> SUFFICES ASSUME Init PROVE Inv
  OBVIOUS
<1>1. queue \in Seq(Views) /\ views \in Seq(Views) /\ Len(views) = 0
  BY EmptySeq DEF Init
<1>2. Shape
  BY <1>1, WorkerFields, BoundsAssumption DEF Init, Shape
<1>3. StopIsLast /\ Numbered /\ CrossedOff /\ Remembered
  BY WorkerFields DEF Init, StopIsLast, Numbered, CrossedOff, Remembered
<1> QED
  BY <1>2, <1>3 DEF Inv

-----------------------------------------------------------------------------
(* The worker, step by step. *)
LEMMA WorkerStep ==
  ASSUME Shape, Worker
  PROVE  /\ {"pc", "view"} \subseteq DOMAIN worker'
         /\ Look /\ queue # <<>> => worker'.pc = "expand" /\ worker'.view = Head(queue)
         /\ Look /\ queue = <<>> => worker'.pc = "wait" /\ worker'.view = worker.view
         /\ Wait => \/ worker'.pc = "look" /\ worker'.view = worker.view
                    \/ stop /\ worker'.pc = "off" /\ worker'.view = 0
         /\ Expand \/ WriteSide => worker'.pc \in {"expand", "write"} /\ worker'.view = worker.view
         /\ AuditResult => worker'.pc = "mark" /\ worker'.view = worker.view
         /\ MarkDone => worker'.pc = (IF stop THEN "off" ELSE "look") /\ worker'.view = 0
<1> USE WorkerFields DEF Shape
<1>1. ASSUME Look PROVE /\ {"pc", "view"} \subseteq DOMAIN worker'
                        /\ queue # <<>> => worker'.pc = "expand" /\ worker'.view = Head(queue)
                        /\ queue = <<>> => worker'.pc = "wait" /\ worker'.view = worker.view
  <2>1. CASE queue = <<>>
    BY <1>1, <2>1 DEF Look
  <2>2. CASE queue # <<>>
    BY <1>1, <2>2 DEF Look, Fresh, NoWorker
  <2> QED
    BY <2>1, <2>2
<1>2. ASSUME Wait PROVE /\ {"pc", "view"} \subseteq DOMAIN worker'
                        /\ \/ worker'.pc = "look" /\ worker'.view = worker.view
                           \/ stop /\ worker'.pc = "off" /\ worker'.view = 0
  BY <1>2 DEF Wait
<1>3. ASSUME Expand PROVE {"pc", "view"} \subseteq DOMAIN worker' /\ worker'.pc \in {"expand", "write"} /\ worker'.view = worker.view
  BY <1>3 DEF Expand, Answered
<1>4. ASSUME WriteSide PROVE {"pc", "view"} \subseteq DOMAIN worker' /\ worker'.pc = "expand" /\ worker'.view = worker.view
  BY <1>4 DEF WriteSide, Answered
<1>5. ASSUME AuditResult PROVE {"pc", "view"} \subseteq DOMAIN worker' /\ worker'.pc = "mark" /\ worker'.view = worker.view
  BY <1>5 DEF AuditResult
<1>6. ASSUME MarkDone PROVE /\ {"pc", "view"} \subseteq DOMAIN worker'
                            /\ worker'.pc = (IF stop THEN "off" ELSE "look") /\ worker'.view = 0
  BY <1>6 DEF MarkDone
<1> QED
  BY <1>1, <1>2, <1>3, <1>4, <1>5, <1>6 DEF Worker

(* Every step but the crash and the restart is a caller's, the worker's, or  *)
(* leaves what the invariant speaks of alone but for the phase.              *)
Aside ==
  /\ UNCHANGED <<pc, todo, result, worker, queue, views, jobs, done>>
  /\ \/ UNCHANGED <<app, stop>>
     \/ app # "down" /\ app' \in {"ending", "draining"} /\ app \in {"up", "ending"} /\ UNCHANGED stop
     \/ app # "down" /\ app' = "released" /\ UNCHANGED stop
     \/ app # "down" /\ app' \in {"stopped", "retained"}

LEMMA Kinds ==
  ASSUME [Next]_vars
  PROVE  \/ Aside
         \/ \E w \in Sessions : Opens(w) \/ Caller(w)
         \/ Worker \/ Down \/ Restart
<1>1. ASSUME Born \/ Dies \/ Finalize \/ FrameComes PROVE Aside
  BY <1>1 DEF Born, Dies, Finalize, FrameComes, Aside, memory
<1>2. ASSUME ShutdownBegins \/ DrainBegins \/ StopsWorker \/ DrainEnds PROVE Aside
  BY <1>2 DEF ShutdownBegins, DrainBegins, StopsWorker, DrainEnds, Aside, disk
<1>3. ASSUME Rots \/ Shortened \/ UNCHANGED vars PROVE Aside
  BY <1>3 DEF Rots, Shortened, Aside, memory, vars, disk
<1> QED
  BY <1>1, <1>2, <1>3 DEF Next

LEMMA ShapeStep == Inv /\ [Next]_vars => Shape'
<1> SUFFICES ASSUME Inv, [Next]_vars PROVE Shape'
  OBVIOUS
<1>1. Shape
  BY DEF Inv
<1>2. CASE Aside
  BY <1>1, <1>2 DEF Aside, Shape
<1>3. ASSUME NEW w \in Sessions, Opens(w) \/ Persist(w) \/ Signal(w) PROVE Shape'
  BY <1>1, <1>3 DEF Opens, Persist, Signal, Shape, disk
<1>4. ASSUME NEW w \in Sessions, Closes(w) PROVE Shape'
  <2>1. PICK S : views \in Seq(S)
    BY <1>1 DEF Shape
  <2>2. PICK view : views' = Append(views, view)
    BY <1>4 DEF Closes
  <2>3. views \in Seq(S \cup {view})
    BY <2>1, SeqMonotonic
  <2>4. views' \in Seq(S \cup {view})
    BY <2>2, <2>3, AppendProperties
  <2>5. \E T : views' \in Seq(T)
    BY <2>4
  <2>6. Len(views') \in 0..MaxViews
    BY <1>1, <1>4, <2>2, <2>3, AppendProperties, BoundsAssumption DEF Closes, Shape
  <2>7. DOMAIN pc' = Sessions /\ DOMAIN todo' = Sessions /\ DOMAIN result' = Views
    BY <1>1, <1>4 DEF Closes, Shape
  <2> QED
    BY <1>1, <1>4, <2>5, <2>6, <2>7 DEF Closes, Shape
<1>5. ASSUME NEW w \in Sessions, Enqueue(w) PROVE Shape'
  <2>1. todo[w] \in Views
    BY <1>5, JobsAreViews DEF Enqueue, Inv
  <2>2. queue' \in Seq(Views)
    BY <1>1, <1>5, <2>1, QueueOK DEF Enqueue, Shape
  <2> QED
    BY <1>1, <1>5, <2>2, WorkerFields DEF Enqueue, Shape, disk
<1>6. CASE Worker
  <2>1. {"pc", "view"} \subseteq DOMAIN worker'
    BY <1>1, <1>6, WorkerStep
  <2>2. queue' \in Seq(Views)
    BY <1>1, <1>6, QueueOK DEF Worker, Look, Wait, Expand, WriteSide, AuditResult, MarkDone, Shape
  <2>3. UNCHANGED <<pc, todo, views>> /\ DOMAIN result' = DOMAIN result
    BY <1>6 DEF Worker, Look, Wait, Expand, WriteSide, AuditResult, MarkDone, disk
  <2> QED
    BY <1>1, <2>1, <2>2, <2>3 DEF Shape
<1>7. CASE Down
  BY <1>1, <1>7, WorkerFields, EmptySeq DEF Down, Shape
<1>8. CASE Restart
  <2>1. queue' \in Seq(Views)
    BY <1>8, InOrderOK, JobsAreViews DEF Restart, Inv
  <2> QED
    BY <1>1, <1>8, <2>1, WorkerFields DEF Restart, Shape, disk
<1> QED
  BY <1>2, <1>3, <1>4, <1>5, <1>6, <1>7, <1>8, Kinds DEF Caller

LEMMA StopIsLastStep == Inv /\ [Next]_vars => StopIsLast'
<1> SUFFICES ASSUME Inv, [Next]_vars PROVE StopIsLast'
  OBVIOUS
<1>1. StopIsLast
  BY DEF Inv
<1>2. CASE Aside
  BY <1>1, <1>2 DEF Aside, StopIsLast
<1>3. ASSUME NEW w \in Sessions, Opens(w) \/ Caller(w) PROVE StopIsLast'
  BY <1>1, <1>3 DEF Opens, Caller, Closes, Persist, Enqueue, Signal, StopIsLast
<1>4. CASE Worker
  BY <1>1, <1>4 DEF Worker, Look, Wait, Expand, WriteSide, AuditResult, MarkDone, StopIsLast
<1>5. CASE Down
  BY <1>5 DEF Down, StopIsLast
<1>6. CASE Restart
  BY <1>1, <1>6 DEF Restart, StopIsLast
<1> QED
  BY <1>2, <1>3, <1>4, <1>5, <1>6, Kinds

LEMMA NumberedStep == Inv /\ [Next]_vars => Numbered'
<1> SUFFICES ASSUME Inv, [Next]_vars PROVE Numbered'
  OBVIOUS
<1>1. Shape /\ Numbered
  BY DEF Inv
<1>2. CASE Aside
  BY <1>1, <1>2 DEF Aside, Numbered
<1>3. ASSUME NEW w \in Sessions, Opens(w) \/ Persist(w) \/ Signal(w) PROVE Numbered'
  <2>1. CASE Opens(w) \/ Signal(w)
    BY <1>1, <2>1 DEF Opens, Signal, Numbered, Shape, disk
  <2>2. CASE Persist(w)
    <3>1. jobs' \subseteq jobs \cup {todo[w]} /\ UNCHANGED <<views, todo, worker>>
      BY <2>2 DEF Persist
    <3>2. todo[w] \in 1..Len(views)
      BY <1>1, <2>2 DEF Persist, Numbered
    <3>3. \A v \in Sessions : pc'[v] \in {"persist", "queue", "signal"} =>
                               pc[v] \in {"persist", "queue", "signal"}
      BY <1>1, <2>2 DEF Persist, Shape
    <3> QED
      BY <1>1, <3>1, <3>2, <3>3 DEF Numbered
  <2> QED
    BY <1>3, <2>1, <2>2
<1>4. ASSUME NEW w \in Sessions, Closes(w) PROVE Numbered'
  <2>1. /\ UNCHANGED <<jobs, worker>>
        /\ \A v \in Sessions \ {w} : pc'[v] = pc[v] /\ todo'[v] = todo[v]
        /\ pc'[w] = "none" \/ todo'[w] = Len(views) + 1
        /\ \E view : views' = Append(views, view)
    BY <1>1, <1>4 DEF Closes, Shape
  <2>2. Len(views') = Len(views) + 1 /\ Len(views) \in Nat
    <3>1. PICK view, S : views' = Append(views, view) /\ views \in Seq(S)
      BY <1>1, <2>1 DEF Shape
    <3>2. views \in Seq(S \cup {view})
      BY <3>1, SeqMonotonic
    <3> QED
      BY <3>1, <3>2, AppendProperties, LenProperties
  <2> QED
    BY <1>1, <2>1, <2>2 DEF Numbered, Shape
<1>5. ASSUME NEW w \in Sessions, Enqueue(w) PROVE Numbered'
  <2>1. UNCHANGED <<jobs, views, todo>> /\ worker' \in {worker, Fresh} /\ pc[w] = "queue"
        /\ pc' = [pc EXCEPT ![w] = "signal"]
    BY <1>5 DEF Enqueue, disk
  <2> QED
    BY <1>1, <2>1, WorkerFields DEF Numbered, Shape
<1>6. CASE Worker
  <2>1. UNCHANGED <<jobs, views, todo, pc>>
    BY <1>6 DEF Worker, Look, Wait, Expand, WriteSide, AuditResult, MarkDone, disk
  <2>2. /\ worker'.pc \in {"off", "look", "wait"} => worker'.view = 0
        /\ worker'.pc \notin {"off", "look", "wait"} => worker'.view \in Views
    <3>1. CASE Look
      BY <1>1, <1>6, <3>1, WorkerStep, QueueOK DEF Numbered, Look, Shape
    <3>2. CASE Wait
      BY <1>1, <1>6, <3>2, WorkerStep DEF Numbered, Wait
    <3>3. CASE Expand \/ WriteSide \/ AuditResult
      <4>1. worker.view \in Views
        BY <1>1, <3>3 DEF Numbered, Expand, WriteSide, AuditResult
      <4> QED
        BY <1>1, <1>6, <3>3, <4>1, WorkerStep
    <3>4. CASE MarkDone
      BY <1>1, <1>6, <3>4, WorkerStep
    <3> QED
      BY <1>6, <3>1, <3>2, <3>3, <3>4 DEF Worker
  <2> QED
    BY <1>1, <2>1, <2>2 DEF Numbered
<1>7. CASE Down
  BY <1>1, <1>7, WorkerFields DEF Down, Numbered
<1>8. CASE Restart
  <2>1. worker' \in {Fresh, NoWorker} /\ UNCHANGED <<jobs, views, todo, pc>>
    BY <1>8 DEF Restart, disk
  <2> QED
    BY <1>1, <2>1, WorkerFields DEF Numbered
<1> QED
  BY <1>2, <1>3, <1>4, <1>5, <1>6, <1>7, <1>8, Kinds DEF Caller

(* A result in the audit stays there. *)
LEMMA AuditedStays ==
  ASSUME Inv, [Next]_vars, NEW v \in Views, Audited(v)
  PROVE  Audited(v)'
<1>1. DOMAIN result = Views
  BY DEF Inv, Shape
<1>2. CASE result' = result
  BY <1>2 DEF Audited
<1>3. ASSUME NEW w \in Sessions, Closes(w) PROVE Audited(v)'
  <2>1. PICK frames : result' \in {result, [result EXCEPT ![Len(views) + 1] = [status |-> "resolved", frames |-> frames]]}
    BY <1>3 DEF Closes
  <2> QED
    BY <1>1, <2>1 DEF Audited
<1>4. CASE AuditResult
  <2>1. PICK status \in {"resolved", "failed"} :
          result' = [result EXCEPT ![worker.view] = [status |-> status, frames |-> worker.frames]]
    BY <1>4 DEF AuditResult
  <2> QED
    BY <1>1, <2>1 DEF Audited
<1>5. \/ result' = result
      \/ \E w \in Sessions : Closes(w)
      \/ AuditResult
  BY Kinds DEF Aside, Caller, Opens, Persist, Enqueue, Signal, Worker, Look, Wait, Expand, WriteSide,
     MarkDone, Down, Restart, disk
<1> QED
  BY <1>2, <1>3, <1>4, <1>5

LEMMA CrossedOffStep == Inv /\ [Next]_vars => CrossedOff'
<1> SUFFICES ASSUME Inv, [Next]_vars PROVE CrossedOff'
  OBVIOUS
<1>1. Shape /\ Numbered /\ CrossedOff
  BY DEF Inv
<1>2. ASSUME done' = done, worker'.pc = "mark" => worker'.view = worker.view /\ worker.pc = "mark"
      PROVE  CrossedOff'
  <2>1. worker.pc = "mark" => worker.view \in Views
    BY <1>1 DEF Numbered
  <2> QED
    BY <1>1, <1>2, <2>1, AuditedStays DEF CrossedOff, Audited
<1>3. CASE Aside
  BY <1>2, <1>3 DEF Aside
<1>4. ASSUME NEW w \in Sessions, Opens(w) \/ Caller(w) PROVE CrossedOff'
  <2>1. done' = done /\ worker' \in {worker, Fresh}
    BY <1>4 DEF Caller, Opens, Closes, Persist, Enqueue, Signal, disk
  <2> QED
    BY <1>2, <2>1, WorkerFields
<1>5. CASE Worker
  <2>1. CASE Look \/ Wait \/ Expand \/ WriteSide
    <3>1. done' = done /\ worker'.pc # "mark"
      BY <1>1, <1>5, <2>1, WorkerStep DEF Look, Wait, Expand, WriteSide, disk
    <3> QED
      BY <1>2, <3>1
  <2>2. CASE AuditResult
    <3>1. /\ worker.view \in Views /\ DOMAIN result = Views
          /\ worker'.view = worker.view /\ done' = done
      BY <1>1, <1>5, <2>2, WorkerStep DEF AuditResult, Numbered, Shape
    <3>2. result'[worker.view].status # "none"
      BY <2>2, <3>1 DEF AuditResult
    <3> QED
      BY <1>1, <3>1, <3>2, AuditedStays DEF CrossedOff, Audited
  <2>3. CASE MarkDone
    <3>1. /\ worker.pc = "mark" /\ worker'.pc # "mark" /\ result' = result
          /\ done' \subseteq done \cup {worker.view}
      BY <1>1, <1>5, <2>3, WorkerStep DEF MarkDone
    <3> QED
      BY <1>1, <3>1 DEF CrossedOff, Audited
  <2> QED
    BY <1>5, <2>1, <2>2, <2>3 DEF Worker
<1>6. CASE Down \/ Restart
  <2>1. done' = done /\ worker'.pc # "mark"
    BY <1>6, WorkerFields DEF Down, Restart, disk
  <2> QED
    BY <1>2, <2>1
<1> QED
  BY <1>3, <1>4, <1>5, <1>6, Kinds

LEMMA RememberedStep == Inv /\ [Next]_vars => Remembered'
<1> SUFFICES ASSUME Inv, [Next]_vars, app' # "down", NEW v \in jobs', ~Audited(v)' PROVE Held(v)'
  BY DEF Remembered
<1>1. Shape /\ Numbered /\ CrossedOff /\ jobs \subseteq Views
  BY JobsAreViews DEF Inv
<1>2. ASSUME app # "down", v \in jobs PROVE Held(v) /\ ~Audited(v) /\ v # 0
  BY <1>1, <1>2, AuditedStays DEF Inv, Remembered, Views
<1>3. CASE Aside
  BY <1>2, <1>3 DEF Aside, Held
<1>4. ASSUME NEW w \in Sessions, Opens(w) \/ Caller(w) PROVE Held(v)'
  <2>1. app # "down" /\ (v \in jobs \/ (pc[w] = "persist" /\ v = todo[w]))
    <3>1. app # "down"
      BY <1>4 DEF Opens, Caller, Closes, Persist, Enqueue, Signal, Up
    <3>2. Persist(w) => jobs' \subseteq jobs \cup {todo[w]} /\ pc[w] = "persist"
      BY DEF Persist
    <3>3. Opens(w) \/ Closes(w) \/ Enqueue(w) \/ Signal(w) => jobs' = jobs
      BY DEF Opens, Closes, Enqueue, Signal, disk
    <3> QED
      BY <1>4, <3>1, <3>2, <3>3 DEF Caller
  <2>2. CASE Opens(w) \/ Signal(w)
    BY <1>1, <1>2, <2>1, <2>2 DEF Opens, Signal, Held, Shape
  <2>3. CASE Closes(w)
    <3>1. /\ v \in jobs /\ queue' = queue /\ worker' = worker /\ pc[w] = "open"
          /\ \A s \in Sessions \ {w} : todo'[s] = todo[s] /\ pc'[s] = pc[s]
      BY <2>3 DEF Closes
    <3> QED
      BY <1>2, <2>1, <3>1 DEF Held
  <2>4. CASE Persist(w)
    <3>1. /\ queue' = queue /\ worker' = worker /\ todo' = todo
          /\ pc' = [pc EXCEPT ![w] = "queue"] /\ pc[w] = "persist"
          /\ v \in jobs \/ v = todo[w]
      BY <2>4 DEF Persist
    <3> QED
      BY <1>1, <1>2, <2>1, <3>1 DEF Held, Shape
  <2>5. CASE Enqueue(w)
    <3>1. /\ v \in jobs /\ queue' = Append(queue, todo[w]) /\ todo' = todo /\ pc[w] = "queue"
          /\ pc' = [pc EXCEPT ![w] = "signal"]
          /\ worker' = worker \/ worker.pc = "off"
      BY <2>5 DEF Enqueue, disk
    <3>2. todo[w] \in Views /\ Range(queue') = Range(queue) \cup {todo[w]}
      BY <1>1, <3>1, JobsAreViews, QueueOK DEF Shape
    <3>3. worker.pc = "off" => worker.view # v
      BY <1>1, <1>2, <2>1, <3>1 DEF Numbered
    <3> QED
      BY <1>1, <1>2, <2>1, <3>1, <3>2, <3>3 DEF Held, Shape
  <2> QED
    BY <1>4, <2>2, <2>3, <2>4, <2>5 DEF Caller
<1>5. CASE Worker
  <2>1. app' = app /\ jobs' = jobs /\ todo' = todo /\ pc' = pc
    BY <1>5 DEF Worker, Look, Wait, Expand, WriteSide, AuditResult, MarkDone, disk
  <2>2. Held(v) /\ ~Audited(v) /\ v # 0
    BY <1>2, <2>1
  <2>3. CASE Look
    <3>1. CASE queue = <<>>
      BY <1>1, <1>5, <2>1, <2>2, <2>3, <3>1, WorkerStep DEF Look, Held
    <3>2. CASE queue # <<>>
      <4>1. queue' = Tail(queue) /\ worker'.view = Head(queue) /\ worker.view = 0
        BY <1>1, <1>5, <2>3, <3>2, WorkerStep DEF Look, Numbered
      <4>2. Range(queue) \subseteq Range(Tail(queue)) \cup {Head(queue)}
        BY <1>1, <3>2, QueueOK DEF Shape
      <4> QED
        BY <2>1, <2>2, <4>1, <4>2 DEF Held
    <3> QED
      BY <3>1, <3>2
  <2>4. CASE Wait
    <3>1. queue' = queue /\ worker.view = 0
      BY <1>1, <2>4 DEF Wait, Numbered
    <3> QED
      BY <2>1, <2>2, <3>1 DEF Held
  <2>5. CASE Expand \/ WriteSide \/ AuditResult
    <3>1. queue' = queue /\ worker'.view = worker.view
      BY <1>1, <1>5, <2>5, WorkerStep DEF Expand, WriteSide, AuditResult
    <3> QED
      BY <2>1, <2>2, <3>1 DEF Held
  <2>6. CASE MarkDone
    <3>1. queue' = queue /\ worker.view # v
      BY <1>1, <2>2, <2>6 DEF MarkDone, CrossedOff
    <3> QED
      BY <2>1, <2>2, <3>1 DEF Held
  <2> QED
    BY <1>5, <2>3, <2>4, <2>5, <2>6 DEF Worker
<1>6. CASE Down
  BY <1>6 DEF Down
<1>7. CASE Restart
  <2>1. jobs' = jobs /\ done' = done /\ result' = result /\ queue' \in InOrder(jobs \ done)
    BY <1>7 DEF Restart, disk
  <2>2. v \in jobs \ done
    BY <1>1, <2>1 DEF CrossedOff, Audited
  <2>3. Range(queue') = jobs \ done
    BY <1>1, <2>1, InOrderOK
  <2> QED
    BY <2>2, <2>3 DEF Held
<1> QED
  BY <1>3, <1>4, <1>5, <1>6, <1>7, Kinds

LEMMA InvStep == Inv /\ [Next]_vars => Inv'
BY ShapeStep, StopIsLastStep, NumberedStep, CrossedOffStep, RememberedStep DEF Inv

-----------------------------------------------------------------------------
(* The worker sees the queue: the signal waits for a worker that is about to *)
(* wait, and a worker only goes when the stop is closed.                     *)
LEMMA QueueIsSeenStep == Inv /\ QueueIsSeen /\ [Next]_vars => QueueIsSeen'
<1> SUFFICES ASSUME Inv, QueueIsSeen, [Next]_vars PROVE QueueIsSeen'
  OBVIOUS
<1>1. Shape /\ StopIsLast /\ DOMAIN pc = Sessions
  BY DEF Inv, Shape
<1>2. ASSUME NEW w \in Sessions, Opens(w) \/ Closes(w) \/ Persist(w) PROVE QueueIsSeen'
  BY <1>1, <1>2 DEF Opens, Closes, Persist, QueueIsSeen
<1>3. ASSUME NEW w \in Sessions, Enqueue(w) PROVE QueueIsSeen'
  <2>1. /\ app' = app /\ pc' = [pc EXCEPT ![w] = "signal"]
        /\ worker' = IF worker.pc = "off" /\ ~stop THEN Fresh ELSE worker
    BY <1>3 DEF Enqueue
  <2>2. app = "up" => ~stop
    BY <1>1 DEF StopIsLast
  <2>3. app = "up" => worker'.pc # "off"
    BY <2>1, <2>2, WorkerFields
  <2> QED
    BY <1>1, <2>1, <2>3 DEF QueueIsSeen
<1>4. ASSUME NEW w \in Sessions, Signal(w) PROVE QueueIsSeen'
  BY <1>1, <1>4 DEF Signal, QueueIsSeen
<1>5. ASSUME Worker PROVE QueueIsSeen'
  <2>1. CASE Look
    <3>1. CASE queue = <<>>
      BY <1>1, <2>1, <3>1 DEF Look, QueueIsSeen
    <3>2. CASE queue # <<>>
      <4>1. worker'.pc = "expand"
        BY <2>1, <3>2, WorkerFields DEF Look
      <4> QED
        BY <4>1 DEF QueueIsSeen
    <3> QED
      BY <3>1, <3>2
  <2>2. CASE Wait
    <3>1. CASE stop
      BY <1>1, <2>2, <3>1 DEF Wait, QueueIsSeen, StopIsLast
    <3>2. CASE ~stop
      <4>1. worker'.pc = "look"
        BY <1>1, <2>2, <3>2 DEF Wait, Shape
      <4> QED
        BY <4>1 DEF QueueIsSeen
    <3> QED
      BY <3>1, <3>2
  <2>3. CASE Expand
    <3>1. worker'.pc \in {"expand", "write"}
      BY <1>1, <2>3 DEF Expand, Answered, Shape
    <3> QED
      BY <3>1 DEF QueueIsSeen
  <2>4. CASE WriteSide
    <3>1. worker'.pc = "expand"
      BY <1>1, <2>4 DEF WriteSide, Answered, Shape
    <3> QED
      BY <3>1 DEF QueueIsSeen
  <2>5. CASE AuditResult
    <3>1. worker'.pc = "mark"
      BY <1>1, <2>5 DEF AuditResult, Shape
    <3> QED
      BY <3>1 DEF QueueIsSeen
  <2>6. CASE MarkDone
    <3>1. app' = app /\ (~stop => worker'.pc = "look")
      BY <2>6, WorkerFields DEF MarkDone
    <3> QED
      BY <1>1, <3>1 DEF QueueIsSeen, StopIsLast
  <2> QED
    BY <1>5, <2>1, <2>2, <2>3, <2>4, <2>5, <2>6 DEF Worker
<1>6. ASSUME Born \/ Dies \/ Finalize \/ FrameComes PROVE QueueIsSeen'
  BY <1>6 DEF Born, Dies, Finalize, FrameComes, memory, QueueIsSeen
<1>7. ASSUME ShutdownBegins \/ DrainBegins \/ StopsWorker \/ DrainEnds \/ Down PROVE QueueIsSeen'
  BY <1>7 DEF ShutdownBegins, DrainBegins, StopsWorker, DrainEnds, Down, QueueIsSeen
<1>8. ASSUME Restart PROVE QueueIsSeen'
  <2>1. CASE jobs \ done # {}
    BY <1>8, <2>1, WorkerFields DEF Restart, QueueIsSeen
  <2>2. CASE jobs \ done = {}
    <3>1. queue' \in Seq(Views) /\ Range(queue') = {}
      BY <1>8, <2>2, InOrderOK DEF Restart
    <3>2. queue' = <<>>
      <4>1. DOMAIN queue' = {}
        BY <3>1 DEF Range
      <4> QED
        BY <3>1, <4>1, LenProperties, EmptySeq
    <3> QED
      BY <3>2 DEF QueueIsSeen
  <2> QED
    BY <2>1, <2>2
<1>9. ASSUME Rots \/ Shortened PROVE QueueIsSeen'
  BY <1>9 DEF Rots, Shortened, memory, QueueIsSeen
<1>10. ASSUME UNCHANGED vars PROVE QueueIsSeen'
  BY <1>10 DEF vars, memory, QueueIsSeen
<1> QED
  BY <1>2, <1>3, <1>4, <1>5, <1>6, <1>7, <1>8, <1>9, <1>10 DEF Next, Caller

(* A job that waits in the queue while the application is up is seen: the    *)
(* worker runs, or waits with a signal there or about to come, at any point  *)
(* of its start, its waiting and a shutdown (enqueueWireFrameJob,            *)
(* wireFrameWorker).                                                         *)
THEOREM QueueIsSeenHolds == Spec => []QueueIsSeen
<1>1. Init => QueueIsSeen
  BY DEF Init, QueueIsSeen
<1> QED
  BY <1>1, InvInit, InvStep, QueueIsSeenStep, PTL DEF Spec

(* A job put down is crossed off only with its result in the audit, and is   *)
(* in somebody's hand until then, across any number of crashes               *)
(* (markWireFrameJobDone, openWireFrameJobs).                                *)
THEOREM JobsSurviveHolds == Spec => []JobsSurvive
<1>1. Inv => JobsSurvive
  BY JobsAreViews DEF Inv, CrossedOff, Remembered, Audited, Held, JobsSurvive
<1> QED
  BY <1>1, InvInit, InvStep, PTL DEF Spec
-----------------------------------------------------------------------------
(***************************************************************************)
(* The answers.  A job has the number of the segments at its closing only, *)
(* so a lost segment is noticed until a later closing has taken its place; *)
(* and the generation the worker reads may still be growing.  What follows *)
(* holds but for these two, which `lost` and `early` keep.                 *)
(***************************************************************************)
Frozen(g) == gen[g] \in {"closing", "closed"}
Settled(g) == gen[g] = "closed"

(* Only the published generation is live; a session's segments are in        *)
(* generations that were born, and while one is open the others are in       *)
(* generations that are published no more.                                   *)
Ages ==
  /\ cur \in Gens \cup {0} /\ (cur # 0 => gen[cur] = "live")
  /\ DOMAIN gen = Gens /\ DOMAIN log = Gens /\ DOMAIN seg = Sessions /\ DOMAIN segs = Sessions
  /\ \A g \in Gens : gen[g] \in {"unborn", "live", "closing", "closed"} /\ (gen[g] = "live" => cur = g)
  /\ \A w \in Sessions :
       /\ segs[w] \in Seq(Gens) /\ seg[w] \in Gens \cup {0} /\ (pc[w] = "open" => seg[w] # 0)
       /\ seg[w] # 0 => gen[seg[w]] # "unborn"
       /\ \A i \in 1..Len(segs[w]) : /\ gen[segs[w][i]] # "unborn"
                                     /\ seg[w] # 0 => segs[w][i] = seg[w] \/ Frozen(segs[w][i])

(* Nothing of a process is left when it is down. *)
Idle == app = "down" => queue = <<>> /\ worker.pc = "off" /\ \A w \in Sessions : pc[w] = "none"

(* The views that may still be answered. *)
Busy == worker.pc \in {"expand", "write", "mark"}
AtStake(u) ==
  \/ u \in jobs \ done \/ u \in Range(queue) \/ (Busy /\ worker.view = u)
  \/ \E w \in Sessions : todo[w] = u /\ pc[w] \in {"persist", "queue"}

(* Such a view stands for the first segments of its session, as many as it   *)
(* says, unless one of them was lost.                                        *)
Formed(v) ==
  v.w \in Sessions /\ v.live \in Gens /\ v.n \in Nat \ {0} /\ v.earlier \subseteq Gens \ {v.live}
Stands(v) ==
  /\ v.n <= Len(segs[v.w]) /\ \A g \in v.earlier : Frozen(g)
  /\ \A i \in 1..v.n : segs[v.w][i] \in v.earlier \cup {v.live}
  /\ \A g \in v.earlier : \E i \in 1..v.n : segs[v.w][i] = g
ViewsOK == \A u \in 1..Len(views) :
  Formed(views[u]) /\ (AtStake(u) /\ u \notin lost => Stands(views[u]))

(* What was read of a generation is the whole of its log, or early. *)
Reading(g, a) == a.kind = "frames" /\ (g \in early \/ (Settled(g) /\ a.of = log[g]))
Readings ==
  /\ DOMAIN side = Gens /\ DOMAIN cache = Gens
  /\ \A g \in Gens : /\ side[g] = None \/ Reading(g, side[g])
                     /\ cache[g] = None \/ cache[g] = Error \/ Reading(g, cache[g])

(* The worker has the frames, or the failure, of each generation it is past. *)
Parts == {"pc", "view", "i", "frames", "failed", "read"}
Right(frames, v) ==
  /\ v.live \in DOMAIN frames
  /\ \A g \in DOMAIN frames \ ({v.live} \cup early) : g \in Gens /\ Settled(g) /\ frames[g] = log[g][v.w]
Past(u, v) ==
  /\ Right(worker.frames, v)
  /\ worker.i \in Nat \ {0}
  /\ worker.i <= v.n => v.n <= Len(segs[v.w])
  /\ u \notin lost => /\ DOMAIN worker.frames \subseteq v.earlier \cup {v.live}
                      /\ \A j \in 1..v.n : j < worker.i => segs[v.w][j] \in DOMAIN worker.frames \cup worker.failed
Working ==
  /\ Parts \subseteq DOMAIN worker
  /\ Range(queue) \subseteq 1..Len(views)
  /\ Busy => worker.view \in 1..Len(views)
  /\ worker.pc \in {"expand", "write"} => Past(worker.view, views[worker.view])
  /\ worker.pc = "write" => Next1 /\ Segment \notin DOMAIN worker.frames /\ Reading(Segment, worker.read)

Answer(u, frames, v) ==
  Right(frames, v) /\ (u \notin lost => DOMAIN frames = v.earlier \cup {v.live})
Answers ==
  /\ \A v \in Views : v > Len(views) => result[v].status = "none"
  /\ \A u \in 1..Len(views) : result[u].status = "resolved" => Answer(u, result[u].frames, views[u])

Whole == Ages /\ Idle /\ ViewsOK /\ Readings /\ Working /\ Answers

LEMMA GensFrom1 == Gens \subseteq Nat \ {0}
BY BoundsAssumption DEF Gens

-----------------------------------------------------------------------------
(* What never goes back. *)
LEMMA FrozenStays ==
  ASSUME Ages, [Next]_vars, NEW g \in Gens
  PROVE  /\ Frozen(g) => Frozen(g)'
         /\ Settled(g) => Settled(g)' /\ log'[g] = log[g]
<1>1. CASE Born
  BY <1>1 DEF Born, Ages, Frozen, Settled
<1>2. CASE Dies
  BY <1>2 DEF Dies, Ages, Frozen, Settled
<1>3. CASE Finalize
  BY <1>3 DEF Finalize, Ages, Frozen, Settled
<1>4. CASE FrameComes
  <2>1. PICK h \in Gens, w \in Sessions : gen[h] # "closed" /\ log' = [log EXCEPT ![h][w] = @ + 1]
    BY <1>4 DEF FrameComes
  <2> QED
    BY <1>4, <2>1 DEF FrameComes, Ages, Frozen, Settled
<1>5. CASE Down
  BY <1>5 DEF Down, Ages, Frozen, Settled
<1>6. ASSUME NEW w \in Sessions, Opens(w) \/ Caller(w) PROVE UNCHANGED <<gen, log>>
  BY <1>6 DEF Opens, Caller, Closes, Persist, Enqueue, Signal, disk
<1>7. CASE Worker
  <2>1. UNCHANGED <<gen, log>>
    BY <1>7 DEF Worker, Look, Wait, Expand, WriteSide, AuditResult, MarkDone, disk
  <2> QED
    BY <2>1 DEF Frozen, Settled
<1>8. CASE ShutdownBegins \/ DrainBegins \/ StopsWorker \/ DrainEnds \/ Restart \/ Rots \/ Shortened \/ UNCHANGED vars
  <2>1. UNCHANGED <<gen, log>>
    BY <1>8 DEF ShutdownBegins, DrainBegins, StopsWorker, DrainEnds, Restart, Rots, Shortened, vars, disk
  <2> QED
    BY <2>1 DEF Frozen, Settled
<1> QED
  BY <1>1, <1>2, <1>3, <1>4, <1>5, <1>6, <1>7, <1>8 DEF Next, Frozen, Settled

LEMMA HistoryStays ==
  ASSUME [Next]_vars
  PROVE  /\ early \subseteq early' /\ lost \subseteq lost'
         /\ Shortened \/ lost' = lost
         /\ Expand \/ early' = early
<1>1. ASSUME NEW w \in Sessions, Opens(w) \/ Caller(w) PROVE UNCHANGED history
  BY <1>1 DEF Opens, Caller, Closes, Persist, Enqueue, Signal
<1>2. Look \/ Wait \/ WriteSide \/ AuditResult \/ MarkDone => UNCHANGED history
  BY DEF Look, Wait, WriteSide, AuditResult, MarkDone
<1>3. Born \/ Dies \/ Finalize \/ FrameComes \/ ShutdownBegins \/ DrainBegins \/ StopsWorker \/ DrainEnds
      \/ Down \/ Restart \/ Rots \/ UNCHANGED vars => UNCHANGED history
  BY DEF Born, Dies, Finalize, FrameComes, ShutdownBegins, DrainBegins, StopsWorker, DrainEnds, Down, Restart,
     Rots, vars, history
<1>4. Expand => lost' = lost /\ early \subseteq early'
  BY DEF Expand, WithReading
<1>5. Shortened => early' = early /\ lost \subseteq lost'
  BY DEF Shortened
<1> QED
  BY <1>1, <1>2, <1>3, <1>4, <1>5 DEF Next, Worker, history

(* A segment is appended to a session's; none of those before it changes. *)
LEMMA Appended ==
  ASSUME NEW S, NEW q \in Seq(S), NEW x \in S
  PROVE  /\ Append(q, x) \in Seq(S) /\ Len(q) \in Nat /\ Len(Append(q, x)) = Len(q) + 1
         /\ \A i \in 1..Len(q) : Append(q, x)[i] = q[i] /\ q[i] \in S
         /\ Append(q, x)[Len(q) + 1] = x
BY AppendProperties, LenProperties, ElementOfSeq

LEMMA FrontOK ==
  ASSUME NEW S, NEW q \in Seq(S), q # <<>>
  PROVE  /\ Front(q) \in Seq(S) /\ Len(q) \in Nat \ {0} /\ Len(Front(q)) = Len(q) - 1
         /\ \A i \in 1..Len(q) - 1 : Front(q)[i] = q[i] /\ q[i] \in S
<1>1. Len(q) \in Nat \ {0} /\ \A i \in 1..Len(q) : q[i] \in S
  BY LenProperties, EmptySeq, ElementOfSeq
<1>2. Front(q) = SubSeq(q, 1, Len(q) - 1)
  BY DEF Front
<1>3. 1..Len(q) - 1 \subseteq 1..Len(q)
  BY <1>1
<1>4. /\ Front(q) \in Seq(S) /\ Len(Front(q)) = Len(q) - 1
      /\ \A i \in 1..Len(q) - 1 : Front(q)[i] = q[i]
  <2>1. PICK n \in Nat : n = Len(q) - 1
    BY <1>1
  <2>2. /\ SubSeq(q, 1, n) \in Seq(S) /\ Len(SubSeq(q, 1, n)) = IF 1 <= n THEN n - 1 + 1 ELSE 0
        /\ \A i \in 1..n - 1 + 1 : SubSeq(q, 1, n)[i] = q[1 + i - 1]
    BY <1>1, <1>3, <2>1, SubSeqProperties
  <2>3. n - 1 + 1 = n /\ \A i \in 1..n : 1 + i - 1 = i
    BY <2>1
  <2> QED
    BY <1>2, <2>1, <2>2, <2>3
<1> QED
  BY <1>1, <1>3, <1>4

LEMMA SegsGrow ==
  ASSUME Ages, [Next]_vars, ~Shortened, NEW w \in Sessions
  PROVE  /\ Len(segs[w]) \in Nat /\ Len(segs'[w]) \in Nat /\ Len(segs[w]) <= Len(segs'[w])
         /\ \A i \in 1..Len(segs[w]) : segs'[w][i] = segs[w][i]
<1>1. segs[w] \in Seq(Gens) /\ Len(segs[w]) \in Nat
  BY LenProperties DEF Ages
<1>2. ASSUME NEW v \in Sessions, Closes(v)
      PROVE  /\ Len(segs'[w]) \in Nat /\ Len(segs[w]) <= Len(segs'[w])
             /\ \A i \in 1..Len(segs[w]) : segs'[w][i] = segs[w][i]
  <2>1. seg[v] \in Gens /\ segs' = [segs EXCEPT ![v] = Append(@, seg[v])]
    BY <1>2 DEF Closes, Ages
  <2>2. CASE v = w
    <3>1. segs'[w] = Append(segs[w], seg[w])
      BY <2>1, <2>2 DEF Ages
    <3> QED
      BY <1>1, <2>1, <2>2, <3>1, Appended
  <2>3. CASE v # w
    BY <1>1, <2>1, <2>3 DEF Ages
  <2> QED
    BY <2>2, <2>3
<1>3. segs' = segs \/ \E v \in Sessions : Closes(v)
  <2>1. ASSUME NEW v \in Sessions, Opens(v) \/ Caller(v) PROVE segs' = segs \/ Closes(v)
    BY <2>1 DEF Opens, Caller, Persist, Enqueue, Signal, disk
  <2>2. Worker => segs' = segs
    BY DEF Worker, Look, Wait, Expand, WriteSide, AuditResult, MarkDone, disk
  <2>3. Born \/ Dies \/ Finalize \/ FrameComes \/ ShutdownBegins \/ DrainBegins \/ StopsWorker \/ DrainEnds
        \/ Down \/ Restart \/ Rots \/ UNCHANGED vars => segs' = segs
    BY DEF Born, Dies, Finalize, FrameComes, ShutdownBegins, DrainBegins, StopsWorker, DrainEnds, Down, Restart,
       Rots, vars, disk
  <2> QED
    BY <2>1, <2>2, <2>3 DEF Next
<1> QED
  BY <1>1, <1>2, <1>3

LEMMA ViewsGrow ==
  ASSUME Shape, [Next]_vars
  PROVE  /\ Len(views) \in Nat /\ Len(views') \in Nat /\ Len(views) <= Len(views')
         /\ \A v \in 1..Len(views) : views'[v] = views[v]
<1>1. Len(views) \in Nat
  BY BoundsAssumption DEF Shape
<1>2. ASSUME NEW w \in Sessions, Closes(w)
      PROVE  /\ Len(views') \in Nat /\ Len(views) <= Len(views')
             /\ \A v \in 1..Len(views) : views'[v] = views[v]
  <2>1. PICK S, view : views \in Seq(S) /\ views' = Append(views, view)
    BY <1>2 DEF Closes, Shape
  <2>2. views \in Seq(S \cup {view})
    BY <2>1, SeqMonotonic
  <2>3. PICK T : T = S \cup {view}
    OBVIOUS
  <2> QED
    BY <2>1, <2>2, <2>3, Appended
<1>3. views' = views \/ \E w \in Sessions : Closes(w)
  BY Kinds DEF Aside, Opens, Caller, Persist, Enqueue, Signal, Worker, Look, Wait, Expand, WriteSide, AuditResult,
     MarkDone, Down, Restart, disk
<1> QED
  BY <1>1, <1>2, <1>3

LEMMA AgesStep == ASSUME Shape, Ages, [Next]_vars PROVE Ages'
<1> USE GensFrom1
<1>1. \A g \in Gens : Frozen(g) => Frozen(g)'
  BY FrozenStays
<1>2. DOMAIN pc = Sessions
  BY DEF Shape
<1>3. CASE Born
  BY <1>3 DEF Born, Ages, Frozen
<1>4. CASE Dies
  BY <1>4 DEF Dies, Ages, Frozen
<1>5. CASE Finalize
  BY <1>5 DEF Finalize, memory, Ages, Frozen
<1>6. CASE FrameComes
  BY <1>6 DEF FrameComes, memory, Ages, Frozen
<1>7. ASSUME NEW w \in Sessions, Opens(w) PROVE Ages'
  <2>1. /\ UNCHANGED <<gen, log, segs, cur>> /\ cur # 0
        /\ seg' = [seg EXCEPT ![w] = cur] /\ pc' = [pc EXCEPT ![w] = "open"]
    BY <1>7 DEF Opens, disk
  <2>2. ASSUME NEW v \in Sessions
        PROVE  /\ seg'[v] \in Gens \cup {0} /\ (pc'[v] = "open" => seg'[v] # 0)
               /\ seg'[v] # 0 => gen[seg'[v]] # "unborn"
               /\ \A i \in 1..Len(segs[v]) : seg'[v] # 0 => segs[v][i] = seg'[v] \/ Frozen(segs[v][i])
    <3>1. CASE v = w
      <4>1. seg'[v] = cur /\ cur \in Gens /\ gen[cur] = "live"
        BY <2>1, <3>1 DEF Ages
      <4>2. ASSUME NEW i \in 1..Len(segs[v]) PROVE segs[v][i] = cur \/ Frozen(segs[v][i])
        <5>1. segs[v][i] \in Gens
          BY ElementOfSeq DEF Ages
        <5> QED
          BY <5>1 DEF Ages, Frozen
      <4> QED
        BY <4>1, <4>2, GensFrom1
    <3>2. CASE v # w
      BY <1>2, <2>1, <3>2 DEF Ages
    <3> QED
      BY <3>1, <3>2
  <2> QED
    BY <2>1, <2>2 DEF Ages, Frozen
<1>8. ASSUME NEW w \in Sessions, Closes(w) PROVE Ages'
  <2>1. /\ UNCHANGED <<gen, log, cur>> /\ pc[w] = "open"
        /\ seg' = [seg EXCEPT ![w] = 0] /\ segs' = [segs EXCEPT ![w] = Append(@, seg[w])]
        /\ \A v \in Sessions : pc'[v] = "open" => v # w /\ pc[v] = "open"
    BY <1>2, <1>8 DEF Closes
  <2>2. seg[w] \in Gens /\ gen[seg[w]] # "unborn"
    BY <2>1 DEF Ages
  <2>3. ASSUME NEW v \in Sessions
        PROVE  /\ segs'[v] \in Seq(Gens) /\ seg'[v] \in Gens \cup {0} /\ (pc'[v] = "open" => seg'[v] # 0)
               /\ seg'[v] # 0 => gen[seg'[v]] # "unborn"
               /\ \A i \in 1..Len(segs'[v]) : /\ gen[segs'[v][i]] # "unborn"
                                              /\ seg'[v] # 0 => segs'[v][i] = seg'[v] \/ Frozen(segs'[v][i])
    <3>1. CASE v = w
      <4>1. segs'[v] = Append(segs[w], seg[w]) /\ seg'[v] = 0 /\ segs[w] \in Seq(Gens)
        BY <2>1, <3>1 DEF Ages
      <4>2. \A i \in 1..Len(segs'[v]) : gen[segs'[v][i]] # "unborn"
        BY <2>2, <4>1, Appended DEF Ages
      <4> QED
        BY <2>1, <2>2, <3>1, <4>1, <4>2, Appended
    <3>2. CASE v # w
      BY <2>1, <3>2 DEF Ages
    <3> QED
      BY <3>1, <3>2
  <2> QED
    BY <2>1, <2>3 DEF Ages, Frozen
<1>9. ASSUME UNCHANGED <<gen, log, segs, cur, seg>>, \A w \in Sessions : pc'[w] = "open" => pc[w] = "open"
      PROVE  Ages'
  BY <1>9 DEF Ages, Frozen
<1>10. ASSUME NEW w \in Sessions, Persist(w) \/ Enqueue(w) \/ Signal(w) PROVE Ages'
  BY <1>2, <1>9, <1>10 DEF Persist, Enqueue, Signal, disk
<1>11. CASE Worker
  BY <1>9, <1>11 DEF Worker, Look, Wait, Expand, WriteSide, AuditResult, MarkDone, disk
<1>12. CASE Down
  <2>1. /\ UNCHANGED <<log, segs>> /\ cur' = 0
        /\ gen' = [g \in Gens |-> IF gen[g] \in {"live", "closing"} THEN "closed" ELSE gen[g]]
        /\ seg' = [w \in Sessions |-> 0] /\ pc' = [w \in Sessions |-> "none"]
    BY <1>12 DEF Down
  <2>2. \A w \in Sessions : \A i \in 1..Len(segs[w]) : segs[w][i] \in Gens
    BY ElementOfSeq DEF Ages
  <2> QED
    BY <2>1, <2>2 DEF Ages, Frozen
<1>13. CASE ShutdownBegins \/ DrainBegins \/ StopsWorker \/ DrainEnds \/ Restart \/ Rots \/ UNCHANGED vars
  BY <1>9, <1>13 DEF ShutdownBegins, DrainBegins, StopsWorker, DrainEnds, Restart, Rots, vars, disk, memory
<1>14. CASE Shortened
  <2>1. /\ UNCHANGED <<gen, log, cur, seg, pc>>
    BY <1>14 DEF Shortened, memory
  <2>2. PICK w \in Sessions : segs[w] # <<>> /\ segs' = [segs EXCEPT ![w] = Front(@)]
    BY <1>14 DEF Shortened
  <2>3. /\ segs[w] \in Seq(Gens) /\ segs'[w] = Front(segs[w])
        /\ \A v \in Sessions \ {w} : segs'[v] = segs[v]
    BY <2>2 DEF Ages
  <2>4. /\ segs'[w] \in Seq(Gens) /\ Len(segs'[w]) = Len(segs[w]) - 1 /\ Len(segs[w]) \in Nat
        /\ \A i \in 1..Len(segs[w]) - 1 : segs'[w][i] = segs[w][i]
    BY <2>2, <2>3, FrontOK
  <2>5. \A i \in 1..Len(segs'[w]) : i \in 1..Len(segs[w]) /\ segs'[w][i] = segs[w][i]
    BY <2>4
  <2> QED
    BY <2>1, <2>2, <2>3, <2>4, <2>5 DEF Ages, Frozen
<1> QED
  BY <1>3, <1>4, <1>5, <1>6, <1>7, <1>8, <1>10, <1>11, <1>12, <1>13, <1>14 DEF Next, Caller

LEMMA IdleStep == ASSUME Shape, Idle, [Next]_vars PROVE Idle'
<1>1. CASE Aside
  BY <1>1 DEF Aside, Idle
<1>2. ASSUME NEW w \in Sessions, Opens(w) \/ Caller(w) PROVE app' # "down"
  BY <1>2 DEF Opens, Caller, Closes, Persist, Enqueue, Signal, Up
<1>3. CASE Worker
  BY <1>3 DEF Worker, Look, Wait, Expand, WriteSide, AuditResult, MarkDone, Idle
<1>4. CASE Down
  BY <1>4 DEF Down, Idle, NoWorker
<1>5. CASE Restart
  BY <1>5 DEF Restart, Idle
<1> QED
  BY <1>1, <1>2, <1>3, <1>4, <1>5, Kinds DEF Idle

LEMMA QueueTail ==
  ASSUME queue \in Seq(Views), queue # <<>>
  PROVE  /\ Head(queue) \in Views /\ Tail(queue) \in Seq(Views)
         /\ Range(Tail(queue)) \subseteq Range(queue) /\ Head(queue) \in Range(queue)
<1>1. /\ Head(queue) \in Views /\ Tail(queue) \in Seq(Views)
      /\ Len(Tail(queue)) = Len(queue) - 1 /\ Len(queue) \in Nat /\ Len(queue) >= 1
      /\ \A i \in 1..Len(Tail(queue)) : Tail(queue)[i] = queue[i + 1]
      /\ DOMAIN queue = 1..Len(queue) /\ DOMAIN Tail(queue) = 1..Len(Tail(queue))
  BY HeadTailProperties, EmptySeq, LenProperties
<1>2. Head(queue) = queue[1]
  OBVIOUS
<1> QED
  BY <1>1, <1>2 DEF Range

(* A view that is answered for good does not come back. *)
LEMMA AtStakeStays ==
  ASSUME Shape, Numbered, [Next]_vars, NEW u \in 1..Len(views), AtStake(u)'
  PROVE  AtStake(u)
<1>1. CASE Aside
  BY <1>1 DEF Aside, AtStake, Busy
<1>2. ASSUME NEW w \in Sessions, Opens(w) \/ Signal(w) PROVE AtStake(u)
  BY <1>2 DEF Opens, Signal, Shape, AtStake, Busy, disk
<1>3. ASSUME NEW w \in Sessions, Closes(w) PROVE AtStake(u)
  <2>1. /\ UNCHANGED <<jobs, done, queue, worker>>
        /\ \A x \in Sessions \ {w} : pc'[x] = pc[x] /\ todo'[x] = todo[x]
        /\ pc'[w] = "none" \/ todo'[w] = Len(views) + 1
    BY <1>3 DEF Closes, Shape
  <2>2. u # Len(views) + 1
    BY BoundsAssumption DEF Shape
  <2> QED
    BY <2>1, <2>2 DEF AtStake, Busy
<1>4. ASSUME NEW w \in Sessions, Persist(w) PROVE AtStake(u)
  <2>1. /\ UNCHANGED <<done, queue, worker, todo>> /\ jobs' \subseteq jobs \cup {todo[w]}
        /\ pc[w] = "persist" /\ pc' = [pc EXCEPT ![w] = "queue"]
    BY <1>4 DEF Persist
  <2> QED
    BY <2>1 DEF AtStake, Busy, Shape
<1>5. ASSUME NEW w \in Sessions, Enqueue(w) PROVE AtStake(u)
  <2>1. /\ UNCHANGED <<jobs, done, todo>> /\ queue' = Append(queue, todo[w]) /\ pc[w] = "queue"
        /\ pc' = [pc EXCEPT ![w] = "signal"] /\ (worker' = worker \/ worker' = Fresh)
    BY <1>5 DEF Enqueue, disk
  <2>2. Range(queue') = Range(queue) \cup {todo[w]}
    BY <2>1, JobsAreViews, QueueOK DEF Shape
  <2> QED
    BY <2>1, <2>2, WorkerFields DEF AtStake, Busy, Shape
<1>6. CASE Look
  <2>1. Worker /\ UNCHANGED <<jobs, done, todo, pc>>
    BY <1>6 DEF Look, Worker, disk
  <2>2. CASE queue = <<>>
    BY <1>6, <2>1, <2>2, WorkerStep DEF Look, AtStake, Busy
  <2>3. CASE queue # <<>>
    <3>1. /\ worker'.view = Head(queue) /\ queue' = Tail(queue)
      BY <1>6, <2>1, <2>3, WorkerStep DEF Look
    <3>2. Range(Tail(queue)) \subseteq Range(queue) /\ Head(queue) \in Range(queue)
      BY <2>3, QueueTail DEF Shape
    <3> QED
      BY <2>1, <3>1, <3>2 DEF AtStake, Busy
  <2> QED
    BY <2>2, <2>3
<1>7. CASE Wait \/ Expand \/ WriteSide \/ AuditResult \/ MarkDone
  <2>1. Worker /\ UNCHANGED <<jobs, todo, pc, queue>> /\ done \subseteq done'
    BY <1>7 DEF Wait, Expand, WriteSide, AuditResult, MarkDone, Worker, disk
  <2>2. Busy' => Busy /\ worker'.view = worker.view
    BY <1>7, <2>1, WorkerStep DEF Busy, Wait, Expand, WriteSide, AuditResult, MarkDone
  <2> QED
    BY <2>1, <2>2 DEF AtStake
<1>8. CASE Down
  <2>1. /\ UNCHANGED <<jobs, done>> /\ queue' = <<>> /\ worker' = NoWorker /\ pc' = [w \in Sessions |-> "none"]
    BY <1>8 DEF Down
  <2>2. Range(queue') = {}
    BY <2>1 DEF Range
  <2> QED
    BY <2>1, <2>2, WorkerFields DEF AtStake, Busy
<1>9. CASE Restart
  <2>1. /\ UNCHANGED <<jobs, done, pc, todo>> /\ queue' \in InOrder(jobs \ done)
        /\ (worker' = NoWorker \/ worker' = Fresh)
    BY <1>9 DEF Restart, disk
  <2>2. Range(queue') = jobs \ done
    BY <2>1, JobsAreViews, InOrderOK
  <2> QED
    BY <2>1, <2>2, WorkerFields DEF AtStake, Busy
<1> QED
  BY <1>1, <1>2, <1>3, <1>4, <1>5, <1>6, <1>7, <1>8, <1>9, Kinds DEF Caller, Worker

-----------------------------------------------------------------------------
(* An answer stays right, and a view stands as long as nothing of it is lost. *)
LEMMA RightStays ==
  ASSUME Ages, [Next]_vars, NEW v, NEW frames, Right(frames, v)
  PROVE  Right(frames, v)'
<1>1. \A g \in Gens : Settled(g) => Settled(g)' /\ log'[g] = log[g]
  BY FrozenStays
<1>2. early \subseteq early'
  BY HistoryStays
<1> QED
  BY <1>1, <1>2 DEF Right

LEMMA StandsStays ==
  ASSUME Ages, [Next]_vars, ~Shortened, NEW v, Formed(v), Stands(v)
  PROVE  Stands(v)' /\ \A j \in 1..v.n : segs'[v.w][j] = segs[v.w][j]
<1>1. PICK w \in Sessions : w = v.w
  BY DEF Formed
<1>2. /\ v.n \in 1..Len(segs[w]) /\ v.n \in 1..Len(segs'[w]) /\ Len(segs[w]) \in Nat /\ Len(segs'[w]) \in Nat
      /\ \A j \in 1..v.n : segs'[w][j] = segs[w][j]
  BY <1>1, SegsGrow DEF Stands, Formed
<1>3. \A g \in v.earlier : Frozen(g)'
  BY FrozenStays DEF Stands, Formed
<1> QED
  BY <1>1, <1>2, <1>3 DEF Stands

LEMMA ViewsSame == ASSUME [Next]_vars PROVE views' = views \/ \E w \in Sessions : Closes(w)
BY Kinds DEF Aside, Opens, Caller, Persist, Enqueue, Signal, Worker, Look, Wait, Expand, WriteSide, AuditResult,
   MarkDone, Down, Restart, disk

(* The view of a segment that is closed. *)
LEMMA NewView ==
  ASSUME Shape, Ages, NEW w \in Sessions, Closes(w), NEW v, v = views'[Len(views) + 1]
  PROVE  /\ Len(views') = Len(views) + 1 /\ Formed(v) /\ Stands(v)'
         /\ v.live = seg[w] /\ v.earlier = pendingWireLogIDs(w, seg[w])
<1>1. PICK S : views \in Seq(S)
  BY DEF Shape
<1>2. PICK r : r = [w |-> w, live |-> seg[w], liveN |-> log[seg[w]][w], n |-> Len(segs[w]) + 1,
                    earlier |-> pendingWireLogIDs(w, seg[w])]
  OBVIOUS
<1>3. views' = Append(views, r)
  BY <1>2 DEF Closes
<1>4. PICK T : T = S \cup {r}
  OBVIOUS
<1>5. Len(views') = Len(views) + 1 /\ v = r
  <2>1. views \in Seq(T) /\ r \in T
    BY <1>1, <1>4, SeqMonotonic
  <2> QED
    BY <1>3, <2>1, Appended
<1>6. /\ v.w = w /\ v.live = seg[w] /\ v.n = Len(segs[w]) + 1
      /\ v.earlier = pendingWireLogIDs(w, seg[w])
  BY <1>2, <1>5
<1>7. /\ seg[w] \in Gens /\ segs[w] \in Seq(Gens) /\ segs'[w] = Append(segs[w], seg[w]) /\ gen' = gen
      /\ \A i \in 1..Len(segs[w]) : segs[w][i] = seg[w] \/ Frozen(segs[w][i])
  BY DEF Closes, Ages
<1>8. /\ Len(segs'[w]) = Len(segs[w]) + 1 /\ Len(segs[w]) \in Nat
      /\ \A i \in 1..Len(segs[w]) : segs'[w][i] = segs[w][i] /\ segs[w][i] \in Gens
      /\ segs'[w][Len(segs[w]) + 1] = seg[w]
  BY <1>7, Appended
<1>9. pendingWireLogIDs(w, seg[w]) = {segs[w][i] : i \in 1..Len(segs[w])} \ {seg[w]}
  <2>1. DOMAIN segs[w] = 1..Len(segs[w])
    BY <1>7, LenProperties
  <2> QED
    BY <2>1 DEF pendingWireLogIDs, Range
<1>10. Formed(v)
  BY <1>6, <1>7, <1>8, <1>9 DEF Formed
<1>11. Stands(v)'
  <2>1. v.n <= Len(segs'[v.w])
    BY <1>6, <1>8
  <2>2. \A g \in v.earlier : Frozen(g)'
    BY <1>6, <1>7, <1>8, <1>9 DEF Frozen
  <2>3. \A i \in 1..v.n : segs'[v.w][i] \in v.earlier \cup {v.live}
    BY <1>6, <1>8, <1>9
  <2>4. \A g \in v.earlier : \E i \in 1..v.n : segs'[v.w][i] = g
    BY <1>6, <1>8, <1>9
  <2> QED
    BY <2>1, <2>2, <2>3, <2>4 DEF Stands
<1> QED
  BY <1>5, <1>6, <1>10, <1>11

(* The end of the segment journal is gone: what is left stands as before. *)
LEMMA StandsShortened ==
  ASSUME Ages, Idle, Shortened, NEW u \in 1..Len(views), NEW v, v = views[u], Formed(v), AtStake(u),
         u \notin lost', Stands(v)
  PROVE  Stands(v)'
<1>1. u \in jobs \ done
  <2>1. /\ queue = <<>> /\ worker.pc = "off" /\ \A w \in Sessions : pc[w] = "none"
    BY DEF Shortened, Idle
  <2>2. Range(queue) = {}
    BY <2>1 DEF Range
  <2> QED
    BY <2>1, <2>2 DEF AtStake, Busy
<1>2. PICK w \in Sessions : /\ segs[w] # <<>> /\ segs' = [segs EXCEPT ![w] = Front(@)]
                            /\ lost' = lost \cup {x \in jobs \ done : views[x].w = w /\ views[x].n >= Len(segs[w])}
  BY DEF Shortened
<1>3. gen' = gen
  BY DEF Shortened
<1>4. CASE v.w # w
  BY <1>2, <1>3, <1>4 DEF Stands, Ages, Formed, Frozen
<1>5. CASE v.w = w
  <2>1. ~(v.n >= Len(segs[w]))
    BY <1>1, <1>2, <1>5
  <2>2. segs[w] \in Seq(Gens) /\ segs'[w] = Front(segs[w])
    BY <1>2 DEF Ages
  <2>3. /\ Len(segs[w]) \in Nat \ {0} /\ Len(segs'[w]) = Len(segs[w]) - 1
        /\ \A i \in 1..Len(segs[w]) - 1 : segs'[w][i] = segs[w][i]
    BY <1>2, <2>2, FrontOK
  <2>4. v.n \in Nat \ {0} /\ v.n <= Len(segs'[w]) /\ \A i \in 1..v.n : segs'[w][i] = segs[w][i]
    BY <2>1, <2>3 DEF Formed
  <2> QED
    BY <1>3, <1>5, <2>4 DEF Stands, Frozen
<1> QED
  BY <1>4, <1>5

LEMMA ViewsOKStep == ASSUME Shape, Numbered, Ages, Idle, ViewsOK, [Next]_vars PROVE ViewsOK'
<1> SUFFICES ASSUME NEW u \in 1..Len(views'), NEW v, v = views'[u]
             PROVE  Formed(v) /\ (AtStake(u)' /\ u \notin lost' => Stands(v)')
  BY DEF ViewsOK, Formed
<1>1. Len(views) \in Nat /\ \A x \in 1..Len(views) : views'[x] = views[x]
  BY ViewsGrow
<1>2. CASE u \in 1..Len(views)
  <2>1. v = views[u] /\ Formed(v)
    BY <1>1, <1>2 DEF ViewsOK
  <2>2. ASSUME AtStake(u)', u \notin lost' PROVE Stands(v)'
    <3>1. AtStake(u) /\ u \notin lost
      BY <1>2, <2>2, AtStakeStays, HistoryStays
    <3>2. Stands(v)
      BY <1>2, <2>1, <3>1 DEF ViewsOK
    <3>3. CASE Shortened
      BY <1>2, <2>1, <2>2, <3>1, <3>2, <3>3, StandsShortened
    <3>4. CASE ~Shortened
      BY <2>1, <3>2, <3>4, StandsStays
    <3> QED
      BY <3>3, <3>4
  <2> QED
    BY <2>1, <2>2
<1>3. CASE u \notin 1..Len(views)
  <2>1. PICK w \in Sessions : Closes(w)
    BY <1>3, ViewsSame
  <2>2. u = Len(views) + 1
    BY <1>1, <1>3, <2>1, NewView
  <2> QED
    BY <2>1, <2>2, NewView
<1> QED
  BY <1>2, <1>3

(* Nobody but the finalizer and the worker writes an answer down. *)
LEMMA ReadingStays ==
  ASSUME Ages, [Next]_vars, NEW g \in Gens, NEW a, Reading(g, a)
  PROVE  Reading(g, a)'
BY FrozenStays, HistoryStays DEF Reading

LEMMA ReadingsStep == ASSUME Shape, Ages, Readings, Working, [Next]_vars PROVE Readings'
<1>1. \A g \in Gens : \A a : Reading(g, a) => Reading(g, a)'
  BY ReadingStays
<1>2. DOMAIN gen = Gens
  BY DEF Ages
<1>3. ASSUME UNCHANGED <<side, cache>> PROVE Readings'
  BY <1>1, <1>3 DEF Readings
<1>4. CASE Finalize
  <2>1. PICK h \in Gens : /\ gen' = [gen EXCEPT ![h] = "closed"] /\ side' = [side EXCEPT ![h] = Attribution(log[h])]
                          /\ UNCHANGED <<log, cache>>
    BY <1>4 DEF Finalize, memory
  <2>2. Reading(h, Attribution(log[h]))'
    BY <1>2, <2>1 DEF Reading, Settled, Attribution
  <2> QED
    BY <1>1, <2>1, <2>2 DEF Readings
<1>5. CASE Expand
  <2>1. side' = side
    BY <1>5 DEF Expand, disk
  <2>2. cache' = cache \/ \E a : /\ cache' = [cache EXCEPT ![Segment] = a]
                                 /\ a = IF side[Segment] # None THEN side[Segment] ELSE Error
    BY <1>5 DEF Expand
  <2>3. CASE cache' = cache
    BY <1>3, <2>1, <2>3
  <2>4. ASSUME NEW a, cache' = [cache EXCEPT ![Segment] = a], a = IF side[Segment] # None THEN side[Segment] ELSE Error
        PROVE  Readings'
    <3>1. Segment \in Gens => a = Error \/ Reading(Segment, a)
      BY <2>4 DEF Readings
    <3> QED
      BY <1>1, <2>1, <2>4, <3>1 DEF Readings
  <2> QED
    BY <2>2, <2>3, <2>4
<1>6. CASE WriteSide
  <2>1. /\ worker.pc = "write"
        /\ side' = [side EXCEPT ![Segment] = worker.read] /\ cache' = [cache EXCEPT ![Segment] = worker.read]
    BY <1>6 DEF WriteSide
  <2>2. PICK a : a = worker.read
    OBVIOUS
  <2>3. PICK g : g = Segment
    OBVIOUS
  <2>4. Reading(g, a)
    BY <2>1, <2>2, <2>3 DEF Working
  <2>5. /\ side' = [side EXCEPT ![g] = a] /\ cache' = [cache EXCEPT ![g] = a]
    BY <2>1, <2>2, <2>3
  <2> QED
    BY <1>1, <2>4, <2>5 DEF Readings
<1>7. CASE Down
  <2>1. side' = side /\ cache' = [g \in Gens |-> None]
    BY <1>7 DEF Down
  <2> QED
    BY <1>1, <2>1 DEF Readings
<1>8. \/ UNCHANGED <<side, cache>>
      \/ Finalize \/ Expand \/ WriteSide \/ Down
  <2>1. ASSUME NEW w \in Sessions, Opens(w) \/ Caller(w) PROVE UNCHANGED <<side, cache>>
    BY <2>1 DEF Opens, Caller, Closes, Persist, Enqueue, Signal, disk
  <2>2. Look \/ Wait \/ AuditResult \/ MarkDone => UNCHANGED <<side, cache>>
    BY DEF Look, Wait, AuditResult, MarkDone, disk
  <2>3. Born \/ Dies \/ FrameComes \/ ShutdownBegins \/ DrainBegins \/ StopsWorker \/ DrainEnds
        \/ Restart \/ Rots \/ Shortened \/ UNCHANGED vars => UNCHANGED <<side, cache>>
    BY DEF Born, Dies, FrameComes, ShutdownBegins, DrainBegins, StopsWorker, DrainEnds, Restart,
       Rots, Shortened, vars, disk, memory
  <2> QED
    BY <2>1, <2>2, <2>3 DEF Next, Worker
<1> QED
  BY <1>3, <1>4, <1>5, <1>6, <1>7, <1>8

-----------------------------------------------------------------------------
(* The segment the worker is at. *)
LEMMA AtSegment ==
  ASSUME Shape, Ages, ViewsOK, Working, worker.pc \in {"expand", "write"}, NEW u, NEW v, u = worker.view, v = views[u]
  PROVE  /\ u \in 1..Len(views) /\ Formed(v) /\ Past(u, v) /\ v.n \in Nat
         /\ u \notin lost => Stands(v)
         /\ Next1 => /\ worker.i \in 1..v.n /\ worker.i \in 1..Len(segs[v.w]) /\ Segment = segs[v.w][worker.i]
                     /\ Segment \in Gens /\ gen[Segment] # "unborn"
                     /\ u \notin lost => Segment \in v.earlier \cup {v.live}
<1>1. u \in 1..Len(views) /\ Past(u, v)
  BY DEF Working, Busy
<1>2. Formed(v) /\ (u \notin lost => Stands(v))
  BY <1>1 DEF ViewsOK, AtStake, Busy
<1>3. v.n \in Nat /\ v.w \in Sessions /\ worker.i \in Nat \ {0}
  BY <1>1, <1>2 DEF Formed, Past
<1>4. ASSUME Next1
      PROVE  /\ worker.i \in 1..v.n /\ worker.i \in 1..Len(segs[v.w]) /\ Segment = segs[v.w][worker.i]
             /\ Segment \in Gens /\ gen[Segment] # "unborn"
             /\ u \notin lost => Segment \in v.earlier \cup {v.live}
  <2>1. worker.i <= v.n /\ v.n <= Len(segs[v.w]) /\ Segment = segs[v.w][worker.i]
    BY <1>1, <1>4 DEF Next1, Segment, Past
  <2>2. segs[v.w] \in Seq(Gens) /\ Len(segs[v.w]) \in Nat
    BY <1>3, LenProperties DEF Ages
  <2>3. worker.i \in 1..v.n /\ worker.i \in 1..Len(segs[v.w])
    BY <1>3, <2>1, <2>2
  <2>4. segs[v.w][worker.i] \in Gens /\ gen[segs[v.w][worker.i]] # "unborn"
    BY <1>3, <2>2, <2>3, ElementOfSeq DEF Ages
  <2> QED
    BY <1>2, <2>1, <2>3, <2>4 DEF Stands
<1> QED
  BY <1>1, <1>2, <1>3, <1>4

(* The worker keeps what it has, whatever the others do meanwhile. *)
LEMMA WorkingStays ==
  ASSUME Shape, Ages, Idle, ViewsOK, Working, [Next]_vars, worker' = worker, Range(queue') \subseteq 1..Len(views')
  PROVE  Working'
<1>1. Len(views) \in Nat /\ Len(views') \in Nat /\ Len(views) <= Len(views')
      /\ \A x \in 1..Len(views) : views'[x] = views[x]
  BY ViewsGrow
<1>2. Busy => worker.view \in 1..Len(views')
  BY <1>1 DEF Working
<1>3. CASE worker.pc \notin {"expand", "write"}
  BY <1>2, <1>3 DEF Working, Busy
<1>4. CASE worker.pc \in {"expand", "write"}
  <2>1. PICK u, v : u = worker.view /\ v = views[u]
    OBVIOUS
  <2>2. /\ u \in 1..Len(views) /\ Formed(v) /\ Past(u, v) /\ v.n \in Nat
        /\ u \notin lost => Stands(v)
        /\ Next1 => /\ worker.i \in 1..v.n /\ worker.i \in 1..Len(segs[v.w]) /\ Segment = segs[v.w][worker.i]
                    /\ Segment \in Gens
    BY <1>4, <2>1, AtSegment
  <2>3. views'[u] = v
    BY <1>1, <2>1, <2>2
  <2>4. ~Shortened
    BY <1>4 DEF Shortened, Idle
  <2>5. lost' = lost /\ v.w \in Sessions
    BY <2>2, <2>4, HistoryStays DEF Formed
  <2>6. /\ Len(segs[v.w]) \in Nat /\ Len(segs'[v.w]) \in Nat /\ Len(segs[v.w]) <= Len(segs'[v.w])
        /\ \A i \in 1..Len(segs[v.w]) : segs'[v.w][i] = segs[v.w][i]
    BY <2>4, <2>5, SegsGrow
  <2>7. \A frames : Right(frames, v) => Right(frames, v)'
    BY RightStays
  <2>8. u \notin lost => \A j \in 1..v.n : segs'[v.w][j] = segs[v.w][j]
    BY <2>2, <2>4, StandsStays
  <2>9. Past(u, v)'
    <3>1. Right(worker.frames, v)'
      <4>1. PICK frames : frames = worker.frames
        OBVIOUS
      <4>2. Right(frames, v)'
        BY <2>2, <2>7, <4>1 DEF Past
      <4> QED
        BY <4>1, <4>2 DEF Right
    <3>2. worker.i \in Nat \ {0} /\ (worker.i <= v.n => v.n <= Len(segs'[v.w]))
      BY <2>2, <2>6 DEF Past
    <3>3. u \notin lost' => /\ DOMAIN worker.frames \subseteq v.earlier \cup {v.live}
                            /\ \A j \in 1..v.n : j < worker.i =>
                                  segs'[v.w][j] \in DOMAIN worker.frames \cup worker.failed
      BY <2>2, <2>5, <2>8 DEF Past
    <3> QED
      BY <3>1, <3>2, <3>3 DEF Past
  <2>10. ASSUME worker.pc = "write"
         PROVE  Next1' /\ Segment' \notin DOMAIN worker.frames /\ Reading(Segment, worker.read)'
    <3>1. PICK g, a : g = Segment /\ a = worker.read
      OBVIOUS
    <3>2. Next1 /\ g \notin DOMAIN worker.frames /\ Reading(g, a) /\ g \in Gens
      BY <2>2, <2>10, <3>1 DEF Working
    <3>3. Next1' /\ Segment' = g
      BY <2>1, <2>2, <2>3, <2>6, <3>1, <3>2 DEF Next1, Segment
    <3>4. Reading(g, a)'
      BY <3>2, ReadingStays
    <3>5. Reading(Segment, worker.read)'
      BY <3>1, <3>3, <3>4 DEF Reading, Settled
    <3> QED
      BY <3>2, <3>3, <3>5
  <2>11. Past(worker.view, views[worker.view])'
    BY <2>1, <2>3, <2>9 DEF Past, Right, Settled
  <2> QED
    BY <1>2, <2>10, <2>11 DEF Working, Busy
<1> QED
  BY <1>3, <1>4

(* One more generation of the view is answered. *)
LEMMA AnsweredPast ==
  ASSUME Shape, Ages, ViewsOK, Working, worker.pc \in {"expand", "write"}, Next1,
         NEW u, NEW v, u = worker.view, v = views[u],
         NEW g, g = Segment, NEW a, Reading(g, a) \/ a = Error, worker' = Answered(g, a),
         g \notin DOMAIN worker.frames, UNCHANGED <<segs, log, gen, views, early, lost>>
  PROVE  Parts \subseteq DOMAIN worker' /\ worker'.pc = "expand" /\ worker'.view = u /\ Past(u, v)'
<1>1. /\ Parts \subseteq DOMAIN worker
      /\ u \in 1..Len(views) /\ Formed(v) /\ Past(u, v) /\ v.n \in Nat
      /\ worker.i \in 1..v.n /\ g = segs[v.w][worker.i] /\ g \in Gens
      /\ u \notin lost => g \in v.earlier \cup {v.live}
  BY AtSegment DEF Working
<1>2. /\ Parts \subseteq DOMAIN worker' /\ worker'.pc = "expand" /\ worker'.view = u
      /\ worker'.i = worker.i + 1
  BY <1>1 DEF Answered, Parts
<1>3. /\ worker.i \in Nat \ {0} /\ Right(worker.frames, v)
      /\ worker.i + 1 <= v.n => v.n <= Len(segs[v.w])
      /\ \A j \in 1..v.n : j < worker.i + 1 => j < worker.i \/ segs[v.w][j] = g
  BY <1>1 DEF Past
<1>4. PICK frames, failed : frames = worker'.frames /\ failed = worker'.failed
  OBVIOUS
<1>5. /\ Right(frames, v) /\ frames = worker'.frames /\ failed = worker'.failed
      /\ DOMAIN worker.frames \subseteq DOMAIN frames /\ DOMAIN frames \subseteq DOMAIN worker.frames \cup {g}
      /\ worker.failed \subseteq failed /\ g \in DOMAIN frames \cup failed
  <2>1. CASE Reading(g, a)
    <3>1. /\ failed = worker.failed
          /\ frames = [h \in DOMAIN worker.frames \cup {g} |-> IF h = g THEN a.of[v.w] ELSE worker.frames[h]]
      BY <1>1, <1>4, <2>1 DEF Answered, Parts, Reading
    <3>2. g \in early \/ (Settled(g) /\ frames[g] = log[g][v.w])
      BY <2>1, <3>1 DEF Reading
    <3>3. Right(frames, v)
      BY <1>1, <1>3, <3>1, <3>2 DEF Right
    <3> QED
      BY <1>4, <3>1, <3>3
  <2>2. CASE a = Error
    <3>1. failed = worker.failed \cup {g} /\ frames = worker.frames
      BY <1>1, <1>4, <2>2 DEF Answered, Parts, Error
    <3> QED
      BY <1>3, <1>4, <3>1
  <2> QED
    BY <2>1, <2>2
<1>6. Right(worker.frames, v)'
  BY <1>5 DEF Right, Settled
<1>7. u \notin lost' => /\ DOMAIN worker'.frames \subseteq v.earlier \cup {v.live}
                        /\ \A j \in 1..v.n : j < worker'.i =>
                              segs'[v.w][j] \in DOMAIN worker'.frames \cup worker'.failed
  BY <1>1, <1>2, <1>3, <1>5 DEF Past
<1>8. worker'.i \in Nat \ {0} /\ (worker'.i <= v.n => v.n <= Len(segs'[v.w]))
  BY <1>2, <1>3
<1> QED
  BY <1>2, <1>6, <1>7, <1>8 DEF Past

(* The worker takes a view up: it has the frames of the last generation. *)
LEMMA TakesUp ==
  ASSUME ViewsOK, Working, Shape, Ages, Look, queue # <<>>
  PROVE  Working'
<1>1. /\ Head(queue) \in Views /\ Range(Tail(queue)) \subseteq Range(queue) /\ Head(queue) \in Range(queue)
  BY QueueTail DEF Shape
<1>2. PICK u, v : u = Head(queue) /\ v = views[u]
  OBVIOUS
<1>3. u \in 1..Len(views) /\ Formed(v) /\ (u \notin lost => Stands(v))
  BY <1>1, <1>2 DEF Working, ViewsOK, AtStake
<1>4. PICK i, failed : /\ i = IF Len(segs[v.w]) < v.n THEN v.n + 1 ELSE 1
                       /\ failed = IF Len(segs[v.w]) < v.n THEN v.earlier ELSE {}
  OBVIOUS
<1>5. /\ worker' = [Fresh EXCEPT !.pc = "expand", !.view = u, !.frames = [h \in {v.live} |-> v.liveN],
                                 !.i = i, !.failed = failed]
      /\ queue' = Tail(queue) /\ UNCHANGED <<views, segs, log, gen, early, lost>>
  BY <1>2, <1>4 DEF Look, disk, history
<1>6. /\ Parts \subseteq DOMAIN worker' /\ worker'.pc = "expand" /\ worker'.view = u
      /\ worker'.i = i
      /\ worker'.frames = [h \in {v.live} |-> v.liveN]
  BY <1>5 DEF Fresh, NoWorker, Parts
<1>7. Len(segs[v.w]) \in Nat /\ v.n \in Nat \ {0}
  BY <1>3, LenProperties DEF Ages, Formed
<1>8. Past(u, v)'
  <2>1. Right(worker.frames, v)'
    BY <1>6 DEF Right
  <2>2. worker'.i \in Nat \ {0} /\ (worker'.i <= v.n => v.n <= Len(segs'[v.w]))
    BY <1>4, <1>5, <1>6, <1>7
  <2>3. ASSUME u \notin lost'
        PROVE  /\ DOMAIN worker'.frames \subseteq v.earlier \cup {v.live}
               /\ \A j \in 1..v.n : j < worker'.i => segs'[v.w][j] \in DOMAIN worker'.frames \cup worker'.failed
    <3>1. ~(Len(segs[v.w]) < v.n)
      BY <1>3, <1>5, <1>7, <2>3 DEF Stands
    <3>2. worker'.i = 1 /\ DOMAIN worker'.frames = {v.live}
      BY <1>4, <1>6, <3>1
    <3> QED
      BY <1>7, <3>2
  <2> QED
    BY <2>1, <2>2, <2>3 DEF Past
<1>9. Past(worker.view, views[worker.view])'
  BY <1>2, <1>5, <1>6, <1>8 DEF Past, Right, Settled
<1> QED
  BY <1>1, <1>3, <1>5, <1>6, <1>9 DEF Working, Busy

(* The worker goes on to the next segment. *)
LEMMA ExpandStep ==
  ASSUME Shape, Ages, ViewsOK, Readings, Working, Expand
  PROVE  Working'
<1>1. /\ worker.pc = "expand" /\ Next1 /\ UNCHANGED <<queue, views, segs, log, gen, lost>>
  BY DEF Expand, disk
<1>2. PICK u, v, g : u = worker.view /\ v = views[u] /\ g = Segment
  OBVIOUS
<1>3. /\ u \in 1..Len(views) /\ Formed(v) /\ Past(u, v) /\ worker.i \in 1..v.n /\ g \in Gens /\ v.n \in Nat
      /\ gen[g] # "unborn" /\ g = segs[v.w][worker.i]
      /\ u \notin lost => Stands(v) /\ g \in v.earlier \cup {v.live}
  BY <1>1, <1>2, AtSegment
<1>4. Parts \subseteq DOMAIN worker /\ Range(queue) \subseteq 1..Len(views)
  BY DEF Working
<1>5. ASSUME Past(u, v)', Parts \subseteq DOMAIN worker', worker'.pc = "expand", worker'.view = u
      PROVE  Working'
  <2>1. Past(worker.view, views[worker.view])'
    BY <1>1, <1>2, <1>5 DEF Past, Right, Settled
  <2> QED
    BY <1>1, <1>3, <1>4, <1>5, <2>1 DEF Working, Busy
<1>6. ASSUME NEW a, Reading(g, a) \/ a = Error, worker' = Answered(g, a), early' = early,
             g \notin DOMAIN worker.frames
      PROVE  Working'
  BY <1>1, <1>2, <1>5, <1>6, AnsweredPast
<1>7. CASE g \in DOMAIN worker.frames \cup worker.failed
  <2>1. worker' = [worker EXCEPT !.i = @ + 1] /\ early' = early
    BY <1>2, <1>7 DEF Expand
  <2>2. /\ Parts \subseteq DOMAIN worker' /\ worker'.pc = "expand" /\ worker'.view = u
        /\ worker'.i = worker.i + 1 /\ worker'.frames = worker.frames /\ worker'.failed = worker.failed
    BY <1>1, <1>2, <1>4, <2>1 DEF Parts
  <2>3. Past(u, v)'
    <3>1. Right(worker.frames, v)'
      BY <1>1, <1>3, <2>1, <2>2 DEF Past, Right, Settled
    <3>2. worker'.i \in Nat \ {0} /\ (worker'.i <= v.n => v.n <= Len(segs'[v.w]))
      BY <1>1, <1>3, <2>2 DEF Past
    <3>3. u \notin lost' => /\ DOMAIN worker'.frames \subseteq v.earlier \cup {v.live}
                            /\ \A j \in 1..v.n : j < worker'.i =>
                                  segs'[v.w][j] \in DOMAIN worker'.frames \cup worker'.failed
      BY <1>1, <1>3, <1>7, <2>2 DEF Past
    <3> QED
      BY <3>1, <3>2, <3>3 DEF Past
  <2> QED
    BY <1>5, <2>2, <2>3
<1>8. CASE g \notin DOMAIN worker.frames \cup worker.failed /\ cache[g] # None
  <2>1. worker' = Answered(g, cache[g]) /\ early' = early
    BY <1>2, <1>8 DEF Expand
  <2>2. Reading(g, cache[g]) \/ cache[g] = Error
    BY <1>3, <1>8 DEF Readings
  <2> QED
    BY <1>6, <1>8, <2>1, <2>2
<1>9. CASE g \notin DOMAIN worker.frames \cup worker.failed /\ cache[g] = None /\ side[g] = None /\ g \notin rotten
  <2>1. worker' = [worker EXCEPT !.pc = "write", !.read = Attribution(log[g])] /\ early' = WithReading(g)
    BY <1>2, <1>9 DEF Expand
  <2>2. /\ Parts \subseteq DOMAIN worker' /\ worker'.pc = "write" /\ worker'.view = u /\ worker'.i = worker.i
        /\ worker'.frames = worker.frames /\ worker'.failed = worker.failed /\ worker'.read = Attribution(log[g])
    BY <1>1, <1>2, <1>4, <2>1 DEF Parts
  <2>3. early \subseteq early'
    BY <2>1 DEF WithReading
  <2>4. Past(u, v)'
    <3>1. Right(worker.frames, v)'
      BY <1>1, <1>3, <2>2, <2>3 DEF Past, Right, Settled
    <3> QED
      BY <1>1, <1>3, <2>2, <3>1 DEF Past
  <2>5. g \in early' \/ Settled(g)
    <3>1. CASE gen[g] = "closed"
      BY <3>1 DEF Settled
    <3>2. CASE gen[g] = "closing"
      BY <2>1, <3>2 DEF WithReading, ReadsEarly
    <3>3. CASE gen[g] = "live"
      <4>1. CASE u \in lost
        BY <1>2, <2>1, <3>3, <4>1 DEF WithReading, ReadsEarly
      <4>2. CASE u \notin lost
        <5>1. g \in v.earlier
          BY <1>3, <1>9, <4>2 DEF Past, Right
        <5>2. Frozen(g)
          BY <1>3, <4>2, <5>1 DEF Stands
        <5> QED
          BY <3>3, <5>2 DEF Frozen
      <4> QED
        BY <4>1, <4>2
    <3> QED
      BY <1>3, <3>1, <3>2, <3>3 DEF Ages
  <2>6. Next1' /\ Segment' = g
    BY <1>1, <1>2, <2>2 DEF Next1, Segment
  <2>7. Reading(Segment, worker.read)'
    BY <1>1, <2>2, <2>5, <2>6 DEF Reading, Settled, Attribution
  <2>8. Past(worker.view, views[worker.view])'
    BY <1>1, <1>2, <2>2, <2>4 DEF Past, Right, Settled
  <2> QED
    BY <1>1, <1>3, <1>4, <1>9, <2>2, <2>6, <2>7, <2>8 DEF Working, Busy
<1>10. CASE g \notin DOMAIN worker.frames \cup worker.failed /\ cache[g] = None /\ ~(side[g] = None /\ g \notin rotten)
  <2>1. PICK a : a = IF side[g] # None THEN side[g] ELSE Error
    OBVIOUS
  <2>2. worker' = Answered(g, a) /\ early' = early
    BY <1>2, <1>10, <2>1 DEF Expand
  <2>3. Reading(g, a) \/ a = Error
    BY <1>3, <2>1 DEF Readings
  <2> QED
    BY <1>6, <1>10, <2>2, <2>3
<1> QED
  BY <1>7, <1>8, <1>9, <1>10

LEMMA WorkingStep ==
  ASSUME Shape, Numbered, Ages, Idle, ViewsOK, Readings, Working, [Next]_vars
  PROVE  Working'
<1>1. Len(views) \in Nat /\ Len(views') \in Nat /\ Len(views) <= Len(views')
  BY ViewsGrow
<1>2. CASE UNCHANGED <<worker, queue>>
  BY <1>1, <1>2, WorkingStays DEF Working
<1>3. ASSUME NEW w \in Sessions, Enqueue(w) PROVE Working'
  <2>1. /\ pc[w] = "queue" /\ queue' = Append(queue, todo[w]) /\ views' = views
        /\ worker' = worker \/ worker' = Fresh
    BY <1>3 DEF Enqueue, disk
  <2>2. todo[w] \in 1..Len(views) /\ Range(queue') = Range(queue) \cup {todo[w]}
    BY <2>1, JobsAreViews, QueueOK DEF Shape, Numbered
  <2>3. Range(queue') \subseteq 1..Len(views')
    BY <2>1, <2>2 DEF Working
  <2>4. CASE worker' = worker
    BY <2>3, <2>4, WorkingStays
  <2>5. CASE worker' = Fresh
    BY <2>3, <2>5 DEF Working, Busy, Fresh, NoWorker, Parts
  <2> QED
    BY <2>1, <2>4, <2>5
<1>4. CASE Look
  <2>1. CASE queue = <<>>
    <3>1. /\ worker' = [worker EXCEPT !.pc = "wait"] /\ queue' = queue /\ views' = views
      BY <1>4, <2>1 DEF Look, disk
    <3> QED
      BY <3>1 DEF Working, Busy, Parts
  <2> QED
    BY <1>4, <2>1, TakesUp
<1>5. CASE Wait
  <2>1. queue' = queue /\ views' = views /\ (worker' = NoWorker \/ worker' = [worker EXCEPT !.pc = "look"])
    BY <1>5 DEF Wait, disk
  <2> QED
    BY <2>1 DEF Working, Busy, Parts, NoWorker
<1>6. CASE WriteSide
  <2>1. /\ worker.pc = "write" /\ worker' = Answered(Segment, worker.read)
        /\ UNCHANGED <<queue, views, segs, log, gen, early, lost>>
    BY <1>6 DEF WriteSide, history
  <2>2. PICK u, v, g, a : u = worker.view /\ v = views[u] /\ g = Segment /\ a = worker.read
    OBVIOUS
  <2>3. Next1 /\ Reading(g, a) /\ g \notin DOMAIN worker.frames /\ Range(queue) \subseteq 1..Len(views)
    BY <2>1, <2>2 DEF Working
  <2>4. Parts \subseteq DOMAIN worker' /\ worker'.pc = "expand" /\ worker'.view = u /\ Past(u, v)'
    BY <2>1, <2>2, <2>3, AnsweredPast
  <2>5. Past(worker.view, views[worker.view])'
    BY <2>1, <2>2, <2>4 DEF Past, Right, Settled
  <2>6. u \in 1..Len(views)
    BY <2>1, <2>2, AtSegment
  <2> QED
    BY <2>1, <2>3, <2>4, <2>5, <2>6 DEF Working, Busy
<1>7. CASE AuditResult
  <2>1. /\ worker.pc = "expand" /\ worker' = [Fresh EXCEPT !.pc = "mark", !.view = worker.view]
        /\ UNCHANGED <<queue, views>>
    BY <1>7 DEF AuditResult
  <2> QED
    BY <2>1 DEF Working, Busy, Parts, Fresh, NoWorker
<1>8. CASE MarkDone
  <2>1. UNCHANGED <<queue, views>> /\ (worker' = NoWorker \/ worker' = Fresh)
    BY <1>8 DEF MarkDone
  <2> QED
    BY <2>1 DEF Working, Busy, Parts, NoWorker, Fresh
<1>9. CASE Down
  <2>1. queue' = <<>> /\ views' = views /\ worker' = NoWorker
    BY <1>9 DEF Down
  <2>2. Range(queue') = {}
    BY <2>1 DEF Range
  <2> QED
    BY <2>1, <2>2 DEF Working, Busy, Parts, NoWorker
<1>10. CASE Restart
  <2>1. queue' \in InOrder(jobs \ done) /\ views' = views /\ (worker' = NoWorker \/ worker' = Fresh)
    BY <1>10 DEF Restart, disk
  <2>2. Range(queue') = jobs \ done /\ jobs \subseteq 1..Len(views)
    BY <2>1, JobsAreViews, InOrderOK DEF Numbered
  <2> QED
    BY <2>1, <2>2 DEF Working, Busy, Parts, NoWorker, Fresh
<1>11. \/ UNCHANGED <<worker, queue>> \/ \E w \in Sessions : Enqueue(w)
       \/ Look \/ Wait \/ Expand \/ WriteSide \/ AuditResult \/ MarkDone \/ Down \/ Restart
  BY Kinds DEF Aside, Opens, Caller, Closes, Persist, Signal, Worker
<1> QED
  BY <1>2, <1>3, <1>4, <1>5, <1>6, <1>7, <1>8, <1>9, <1>10, <1>11, ExpandStep

-----------------------------------------------------------------------------
(* An answer in the audit stays right; the worker's, when it is done, is. *)
LEMMA AnswerStays ==
  ASSUME Ages, [Next]_vars, NEW u, NEW v, NEW frames, Answer(u, frames, v)
  PROVE  Answer(u, frames, v)'
BY RightStays, HistoryStays DEF Answer

LEMMA WorkersAnswer ==
  ASSUME Shape, Ages, ViewsOK, Working, worker.pc = "expand", ~Next1, worker.failed = {},
         NEW u, NEW v, u = worker.view, v = views[u]
  PROVE  Answer(u, worker.frames, v)
<1>1. /\ u \in 1..Len(views) /\ Formed(v) /\ Past(u, v) /\ v.n \in Nat
      /\ u \notin lost => Stands(v)
  BY AtSegment
<1>2. ~(worker.i <= v.n) /\ worker.i \in Nat /\ Right(worker.frames, v)
  BY <1>1 DEF Next1, Past
<1>3. ASSUME u \notin lost PROVE DOMAIN worker.frames = v.earlier \cup {v.live}
  <2>1. /\ DOMAIN worker.frames \subseteq v.earlier \cup {v.live}
        /\ \A j \in 1..v.n : segs[v.w][j] \in DOMAIN worker.frames
    BY <1>1, <1>2, <1>3 DEF Past
  <2>2. v.earlier \subseteq DOMAIN worker.frames
    BY <1>1, <1>3, <2>1 DEF Stands
  <2>3. v.live \in DOMAIN worker.frames
    BY <1>2 DEF Right
  <2> QED
    BY <2>1, <2>2, <2>3
<1> QED
  BY <1>2, <1>3 DEF Answer

LEMMA AnswersStep ==
  ASSUME Shape, Ages, ViewsOK, Working, Answers, [Next]_vars
  PROVE  Answers'
<1>1. /\ Len(views) \in Nat /\ Len(views') \in Nat /\ Len(views) <= Len(views')
      /\ \A x \in 1..Len(views) : views'[x] = views[x]
  BY ViewsGrow
<1>2. ASSUME NEW u \in 1..Len(views), result'[u] = result[u], result[u].status = "resolved"
      PROVE  Answer(u, result[u].frames, views[u])'
  <2>1. PICK v, frames : v = views[u] /\ frames = result[u].frames
    OBVIOUS
  <2>2. views'[u] = v /\ Answer(u, frames, v) /\ result'[u].frames = frames
    BY <1>1, <1>2, <2>1 DEF Answers
  <2>3. Answer(u, frames, v)'
    BY <2>2, AnswerStays
  <2> QED
    BY <2>2, <2>3 DEF Answer, Right, Settled
<1>3. DOMAIN result = Views
  BY DEF Shape
<1>4. CASE UNCHANGED <<views, result>>
  BY <1>2, <1>4 DEF Answers
<1>5. ASSUME NEW w \in Sessions, Closes(w) PROVE Answers'
  <2>1. PICK n, v : n = Len(views) + 1 /\ v = views'[n]
    OBVIOUS
  <2>2. Len(views') = n /\ v.live = seg[w] /\ v.earlier = pendingWireLogIDs(w, seg[w]) /\ n \in Views
    BY <1>1, <1>5, <2>1, NewView, BoundsAssumption DEF Closes, Views
  <2>3. CASE v.earlier = {}
    <3>1. PICK k : result' = [result EXCEPT ![n] = [status |-> "resolved", frames |-> [h \in {seg[w]} |-> k]]]
      BY <1>5, <2>1, <2>2, <2>3 DEF Closes
    <3>2. result'[n].frames = [h \in {seg[w]} |-> k] /\ \A u \in Views \ {n} : result'[u] = result[u]
      BY <1>3, <2>2, <3>1
    <3>3. Answer(n, result[n].frames, views[n])'
      BY <2>1, <2>2, <2>3, <3>2 DEF Answer, Right
    <3>4. \A u \in Views : u > Len(views') => result'[u].status = "none"
      BY <1>1, <2>1, <2>2, <3>2, BoundsAssumption DEF Answers, Views
    <3>5. ASSUME NEW u \in 1..Len(views'), result'[u].status = "resolved"
          PROVE  Answer(u, result[u].frames, views[u])'
      <4>1. CASE u = n
        BY <3>3, <4>1
      <4>2. CASE u # n
        <5>1. u \in 1..Len(views) /\ u \in Views
          BY <1>1, <2>1, <2>2, <4>2, BoundsAssumption DEF Views
        <5> QED
          BY <1>2, <3>2, <3>5, <4>2, <5>1
      <4> QED
        BY <4>1, <4>2
    <3> QED
      BY <3>4, <3>5 DEF Answers
  <2>4. CASE v.earlier # {}
    <3>1. result' = result
      BY <1>5, <2>2, <2>4 DEF Closes
    <3>2. result[n].status = "none"
      BY <1>1, <2>1, <2>2 DEF Answers
    <3>3. \A u \in Views : u > Len(views') => result'[u].status = "none"
      BY <1>1, <2>1, <2>2, <3>1, BoundsAssumption DEF Answers, Views
    <3>4. ASSUME NEW u \in 1..Len(views'), result'[u].status = "resolved"
          PROVE  Answer(u, result[u].frames, views[u])'
      <4>1. u \in 1..Len(views)
        BY <1>1, <2>1, <2>2, <3>1, <3>2, <3>4
      <4> QED
        BY <1>2, <3>1, <3>4, <4>1
    <3> QED
      BY <3>3, <3>4 DEF Answers
  <2> QED
    BY <2>3, <2>4
<1>6. CASE AuditResult
  <2>1. PICK u, v : u = worker.view /\ v = views[u]
    OBVIOUS
  <2>2. /\ worker.pc = "expand" /\ ~Next1 /\ views' = views
        /\ result' = [result EXCEPT ![u] = [status |-> IF worker.failed = {} THEN "resolved" ELSE "failed",
                                            frames |-> worker.frames]]
    BY <1>6, <2>1 DEF AuditResult
  <2>3. u \in 1..Len(views) /\ u \in Views
    BY <2>1, <2>2, BoundsAssumption DEF Working, Busy, Shape, Views
  <2>4. /\ result'[u].status = (IF worker.failed = {} THEN "resolved" ELSE "failed")
        /\ result'[u].frames = worker.frames /\ \A x \in Views \ {u} : result'[x] = result[x]
    BY <1>3, <2>2, <2>3
  <2>5. ASSUME worker.failed = {}
        PROVE  Answer(u, result[u].frames, views[u])'
    <3>1. PICK frames : frames = worker.frames
      OBVIOUS
    <3>2. Answer(u, frames, v)
      BY <2>1, <2>2, <2>5, <3>1, WorkersAnswer
    <3>3. Answer(u, frames, v)'
      BY <3>2, AnswerStays
    <3> QED
      BY <2>1, <2>2, <2>4, <3>1, <3>3 DEF Answer, Right, Settled
  <2>6. \A x \in Views : x > Len(views') => result'[x].status = "none"
    BY <1>1, <2>2, <2>3, <2>4, BoundsAssumption DEF Answers, Views
  <2>7. ASSUME NEW x \in 1..Len(views'), result'[x].status = "resolved"
        PROVE  Answer(x, result[x].frames, views[x])'
    <3>1. CASE x = u
      BY <2>4, <2>5, <2>7, <3>1
    <3>2. CASE x # u
      <4>1. x \in Views /\ x \in 1..Len(views)
        BY <2>2, <2>7, BoundsAssumption DEF Shape, Views
      <4> QED
        BY <1>2, <2>4, <2>7, <3>2, <4>1
    <3> QED
      BY <3>1, <3>2
  <2> QED
    BY <2>6, <2>7 DEF Answers
<1>7. UNCHANGED <<views, result>> \/ AuditResult \/ \E w \in Sessions : Closes(w)
  BY Kinds DEF Aside, Opens, Caller, Persist, Enqueue, Signal, Worker, Look, Wait, Expand, WriteSide,
     MarkDone, Down, Restart, disk
<1> QED
  BY <1>4, <1>5, <1>6, <1>7

LEMMA WholeInit == Init => Whole
<1> SUFFICES ASSUME Init PROVE Whole
  OBVIOUS
<1>1. /\ \A w \in Sessions : segs[w] = <<>> /\ segs[w] \in Seq(Gens) /\ Len(segs[w]) = 0
      /\ Len(views) = 0 /\ Range(queue) = {}
  BY EmptySeq DEF Init, Range
<1>2. Ages
  BY <1>1, GensFrom1 DEF Init, Ages
<1>3. ViewsOK /\ Answers /\ Idle
  BY <1>1 DEF Init, ViewsOK, Answers, NoResult, Idle
<1>4. Readings /\ Working
  BY <1>1 DEF Init, Readings, Working, Busy, NoWorker, Parts
<1> QED
  BY <1>2, <1>3, <1>4 DEF Whole

LEMMA WholeStep == Inv /\ Whole /\ [Next]_vars => Whole'
BY AgesStep, IdleStep, ViewsOKStep, ReadingsStep, WorkingStep, AnswersStep DEF Inv, Whole

(* closeWireSegment, resolveWireFrameJob, wireGenAttribution: a view that is  *)
(* said to be resolved has an answer for exactly the generations of its       *)
(* session, unless one of its segments was lost, and every frame in the log   *)
(* of each earlier one but those the worker read before their last frame,     *)
(* across any number of generations, crashes, failed writes, lost segments    *)
(* and logs gone bad.                                                         *)
THEOREM ResolvedIsCompleteHolds == Spec => []ResolvedIsComplete
<1>1. Whole => ResolvedIsComplete
  BY DEF Whole, Answers, Answer, Right, ResolvedIsComplete
<1> QED
  BY <1>1, InvInit, InvStep, WholeInit, WholeStep, PTL DEF Spec
=============================================================================
