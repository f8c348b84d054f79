----------------------------- MODULE WireFrames -----------------------------
(***************************************************************************)
(* Which frames of the wire logs are a session's: wire_frames.go, the      *)
(* closing of a segment in app.go, and internal/wirelog's attribution,     *)
(* frame index and segment set.                                            *)
(*                                                                         *)
(* When a session's segment is closed its frames in the generation at hand *)
(* are counted at once; those in earlier generations are left to one       *)
(* background worker.  The view is audited as pending, the work is put     *)
(* into a journal and into a queue, and a later audit gives the result.    *)
(* Callers, the worker, the generations and a shutdown run concurrently,   *)
(* and the process may crash at any point.                                 *)
(*                                                                         *)
(* A log is, per session, the number of frames in it that are the          *)
(* session's; a view is the number of its audit row.                       *)
(***************************************************************************)
EXTENDS Naturals, Sequences, FiniteSets, SequencesExt

CONSTANTS Sessions,   \* the sessions (WSIDs)
          MaxGens,    \* bound: generations
          MaxFrames,  \* bound: frames in one generation that are some session's
          MaxViews,   \* bound: segments closed
          MaxCrashes, \* bound: ends of the process, by a crash or a shutdown
          MaxFaults   \* bound: journal writes that fail, segments lost, logs that rot

ASSUME BoundsAssumption ==
    /\ MaxGens \in Nat \ {0} /\ MaxFrames \in Nat /\ MaxViews \in Nat
    /\ MaxCrashes \in Nat /\ MaxFaults \in Nat

Gens == 1..MaxGens
Views == 1..MaxViews

VARIABLES
    \* durable
    gen,     \* per generation: unborn, live, closing, or closed
    log,     \* wire logs: per generation and session, the frames attributed
    rotten,  \* generations whose log is malformed in the middle
    side,    \* sidecars: per generation what the log held, or None
    segs,    \* SegmentSet: per session its generations, in order
    views,   \* the pending rows of the audit, by view
    result,  \* the audit's result row per view: none, resolved or failed, and the frames
    jobs,    \* wire-frame-jobs: views put down
    done,    \* wire-frame-jobs: views crossed off
    \* of the process
    cur,     \* the published generation, 0 if none
    seg,     \* per session: the generation its open segment is in, 0 if none
    pc,      \* per session: where closeWireSegment stands
    todo,    \* per session: the view its closing is about
    queue,   \* wireJobQueue
    sig,     \* wireJobSig holds a signal
    stop,    \* wireJobStop is closed
    worker,  \* the background worker
    cache,   \* wireIdxCache: per generation an attribution, "error" or None
    latched, \* a write to wire-frame-jobs has failed: no more are taken
    app,     \* the application's phase
    \* history
    lost,    \* jobs that have lost one of their view's segments
    early,   \* generations read before their last frame (see ReadsEarly)
    crashes, faults

disk == <<gen, log, rotten, side, segs, views, result, jobs, done>>
memory == <<cur, seg, pc, todo, queue, sig, stop, worker, cache, latched, app>>
history == <<lost, early>>
vars == <<disk, memory, history, crashes, faults>>

None == [kind |-> "none", of |-> <<>>]
Error == [kind |-> "error", of |-> <<>>]
Attribution(l) == [kind |-> "frames", of |-> l]

NoWorker == [pc |-> "off", view |-> 0, i |-> 0, frames |-> <<>>, failed |-> {}, read |-> None]
Fresh == [NoWorker EXCEPT !.pc = "look"]
NoResult == [status |-> "none", frames |-> <<>>]

Up == app \in {"up", "ending", "draining", "stopped", "retained"}
JournalOpen == app \in {"up", "ending", "draining", "stopped"} /\ ~latched

-----------------------------------------------------------------------------
(* Generations and sessions. *)

Born ==
    /\ app = "up" /\ cur = 0
    /\ \E g \in Gens : /\ gen[g] = "unborn" /\ \A h \in 1..g - 1 : gen[h] # "unborn"
                       /\ gen' = [gen EXCEPT ![g] = "live"] /\ cur' = g
    /\ UNCHANGED <<log, rotten, side, segs, views, result, jobs, done, seg, pc, todo, queue, sig, stop,
                   worker, cache, latched, app, history, crashes, faults>>

(* A session has, or had, a segment in the generation.  Bound: what becomes of *)
(* one that was never used is left out, except that a shutdown closes it.      *)
Used(g) == \E w \in Sessions : seg[w] = g \/ g \in Range(segs[w])

(* The server dies, is replaced or is shut down: its generation is no longer   *)
(* the published one, and whoever took it finalizes it.                        *)
Dies ==
    /\ cur # 0 /\ Up
    /\ app = "up" \/ \A w \in Sessions : seg[w] = 0
    /\ app = "up" => Used(cur)
    /\ gen' = [gen EXCEPT ![cur] = "closing"] /\ cur' = 0
    /\ UNCHANGED <<log, rotten, side, segs, views, result, jobs, done, seg, pc, todo, queue, sig, stop,
                   worker, cache, latched, app, history, crashes, faults>>

(* Generation.Finalize writes the sidecar from the index in memory. *)
Finalize ==
    /\ Up
    /\ \E g \in Gens : /\ gen[g] = "closing"
                       /\ gen' = [gen EXCEPT ![g] = "closed"]
                       /\ side' = [side EXCEPT ![g] = Attribution(log[g])]
    /\ UNCHANGED <<log, rotten, segs, views, result, jobs, done, memory, history, crashes, faults>>

Attributed(g) == MapThenSumSet(LAMBDA w : log[g][w], Sessions)

(* A frame is recorded and attributed to a session that has, or had, a segment *)
(* in the generation; some still come while the server is stopped and its       *)
(* pipe drained.                                                               *)
FrameComes ==
    /\ Up
    /\ \E g \in Gens, w \in Sessions :
         /\ gen[g] \in {"live", "closing"}
         /\ Attributed(g) < MaxFrames
         /\ seg[w] = g \/ \E i \in 1..Len(segs[w]) : segs[w][i] = g
         /\ log' = [log EXCEPT ![g][w] = @ + 1]
    /\ UNCHANGED <<gen, rotten, side, segs, views, result, jobs, done, memory, history, crashes, faults>>

Opens(w) ==
    /\ app = "up" /\ cur # 0 /\ pc[w] = "none"
    /\ Len(views) + Cardinality({v \in Sessions : pc[v] = "open"}) < MaxViews
    /\ seg' = [seg EXCEPT ![w] = cur]
    /\ pc' = [pc EXCEPT ![w] = "open"]
    /\ UNCHANGED <<disk, cur, todo, queue, sig, stop, worker, cache, latched, app, history, crashes, faults>>

(* The generations of the session's segments other than the one at hand. *)
pendingWireLogIDs(w, g) == Range(segs[w]) \ {g}

(* closeWireSegment up to its audit: the segment is appended, the generation   *)
(* at hand is counted, and the view is resolved at once if there is no other.  *)
Closes(w) ==
    /\ pc[w] = "open" /\ Up /\ Len(views) < MaxViews
    /\ LET g == seg[w]
           v == Len(views) + 1
           earlier == pendingWireLogIDs(w, g)
           view == [w |-> w, live |-> g, liveN |-> log[g][w], n |-> Len(segs[w]) + 1, earlier |-> earlier]
           alone == earlier = {}
       IN /\ segs' = [segs EXCEPT ![w] = Append(@, g)]
          /\ views' = Append(views, view)
          /\ result' = IF alone THEN [result EXCEPT ![v] = [status |-> "resolved", frames |-> [h \in {g} |-> view.liveN]]]
                       ELSE result
          /\ pc' = [pc EXCEPT ![w] = IF alone THEN "none" ELSE "persist"]
          /\ todo' = [todo EXCEPT ![w] = IF alone THEN 0 ELSE v]
          /\ seg' = [seg EXCEPT ![w] = 0]
    /\ UNCHANGED <<gen, log, rotten, side, jobs, done, cur, queue, sig, stop, worker, cache, latched, app, history, crashes, faults>>

(* enqueueWireFrameJob: first the journal, whose write may fail, with the line *)
(* in the file or not, and is then closed to further ones,                     *)
Persist(w) ==
    /\ pc[w] = "persist" /\ Up
    /\ \/ JournalOpen /\ jobs' = jobs \cup {todo[w]} /\ UNCHANGED <<latched, faults>>
       \/ ~JournalOpen /\ UNCHANGED <<jobs, latched, faults>>
       \/ JournalOpen /\ jobs' \in {jobs, jobs \cup {todo[w]}} /\ latched' = TRUE /\ faults < MaxFaults /\ faults' = faults + 1
    /\ pc' = [pc EXCEPT ![w] = "queue"]
    /\ UNCHANGED <<gen, log, rotten, side, segs, views, result, done, cur, seg, todo, queue, sig, stop,
                   worker, cache, app, history, crashes>>

(* then the queue, and the worker if there is none yet, *)
Enqueue(w) ==
    /\ pc[w] = "queue" /\ Up
    /\ queue' = Append(queue, todo[w])
    /\ worker' = IF worker.pc = "off" /\ ~stop THEN Fresh ELSE worker
    /\ pc' = [pc EXCEPT ![w] = "signal"]
    /\ UNCHANGED <<disk, cur, seg, todo, sig, stop, cache, latched, app, history, crashes, faults>>

(* deviation: a worker that has looked and does not wait yet misses the signal *)
Signal_Unbuffered(w) ==
    /\ pc[w] = "signal" /\ Up
    /\ sig' \in {sig, TRUE}
    /\ pc' = [pc EXCEPT ![w] = "none"] /\ todo' = [todo EXCEPT ![w] = 0]
    /\ UNCHANGED <<disk, cur, seg, queue, stop, worker, cache, latched, app, history, crashes, faults>>

(* and a signal, which waits if the worker does not. *)
Signal(w) ==
    /\ pc[w] = "signal" /\ Up
    /\ sig' = TRUE
    /\ pc' = [pc EXCEPT ![w] = "none"] /\ todo' = [todo EXCEPT ![w] = 0]
    /\ UNCHANGED <<disk, cur, seg, queue, stop, worker, cache, latched, app, history, crashes, faults>>

-----------------------------------------------------------------------------
(* The worker. *)

(* One job off the queue.  If the segments are fewer than at its closing the    *)
(* view cannot be restored and has failed.                                      *)
Look ==
    /\ worker.pc = "look"
    /\ IF queue = <<>>
       THEN worker' = [worker EXCEPT !.pc = "wait"] /\ UNCHANGED queue
       ELSE /\ queue' = Tail(queue)
            /\ LET v == Head(queue)
                   missing == Len(segs[views[v].w]) < views[v].n
               IN worker' = [Fresh EXCEPT !.pc = "expand", !.view = v,
                                !.frames = [h \in {views[v].live} |-> views[v].liveN],
                                !.i = IF missing THEN views[v].n + 1 ELSE 1,
                                !.failed = IF missing THEN views[v].earlier ELSE {}]
    /\ UNCHANGED <<disk, cur, seg, pc, todo, sig, stop, cache, latched, app, history, crashes, faults>>

Wait ==
    /\ worker.pc = "wait"
    /\ \/ sig /\ sig' = FALSE /\ worker' = [worker EXCEPT !.pc = "look"]
       \/ stop /\ worker' = NoWorker /\ UNCHANGED sig
    /\ UNCHANGED <<disk, cur, seg, pc, todo, queue, stop, cache, latched, app, history, crashes, faults>>

Next1 == worker.i <= views[worker.view].n
Segment == segs[views[worker.view].w][worker.i]

(* One more generation of the view has its answer. *)
Answered(g, a) ==
    [worker EXCEPT !.pc = "expand", !.i = @ + 1, !.read = None,
        !.frames = IF a.kind = "frames" THEN [h \in DOMAIN @ \cup {g} |-> IF h = g THEN a.of[views[worker.view].w] ELSE @[h]]
                   ELSE @,
        !.failed = IF a.kind = "error" THEN @ \cup {g} ELSE @]

(* What is read of a log that still grows is short.  The worker can meet one   *)
(* that is being finalized, and the live one after a loss only: a job has its  *)
(* segments' number, and a later segment has taken the place of a lost one.    *)
ReadsEarly(g) ==
    \/ gen[g] = "closing"
    \/ gen[g] = "live" /\ worker.view \in lost
WithReading(g) == IF ReadsEarly(g) THEN early \cup {g} ELSE early

(* deviation: a log that cannot be read counts as one without frames *)
Expand_EmptyOnError ==
    /\ worker.pc = "expand" /\ Next1
    /\ LET g == Segment
       IN IF g \in DOMAIN worker.frames \cup worker.failed
          THEN worker' = [worker EXCEPT !.i = @ + 1] /\ UNCHANGED <<cache, early>>
          ELSE IF cache[g] # None THEN worker' = Answered(g, cache[g]) /\ UNCHANGED <<cache, early>>
          ELSE LET a == IF side[g] # None THEN side[g] ELSE Attribution([w \in Sessions |-> 0])
               IN IF side[g] = None /\ g \notin rotten
                  THEN worker' = [worker EXCEPT !.pc = "write", !.read = Attribution(log[g])]
                    /\ early' = WithReading(g) /\ UNCHANGED cache
                  ELSE cache' = [cache EXCEPT ![g] = a] /\ worker' = Answered(g, a) /\ UNCHANGED early
    /\ UNCHANGED <<disk, cur, seg, pc, todo, queue, sig, stop, latched, app, lost, crashes, faults>>

(* resolveWireFrameJob, one generation of the snapshot at a time: one that has *)
(* its answer already is passed over; else the cache, the sidecar, and last    *)
(* the log itself, which is read as a whole.  What cannot be read is an error, *)
(* never a generation without frames.                                          *)
Expand ==
    /\ worker.pc = "expand" /\ Next1
    /\ LET g == Segment
       IN IF g \in DOMAIN worker.frames \cup worker.failed
          THEN worker' = [worker EXCEPT !.i = @ + 1] /\ UNCHANGED <<cache, early>>
          ELSE IF cache[g] # None THEN worker' = Answered(g, cache[g]) /\ UNCHANGED <<cache, early>>
          ELSE IF side[g] = None /\ g \notin rotten
               THEN worker' = [worker EXCEPT !.pc = "write", !.read = Attribution(log[g])]
                    /\ early' = WithReading(g) /\ UNCHANGED cache
               ELSE LET a == IF side[g] # None THEN side[g] ELSE Error
                    IN cache' = [cache EXCEPT ![g] = a] /\ worker' = Answered(g, a) /\ UNCHANGED early
    /\ UNCHANGED <<disk, cur, seg, pc, todo, queue, sig, stop, latched, app, lost, crashes, faults>>

(* LoadOrBuildAttribution leaves a sidecar behind for the next time. *)
WriteSide ==
    /\ worker.pc = "write"
    /\ side' = [side EXCEPT ![Segment] = worker.read]
    /\ cache' = [cache EXCEPT ![Segment] = worker.read]
    /\ worker' = Answered(Segment, worker.read)
    /\ UNCHANGED <<gen, log, rotten, segs, views, result, jobs, done, cur, seg, pc, todo, queue, sig, stop,
                   latched, app, history, crashes, faults>>

(* deviation: the job is crossed off before its result is audited *)
AuditResult_CrossedOff ==
    /\ worker.pc = "expand" /\ ~Next1
    /\ done' = IF JournalOpen THEN done \cup {worker.view} ELSE done
    /\ worker' = [Fresh EXCEPT !.pc = "mark", !.view = worker.view]
    /\ UNCHANGED <<gen, log, rotten, side, segs, views, result, jobs, cur, seg, pc, todo, queue, sig, stop,
                   cache, latched, app, history, crashes, faults>>

AuditResult ==
    /\ worker.pc = "expand" /\ ~Next1
    /\ result' = [result EXCEPT ![worker.view] =
                    [status |-> IF worker.failed = {} THEN "resolved" ELSE "failed", frames |-> worker.frames]]
    /\ worker' = [Fresh EXCEPT !.pc = "mark", !.view = worker.view]
    /\ UNCHANGED <<gen, log, rotten, side, segs, views, jobs, done, cur, seg, pc, todo, queue, sig, stop,
                   cache, latched, app, history, crashes, faults>>

(* markWireFrameJobDone, which may fail like any write; then the stop is       *)
(* looked at.                                                                  *)
MarkDone ==
    /\ worker.pc = "mark"
    /\ \/ JournalOpen /\ done' = done \cup {worker.view} /\ UNCHANGED <<latched, faults>>
       \/ ~JournalOpen /\ UNCHANGED <<done, latched, faults>>
       \/ JournalOpen /\ done' \in {done, done \cup {worker.view}} /\ latched' = TRUE /\ faults < MaxFaults /\ faults' = faults + 1
    /\ worker' = IF stop THEN NoWorker ELSE Fresh
    /\ UNCHANGED <<gen, log, rotten, side, segs, views, result, jobs, cur, seg, pc, todo, queue, sig, stop,
                   cache, app, history, crashes>>

-----------------------------------------------------------------------------
(* Shutdown, crash and restart. *)

(* New sessions are refused; the ones that are up are ended.  Bound: the end   *)
(* of the process that a shutdown leads to counts as a crash does.             *)
ShutdownBegins ==
    /\ app = "up" /\ app' = "ending" /\ crashes < MaxCrashes
    /\ UNCHANGED <<disk, cur, seg, pc, todo, queue, sig, stop, worker, cache, latched, history, crashes, faults>>

(* All sessions are closed and the server is finalized. *)
DrainBegins ==
    /\ app = "ending" /\ cur = 0 /\ \A w \in Sessions : pc[w] = "none"
    /\ \A g \in Gens : gen[g] # "closing"
    /\ app' = IF worker.pc = "off" THEN "released" ELSE "draining"
    /\ UNCHANGED <<disk, cur, seg, pc, todo, queue, sig, stop, worker, cache, latched, history, crashes, faults>>

(* The queue is empty and the worker idle, or the window has passed. *)
StopsWorker ==
    /\ app = "draining" /\ app' = "stopped" /\ stop' = TRUE
    /\ UNCHANGED <<disk, cur, seg, pc, todo, queue, sig, worker, cache, latched, history, crashes, faults>>

(* The worker is gone and the lease is released, or a second window has passed *)
(* and the lease is kept until the process ends.                               *)
DrainEnds ==
    /\ app = "stopped"
    /\ app' \in IF worker.pc = "off" THEN {"released", "retained"} ELSE {"retained"}
    /\ UNCHANGED <<disk, cur, seg, pc, todo, queue, sig, stop, worker, cache, latched, history, crashes, faults>>

(* The process ends: what a crash leaves of a generation that was not          *)
(* finalized is a prefix of its log and no sidecar.                            *)
Down ==
    /\ app # "down" /\ app' = "down"
    /\ crashes < MaxCrashes /\ crashes' = crashes + 1
    /\ gen' = [g \in Gens |-> IF gen[g] \in {"live", "closing"} THEN "closed" ELSE gen[g]]
    /\ cur' = 0 /\ seg' = [w \in Sessions |-> 0] /\ pc' = [w \in Sessions |-> "none"]
    /\ todo' = [w \in Sessions |-> 0] /\ queue' = <<>> /\ sig' = FALSE /\ stop' = FALSE
    /\ worker' = NoWorker /\ cache' = [g \in Gens |-> None] /\ latched' = FALSE
    /\ UNCHANGED <<log, rotten, side, segs, views, result, jobs, done, history, faults>>

InOrder(S) ==
    {q \in [1..Cardinality(S) -> S] : Range(q) = S /\ \A i, j \in DOMAIN q : i < j => q[i] < q[j]}

(* openWireFrameJobs: what is put down and not crossed off is queued again. *)
Restart ==
    /\ app = "down" /\ app' = "up"
    /\ queue' \in InOrder(jobs \ done)
    /\ worker' = IF jobs \ done # {} THEN Fresh ELSE NoWorker
    /\ UNCHANGED <<disk, cur, seg, pc, todo, sig, stop, cache, latched, history, crashes, faults>>

(* A log on disk goes bad; one with a sidecar is not read again. *)
Rots ==
    /\ faults < MaxFaults /\ faults' = faults + 1
    /\ \E g \in Gens : gen[g] = "closed" /\ side[g] = None /\ Used(g) /\ g \notin rotten /\ rotten' = rotten \cup {g}
    /\ UNCHANGED <<gen, log, side, segs, views, result, jobs, done, memory, history, crashes>>

(* The tail of the segment journal is lost to a restart. *)
Shortened ==
    /\ app = "down" /\ faults < MaxFaults /\ faults' = faults + 1
    /\ \E w \in Sessions :
         /\ segs[w] # <<>> /\ segs' = [segs EXCEPT ![w] = Front(@)]
         /\ lost' = lost \cup {v \in jobs \ done : views[v].w = w /\ views[v].n >= Len(segs[w])}
    /\ UNCHANGED <<gen, log, rotten, side, views, result, jobs, done, memory, early, crashes>>

-----------------------------------------------------------------------------
Init ==
    /\ gen = [g \in Gens |-> "unborn"] /\ log = [g \in Gens |-> [w \in Sessions |-> 0]] /\ rotten = {}
    /\ side = [g \in Gens |-> None] /\ segs = [w \in Sessions |-> <<>>]
    /\ views = <<>> /\ result = [v \in Views |-> NoResult] /\ jobs = {} /\ done = {}
    /\ cur = 0 /\ seg = [w \in Sessions |-> 0] /\ pc = [w \in Sessions |-> "none"]
    /\ todo = [w \in Sessions |-> 0] /\ queue = <<>> /\ sig = FALSE /\ stop = FALSE
    /\ worker = NoWorker /\ cache = [g \in Gens |-> None]
    /\ latched = FALSE /\ app = "up" /\ lost = {} /\ early = {} /\ crashes = 0 /\ faults = 0

Caller(w) == Closes(w) \/ Persist(w) \/ Enqueue(w) \/ Signal(w)
Worker == Look \/ Wait \/ Expand \/ WriteSide \/ AuditResult \/ MarkDone

Next ==
    \/ \E w \in Sessions : Opens(w) \/ Caller(w)
    \/ Worker
    \/ Born \/ Dies \/ Finalize \/ FrameComes
    \/ ShutdownBegins \/ DrainBegins \/ StopsWorker \/ DrainEnds
    \/ Down \/ Restart \/ Rots \/ Shortened

Spec == Init /\ [][Next]_vars

-----------------------------------------------------------------------------
(* Properties. *)

(* A view that is said to be resolved has an answer for exactly the generations *)
(* its session had segments in at the closing, unless one of these segments was *)
(* lost, and for every generation but the one at hand each frame of the session *)
(* in the log.  Short can only be the answer for a generation the worker read   *)
(* while it was being finalized, or in a later segment's place, after a loss.   *)
(* A log that could not be read is never passed off as one without frames       *)
(* (closeWireSegment, resolveWireFrameJob, wireGenAttribution).                 *)
ResolvedIsComplete ==
    \A v \in 1..Len(views) : result[v].status = "resolved" =>
        /\ v \notin lost => DOMAIN result[v].frames = views[v].earlier \cup {views[v].live}
        /\ \A g \in DOMAIN result[v].frames \ ({views[v].live} \cup early) :
              result[v].frames[g] = log[g][views[v].w]

(* What was put down is not forgotten: it is crossed off only when its result  *)
(* is in the audit, and until then it waits in the queue or is in the worker's *)
(* hand, after any restart as well.                                            *)
JobsSurvive ==
    \A v \in jobs :
        /\ v \in done => result[v].status # "none"
        /\ app = "up" /\ result[v].status = "none" =>
             \/ v \in Range(queue) \/ worker.view = v
             \/ \E w \in Sessions : todo[w] = v /\ pc[w] = "queue"

(* No job is left lying: while the application is up and a view is queued the   *)
(* worker runs, or it waits with a signal in the channel or about to come.      *)
QueueIsSeen ==
    app = "up" /\ queue # <<>> =>
        \/ worker.pc \notin {"off", "wait"}
        \/ worker.pc = "wait" /\ (sig \/ \E w \in Sessions : pc[w] = "signal")
=============================================================================
