----------------------------- MODULE ReplayIndex -----------------------------
(***************************************************************************)
(* The index of complete turns beside the audit (internal/replayindex), its *)
(* degraded latch, the rebuild in the background (rebuild_orchestrator.go)  *)
(* and the verification at startup with the repair of open turns (app.go).  *)
(*                                                                          *)
(* An offset is the number of audit rows before it: a turn is named by the  *)
(* row that opened it and the row that closed it.  A row's id is its place  *)
(* and the era it was written in; a machine crash that takes rows from the  *)
(* audit begins a new era.  Rows are whole lines, and what the index wrote  *)
(* itself is taken to have reached the disk.                                *)
(***************************************************************************)
EXTENDS Naturals, Sequences, FiniteSets, SequencesExt, FiniteSetsExt

CONSTANTS
    Sessions,       \* the workspace sessions
    MaxEvents,      \* bound: rows that the sessions write
    MaxFaults,      \* bound: failing reads and writes of the index
    MaxRestarts,    \* bound: starts after the first
    CatchUpLimit,   \* rows that may be left when the emit lock is taken
    MaxAttempts     \* catch-ups of one rebuild

ASSUME BoundsAssumption ==
    /\ IsFiniteSet(Sessions)
    /\ {MaxEvents, MaxFaults, MaxRestarts, CatchUpLimit} \subseteq Nat
    /\ MaxAttempts \in Nat \ {0}

VARIABLES
    log,      \* events.jsonl: rows [w, kind, era]
    era,
    ckpt,       \* checkpoint.json: [at, era, open]
    file,       \* turns.jsonl of each session: lines [rec, form]
    idx,        \* Index in memory
    emit,       \* who holds Manager.mu, between Write, Observe and Notify
    loop,       \* runRebuildLoop: [pc, attempt]
    closed,     \* rebuildClosed
    phase,      \* of the application
    todo,       \* sessions whose open turn the startup has still to close
    faults, restarts,
    flaws       \* history: ways in which what is on disk has come apart (glued, mixed, gap, lost)

replayVars == <<log, era, ckpt, file, idx, emit, loop, closed, phase, todo, faults, restarts, flaws>>
disk == <<ckpt, file, flaws>>
app  == <<closed, phase, todo>>

None == 0                                       \* no open turn
NoTurns == [w \in Sessions |-> None]
NoRec == [s |-> 0, e |-> 0, era |-> 0]
Kinds == {"user", "end", "other"}
Forms == {"whole", "bare", "part", "junk"}      \* bare: all but the newline
End == Len(log)
EraAt(i) == IF i = 0 THEN 0 ELSE log[i].era

(***************************************************************************)
(* What the index should hold: the turns of the first n rows.               *)
(***************************************************************************)
Of(w, kind) == {i \in 1..End : log[i].w = w /\ log[i].kind = kind}
ClosedBetween(w, i, n) == \E e \in Of(w, "end") : i < e /\ e <= n
Unclosed(w, n) == {i \in Of(w, "user") : i <= n /\ ~ClosedBetween(w, i, n)}
OpenAt(w, n) == IF Unclosed(w, n) = {} THEN None ELSE Min(Unclosed(w, n))
Turns(w, n) ==
    {[s |-> OpenAt(w, e - 1), e |-> e, era |-> EraAt(e)] :
        e \in {i \in Of(w, "end") : i <= n /\ OpenAt(w, i - 1) # None}}

(***************************************************************************)
(* Turn files.                                                              *)
(***************************************************************************)
Parsable(l) == l.form \in {"whole", "bare"}
Unfinished(l) == l.form \in {"bare", "part"}
Glues(f) == f # <<>> /\ Unfinished(Last(f))

\* What a write in O_APPEND mode leaves when `form` of the line gets through.
Appended(f, r, form) ==
    CASE form = "none" -> f
      [] form # "none" /\ Glues(f) ->
            Append(Front(f), [rec |-> NoRec, form |-> IF form = "whole" THEN "junk" ELSE "part"])
      [] OTHER -> Append(f, [rec |-> IF form = "part" THEN NoRec ELSE r, form |-> form])

Records(w) == {l.rec : l \in {x \in Range(file[w]) : Parsable(x)}}
Corrupt(f) == {i \in 1..Len(f) : ~Parsable(f[i])}
MidCorrupt(f) == Corrupt(f) # {} /\ \E j \in (Min(Corrupt(f)) + 1)..Len(f) : Parsable(f[j])
Truncated(f) == IF Corrupt(f) = {} THEN f ELSE SubSeq(f, 1, Min(Corrupt(f)) - 1)

(***************************************************************************)
(* The turn state machine over row i.                                       *)
(***************************************************************************)
Opens(i) == log[i].kind = "user" /\ idx.open[log[i].w] = None
Closes(i) == log[i].kind = "end" /\ idx.open[log[i].w] # None
RecordOf(i) == [s |-> idx.open[log[i].w], e |-> i, era |-> log[i].era]

\* The open turns after row i.
Turned(i) ==
    CASE Opens(i) -> [idx.open EXCEPT ![log[i].w] = i]
      [] Closes(i) -> [idx.open EXCEPT ![log[i].w] = None]
      [] OTHER -> idx.open

\* appendTurnRecord of row i, as far as `form` of it gets.
AppendRecord(i, form) ==
    LET w == log[i].w
    IN  /\ file' = [file EXCEPT ![w] = Appended(@, RecordOf(i), form)]
        /\ flaws' = IF form # "none" /\ Glues(file[w]) THEN flaws \cup {"glued"} ELSE flaws

\* A rebuild compares with what is in the file before it appends.
AppendUnseen(i) ==
    IF RecordOf(i) \in Records(log[i].w)
    THEN UNCHANGED <<file, flaws>>
    ELSE AppendRecord(i, "whole")

\* The row after n cannot be read, or `form` of its record gets written.
FailsAfter(n, form) ==
    IF n < End /\ Closes(n + 1) /\ RecordOf(n + 1) \notin Records(log[n + 1].w)
    THEN AppendRecord(n + 1, form)
    ELSE form = "none" /\ UNCHANGED <<file, flaws>>

Checkpoint(at, open) == [at |-> at, era |-> EraAt(at), open |-> open]

Fault == faults < MaxFaults /\ faults' = faults + 1

-----------------------------------------------------------------------------
\* The open turns when the checkpoint after row i could not be written: an
\* opened turn is taken back, a closed one is in the file already.
RolledBack(i) == IF Opens(i) THEN idx.open ELSE Turned(i)

Fresh == [cp |-> 0, open |-> NoTurns, degraded |-> FALSE, notified |-> FALSE,
          unverified |-> FALSE, cursor |-> 0]
Idle == [pc |-> "none", attempt |-> 0]

ReplayInit ==
    /\ log = <<>> /\ era = 0
    /\ ckpt = [at |-> 0, era |-> 0, open |-> NoTurns]
    /\ file = [w \in Sessions |-> <<>>]
    /\ idx = Fresh
    /\ emit = "free" /\ loop = Idle
    /\ closed = FALSE /\ phase = "up" /\ todo = {}
    /\ faults = 0 /\ restarts = 0 /\ flaws = {}

(***************************************************************************)
(* A row: Write, Observe and Notify, all under Manager.mu.                  *)
(***************************************************************************)
Row(w, kind) ==
    /\ emit = "free"
    /\ log' = Append(log, [w |-> w, kind |-> kind, era |-> era])
    /\ emit' = "observe"

Emit(w, kind) ==
    /\ phase \in {"up", "closing", "flushing"} /\ End < MaxEvents
    /\ Row(w, kind)
    /\ UNCHANGED <<era, disk, idx, loop, app, faults, restarts>>

ObserveNothing ==
    /\ emit = "observe" /\ (idx.unverified \/ idx.degraded)
    /\ emit' = "free"
    /\ UNCHANGED <<log, era, disk, idx, loop, app, faults, restarts>>

Observing == emit = "observe" /\ ~idx.unverified /\ ~idx.degraded

ObserveRow ==
    /\ Observing
    /\ IF Closes(End) THEN AppendRecord(End, "whole") ELSE UNCHANGED <<file, flaws>>
    /\ idx' = [idx EXCEPT !.cp = End, !.open = Turned(End)]
    /\ ckpt' = IF Opens(End) \/ Closes(End) THEN Checkpoint(End, Turned(End)) ELSE ckpt
    /\ emit' = "free"
    /\ UNCHANGED <<log, era, loop, app, faults, restarts>>

\* Latch first, notify once, and only after idx.mu has been released.
Latched(open) == [idx EXCEPT !.open = open, !.degraded = TRUE, !.notified = TRUE]
AfterLatch == IF idx.notified THEN "free" ELSE "notify"

ObserveAppendFails(form) ==
    /\ Observing /\ Closes(End) /\ Fault
    /\ AppendRecord(End, form)
    /\ idx' = Latched(idx.open) /\ emit' = AfterLatch
    /\ UNCHANGED <<log, era, ckpt, loop, app, restarts>>

ObserveCheckpointFails ==
    /\ Observing /\ (Opens(End) \/ Closes(End)) /\ Fault
    /\ IF Closes(End) THEN AppendRecord(End, "whole") ELSE UNCHANGED <<file, flaws>>
    /\ idx' = Latched(RolledBack(End)) /\ emit' = AfterLatch
    /\ UNCHANGED <<log, era, ckpt, loop, app, restarts>>

\* deviation: scheduleRebuild looks at nothing but its own flag
Notify_Unconditionally ==
    /\ emit = "notify" /\ emit' = "free"
    /\ loop' = IF loop.pc = "none" THEN [loop EXCEPT !.pc = "begin"] ELSE loop
    /\ UNCHANGED <<log, era, disk, idx, app, faults, restarts>>

\* onIndexDegraded and scheduleRebuild: one loop at a time, none once closed.
Notify ==
    /\ emit = "notify" /\ emit' = "free"
    /\ loop' = IF closed \/ loop.pc # "none" THEN loop ELSE [loop EXCEPT !.pc = "begin"]
    /\ UNCHANGED <<log, era, disk, idx, app, faults, restarts>>

(***************************************************************************)
(* The rebuild while sessions go on writing.                                *)
(***************************************************************************)
LoopTo(pc) == loop' = [loop EXCEPT !.pc = pc]

\* beginRebuildRun refuses an index that is not degraded; bulkRebuild places
\* the cursor, which keeps what an earlier round has scanned.
Begin ==
    /\ loop.pc = "begin"
    /\ IF idx.degraded
       THEN /\ loop' = [pc |-> "scan", attempt |-> 1]
            /\ idx' = [idx EXCEPT !.cursor = Max({idx.cursor, idx.cp})]
       ELSE LoopTo("finish") /\ UNCHANGED idx
    /\ UNCHANGED <<log, era, disk, emit, app, faults, restarts>>

\* One row of the scan, without the emit lock ("scan") or with it ("final").
ScanRow ==
    /\ loop.pc \in {"scan", "final"} /\ idx.cursor < End
    /\ LET i == idx.cursor + 1
       IN  /\ IF Closes(i) THEN AppendUnseen(i) ELSE UNCHANGED <<file, flaws>>
           /\ idx' = [idx EXCEPT !.cursor = i, !.open = Turned(i)]
    /\ UNCHANGED <<log, era, ckpt, emit, loop, app, faults, restarts>>

\* An error ends the loop: only a round that did not converge is tried again.
Released == IF emit = "rebuild" THEN "free" ELSE emit
ScanFails(form) ==
    /\ loop.pc \in {"scan", "final"} /\ Fault
    /\ FailsAfter(idx.cursor, form)
    /\ LoopTo("finish") /\ emit' = Released
    /\ UNCHANGED <<log, era, ckpt, idx, app, restarts>>

ScanDone ==
    /\ loop.pc = "scan" /\ idx.cursor = End
    /\ LoopTo("check")
    /\ UNCHANGED <<log, era, disk, idx, emit, app, faults, restarts>>

Residual == End - idx.cursor
NextAttempt ==
    loop' = IF loop.attempt < MaxAttempts
            THEN [pc |-> "scan", attempt |-> loop.attempt + 1]
            ELSE [loop EXCEPT !.pc = "backoff"]

Check ==
    /\ loop.pc = "check"
    /\ IF Residual <= CatchUpLimit THEN LoopTo("lock") ELSE NextAttempt
    /\ UNCHANGED <<log, era, disk, idx, emit, app, faults, restarts>>

\* deviation: attach at the end that was seen without the emit lock
Lock_WithoutLooking ==
    /\ loop.pc = "lock" /\ emit = "free"
    /\ LoopTo("finish")
    /\ idx' = [idx EXCEPT !.cp = idx.cursor, !.degraded = FALSE, !.notified = FALSE]
    /\ ckpt' = Checkpoint(idx.cursor, idx.open)
    /\ UNCHANGED <<log, era, file, flaws, emit, app, faults, restarts>>

\* Take Manager.mu and look again: too much left means let go and scan again.
Lock ==
    /\ loop.pc = "lock" /\ emit = "free"
    /\ IF Residual <= CatchUpLimit
       THEN LoopTo("final") /\ emit' = "rebuild"
       ELSE NextAttempt /\ UNCHANGED emit
    /\ UNCHANGED <<log, era, disk, idx, app, faults, restarts>>

\* The latch is cleared last, with the emit lock still held.
Attach ==
    /\ loop.pc = "final" /\ idx.cursor = End
    /\ idx' = [idx EXCEPT !.cp = idx.cursor, !.degraded = FALSE, !.notified = FALSE]
    /\ ckpt' = Checkpoint(idx.cursor, idx.open)
    /\ LoopTo("finish") /\ emit' = "free"
    /\ UNCHANGED <<log, era, file, flaws, app, faults, restarts>>

AttachFails ==
    /\ loop.pc = "final" /\ idx.cursor = End /\ Fault
    /\ LoopTo("finish") /\ emit' = "free"
    /\ UNCHANGED <<log, era, disk, idx, app, restarts>>

Backoff ==
    /\ loop.pc = "backoff"
    /\ LoopTo(IF closed THEN "finish" ELSE "begin")
    /\ UNCHANGED <<log, era, disk, idx, emit, app, faults, restarts>>

FinishRebuild ==
    /\ loop.pc = "finish"
    /\ loop' = Idle
    /\ UNCHANGED <<log, era, disk, idx, emit, app, faults, restarts>>

(***************************************************************************)
(* LoadTurnsBefore reads a turn file, and cuts off a tail it cannot parse.  *)
(***************************************************************************)
Load(w) ==
    /\ phase \in {"up", "closing"} /\ ~idx.unverified /\ loop.pc # "final"
    /\ Corrupt(file[w]) # {} /\ ~MidCorrupt(file[w])
    /\ file' = [file EXCEPT ![w] = Truncated(@)]
    /\ UNCHANGED <<log, era, ckpt, idx, emit, loop, app, faults, restarts, flaws>>

(***************************************************************************)
(* Shutdown, crash and restart.                                             *)
(***************************************************************************)
CancelRebuild ==
    /\ phase = "up"
    /\ phase' = "closing" /\ closed' = TRUE
    /\ UNCHANGED <<log, era, disk, idx, emit, loop, todo, faults, restarts>>

RebuildConverged ==
    /\ phase = "closing" /\ loop.pc = "none"
    /\ phase' = "flushing"
    /\ UNCHANGED <<log, era, disk, idx, emit, loop, closed, todo, faults, restarts>>

\* Manager.Close, then Flush, which writes nothing for an unverified index.  Of
\* a degraded one it writes the offset of the last success with the turns of now.
Flush ==
    /\ phase = "flushing" /\ emit = "free"
    /\ IF idx.unverified
       THEN UNCHANGED <<ckpt, flaws>>
       ELSE /\ ckpt' = Checkpoint(idx.cp, idx.open)
            /\ flaws' = IF \E w \in Sessions : idx.open[w] # OpenAt(w, idx.cp)
                        THEN flaws \cup {"mixed"} ELSE flaws
    /\ phase' = "down"
    /\ UNCHANGED <<log, era, file, idx, emit, loop, closed, todo, faults, restarts>>

FlushFails ==
    /\ phase = "flushing" /\ emit = "free" /\ ~idx.unverified /\ Fault
    /\ phase' = "down"
    /\ UNCHANGED <<log, era, disk, idx, emit, loop, closed, todo, restarts>>

Crash ==
    /\ phase # "down" /\ restarts < MaxRestarts
    /\ phase' = "down" /\ loop' = Idle /\ emit' = "free"
    /\ UNCHANGED <<log, era, disk, idx, closed, todo, faults, restarts>>

\* The machine goes down: the audit is not synced row by row.
PowerCut(n) ==
    /\ phase # "down" /\ restarts < MaxRestarts /\ n < End
    /\ log' = SubSeq(log, 1, n) /\ era' = era + 1
    /\ phase' = "down" /\ loop' = Idle /\ emit' = "free"
    /\ UNCHANGED <<disk, idx, closed, todo, faults, restarts>>

Loaded == [Fresh EXCEPT !.cp = ckpt.at, !.open = ckpt.open]
Starts == phase = "down" /\ restarts < MaxRestarts /\ restarts' = restarts + 1

\* The session registry cannot be loaded: nothing is verified.
StartUnverified ==
    /\ Starts
    /\ idx' = [Loaded EXCEPT !.unverified = TRUE]
    /\ phase' = "up" /\ closed' = FALSE /\ todo' = {} /\ loop' = Idle
    /\ UNCHANGED <<log, era, disk, emit, faults>>

\* deviation: a checkpoint is trusted as long as the audit is long enough
Trusted_ByLength == ckpt.at <= End

\* checkpointTrustedLocked: its offset is the end of a row with its id.
Trusted == ckpt.at <= End /\ ckpt.era = EraAt(ckpt.at)
Broken == \E w \in Sessions : MidCorrupt(file[w])

\* Not trusted, or a file is corrupt in the middle: all files are set aside and
\* the scan begins at 0.  The old checkpoint stays on disk until the next write.
Start ==
    /\ Starts
    /\ IF Trusted /\ ~Broken
       THEN /\ idx' = Loaded
            /\ file' = [w \in Sessions |-> Truncated(file[w])]
            /\ flaws' = IF "gap" \in flaws THEN flaws \cup {"lost"} ELSE flaws
       ELSE /\ idx' = Fresh
            /\ file' = [w \in Sessions |-> <<>>]
            /\ flaws' = IF Trusted THEN {"gap"} ELSE {}
    /\ phase' = "verify" /\ closed' = FALSE /\ todo' = {} /\ loop' = Idle
    /\ UNCHANGED <<log, era, ckpt, emit, faults>>

\* rescanFromLocked: nothing else runs yet.
VerifyRow ==
    /\ phase = "verify" /\ idx.cp < End
    /\ LET i == idx.cp + 1
       IN  /\ idx' = [idx EXCEPT !.cp = i, !.open = Turned(i)]
           /\ IF Opens(i) \/ Closes(i)
              THEN ckpt' = Checkpoint(i, Turned(i)) ELSE UNCHANGED ckpt
           /\ IF Closes(i) /\ RecordOf(i) \notin Records(log[i].w)
              THEN /\ file' = [file EXCEPT ![log[i].w] = Appended(@, RecordOf(i), "whole")]
                   /\ flaws' = (flaws \ {"gap"}) \cup
                                 (IF Glues(file[log[i].w]) THEN {"glued"} ELSE {})
              ELSE /\ UNCHANGED file
                   /\ flaws' = IF Opens(i) \/ Closes(i) THEN flaws \ {"gap"} ELSE flaws
    /\ UNCHANGED <<log, era, emit, loop, app, faults, restarts>>

VerifyFails(form) ==
    /\ phase = "verify" /\ Fault
    /\ FailsAfter(idx.cp, form)
    /\ idx' = [idx EXCEPT !.unverified = TRUE]
    /\ phase' = "up"
    /\ UNCHANGED <<log, era, ckpt, emit, loop, closed, todo, restarts>>

VerifyDone ==
    /\ phase = "verify" /\ idx.cp = End
    /\ ckpt' = Checkpoint(idx.cp, idx.open) /\ flaws' = flaws \ {"gap"}
    /\ todo' = {w \in Sessions : idx.open[w] # None}
    /\ phase' = "repair"
    /\ UNCHANGED <<log, era, file, idx, emit, loop, closed, faults, restarts>>

\* deviation: the error row without the derived change of state
Repair_ErrorOnly(w) ==
    /\ phase = "repair" /\ w \in todo
    /\ Row(w, "other")
    /\ todo' = todo \ {w}
    /\ UNCHANGED <<era, disk, idx, loop, closed, phase, faults, restarts>>

\* repairIncompleteTurns: an error row closes what the crash left open.
Repair(w) ==
    /\ phase = "repair" /\ w \in todo
    /\ Row(w, "end")
    /\ todo' = todo \ {w}
    /\ UNCHANGED <<era, disk, idx, loop, closed, phase, faults, restarts>>

OpenUI ==
    /\ phase = "repair" /\ todo = {} /\ emit = "free"
    /\ phase' = "up"
    /\ UNCHANGED <<log, era, disk, idx, emit, loop, closed, todo, faults, restarts>>

ReplayNext ==
    \/ \E w \in Sessions, k \in Kinds : Emit(w, k)
    \/ ObserveNothing \/ ObserveRow \/ ObserveCheckpointFails \/ Notify
    \/ \E f \in {"none", "bare", "part"} : 
            ObserveAppendFails(f) \/ ScanFails(f) \/ VerifyFails(f)
    \/ Begin \/ ScanRow \/ ScanDone \/ Check \/ Lock \/ Attach \/ AttachFails
    \/ Backoff \/ FinishRebuild
    \/ CancelRebuild \/ RebuildConverged \/ Flush \/ FlushFails
    \/ Crash \/ (\E n \in 0..MaxEvents : PowerCut(n))
    \/ StartUnverified \/ Start \/ VerifyRow \/ VerifyDone \/ OpenUI
    \/ \E w \in Sessions : Load(w) \/ Repair(w)

ReplaySpec == ReplayInit /\ [][ReplayNext]_replayVars

-----------------------------------------------------------------------------
\* A record of a row that a machine crash took from the audit is set aside.
Genuine(r) == r.e <= End /\ r.era = EraAt(r.e)

\* A record is a turn of the audit.
RecordsAreTurns ==
    \A w \in Sessions : \A r \in Records(w) : Genuine(r) => r \in Turns(w, End)

\* What a restart would find. As long as nothing has come apart on disk in one
\* of the ways of `flaws`, every record is a turn, and a checkpoint that would
\* be trusted has all turns before it in the files and all open ones beside it:
\* the scan from there leaves no silent gap.
DiskFaithful ==
    flaws = {} =>
        /\ RecordsAreTurns
        /\ Trusted => \A w \in Sessions : /\ Turns(w, ckpt.at) \subseteq Records(w)
                                         /\ ckpt.open[w] = OpenAt(w, ckpt.at)

\* No record stands in a file twice.
Once(f) ==
    \A i, j \in DOMAIN f : Parsable(f[i]) /\ Parsable(f[j]) /\ f[i].rec = f[j].rec => i = j

\* An index that claims to be in order is: it has seen every row, knows the open
\* turns, and its files hold each turn of the audit once. So a rebuild that was
\* racing the sessions has missed nothing and repeated nothing.
Serving ==
    /\ phase \in {"repair", "up", "closing", "flushing"} /\ emit # "observe"
    /\ ~idx.degraded /\ ~idx.unverified
IndexExact ==
    Serving /\ flaws = {} =>
        /\ idx.cp = End
        /\ \A w \in Sessions :
            /\ idx.open[w] = OpenAt(w, End)
            /\ {r \in Records(w) : Genuine(r)} = Turns(w, End)
            /\ Once(file[w])

\* Once shutdown has waited for the rebuild, no other one runs: nobody would
\* wait for it while the index is flushed.
QuietBeforeFlush == phase \in {"flushing", "down"} => loop.pc = "none"

\* A start that verified the index opens the window with no turn left open in
\* the audit, so no session comes back busy.
RestartSettlesTurns ==
    [][phase = "repair" /\ phase' = "up" /\ flaws = {} =>
        \A w \in Sessions : OpenAt(w, End) = None]_replayVars
=============================================================================
