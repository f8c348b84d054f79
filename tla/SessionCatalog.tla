--------------------------- MODULE SessionCatalog ---------------------------
(***************************************************************************)
(* The sessions of one provider in the registry (internal/wsregistry), in   *)
(* the manager's slots and on disk: creation, start, new conversation and   *)
(* removal as App orchestrates them, migration and backfill at startup, and *)
(* what a crash of the process or of the machine leaves.                    *)
(*                                                                          *)
(* A write replaces the whole file under the mutex of the store, so its     *)
(* four steps are one action with three outcomes.  A view of a session is   *)
(* the number of its boundary: 0 none, 1 that of restore.json, more with    *)
(* each reset.  A conversation is named by where and in which view it was   *)
(* begun.  How a session is torn down is in SessionFlows.                   *)
(***************************************************************************)
EXTENDS Naturals, FiniteSets

CONSTANTS
    Wsids,          \* the identities that are ever drawn
    Callers,        \* goroutines that run a binding
    Cap,            \* MaxSessionsPerProvider
    MaxView,        \* bound: the last view of a session
    MaxFaults,      \* bound: failing writes, scans and commits
    MaxRestarts,    \* bound: ends of the process
    Shared          \* two callers may use one session

ASSUME BoundsAssumption ==
    /\ IsFiniteSet(Wsids) /\ IsFiniteSet(Callers)
    /\ {Cap, MaxView, MaxFaults, MaxRestarts} \subseteq Nat /\ Cap > 0
    /\ Shared \in BOOLEAN
    /\ {"nobody", "none", "legacy"} \cap Wsids = {}

VARIABLES
    mem,        \* Store.file: entries and the three markers
    disk,       \* workspace-sessions.json: [now, safe], safe outlasts the machine
    latched,    \* Store.uncertain
    restore,    \* restore.json still names a conversation
    slot,       \* the manager's slot of each session
    conv,       \* the conversation its provider process holds
    pump,       \* none, fresh: no init yet, seen, checked: about to write it
    tx,         \* the binding each caller is in: [pc, w, conv]
    token,      \* crToken: who is creating or removing
    degraded,   \* createDegraded
    phase,      \* of the application
    promised,   \* history: the entry that the store last acknowledged
    unfilled,   \* history: a write of the resume backfill failed
    revived,    \* history: the renewed sessions that a later attempt gave the old conversation
    faults, restarts

vars == <<mem, disk, latched, restore, slot, conv, pump, tx, token, degraded,
          phase, promised, unfilled, revived, faults, restarts>>
store == <<mem, disk, latched, promised>>
live  == <<slot, conv, pump>>
fills == <<restore, unfilled, revived>>
world == <<fills, phase, restarts>>

Nobody == "nobody"
NoConv == [of |-> "none", view |-> 0]
Legacy == [of |-> "legacy", view |-> 1]
Convs  == {NoConv, Legacy} \cup [of : Wsids, view : 0..MaxView]
Entries == [life : {"none", "live", "gone"}, resume : Convs, view : 0..MaxView, old : BOOLEAN]
NoEntry == [life |-> "none", resume |-> NoConv, view |-> 0, old |-> FALSE]
NewEntry == [NoEntry EXCEPT !.life = "live"]
Unknown == [NoEntry EXCEPT !.life = "unknown"]

\* What a store of the build before the per-session metadata looks like.
File(e, migrated) == [entry |-> e, migrated |-> migrated, filled |-> FALSE, marked |-> FALSE]

Live(f) == {w \in Wsids : f.entry[w].life = "live"}
Committed(w) == slot[w] \in {"idle", "starting", "active", "resetting"}
Occupied == {w \in Wsids : slot[w] # "none"}

-----------------------------------------------------------------------------
Idle == [pc |-> "idle", w |-> Nobody, conv |-> NoConv]
AllNone == [w \in Wsids |-> "none"]

Init ==
    \E former \in SUBSET Wsids, dated \in BOOLEAN :
        /\ Cardinality(former) <= Cap
        /\ mem = File([w \in Wsids |->
                        IF w \notin former THEN NoEntry
                        ELSE [NewEntry EXCEPT !.view = IF dated /\ former = {w} THEN 1 ELSE 0]],
                      former # {})
        /\ disk = [now |-> mem, safe |-> mem]
        /\ promised = mem.entry /\ unfilled = FALSE /\ revived = {}
        /\ latched = FALSE /\ restore \in BOOLEAN
        /\ slot = AllNone /\ conv = [w \in Wsids |-> NoConv] /\ pump = AllNone
        /\ tx = [c \in Callers |-> Idle] /\ token = Nobody /\ degraded = FALSE
        /\ phase = "load" /\ faults = 0 /\ restarts = 0

(***************************************************************************)
(* Store: persistOrRollback.                                                *)
(***************************************************************************)
Outcomes == {"ok", "failed", "unsynced"}

\* deviation: a failed write leaves the change in memory
Write_NoRollback(f, ws, out) ==
    /\ mem' = f
    /\ disk' = CASE out = "ok" -> [now |-> f, safe |-> f]
                 [] out = "unsynced" -> [disk EXCEPT !.now = f]
                 [] OTHER -> disk
    /\ latched' = (latched \/ out = "unsynced")
    /\ promised' = [w \in Wsids |->
            CASE out = "ok" /\ w \in ws -> f.entry[w]
              [] out = "unsynced" /\ w \in ws -> Unknown
              [] OTHER -> promised[w]]
    /\ faults' = IF out = "ok" \/ latched THEN faults ELSE faults + 1

\* The file f, in which the entries of ws are new.  Before the rename a failure
\* rolls back; a directory that cannot be synced keeps the new file in memory and
\* latches; a latched store refuses.
Write(f, ws, out) ==
    /\ mem' = IF out = "failed" THEN mem ELSE f
    /\ disk' = CASE out = "ok" -> [now |-> f, safe |-> f]
                 [] out = "unsynced" -> [disk EXCEPT !.now = f]
                 [] OTHER -> disk
    /\ latched' = (latched \/ out = "unsynced")
    /\ promised' = [w \in Wsids |->
            CASE out = "ok" /\ w \in ws -> f.entry[w]
              [] out = "unsynced" /\ w \in ws -> Unknown
              [] OTHER -> promised[w]]
    /\ faults' = IF out = "ok" \/ latched THEN faults ELSE faults + 1

\* What a write can come to now.
Possible(out) ==
    IF latched THEN out = "failed" ELSE out # "ok" => faults < MaxFaults

With(w, e) == [mem EXCEPT !.entry[w] = e]
Put(w, e, out) == Write(With(w, e), {w}, out)

\* mutate: an entry that is missing or a tombstone is left alone.
Mutate(w, e, out) ==
    IF mem.entry[w].life = "live" THEN Put(w, e, out) ELSE UNCHANGED <<store, faults>>

(***************************************************************************)
(* Callers.                                                                 *)
(***************************************************************************)
At(c, pc) == tx[c].pc = pc
Goto(c, pc) == tx' = [tx EXCEPT ![c].pc = pc]
Done(c) == tx' = [tx EXCEPT ![c] = Idle]

\* A binding on w may begin: registryUncertain is looked at first of all.
MayUse(c, w) ==
    /\ phase = "up" /\ At(c, "idle") /\ ~latched
    /\ Shared \/ \A d \in Callers : tx[d].w # w

(***************************************************************************)
(* createSession.                                                           *)
(***************************************************************************)
CreateEnter(c) ==
    /\ phase = "up" /\ At(c, "idle") /\ ~latched /\ ~degraded
    /\ Goto(c, "create")
    /\ UNCHANGED <<store, live, world, token, degraded, faults>>

Drawn(w) == \E f \in {mem, disk.now, disk.safe} : f.entry[w].life # "none"

CreateReserve(c) ==
    /\ At(c, "create") /\ token = Nobody
    /\ IF Cardinality(Occupied) >= Cap
       THEN Done(c) /\ UNCHANGED <<slot, token>>
       ELSE \E w \in Wsids \ Occupied :
                /\ ~Drawn(w)
                /\ slot' = [slot EXCEPT ![w] = "reserved"]
                /\ tx' = [tx EXCEPT ![c].pc = "put", ![c].w = w]
                /\ token' = c
    /\ UNCHANGED <<store, conv, pump, world, degraded, faults>>

\* Put, and AbortCreate when it fails.
CreatePut(c, out) ==
    /\ At(c, "put") /\ Possible(out)
    /\ Put(tx[c].w, NewEntry, out)
    /\ IF out = "ok"
       THEN Goto(c, "commit") /\ UNCHANGED <<slot, token>>
       ELSE Done(c) /\ slot' = [slot EXCEPT ![tx[c].w] = "none"] /\ token' = Nobody
    /\ UNCHANGED <<conv, pump, world, degraded>>

CommitCreate(c) ==
    /\ At(c, "commit")
    /\ slot' = [slot EXCEPT ![tx[c].w] = "idle"]
    /\ Done(c) /\ token' = Nobody
    /\ UNCHANGED <<store, conv, pump, world, degraded, faults>>

CommitCreateFails(c) ==
    /\ At(c, "commit") /\ faults < MaxFaults
    /\ Goto(c, "undo") /\ faults' = faults + 1
    /\ UNCHANGED <<store, live, world, token, degraded>>

\* deviation: the place is given back although the entry could not be deleted
CreateUndo_Aborts(c, out) ==
    /\ At(c, "undo") /\ Possible(out)
    /\ Put(tx[c].w, NoEntry, out)
    /\ slot' = [slot EXCEPT ![tx[c].w] = "none"]
    /\ Done(c) /\ token' = Nobody
    /\ UNCHANGED <<conv, pump, world, degraded>>

\* DeleteUncommitted; when that fails too, the place stays reserved.
CreateUndo(c, out) ==
    /\ At(c, "undo") /\ Possible(out)
    /\ Put(tx[c].w, NoEntry, out)
    /\ IF out = "ok"
       THEN slot' = [slot EXCEPT ![tx[c].w] = "none"] /\ UNCHANGED degraded
       ELSE degraded' = TRUE /\ UNCHANGED slot
    /\ Done(c) /\ token' = Nobody
    /\ UNCHANGED <<conv, pump, world>>

(***************************************************************************)
(* startSession and the pump of the process it starts.                      *)
(***************************************************************************)
StartRead(c, w) ==
    /\ MayUse(c, w) /\ Committed(w)
    /\ LET e == mem.entry[w]
       IN  tx' = [tx EXCEPT ![c] = [pc |-> "begin", w |-> w,
                                    conv |-> IF e.life = "live" THEN e.resume ELSE NoConv]]
    /\ UNCHANGED <<store, live, world, token, degraded, faults>>

StartBegin(c) ==
    /\ At(c, "begin")
    /\ IF slot[tx[c].w] = "idle"
       THEN slot' = [slot EXCEPT ![tx[c].w] = "starting"] /\ Goto(c, "spawn")
       ELSE Done(c) /\ UNCHANGED slot
    /\ UNCHANGED <<store, conv, pump, world, token, degraded, faults>>

\* A Codex thread is known at once, the id of Claude comes with its init.
Spawn(c, p) ==
    /\ At(c, "spawn")
    /\ LET w == tx[c].w
           k == IF tx[c].conv # NoConv THEN tx[c].conv ELSE [of |-> w, view |-> mem.entry[w].view]
       IN  /\ conv' = [conv EXCEPT ![w] = k]
           /\ pump' = [pump EXCEPT ![w] = p]
           /\ tx' = [tx EXCEPT ![c].pc = "accept", ![c].conv = k]
    /\ UNCHANGED <<store, slot, world, token, degraded, faults>>

StartFails(c) ==
    /\ At(c, "spawn")
    /\ slot' = [slot EXCEPT ![tx[c].w] = "idle"]
    /\ Done(c)
    /\ UNCHANGED <<store, conv, pump, world, token, degraded, faults>>

\* deviation: the id is read before the session was accepted
StartAccept_ReadsId(c) ==
    /\ At(c, "accept")
    /\ slot' = [slot EXCEPT ![tx[c].w] = "active"]
    /\ tx' = [tx EXCEPT ![c].pc = "identity",
                        ![c].conv = IF pump[tx[c].w] = "fresh" THEN NoConv ELSE @]
    /\ UNCHANGED <<store, conv, pump, world, token, degraded, faults>>

StartAccept(c) ==
    /\ At(c, "accept")
    /\ slot' = [slot EXCEPT ![tx[c].w] = "active"]
    /\ Goto(c, "identity")
    /\ UNCHANGED <<store, conv, pump, world, token, degraded, faults>>

\* commitSessionIdentity: CommitResume with what the host knows by now.  An
\* unknown id keeps what is there.  A host that is gone may have known either.
StartIdentity(c, known, out) ==
    /\ At(c, "identity") /\ Possible(out)
    /\ LET w == tx[c].w
           e == mem.entry[w]
       IN  /\ pump[w] = "fresh" => ~known
           /\ pump[w] \in {"seen", "checked"} => known
           /\ Mutate(w, IF known THEN [e EXCEPT !.resume = tx[c].conv] ELSE e, out)
    /\ Done(c)
    /\ UNCHANGED <<live, world, token, degraded>>

\* noteSessionID, then commitClaudeResume: it looks whether the session is
\* active, and SetResume comes after that.
InitSeen(w) ==
    /\ phase = "up" /\ pump[w] = "fresh"
    /\ pump' = [pump EXCEPT ![w] = IF slot[w] = "active" THEN "checked" ELSE "seen"]
    /\ UNCHANGED <<store, slot, conv, world, tx, token, degraded, faults>>

InitWrite(w, out) ==
    /\ pump[w] = "checked" /\ Possible(out)
    /\ Mutate(w, [mem.entry[w] EXCEPT !.resume = conv[w]], out)
    /\ pump' = [pump EXCEPT ![w] = "seen"]
    /\ UNCHANGED <<slot, conv, world, tx, token, degraded>>

\* A teardown waits for the pump, and so for the write it is in.
Drained(w) == pump[w] # "checked"
Without(w) == conv' = [conv EXCEPT ![w] = NoConv] /\ pump' = [pump EXCEPT ![w] = "none"]

\* EndSession, the reaper after a natural end, or a teardown that failed.
SessionEnds(w) ==
    /\ phase = "up" /\ slot[w] = "active" /\ Drained(w)
    /\ slot' = [slot EXCEPT ![w] = "idle"] /\ Without(w)
    /\ UNCHANGED <<store, world, tx, token, degraded, faults>>

(***************************************************************************)
(* newSession.                                                              *)
(***************************************************************************)
NewBegin(c, w) ==
    /\ MayUse(c, w) /\ slot[w] \in {"idle", "active"} /\ Drained(w)
    /\ slot' = [slot EXCEPT ![w] = "resetting"] /\ Without(w)
    /\ tx' = [tx EXCEPT ![c].pc = "reset", ![c].w = w]
    /\ UNCHANGED <<store, world, token, degraded, faults>>

\* ResetView: boundary, resume and legacy transcript in one write.
AfterReset(e) == [e EXCEPT !.view = IF @ = 0 THEN 2 ELSE @ + 1, !.resume = NoConv, !.old = FALSE]

NewReset(c, out) ==
    /\ At(c, "reset") /\ Possible(out)
    /\ AfterReset(mem.entry[tx[c].w]).view <= MaxView
    /\ Mutate(tx[c].w, AfterReset(mem.entry[tx[c].w]), out)
    /\ slot' = [slot EXCEPT ![tx[c].w] = "idle"] /\ Done(c)
    /\ UNCHANGED <<conv, pump, world, token, degraded>>

\* The high-watermark of the audit cannot be read.
NewUnread(c) ==
    /\ At(c, "reset")
    /\ slot' = [slot EXCEPT ![tx[c].w] = "idle"] /\ Done(c)
    /\ UNCHANGED <<store, conv, pump, world, token, degraded, faults>>

(***************************************************************************)
(* removeSession.                                                           *)
(***************************************************************************)
RemoveEnter(c, w) ==
    /\ MayUse(c, w) /\ slot[w] # "none"
    /\ tx' = [tx EXCEPT ![c].pc = "remove", ![c].w = w]
    /\ UNCHANGED <<store, live, world, token, degraded, faults>>

RemoveTear(c) ==
    /\ At(c, "remove") /\ token = Nobody
    /\ LET w == tx[c].w
       IN  IF slot[w] \in {"idle", "active"}
           THEN /\ Drained(w)
                /\ slot' = [slot EXCEPT ![w] = "idle"] /\ Without(w)
                /\ Goto(c, "tomb") /\ token' = c
           ELSE Done(c) /\ UNCHANGED <<live, token>>
    /\ UNCHANGED <<store, world, degraded, faults>>

RemoveTomb(c, out) ==
    /\ At(c, "tomb") /\ Possible(out)
    /\ Put(tx[c].w, [mem.entry[tx[c].w] EXCEPT !.life = "gone"], out)
    /\ IF out = "ok" THEN Goto(c, "release") /\ UNCHANGED token
                     ELSE Done(c) /\ token' = Nobody
    /\ UNCHANGED <<live, world, degraded>>

RemoveRelease(c) ==
    /\ At(c, "release")
    /\ slot' = [slot EXCEPT ![tx[c].w] = IF @ = "idle" THEN "none" ELSE @]
    /\ Done(c) /\ token' = Nobody
    /\ UNCHANGED <<store, conv, pump, world, degraded, faults>>

(***************************************************************************)
(* Other writes: the pane layout, and the legacy flag of an empty window.   *)
(***************************************************************************)
SetLayout(out) ==
    /\ phase = "up" /\ ~latched /\ Possible(out)
    /\ Write(mem, {}, out)
    /\ UNCHANGED <<live, world, tx, token, degraded>>

ClearLegacy(w, out) ==
    /\ phase = "up" /\ mem.entry[w].old /\ Possible(out)
    /\ Mutate(w, [mem.entry[w] EXCEPT !.old = FALSE], out)
    /\ UNCHANGED <<live, world, tx, token, degraded>>

(***************************************************************************)
(* The end of a process, and the next one.                                  *)
(***************************************************************************)
Restarted(f) ==
    /\ mem' = f /\ latched' = FALSE /\ degraded' = FALSE
    /\ slot' = AllNone /\ conv' = [w \in Wsids |-> NoConv] /\ pump' = AllNone
    /\ tx' = [c \in Callers |-> Idle] /\ token' = Nobody
    /\ phase' = "load" /\ restarts' = restarts + 1

Quiet == \A c \in Callers : At(c, "idle")

\* Shutdown: bindings are done, sessions are down, Sync unless latched.
Shutdown(out) ==
    /\ phase \in {"up", "unwired"} /\ restarts < MaxRestarts /\ Quiet
    /\ \A w \in Wsids : Drained(w)
    /\ Possible(out) /\ (phase = "unwired" => out = "ok")
    /\ LET f == IF out = "failed" \/ phase = "unwired" THEN disk.now ELSE mem
       IN  /\ Restarted(f)
           /\ disk' = [now |-> f, safe |-> IF out = "ok" /\ phase = "up" THEN f ELSE disk.safe]
    /\ faults' = IF out = "ok" \/ latched THEN faults ELSE faults + 1
    /\ UNCHANGED <<fills, promised>>

Crash ==
    /\ restarts < MaxRestarts
    /\ Restarted(disk.now)
    /\ UNCHANGED <<disk, fills, promised, faults>>

PowerCut ==
    /\ restarts < MaxRestarts
    /\ \E f \in {disk.now, disk.safe} :
            Restarted(f) /\ disk' = [now |-> f, safe |-> f]
    /\ UNCHANGED <<fills, promised, faults>>

(***************************************************************************)
(* loadSessionRegistry.                                                     *)
(***************************************************************************)
Dormant(f) == [w \in Wsids |-> IF w \in Live(f) THEN "idle" ELSE "none"]
TooMany(f) == Cardinality(Live(f)) > Cap

\* Migrate: the conversation of restore.json becomes a session of its own.
Migrated(w) ==
    IF restore
    THEN [mem EXCEPT !.entry[w] = [NewEntry EXCEPT !.resume = Legacy, !.view = 1, !.old = TRUE],
                     !.migrated = TRUE]
    ELSE [mem EXCEPT !.migrated = TRUE]

Migrate(w, out) ==
    /\ phase = "load" /\ ~mem.migrated /\ Live(mem) = {} /\ Possible(out)
    /\ Write(Migrated(w), {w}, out)
    /\ IF out = "ok"
       THEN phase' = "fill" /\ slot' = Dormant(Migrated(w))
       ELSE phase' = "unwired" /\ UNCHANGED slot
    /\ UNCHANGED <<fills, restarts, conv, pump, tx, token, degraded>>

Load ==
    /\ phase = "load" /\ mem.migrated
    /\ IF TooMany(mem)
       THEN phase' = "unwired" /\ UNCHANGED slot
       ELSE phase' = "fill" /\ slot' = Dormant(mem)
    /\ UNCHANGED <<store, fills, restarts, conv, pump, tx, token, degraded, faults>>

\* backfillResumeFromLegacy: once, and only to the one session of the provider.
Fillable ==
    IF restore /\ Cardinality(Live(mem)) <= 1
    THEN {w \in Live(mem) : mem.entry[w].resume = NoConv} ELSE {}
Filled ==
    [mem EXCEPT !.filled = TRUE,
        !.entry = [w \in Wsids |-> IF w \in Fillable THEN [@[w] EXCEPT !.resume = Legacy] ELSE @[w]]]

\* deviation: the marker of the backfill is not looked at
NeedsFill_Always == TRUE

NeedsFill == ~mem.filled

\* restore.json is cleared afterwards, if that does not fail too.  After a write that failed
\* the application goes on, and the next start tries again, over what the sessions are by then.
Fill(out) ==
    /\ phase = "fill" /\ NeedsFill /\ Possible(out)
    /\ Write(Filled, Fillable, out)
    /\ unfilled' = (unfilled \/ out = "failed")
    /\ revived' = IF unfilled THEN revived \cup {w \in Fillable : mem.entry[w].view > 1} ELSE revived
    /\ restore' \in {restore, restore /\ out # "ok"}
    /\ phase' = "mark"
    /\ UNCHANGED <<live, restarts, tx, token, degraded>>

SkipFill ==
    /\ phase = "fill" /\ ~NeedsFill
    /\ phase' = "mark"
    /\ UNCHANGED <<store, live, fills, restarts, tx, token, degraded, faults>>

\* backfillLegacyTranscript: the one session that still has the old boundary.
Dated == {w \in Live(mem) : mem.entry[w].view = 1}
Marked ==
    [mem EXCEPT !.marked = TRUE,
        !.entry = [w \in Wsids |-> IF w \in Dated THEN [@[w] EXCEPT !.old = TRUE] ELSE @[w]]]

Mark(out) ==
    /\ phase = "mark" /\ ~mem.marked /\ Cardinality(Dated) <= 1 /\ Possible(out)
    /\ Write(Marked, Dated, out)
    /\ phase' = "up"
    /\ UNCHANGED <<live, fills, restarts, tx, token, degraded>>

\* Nothing to do any more, or the audit cannot be scanned.
SkipMark ==
    /\ phase = "mark"
    /\ phase' = "up"
    /\ UNCHANGED <<store, live, fills, restarts, tx, token, degraded, faults>>

Next ==
    \/ \E c \in Callers :
        \/ CreateEnter(c) \/ CreateReserve(c) \/ CommitCreate(c) \/ CommitCreateFails(c)
        \/ StartBegin(c) \/ StartFails(c) \/ StartAccept(c)
        \/ NewUnread(c) \/ RemoveTear(c) \/ RemoveRelease(c)
        \/ \E p \in {"fresh", "seen"} : Spawn(c, p)
        \/ \E w \in Wsids : StartRead(c, w) \/ NewBegin(c, w) \/ RemoveEnter(c, w)
        \/ \E out \in Outcomes :
            \/ CreatePut(c, out) \/ CreateUndo(c, out) \/ NewReset(c, out) \/ RemoveTomb(c, out)
            \/ \E known \in BOOLEAN : StartIdentity(c, known, out)
    \/ \E w \in Wsids : InitSeen(w) \/ SessionEnds(w)
    \/ \E w \in Wsids, out \in Outcomes :
        InitWrite(w, out) \/ ClearLegacy(w, out) \/ Migrate(w, out)
    \/ \E out \in Outcomes : SetLayout(out) \/ Shutdown(out) \/ Fill(out) \/ Mark(out)
    \/ Crash \/ PowerCut \/ Load \/ SkipFill \/ SkipMark

Spec == Init /\ [][Next]_vars

-----------------------------------------------------------------------------
\* What the store has acknowledged for a session is what a restart finds, after
\* a crash of the machine too, until a later write for that session: no failed
\* write of another one slips in, and none is taken for done that is not.
Kept ==
    \A w \in Wsids : promised[w] # Unknown =>
        disk.now.entry[w] = promised[w] /\ disk.safe.entry[w] = promised[w]

\* Once nothing is under way, the manager has a slot for exactly the sessions of
\* the registry, unless a latch says otherwise; and whatever file a restart
\* finds, its sessions fit, so it does not refuse to load them all.
InUse == {tx[c].w : c \in Callers}
SlotsMatch ==
    /\ phase = "up" /\ ~latched /\ ~degraded =>
            \A w \in Wsids \ InUse : Committed(w) <=> w \in Live(mem)
    /\ ~TooMany(disk.now) /\ ~TooMany(disk.safe)

\* A session resumes only a conversation that was begun in its own present view
\* (or the legacy one, before the first reset), shows the legacy transcript only
\* in the legacy view, and shares its conversation with no other session.
\* Excepted is the legacy conversation in a session that was renewed between an
\* attempt of the backfill that failed and the next one.
FitsView(w, e) ==
    /\ e.resume # NoConv =>
            \/ e.resume = [of |-> w, view |-> e.view]
            \/ e.resume = Legacy /\ (e.view <= 1 \/ w \in revived)
    /\ e.old => e.view = 1
EntriesFitViews ==
    \A f \in {mem, disk.now, disk.safe} :
        /\ \A w \in Live(f) : FitsView(w, f.entry[w])
        /\ \A v, w \in Live(f) :
                v # w /\ f.entry[v].resume # NoConv => f.entry[v].resume # f.entry[w].resume

\* The id of a conversation is recorded once its session is running and the id
\* is known, whichever of the two came first.
IdentityRecorded ==
    \A w \in Wsids \ InUse :
        slot[w] = "active" /\ pump[w] = "seen" /\ faults = 0 /\ w \in Live(mem) =>
            mem.entry[w].resume = conv[w]
=============================================================================
