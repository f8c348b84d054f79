------------------------ MODULE SessionCatalogProofs ------------------------
(***************************************************************************)
(* What the registry's file promises in SessionCatalog, for any sessions,   *)
(* callers and bounds: an acknowledged entry is what a restart finds.       *)
(***************************************************************************)
EXTENDS SessionCatalog, FiniteSetTheorems, TLAPS

HasEntries(f) == "entry" \in DOMAIN f /\ DOMAIN f.entry = Wsids
Shape ==
    /\ HasEntries(mem) /\ HasEntries(disk.now) /\ HasEntries(disk.safe)
    /\ DOMAIN disk = {"now", "safe"} /\ DOMAIN promised = Wsids

\* Kept, with what the store serves from memory: a failed write of another session rewrites
\* neither, because the next file is made from memory.
Served ==
    \A w \in Wsids : promised[w] # Unknown =>
        /\ mem.entry[w] = promised[w]
        /\ disk.now.entry[w] = promised[w] /\ disk.safe.entry[w] = promised[w]

Inv == Shape /\ Served

\* The file f is memory but for the entries of ws.
Changes(f, ws) == HasEntries(f) /\ \A w \in Wsids \ ws : f.entry[w] = mem.entry[w]

-----------------------------------------------------------------------------
LEMMA WriteKeeps ==
  ASSUME Inv, NEW f, NEW ws, NEW out, Changes(f, ws), Possible(out), out \in Outcomes, Write(f, ws, out)
  PROVE  Inv'
<1>1. CASE out = "ok"
  <2>1. mem' = f /\ disk' = [now |-> f, safe |-> f]
    BY <1>1 DEF Write
  <2>2. promised' = [w \in Wsids |-> IF w \in ws THEN f.entry[w] ELSE promised[w]]
    BY <1>1 DEF Write
  <2>3. Shape'
    BY <2>1, <2>2 DEF Changes, Shape, HasEntries
  <2>4. Served'
    BY <2>1, <2>2 DEF Changes, Inv, Served
  <2> QED
    BY <2>3, <2>4 DEF Inv
<1>2. CASE out = "unsynced"
  <2>1. mem' = f /\ disk' = [disk EXCEPT !.now = f]
    BY <1>2 DEF Write
  <2>2. promised' = [w \in Wsids |-> IF w \in ws THEN Unknown ELSE promised[w]]
    BY <1>2 DEF Write
  <2>3. disk'.now = f /\ disk'.safe = disk.safe /\ DOMAIN disk' = {"now", "safe"}
    BY <2>1 DEF Inv, Shape
  <2>4. Shape'
    BY <2>1, <2>2, <2>3 DEF Changes, Inv, Shape, HasEntries
  <2>5. Served'
    BY <2>1, <2>2, <2>3 DEF Changes, Inv, Served
  <2> QED
    BY <2>4, <2>5 DEF Inv
<1>3. CASE out = "failed"
  <2>1. mem' = mem /\ disk' = disk
    BY <1>3 DEF Write
  <2>2. promised' = [w \in Wsids |-> promised[w]]
    BY <1>3 DEF Write
  <2> QED
    BY <2>1, <2>2 DEF Inv, Shape, HasEntries, Served
<1> QED
  BY <1>1, <1>2, <1>3 DEF Outcomes

LEMMA WithChanges == ASSUME Inv, NEW w, NEW e PROVE Changes(With(w, e), {w})
<1>1. With(w, e) = [mem EXCEPT !.entry = [mem.entry EXCEPT ![w] = e]]
  BY DEF With
<1>2. With(w, e).entry = [mem.entry EXCEPT ![w] = e] /\ "entry" \in DOMAIN With(w, e)
  BY <1>1 DEF Inv, Shape, HasEntries
<1> QED
  BY <1>2 DEF Changes, Inv, Shape, HasEntries

LEMMA SameStore == ASSUME Inv, UNCHANGED store PROVE Inv'
BY DEF store, Inv, Shape, HasEntries, Served

LEMMA MutateKeeps == ASSUME Inv, NEW w, NEW e, NEW out \in Outcomes, Possible(out), Mutate(w, e, out) PROVE Inv'
BY WithChanges, WriteKeeps, SameStore DEF Mutate, Put

LEMMA PutKeeps == ASSUME Inv, NEW w, NEW e, NEW out \in Outcomes, Possible(out), Put(w, e, out) PROVE Inv'
BY WithChanges, WriteKeeps DEF Put

\* Startup: the three writes that bring an older layout up to date.
LEMMA MigrateKeeps == ASSUME Inv, NEW w \in Wsids, NEW out \in Outcomes, Migrate(w, out) PROVE Inv'
<1> DEFINE e == [NewEntry EXCEPT !.resume = Legacy, !.view = 1, !.old = TRUE]
<1>1. Changes(Migrated(w), {w})
  <2>1. CASE ~restore
    BY <2>1 DEF Migrated, Changes, Inv, Shape, HasEntries
  <2>2. CASE restore
    <3> HIDE DEF e
    <3>1. Migrated(w) = [[mem EXCEPT !.entry = [mem.entry EXCEPT ![w] = e]] EXCEPT !.migrated = TRUE]
      BY <2>2 DEF Migrated, e
    <3>2. "entry" \in DOMAIN Migrated(w) /\ Migrated(w).entry = [mem.entry EXCEPT ![w] = e]
      BY <3>1 DEF Inv, Shape, HasEntries
    <3> QED
      BY <3>2 DEF Changes, Inv, Shape, HasEntries
  <2> QED
    BY <2>1, <2>2
<1> QED
  BY <1>1, WriteKeeps DEF Migrate

LEMMA FillKeeps == ASSUME Inv, NEW out \in Outcomes, Fill(out) PROVE Inv'
<1> DEFINE es == [w \in Wsids |-> IF w \in Fillable THEN [mem.entry[w] EXCEPT !.resume = Legacy] ELSE mem.entry[w]]
<1>1. "entry" \in DOMAIN mem
  BY DEF Inv, Shape, HasEntries
<1>2. "entry" \in DOMAIN Filled /\ Filled.entry = es
  BY <1>1 DEF Filled
<1>3. Changes(Filled, Fillable)
  BY <1>2 DEF Changes, HasEntries
<1> QED
  BY <1>3, WriteKeeps DEF Fill

LEMMA MarkKeeps == ASSUME Inv, NEW out \in Outcomes, Mark(out) PROVE Inv'
<1> DEFINE es == [w \in Wsids |-> IF w \in Dated THEN [mem.entry[w] EXCEPT !.old = TRUE] ELSE mem.entry[w]]
<1>1. "entry" \in DOMAIN mem
  BY DEF Inv, Shape, HasEntries
<1>2. "entry" \in DOMAIN Marked /\ Marked.entry = es
  BY <1>1 DEF Marked
<1>3. Changes(Marked, Dated)
  BY <1>2 DEF Changes, HasEntries
<1> QED
  BY <1>3, WriteKeeps DEF Mark

\* The next process finds one of the two files, or what Sync wrote last.
LEMMA RestartKeeps == ASSUME Inv, (\E out \in Outcomes : Shutdown(out)) \/ Crash \/ PowerCut PROVE Inv'
<1>1. CASE \E out \in Outcomes : Shutdown(out)
  <2>1. PICK out \in Outcomes, f \in {mem, disk.now} :
          mem' = f /\ promised' = promised /\ \E s \in {f, disk.safe} : disk' = [now |-> f, safe |-> s]
    BY <1>1 DEF Shutdown, Restarted
  <2> QED
    BY <2>1 DEF Inv, Shape, HasEntries, Served
<1>2. CASE Crash
  BY <1>2 DEF Crash, Restarted, Inv, Shape, HasEntries, Served
<1>3. CASE PowerCut
  <2>1. PICK f \in {disk.now, disk.safe} : mem' = f /\ promised' = promised /\ disk' = [now |-> f, safe |-> f]
    BY <1>3 DEF PowerCut, Restarted
  <2> QED
    BY <2>1 DEF Inv, Shape, HasEntries, Served
<1> QED
  BY <1>1, <1>2, <1>3

LEMMA InvInit == Init => Inv
<1> SUFFICES ASSUME Init PROVE Inv
  OBVIOUS
<1>1. PICK es, migrated : mem = File(es, migrated) /\ DOMAIN es = Wsids
  <2>1. PICK former \in SUBSET Wsids, dated \in BOOLEAN :
          mem = File([w \in Wsids |-> IF w \notin former THEN NoEntry
                                     ELSE [NewEntry EXCEPT !.view = IF dated /\ former = {w} THEN 1 ELSE 0]],
                     former # {})
    BY DEF Init
  <2> QED
    BY <2>1
<1>2. disk = [now |-> mem, safe |-> mem] /\ promised = mem.entry
  BY DEF Init
<1> QED
  BY <1>1, <1>2 DEF File, Inv, Shape, HasEntries, Served

LEMMA InvNext == Inv /\ [Next]_vars => Inv'
<1> SUFFICES ASSUME Inv, [Next]_vars PROVE Inv'
  OBVIOUS
<1>1. CASE UNCHANGED store
  BY <1>1, SameStore
<1>2. ASSUME NEW c \in Callers, NEW out \in Outcomes,
             \/ CreatePut(c, out) \/ CreateUndo(c, out) \/ NewReset(c, out) \/ RemoveTomb(c, out)
             \/ \E known \in BOOLEAN : StartIdentity(c, known, out)
      PROVE  Inv'
  BY <1>2, PutKeeps, MutateKeeps DEF CreatePut, CreateUndo, NewReset, RemoveTomb, StartIdentity
<1>3. ASSUME NEW w \in Wsids, NEW out \in Outcomes, InitWrite(w, out) \/ ClearLegacy(w, out) PROVE Inv'
  BY <1>3, MutateKeeps DEF InitWrite, ClearLegacy
<1>4. ASSUME NEW out \in Outcomes, SetLayout(out) PROVE Inv'
  <2>1. Changes(mem, {})
    BY DEF Changes, Inv, Shape
  <2> QED
    BY <1>4, <2>1, WriteKeeps DEF SetLayout
<1>5. CASE \E c \in Callers :
             \/ CreateEnter(c) \/ CreateReserve(c) \/ CommitCreate(c) \/ CommitCreateFails(c)
             \/ StartBegin(c) \/ StartFails(c) \/ StartAccept(c)
             \/ NewUnread(c) \/ RemoveTear(c) \/ RemoveRelease(c)
             \/ \E p \in {"fresh", "seen"} : Spawn(c, p)
             \/ \E w \in Wsids : StartRead(c, w) \/ NewBegin(c, w) \/ RemoveEnter(c, w)
  <2>1. UNCHANGED store
    BY <1>5
       DEF CreateEnter, CreateReserve, CommitCreate, CommitCreateFails, StartBegin, StartFails, StartAccept,
           NewUnread, RemoveTear, RemoveRelease, Spawn, StartRead, NewBegin, RemoveEnter
  <2> QED
    BY <2>1, SameStore
<1>6. CASE (\E w \in Wsids : InitSeen(w) \/ SessionEnds(w)) \/ Load \/ SkipFill \/ SkipMark
  <2>1. UNCHANGED store
    BY <1>6 DEF InitSeen, SessionEnds, Load, SkipFill, SkipMark
  <2> QED
    BY <2>1, SameStore
<1>7. CASE UNCHANGED vars
  BY <1>1, <1>7 DEF vars, store
<1> QED
  BY <1>2, <1>3, <1>4, <1>5, <1>6, <1>7, MigrateKeeps, FillKeeps, MarkKeeps, RestartKeeps DEF Next

(* persistOrRollback: what the store has acknowledged for a session is what a *)
(* restart finds, after the end of the process or of the machine, until a     *)
(* later write for that session; no failed write of another one slips in.     *)
THEOREM KeptHolds == Spec => []Kept
<1>1. Inv => Kept
  BY DEF Inv, Served, Kept
<1> QED
  BY <1>1, InvInit, InvNext, PTL DEF Spec

-----------------------------------------------------------------------------
(***************************************************************************)
(* With no two callers on one session: slots, entries and conversations.    *)
(***************************************************************************)
AnyConvs == {NoConv, Legacy} \cup [of : Wsids, view : Nat]
AnyEntries == [life : {"none", "live", "gone"}, resume : AnyConvs, view : Nat, old : BOOLEAN]
Files == [entry : [Wsids -> AnyEntries], migrated : BOOLEAN, filled : BOOLEAN, marked : BOOLEAN]

\* What FitsView asks of an entry, of two entries and of the file they are in, when the writes
\* of the backfill have come to what p says.  Only a backfill that is still to come, and none
\* of which failed, finds every session in its first view.
Past == [failed |-> unfilled, renewed |-> revived]
FitsAs(p, w, e) ==
    /\ e.resume # NoConv =>
            \/ e.resume = [of |-> w, view |-> e.view]
            \/ e.resume = Legacy /\ (e.view <= 1 \/ w \in p.renewed)
    /\ e.old => e.view = 1
Fits(p, f) ==
    /\ \A w \in Live(f) : FitsAs(p, w, f.entry[w])
    /\ \A v, w \in Live(f) : f.entry[v].resume = Legacy /\ f.entry[w].resume = Legacy => v = w
    /\ f.filled \/ p.failed \/ \A w \in Live(f) : f.entry[w].view <= 1
\* A file of the registry can be loaded, and a session of it resumed.
FileOK(p, f) ==
    /\ f \in Files
    /\ Cardinality(Live(f)) <= Cap
    /\ Fits(p, f)
FilesOK == FileOK(Past, mem) /\ FileOK(Past, disk.now) /\ FileOK(Past, disk.safe) /\ DOMAIN disk = {"now", "safe"}

\* The conversation k is one that session w may record now.
Suits(w, k) ==
    w \in Live(mem) =>
        /\ k \in {NoConv, Legacy, [of |-> w, view |-> mem.entry[w].view]}
        /\ k = Legacy <=> mem.entry[w].resume = Legacy

Stations == {"idle", "create", "put", "commit", "undo", "begin", "spawn", "accept", "identity",
             "reset", "remove", "tomb", "release"}
Types ==
    /\ slot \in [Wsids -> {"none", "reserved", "idle", "starting", "active", "resetting"}]
    /\ conv \in [Wsids -> AnyConvs]
    /\ pump \in [Wsids -> {"none", "fresh", "seen", "checked"}]
    /\ tx \in [Callers -> [pc : Stations, w : Wsids \cup {Nobody}, conv : AnyConvs]]
    /\ latched \in BOOLEAN /\ restore \in BOOLEAN /\ degraded \in BOOLEAN
    /\ unfilled \in BOOLEAN
    /\ phase \in {"load", "unwired", "fill", "mark", "up"}
    /\ faults \in Nat

SlotsAt(pc) ==
    CASE pc \in {"put", "commit", "undo"} -> {"reserved"}
      [] pc \in {"spawn", "accept"} -> {"starting"}
      [] pc = "reset" -> {"resetting"}
      [] pc \in {"tomb", "release"} -> {"idle"}
      [] OTHER -> {"idle", "active", "reserved"}

\* What each caller can rely on for the session it uses.
Relies(c) ==
    LET w == tx[c].w
        pc == tx[c].pc
    IN  /\ pc \in {"idle", "create"} <=> w = Nobody
        /\ phase # "up" => pc = "idle"
        /\ w # Nobody => slot[w] \in SlotsAt(pc)
        /\ pc = "spawn" => pump[w] = "none"
        /\ pc \in {"begin", "spawn", "accept", "identity"} => Suits(w, tx[c].conv)
        /\ pc \in {"accept", "identity"} /\ pump[w] # "none" => tx[c].conv = conv[w]
        /\ pc \in {"put", "release"} /\ ~latched => w \notin Live(mem)
        /\ pc = "commit" => w \in Live(mem)

UsedAt(w, pcs) == \E c \in Callers : tx[c].w = w /\ tx[c].pc \in pcs

\* Slot, entry and conversation of one session.
Agrees(w) ==
    /\ phase \in {"load", "unwired"} => slot[w] = "none"
    /\ phase # "up" => slot[w] \in {"none", "idle"}
    /\ slot[w] = "starting" => UsedAt(w, {"spawn", "accept"})
    /\ slot[w] = "resetting" => UsedAt(w, {"reset"})
    /\ pump[w] # "none" => slot[w] \in {"starting", "active"} /\ Suits(w, conv[w])
    /\ phase \in {"fill", "mark", "up"} /\ ~latched =>
        /\ Committed(w) /\ ~UsedAt(w, {"release"}) => w \in Live(mem)
        /\ w \in Live(mem) =>
            Committed(w) \/ (slot[w] = "reserved" /\ (degraded \/ UsedAt(w, {"commit", "undo"})))
    /\ slot[w] = "active" /\ pump[w] = "seen" /\ faults = 0 /\ w \in Live(mem) =>
        UsedAt(w, {"identity"}) \/ mem.entry[w].resume = conv[w]

OneUser == \A c, d \in Callers : tx[c].w = tx[d].w /\ tx[c].w # Nobody => c = d
Bounded ==
    /\ Cardinality(Occupied) <= Cap
    /\ latched => faults > 0
    /\ phase \in {"mark", "up"} /\ ~latched => mem.filled \/ unfilled

IInv ==
    /\ Types /\ FilesOK /\ OneUser /\ Bounded
    /\ \A c \in Callers : Relies(c)
    /\ \A w \in Wsids : Agrees(w)

-----------------------------------------------------------------------------
(* Files. *)
LEMMA FileRows ==
  /\ IsFiniteSet(Wsids)
  /\ Nobody \notin Wsids /\ Cap \in Nat /\ Cap > 0
  /\ NoConv \in AnyConvs /\ Legacy \in AnyConvs /\ NoConv # Legacy
  /\ \A w \in Wsids, n \in Nat : /\ [of |-> w, view |-> n] \in AnyConvs
                                 /\ [of |-> w, view |-> n] # NoConv /\ [of |-> w, view |-> n] # Legacy
  /\ NoEntry \in AnyEntries /\ NewEntry \in AnyEntries /\ NoEntry.life = "none" /\ NewEntry.life = "live"
  /\ NewEntry.resume = NoConv /\ NewEntry.view = 0 /\ NewEntry.old = FALSE
<1>1. IsFiniteSet(Wsids) /\ Nobody \notin Wsids /\ "none" \notin Wsids /\ "legacy" \notin Wsids /\ Cap \in Nat /\ Cap > 0
  BY BoundsAssumption DEF BoundsAssumption, Nobody
<1>2. NoConv \in AnyConvs /\ Legacy \in AnyConvs /\ NoConv # Legacy
  BY DEF AnyConvs, NoConv, Legacy
<1>3. ASSUME NEW w \in Wsids, NEW n \in Nat
      PROVE  /\ [of |-> w, view |-> n] \in AnyConvs
             /\ [of |-> w, view |-> n] # NoConv /\ [of |-> w, view |-> n] # Legacy
  BY <1>1 DEF AnyConvs, NoConv, Legacy
<1>4. NoEntry \in AnyEntries /\ NewEntry \in AnyEntries /\ NoEntry.life = "none" /\ NewEntry.life = "live"
  BY <1>2 DEF NoEntry, NewEntry, AnyEntries
<1>5. NewEntry.resume = NoConv /\ NewEntry.view = 0 /\ NewEntry.old = FALSE
  BY DEF NoEntry, NewEntry
<1> QED
  BY <1>1, <1>2, <1>3, <1>4, <1>5

LEMMA WithFields ==
  ASSUME mem \in Files, NEW w \in Wsids, NEW e \in AnyEntries
  PROVE  /\ With(w, e) \in Files
         /\ With(w, e).entry[w] = e
         /\ \A v \in Wsids \ {w} : With(w, e).entry[v] = mem.entry[v]
         /\ With(w, e).filled = mem.filled
BY DEF Files, With

LEMMA LiveFinite ==
  ASSUME NEW f, NEW S \in SUBSET Wsids, Live(f) \subseteq S
  PROVE  IsFiniteSet(S) /\ Cardinality(S) \in Nat /\ Cardinality(Live(f)) \in Nat /\ Cardinality(Live(f)) <= Cardinality(S)
<1>1. IsFiniteSet(S)
  BY FileRows, FS_Subset
<1> QED
  BY <1>1, FS_Subset, FS_CardinalityType

LEMMA PastGrows ==
  ASSUME NEW p, NEW q, p.failed => q.failed, p.renewed \subseteq q.renewed, NEW f, FileOK(p, f)
  PROVE  FileOK(q, f)
<1>1. \A w, e : FitsAs(p, w, e) => FitsAs(q, w, e)
  BY DEF FitsAs
<1>2. Fits(q, f)
  BY <1>1 DEF Fits, FileOK, Live
<1> QED
  BY <1>2 DEF FileOK

LEMMA SameFills ==
  ASSUME UNCHANGED fills
  PROVE  UNCHANGED <<restore, unfilled, revived>> /\ Past' = Past
BY DEF fills, Past

LEMMA FilesWritten ==
  ASSUME FilesOK, NEW f, NEW ws, NEW out \in Outcomes, Possible(out), Write(f, ws, out),
         ~latched => FileOK(Past', f), \A g : FileOK(Past, g) => FileOK(Past', g)
  PROVE  /\ FilesOK'
         /\ mem' = IF out = "failed" THEN mem ELSE f
         /\ out # "failed" => ~latched
         /\ latched' = (latched \/ out = "unsynced")
         /\ faults' = (IF out = "ok" \/ latched THEN faults ELSE faults + 1)
<1>1. out # "failed" => ~latched
  BY DEF Possible
<1>2. mem' = IF out = "failed" THEN mem ELSE f
  BY DEF Write
<1>3. CASE out = "ok"
  <2>1. mem' = f /\ disk' = [now |-> f, safe |-> f]
    BY <1>3 DEF Write
  <2> QED
    BY <1>1, <1>2, <1>3, <2>1 DEF Write, FilesOK
<1>4. CASE out = "unsynced"
  <2>1. disk'.now = f /\ disk'.safe = disk.safe /\ DOMAIN disk' = {"now", "safe"}
    BY <1>4 DEF Write, FilesOK
  <2> QED
    BY <1>1, <1>2, <1>4, <2>1 DEF Write, FilesOK
<1>5. CASE out = "failed"
  <2>1. disk' = disk
    BY <1>5 DEF Write
  <2> QED
    BY <1>1, <1>2, <1>5, <2>1 DEF Write, FilesOK
<1> QED
  BY <1>3, <1>4, <1>5 DEF Outcomes

(* One entry is rewritten. *)
Welcome(w, e) ==
  e.life = "live" =>
    /\ w \in Live(mem) \/ Cardinality(Live(mem) \cup {w}) <= Cap
    /\ FitsAs(Past, w, e)
    /\ e.resume = Legacy => w \in Live(mem) /\ mem.entry[w].resume = Legacy
    /\ mem.filled \/ unfilled \/ e.view <= 1

LEMMA FileWith ==
  ASSUME FileOK(Past, mem), NEW w \in Wsids, NEW e \in AnyEntries, Welcome(w, e)
  PROVE  FileOK(Past, With(w, e))
<1> DEFINE f == With(w, e)
<1>1. mem \in Files
  BY DEF FileOK
<1>2. /\ f \in Files /\ f.entry[w] = e /\ f.filled = mem.filled
      /\ \A v \in Wsids \ {w} : f.entry[v] = mem.entry[v]
  BY <1>1, WithFields
<1> HIDE DEF f
<1>3. Cardinality(Live(f)) <= Cap
  <2>1. CASE e.life = "live" /\ w \notin Live(mem)
    <3>1. Live(f) \subseteq Live(mem) \cup {w} /\ Live(mem) \cup {w} \in SUBSET Wsids
      BY <1>2 DEF Live
    <3> QED
      BY <2>1, <3>1, LiveFinite, FileRows DEF Welcome
  <2>2. CASE ~(e.life = "live" /\ w \notin Live(mem))
    <3>1. Live(f) \subseteq Live(mem) /\ Live(mem) \in SUBSET Wsids
      BY <1>2, <2>2 DEF Live
    <3> QED
      BY <3>1, LiveFinite, FileRows DEF FileOK
  <2> QED
    BY <2>1, <2>2
<1>4. Fits(Past, f)
  <2>1. \A v \in Wsids : v \in Live(f) <=> f.entry[v].life = "live"
    BY DEF Live
  <2>2. \A v \in Wsids : v \in Live(mem) <=> mem.entry[v].life = "live"
    BY DEF Live
  <2>3. Live(f) \subseteq Wsids /\ Fits(Past, mem)
    BY DEF Live, FileOK
  <2>4. Past.failed = unfilled
    BY DEF Past
  <2> QED
    BY <1>2, <2>1, <2>2, <2>3, <2>4 DEF Fits, Welcome
<1> QED
  BY <1>2, <1>3, <1>4 DEF FileOK, f

(* Put of an entry that is welcome, and Mutate. *)
Rewritten(w, e, out) ==
  /\ FilesOK'
  /\ \A v \in Wsids \ {w} : mem'.entry[v] = mem.entry[v]
  /\ mem'.entry[w] = IF out = "failed" THEN mem.entry[w] ELSE e
  /\ mem'.filled = mem.filled
  /\ out # "failed" => ~latched
  /\ latched' = (latched \/ out = "unsynced")
  /\ faults' = IF out = "ok" \/ latched THEN faults ELSE faults + 1

LEMMA PutRewrites ==
  ASSUME FilesOK, NEW w \in Wsids, NEW e \in AnyEntries, NEW out \in Outcomes, Possible(out),
         Put(w, e, out), Past' = Past,
         ~latched => Welcome(w, e)
  PROVE  Rewritten(w, e, out)
<1>1. mem \in Files /\ FileOK(Past, mem)
  BY DEF FilesOK, FileOK
<1>2. ~latched => FileOK(Past, With(w, e))
  BY <1>1, FileWith
<1>3. FilesOK' /\ mem' = (IF out = "failed" THEN mem ELSE With(w, e)) /\ (out # "failed" => ~latched)
      /\ latched' = (latched \/ out = "unsynced") /\ faults' = (IF out = "ok" \/ latched THEN faults ELSE faults + 1)
  BY <1>2, FilesWritten DEF Put
<1> QED
  BY <1>1, <1>3, WithFields DEF Rewritten

LEMMA MutateRewrites ==
  ASSUME FilesOK, NEW w \in Wsids, NEW e \in AnyEntries, NEW out \in Outcomes, Possible(out),
         Mutate(w, e, out), Past' = Past,
         w \in Live(mem) /\ ~latched => Welcome(w, e)
  PROVE  \/ w \in Live(mem) /\ Rewritten(w, e, out)
         \/ w \notin Live(mem) /\ UNCHANGED <<store, faults>> /\ FilesOK'
<1>1. CASE w \in Live(mem)
  <2>1. Put(w, e, out)
    BY <1>1 DEF Mutate, Live
  <2> QED
    BY <1>1, <2>1, PutRewrites
<1>2. CASE w \notin Live(mem)
  <2>1. UNCHANGED <<store, faults>>
    BY <1>2 DEF Mutate, Live
  <2> QED
    BY <1>2, <2>1 DEF store, FilesOK
<1> QED
  BY <1>1, <1>2

-----------------------------------------------------------------------------
(* A step that concerns one session, and the callers that use it. *)
Elsewhere(w) ==
  /\ \A v \in Wsids \ {w} : /\ slot'[v] = slot[v] /\ conv'[v] = conv[v] /\ pump'[v] = pump[v]
                            /\ mem'.entry[v] = mem.entry[v]
  /\ phase' = phase
  /\ latched => latched'
  /\ degraded => degraded'
  /\ faults' = 0 => faults = 0

LEMMA SessionLocal ==
  ASSUME IInv, NEW w \in Wsids \cup {Nobody}, Elsewhere(w), w \in Wsids => Agrees(w)',
         \A d \in Callers : \/ tx'[d] = tx[d] /\ (tx[d].w = Nobody \/ tx[d].w # w)
                            \/ {tx[d].w, tx'[d].w} \subseteq {w, Nobody} /\ Relies(d)'
  PROVE  (\A d \in Callers : Relies(d)') /\ (\A v \in Wsids : Agrees(v)')
<1>1. tx \in [Callers -> [pc : Stations, w : Wsids \cup {Nobody}, conv : AnyConvs]] /\ Nobody \notin Wsids
  BY FileRows DEF IInv, Types
<1>3. ASSUME NEW v \in Wsids \ {w}, NEW pcs PROVE UsedAt(v, pcs)' <=> UsedAt(v, pcs)
  BY <1>1, <1>3 DEF UsedAt
<1>4. ASSUME NEW v \in Wsids \ {w} PROVE (v \in Live(mem))' <=> v \in Live(mem)
  BY <1>4 DEF Live, Elsewhere
<1>5. ASSUME NEW d \in Callers, tx'[d] = tx[d], tx[d].w = Nobody \/ tx[d].w # w PROVE Relies(d)'
  <2>1. CASE tx[d].w = Nobody
    <3>1. tx[d].pc \in {"idle", "create"} /\ Relies(d)
      BY <2>1 DEF IInv, Relies
    <3> QED
      BY <1>5, <2>1, <3>1 DEF Relies, Elsewhere
  <2>2. CASE tx[d].w \in Wsids \ {w}
    <3> PICK v \in Wsids \ {w} : v = tx[d].w
      BY <2>2
    <3>1. Suits(v, tx[d].conv)' <=> Suits(v, tx[d].conv)
      BY <1>5, <2>2 DEF Suits, Elsewhere, Live
    <3> QED
      BY <1>4, <1>5, <2>2, <3>1 DEF IInv, Relies, Elsewhere
  <2> QED
    BY <1>1, <1>5, <2>1, <2>2
<1>6. ASSUME NEW v \in Wsids \ {w} PROVE Agrees(v)'
  <2>1. Suits(v, conv[v])' <=> Suits(v, conv[v])
    BY <1>6 DEF Suits, Elsewhere, Live
  <2>2. Committed(v)' <=> Committed(v)
    BY <1>6 DEF Committed, Elsewhere
  <2> QED
    BY <1>3, <1>4, <1>6, <2>1, <2>2 DEF IInv, Agrees, Elsewhere
<1> QED
  BY <1>5, <1>6

TxRows == [pc : Stations, w : Wsids \cup {Nobody}, conv : AnyConvs]

LEMMA CallerKeeps ==
  ASSUME IInv, Types', FilesOK', Bounded', NEW c \in Callers, NEW w \in Wsids \cup {Nobody}, NEW r \in TxRows,
         tx' = [tx EXCEPT ![c] = r], {tx[c].w, r.w} \subseteq {w, Nobody},
         \A d \in Callers \ {c} : tx[d].w = Nobody \/ tx[d].w # w,
         Elsewhere(w), Relies(c)', w \in Wsids => Agrees(w)'
  PROVE  IInv'
<1>1. tx \in [Callers -> TxRows]
  BY DEF IInv, Types, TxRows
<1>2. OneUser'
  BY <1>1 DEF IInv, OneUser
<1>3. \A d \in Callers : \/ tx'[d] = tx[d] /\ (tx[d].w = Nobody \/ tx[d].w # w)
                         \/ {tx[d].w, tx'[d].w} \subseteq {w, Nobody} /\ Relies(d)'
  BY <1>1
<1>4. (\A d \in Callers : Relies(d)') /\ (\A v \in Wsids : Agrees(v)')
  BY <1>3, SessionLocal
<1> QED
  BY <1>2, <1>4 DEF IInv

(* The provider's side: no caller moves. *)
LEMMA ProviderKeeps ==
  ASSUME IInv, Types', FilesOK', Bounded', NEW w \in Wsids, UNCHANGED tx, Elsewhere(w), Agrees(w)',
         \A d \in Callers : tx[d].w = w => Relies(d)'
  PROVE  IInv'
<1>1. tx \in [Callers -> TxRows]
  BY DEF IInv, Types, TxRows
<1>2. OneUser'
  BY DEF IInv, OneUser
<1>3. \A d \in Callers : \/ tx'[d] = tx[d] /\ (tx[d].w = Nobody \/ tx[d].w # w)
                         \/ {tx[d].w, tx'[d].w} \subseteq {w, Nobody} /\ Relies(d)'
  OBVIOUS
<1>4. (\A d \in Callers : Relies(d)') /\ (\A v \in Wsids : Agrees(v)')
  BY <1>3, SessionLocal
<1> QED
  BY <1>2, <1>4 DEF IInv

LEMMA BoundedKept ==
  ASSUME IInv, Types', Occupied' \subseteq Occupied, phase' = phase, mem'.filled = mem.filled, unfilled' = unfilled,
         \/ latched' = latched /\ faults' = faults
         \/ \E out \in Outcomes : /\ latched' = (latched \/ out = "unsynced")
                                  /\ faults' = IF out = "ok" \/ latched THEN faults ELSE faults + 1
  PROVE  Bounded'
<1>1. Cardinality(Occupied') <= Cap
  <2>1. Occupied \subseteq Wsids /\ IsFiniteSet(Wsids) /\ Cap \in Nat
    BY FileRows DEF Occupied
  <2>2. IsFiniteSet(Occupied) /\ Cardinality(Occupied) <= Cap
    BY <2>1, FS_Subset DEF IInv, Bounded
  <2>3. IsFiniteSet(Occupied') /\ Cardinality(Occupied') <= Cardinality(Occupied)
    BY <2>2, FS_Subset
  <2> QED
    BY <2>1, <2>2, <2>3, FS_CardinalityType
<1>2. latched' => faults' > 0
  <2>1. faults \in Nat /\ latched \in BOOLEAN /\ (latched => faults > 0)
    BY DEF IInv, Bounded, Types
  <2>2. ASSUME NEW out \in Outcomes, latched' = (latched \/ out = "unsynced"),
               faults' = IF out = "ok" \/ latched THEN faults ELSE faults + 1, latched'
        PROVE  faults' > 0
    <3>1. latched \/ out = "unsynced"
      BY <2>2
    <3> QED
      BY <2>1, <2>2, <3>1
  <2> QED
    BY <2>1, <2>2
<1> QED
  BY <1>1, <1>2 DEF IInv, Bounded, Types

LEMMA Users ==
  ASSUME IInv, NEW c \in Callers, tx[c].pc \notin {"idle", "create"}
  PROVE  /\ tx[c].w \in Wsids /\ tx[c].w # Nobody /\ phase = "up"
         /\ \A d \in Callers \ {c} : tx[d].w # tx[c].w
         /\ \A pcs : UsedAt(tx[c].w, pcs) <=> tx[c].pc \in pcs
         /\ slot[tx[c].w] \in SlotsAt(tx[c].pc)
<1>1. tx \in [Callers -> TxRows] /\ Nobody \notin Wsids
  BY FileRows DEF IInv, Types, TxRows
<1>2. tx[c].w \in Wsids /\ tx[c].w # Nobody /\ phase = "up" /\ slot[tx[c].w] \in SlotsAt(tx[c].pc)
  BY <1>1 DEF IInv, Relies, TxRows
<1>3. \A d \in Callers \ {c} : tx[d].w # tx[c].w
  BY <1>2 DEF IInv, OneUser
<1> QED
  BY <1>2, <1>3 DEF UsedAt

LEMMA NextUse ==
  ASSUME IInv, NEW c \in Callers, NEW w \in Wsids, NEW r, tx' = [tx EXCEPT ![c] = r],
         \A d \in Callers \ {c} : tx[d].w = Nobody \/ tx[d].w # w
  PROVE  /\ \A pcs : UsedAt(w, pcs)' <=> r.w = w /\ r.pc \in pcs
         /\ tx'[c] = r
<1>1. tx \in [Callers -> TxRows] /\ Nobody \notin Wsids
  BY FileRows DEF IInv, Types, TxRows
<1> QED
  BY <1>1 DEF UsedAt


LEMMA IdleUse ==
  ASSUME IInv, NEW c \in Callers, NEW w \in Wsids, w = tx[c].w, Done(c)
  PROVE  /\ tx' = [tx EXCEPT ![c] = Idle] /\ tx'[c] = Idle
         /\ \A pcs : ~UsedAt(w, pcs)'
<1>1. tx \in [Callers -> TxRows] /\ Idle.w # w
  BY FileRows DEF IInv, Types, TxRows, Idle
<1>2. tx' = [tx EXCEPT ![c] = Idle]
  BY <1>1 DEF Done
<1>3. \A d \in Callers \ {c} : tx[d].w # w
  BY FileRows DEF IInv, OneUser
<1>4. \A pcs : ~UsedAt(w, pcs)'
  BY <1>1, <1>2, <1>3 DEF UsedAt
<1> QED
  BY <1>1, <1>2, <1>4

(* A step of a caller that writes nothing. *)
LEMMA CallerMoves ==
  ASSUME IInv, NEW c \in Callers, NEW w \in Wsids \cup {Nobody}, NEW r \in TxRows,
         tx' = [tx EXCEPT ![c] = r], {tx[c].w, r.w} \subseteq {w, Nobody},
         \A d \in Callers \ {c} : tx[d].w = Nobody \/ tx[d].w # w,
         UNCHANGED <<store, world, degraded, faults>>,
         UNCHANGED slot \/ \E s \in {"none", "idle", "starting", "active", "resetting"} : slot' = [slot EXCEPT ![w] = s],
         UNCHANGED conv \/ \E k \in AnyConvs : conv' = [conv EXCEPT ![w] = k],
         UNCHANGED pump \/ \E p \in {"none", "fresh", "seen"} : pump' = [pump EXCEPT ![w] = p],
         UNCHANGED slot \/ slot[w] # "none",
         Relies(c)', w \in Wsids => Agrees(w)'
  PROVE  IInv'
<1>1. /\ tx \in [Callers -> TxRows]
      /\ slot \in [Wsids -> {"none", "reserved", "idle", "starting", "active", "resetting"}]
      /\ conv \in [Wsids -> AnyConvs] /\ pump \in [Wsids -> {"none", "fresh", "seen", "checked"}]
  BY DEF IInv, Types, TxRows
<1>2. slot' \in [Wsids -> {"none", "reserved", "idle", "starting", "active", "resetting"}]
  BY <1>1
<1>3. conv' \in [Wsids -> AnyConvs] /\ pump' \in [Wsids -> {"none", "fresh", "seen", "checked"}]
  BY <1>1
<1>4. Types'
  BY <1>1, <1>2, <1>3 DEF IInv, Types, TxRows, store, world, fills
<1>5. FilesOK'
  BY SameFills DEF IInv, FilesOK, store, world
<1>6. Occupied' \subseteq Occupied
  BY <1>1 DEF Occupied
<1>7. Bounded'
  BY <1>4, <1>6, BoundedKept DEF store, world, fills
<1>8. Elsewhere(w)
  BY <1>1 DEF Elsewhere, store, world, fills
<1> QED
  BY <1>4, <1>5, <1>7, <1>8, CallerKeeps

LEMMA IdleRow ==
  Idle \in TxRows /\ Idle.w = Nobody /\ Idle.pc = "idle" /\ Nobody \notin Wsids
BY FileRows DEF Idle, TxRows, Stations

LEMMA GotoRow ==
  ASSUME IInv, NEW c \in Callers, NEW pc \in Stations, Goto(c, pc)
  PROVE  \E r \in TxRows : /\ tx' = [tx EXCEPT ![c] = r]
                           /\ r.pc = pc /\ r.w = tx[c].w /\ r.conv = tx[c].conv
<1>1. [tx[c] EXCEPT !.pc = pc] \in TxRows
  BY DEF IInv, Types, TxRows
<1>2. /\ [tx[c] EXCEPT !.pc = pc].pc = pc
      /\ [tx[c] EXCEPT !.pc = pc].w = tx[c].w
      /\ [tx[c] EXCEPT !.pc = pc].conv = tx[c].conv
  BY DEF IInv, Types, TxRows
<1>3. tx' = [tx EXCEPT ![c] = [tx[c] EXCEPT !.pc = pc]]
  BY DEF IInv, Types, TxRows, Goto
<1> QED
  BY <1>1, <1>2, <1>3

LEMMA DoneRow ==
  ASSUME IInv, NEW c \in Callers
  PROVE  /\ tx \in [Callers -> TxRows] /\ tx[c] \in TxRows
         /\ tx[c].w \notin Wsids => tx[c].w = Nobody
         /\ Done(c) => tx' = [tx EXCEPT ![c] = Idle]
BY DEF IInv, Types, TxRows, Done
-----------------------------------------------------------------------------
(* createSession. *)
LEMMA CreateEnterKeeps ==
  ASSUME IInv, NEW c \in Callers, CreateEnter(c)
  PROVE  IInv'
<1>1. PICK r \in TxRows : tx' = [tx EXCEPT ![c] = r] /\ r.pc = "create" /\ r.w = tx[c].w
  <2>1. Goto(c, "create") /\ "create" \in Stations
    BY DEF CreateEnter, Stations
  <2> QED
    BY <2>1, GotoRow
<1>2. phase = "up" /\ tx[c].pc = "idle" /\ tx[c].w = Nobody /\ Nobody \notin Wsids
  BY FileRows DEF CreateEnter, At, IInv, Relies
<1>3. tx'[c] = r
  BY <1>1, DoneRow
<1>4. Relies(c)'
  BY <1>1, <1>2, <1>3 DEF CreateEnter, Relies, world, fills
<1>5. \A d \in Callers \ {c} : tx[d].w = Nobody \/ tx[d].w # Nobody
  OBVIOUS
<1> QED
  BY <1>1, <1>2, <1>4, <1>5, CallerMoves DEF CreateEnter, live

LEMMA CreateReserveKeeps ==
  ASSUME IInv, NEW c \in Callers, CreateReserve(c)
  PROVE  IInv'
<1>1. phase = "up" /\ tx[c].pc = "create" /\ tx[c].w = Nobody /\ Nobody \notin Wsids
  BY FileRows DEF CreateReserve, At, IInv, Relies
<1>2. CASE Cardinality(Occupied) >= Cap
  <2>1. Done(c) /\ UNCHANGED slot
    BY <1>2 DEF CreateReserve
  <2>2. tx' = [tx EXCEPT ![c] = Idle] /\ tx'[c] = Idle
    BY <2>1, DoneRow
  <2>3. Relies(c)'
    BY <1>1, <2>1, <2>2, IdleRow DEF CreateReserve, Relies, world, fills
  <2>4. \A d \in Callers \ {c} : tx[d].w = Nobody \/ tx[d].w # Nobody
    OBVIOUS
  <2> QED
    BY <1>1, <2>1, <2>2, <2>3, <2>4, IdleRow, CallerMoves DEF CreateReserve
<1>3. CASE ~(Cardinality(Occupied) >= Cap)
  <2>1. PICK w \in Wsids \ Occupied :
           /\ ~Drawn(w)
           /\ slot' = [slot EXCEPT ![w] = "reserved"]
           /\ tx' = [tx EXCEPT ![c].pc = "put", ![c].w = w]
    BY <1>3 DEF CreateReserve
  <2>2. tx \in [Callers -> TxRows]
    BY DoneRow
  <2> PICK r : r = [tx[c] EXCEPT !.pc = "put", !.w = w]
    OBVIOUS
  <2>3. r \in TxRows /\ r.pc = "put" /\ r.w = w /\ tx' = [tx EXCEPT ![c] = r]
    BY <2>1, <2>2 DEF TxRows, Stations
  <2>4. slot[w] = "none" /\ pump[w] = "none" /\ w # Nobody
    BY <1>1, <2>1 DEF Occupied, IInv, Agrees
  <2>5. \A d \in Callers \ {c} : tx[d].w = Nobody \/ tx[d].w # w
    BY <2>4 DEF IInv, Relies, SlotsAt
  <2>6. w \notin Live(mem)
    BY <2>1 DEF Live, Drawn
  <2>7. slot'[w] = "reserved" /\ tx'[c] = r /\ (\A pcs : UsedAt(w, pcs)' <=> r.pc \in pcs)
    <3>1. slot'[w] = "reserved" /\ tx'[c] = r
      BY <2>1, <2>2, <2>3 DEF IInv, Types
    <3>2. \A pcs : UsedAt(w, pcs)' <=> r.w = w /\ r.pc \in pcs
      BY <2>2, <2>3, <2>4, <2>5 DEF UsedAt
    <3> QED
      BY <2>3, <3>1, <3>2
  <2>8. UNCHANGED <<mem, conv, pump, phase, latched, unfilled, degraded, faults>>
    BY DEF CreateReserve, store, world, fills
  <2>9. Relies(c)'
    BY <1>1, <2>3, <2>4, <2>6, <2>7, <2>8 DEF Relies, SlotsAt, Live
  <2>10. Agrees(w)'
    BY <1>1, <2>4, <2>6, <2>7, <2>8 DEF Agrees, Committed, Live
  <2>11. Types'
    <3>1. slot' \in [Wsids -> {"none", "reserved", "idle", "starting", "active", "resetting"}]
      BY <2>1 DEF IInv, Types
    <3>2. tx' \in [Callers -> TxRows]
      BY <2>2, <2>3
    <3> QED
      BY <2>8, <3>1, <3>2 DEF IInv, Types, TxRows, CreateReserve, world, fills
  <2>12. FilesOK'
    BY SameFills DEF IInv, FilesOK, store, world, CreateReserve
  <2>13. Bounded'
    <3>1. Occupied \subseteq Wsids /\ IsFiniteSet(Wsids) /\ Cap \in Nat
      BY FileRows DEF Occupied
    <3>2. IsFiniteSet(Occupied) /\ Cardinality(Occupied) \in Nat
      BY <3>1, FS_Subset, FS_CardinalityType
    <3>3. Occupied' = Occupied \cup {w}
      BY <2>1 DEF Occupied, IInv, Types
    <3>4. Cardinality(Occupied') = Cardinality(Occupied) + 1
      BY <2>1, <3>2, <3>3, FS_AddElement
    <3> QED
      BY <1>3, <2>8, <3>1, <3>2, <3>4 DEF IInv, Bounded
  <2>14. Elsewhere(w)
    BY <2>1, <2>8 DEF Elsewhere, IInv, Types
  <2> QED
    BY <1>1, <2>3, <2>5, <2>9, <2>10, <2>11, <2>12, <2>13, <2>14, CallerKeeps
<1> QED
  BY <1>2, <1>3

LEMMA CommitCreateKeeps ==
  ASSUME IInv, NEW c \in Callers, CommitCreate(c)
  PROVE  IInv'
<1> PICK w : w = tx[c].w
  OBVIOUS
<1>1. tx[c].pc = "commit"
  BY DEF CommitCreate, At
<1>2. w \in Wsids /\ w # Nobody /\ phase = "up" /\ slot[w] = "reserved"
      /\ (\A d \in Callers \ {c} : tx[d].w # w) /\ ~UsedAt(w, {"identity"}) /\ w \in Live(mem)
  BY <1>1, Users DEF SlotsAt, IInv, Relies
<1>3. tx' = [tx EXCEPT ![c] = Idle] /\ tx'[c] = Idle /\ (\A pcs : ~UsedAt(w, pcs)')
  BY <1>2, IdleUse DEF CommitCreate
<1>4. slot' = [slot EXCEPT ![w] = "idle"] /\ slot'[w] = "idle"
  BY <1>2 DEF CommitCreate, IInv, Types
<1>5. UNCHANGED <<mem, conv, pump, phase, latched, degraded, faults>>
  BY DEF CommitCreate, store, world, fills
<1>6. Relies(c)'
  BY <1>2, <1>3, <1>5, IdleRow DEF Relies
<1>7. Agrees(w)'
  <2>1. pump[w] = "none"
    BY <1>2 DEF IInv, Agrees
  <2> QED
    BY <1>2, <1>3, <1>4, <1>5, <2>1 DEF Agrees, Committed, Live
<1>8. \E s \in {"none", "idle", "starting", "active", "resetting"} : slot' = [slot EXCEPT ![w] = s]
  BY <1>4
<1> QED
  BY <1>2, <1>3, <1>5, <1>6, <1>7, <1>8, IdleRow, CallerMoves DEF CommitCreate
LEMMA GotoUse ==
  ASSUME IInv, NEW c \in Callers, NEW w \in Wsids, w = tx[c].w, NEW pc \in Stations, Goto(c, pc)
  PROVE  \E r \in TxRows : /\ tx' = [tx EXCEPT ![c] = r] /\ tx'[c] = r
                           /\ r.pc = pc /\ r.w = w /\ r.conv = tx[c].conv
                           /\ \A pcs : UsedAt(w, pcs)' <=> pc \in pcs
<1>1. PICK r \in TxRows : tx' = [tx EXCEPT ![c] = r] /\ r.pc = pc /\ r.w = w /\ r.conv = tx[c].conv
  BY GotoRow
<1>2. tx \in [Callers -> TxRows]
  BY DoneRow
<1>3. \A d \in Callers \ {c} : tx[d].w # w
  BY FileRows DEF IInv, OneUser
<1>4. \A pcs : UsedAt(w, pcs)' <=> pc \in pcs
  BY <1>1, <1>2, <1>3 DEF UsedAt
<1> QED
  BY <1>1, <1>2, <1>4

LEMMA CommitCreateFailsKeeps ==
  ASSUME IInv, NEW c \in Callers, CommitCreateFails(c)
  PROVE  IInv'
<1> PICK w : w = tx[c].w
  OBVIOUS
<1>1. tx[c].pc = "commit" /\ "undo" \in Stations
  BY DEF CommitCreateFails, At, Stations
<1>2. w \in Wsids /\ w # Nobody /\ phase = "up" /\ slot[w] = "reserved"
      /\ (\A d \in Callers \ {c} : tx[d].w # w) /\ w \in Live(mem)
  BY <1>1, Users DEF SlotsAt, IInv, Relies
<1>3. PICK r \in TxRows : /\ tx' = [tx EXCEPT ![c] = r] /\ tx'[c] = r /\ r.pc = "undo" /\ r.w = w
                          /\ \A pcs : UsedAt(w, pcs)' <=> "undo" \in pcs
  BY <1>1, <1>2, GotoUse DEF CommitCreateFails
<1>4. UNCHANGED <<mem, disk, slot, conv, pump, phase, latched, degraded, restore, unfilled, revived>>
      /\ faults' = faults + 1 /\ faults \in Nat
  BY DEF CommitCreateFails, store, live, world, fills, IInv, Types
<1>5. Relies(c)'
  BY <1>2, <1>3, <1>4 DEF Relies, SlotsAt
<1>6. Agrees(w)'
  BY <1>2, <1>3, <1>4 DEF Agrees, Committed, Live, IInv
<1>7. Types' /\ FilesOK' /\ Elsewhere(w)
  <2>1. tx \in [Callers -> TxRows]
    BY DoneRow
  <2>2. tx' \in [Callers -> TxRows]
    BY <2>1, <1>3
  <2> QED
    BY <1>4, <2>2 DEF IInv, Types, TxRows, FilesOK, Past, Elsewhere
<1>8. Bounded'
  BY <1>4 DEF IInv, Bounded, Occupied
<1> QED
  BY <1>2, <1>3, <1>5, <1>6, <1>7, <1>8, CallerKeeps

(* A step of a caller that writes. *)
LEMMA CallerWrites ==
  ASSUME IInv, NEW c \in Callers, NEW w \in Wsids, w = tx[c].w, NEW r \in TxRows,
         tx' = [tx EXCEPT ![c] = r], r.w \in {w, Nobody},
         NEW e, NEW out \in Outcomes,
         Rewritten(w, e, out) \/ (UNCHANGED <<store, faults>> /\ FilesOK'),
         UNCHANGED slot \/ \E s \in {"none", "idle"} : slot' = [slot EXCEPT ![w] = s],
         slot[w] # "none", UNCHANGED <<conv, pump, world>>,
         UNCHANGED degraded \/ degraded' = TRUE,
         Relies(c)', Agrees(w)'
  PROVE  IInv'
<1>1. /\ tx \in [Callers -> TxRows]
      /\ slot \in [Wsids -> {"none", "reserved", "idle", "starting", "active", "resetting"}]
      /\ faults \in Nat /\ latched \in BOOLEAN
  BY DEF IInv, Types, TxRows
<1>2. slot' \in [Wsids -> {"none", "reserved", "idle", "starting", "active", "resetting"}]
  BY <1>1
<1>3. tx' \in [Callers -> TxRows]
  BY <1>1
<1>4. faults' \in Nat /\ latched' \in BOOLEAN /\ (latched => latched') /\ (faults' = 0 => faults = 0)
  <2>1. CASE Rewritten(w, e, out)
    <3>1. faults' = (IF out = "ok" \/ latched THEN faults ELSE faults + 1) /\ latched' = (latched \/ out = "unsynced")
      BY <2>1 DEF Rewritten
    <3>2. latched' \in BOOLEAN /\ (latched => latched')
      BY <3>1
    <3>3. faults' \in Nat /\ (faults' = 0 => faults = 0)
      BY <1>1, <3>1
    <3> QED
      BY <3>2, <3>3
  <2> QED
    BY <1>1, <2>1 DEF store
<1>5. degraded' \in BOOLEAN /\ (degraded => degraded')
  BY DEF IInv, Types
<1>6. Types'
  BY <1>2, <1>3, <1>4, <1>5 DEF IInv, Types, TxRows, world, fills
<1>7. Occupied' \subseteq Occupied
  BY <1>1 DEF Occupied
<1>8. FilesOK' /\ mem'.filled = mem.filled /\ (\A v \in Wsids \ {w} : mem'.entry[v] = mem.entry[v])
  BY DEF Rewritten, store
<1>9. \/ latched' = latched /\ faults' = faults
      \/ \E o \in Outcomes : /\ latched' = (latched \/ o = "unsynced")
                             /\ faults' = IF o = "ok" \/ latched THEN faults ELSE faults + 1
  BY DEF Rewritten, store
<1>10. Bounded'
  BY <1>6, <1>7, <1>8, <1>9, BoundedKept DEF world, fills
<1>11. Elsewhere(w)
  BY <1>1, <1>4, <1>5, <1>8 DEF Elsewhere, world, fills
<1>12. \A d \in Callers \ {c} : tx[d].w # w
  BY FileRows DEF IInv, OneUser
<1> QED
  BY <1>6, <1>8, <1>10, <1>11, <1>12, CallerKeeps

LEMMA CreatePutKeeps ==
  ASSUME IInv, NEW c \in Callers, NEW out \in Outcomes, CreatePut(c, out)
  PROVE  IInv'
<1> PICK w : w = tx[c].w
  OBVIOUS
<1>1. tx[c].pc = "put" /\ "commit" \in Stations
  BY DEF CreatePut, At, Stations
<1>2. w \in Wsids /\ w # Nobody /\ phase = "up" /\ slot[w] = "reserved" /\ pump[w] = "none"
      /\ (~latched => w \notin Live(mem)) /\ ~UsedAt(w, {"commit", "undo"})
  BY <1>1, Users DEF SlotsAt, IInv, Relies, Agrees
<1>3. ~latched => Welcome(w, NewEntry)
  <2>1. SUFFICES ASSUME ~latched PROVE Welcome(w, NewEntry)
    OBVIOUS
  <2>2. Live(mem) \cup {w} \subseteq Occupied /\ Occupied \in SUBSET Wsids
    BY <1>2, <2>1 DEF IInv, Agrees, Occupied, Live, Committed
  <2>3. IsFiniteSet(Occupied) /\ Cardinality(Occupied) <= Cap /\ Cap \in Nat
    BY <2>2, FileRows, FS_Subset DEF IInv, Bounded
  <2>4. Cardinality(Live(mem) \cup {w}) <= Cap
    BY <2>2, <2>3, FS_Subset, FS_CardinalityType
  <2> QED
    BY <2>4, FileRows DEF Welcome, FitsAs
<1>4. Rewritten(w, NewEntry, out)
  BY <1>2, <1>3, PutRewrites, FileRows, SameFills DEF CreatePut, IInv, world
<1>5. UNCHANGED <<conv, pump, world, degraded>>
  BY DEF CreatePut
<1>6. CASE out = "ok"
  <2>1. PICK r \in TxRows : /\ tx' = [tx EXCEPT ![c] = r] /\ tx'[c] = r /\ r.pc = "commit" /\ r.w = w
                            /\ \A pcs : UsedAt(w, pcs)' <=> "commit" \in pcs
    BY <1>1, <1>2, <1>6, GotoUse DEF CreatePut
  <2>2. UNCHANGED slot
    BY <1>6 DEF CreatePut
  <2>3. (w \in Live(mem))'
    BY <1>2, <1>4, <1>6, FileRows DEF Rewritten, Live
  <2>4. Relies(c)'
    BY <1>2, <1>5, <2>1, <2>2, <2>3 DEF Relies, SlotsAt, world, fills
  <2>5. Agrees(w)'
    BY <1>2, <1>5, <2>1, <2>2, <2>3 DEF Agrees, Committed, world, fills
  <2> QED
    BY <1>2, <1>4, <1>5, <2>1, <2>2, <2>4, <2>5, CallerWrites
<1>7. CASE out # "ok"
  <2>1. tx' = [tx EXCEPT ![c] = Idle] /\ tx'[c] = Idle /\ (\A pcs : ~UsedAt(w, pcs)')
    BY <1>2, <1>7, IdleUse DEF CreatePut
  <2>2. slot' = [slot EXCEPT ![w] = "none"] /\ slot'[w] = "none"
    BY <1>2, <1>7 DEF CreatePut, IInv, Types
  <2>3. ~latched' => (w \notin Live(mem))'
    BY <1>2, <1>4, <1>7, FileRows DEF Rewritten, Live, Outcomes
  <2>4. Relies(c)'
    BY <1>2, <1>5, <2>1, IdleRow DEF Relies, world, fills
  <2>5. Agrees(w)'
    BY <1>2, <1>5, <2>1, <2>2, <2>3 DEF Agrees, Committed, world, fills
  <2>6. \E s \in {"none", "idle"} : slot' = [slot EXCEPT ![w] = s]
    BY <2>2
  <2> QED
    BY <1>2, <1>4, <1>5, <2>1, <2>6, <2>4, <2>5, IdleRow, CallerWrites
<1> QED
  BY <1>6, <1>7
LEMMA CreateUndoKeeps ==
  ASSUME IInv, NEW c \in Callers, NEW out \in Outcomes, CreateUndo(c, out)
  PROVE  IInv'
<1> PICK w : w = tx[c].w
  OBVIOUS
<1>1. tx[c].pc = "undo"
  BY DEF CreateUndo, At
<1>2. w \in Wsids /\ w # Nobody /\ phase = "up" /\ slot[w] = "reserved" /\ pump[w] = "none"
  BY <1>1, Users DEF SlotsAt, IInv, Agrees
<1>3. Rewritten(w, NoEntry, out)
  BY <1>2, PutRewrites, FileRows, SameFills DEF CreateUndo, IInv, Welcome, world
<1>4. UNCHANGED <<conv, pump, world>>
  BY DEF CreateUndo
<1>5. tx' = [tx EXCEPT ![c] = Idle] /\ tx'[c] = Idle /\ (\A pcs : ~UsedAt(w, pcs)')
  BY <1>2, IdleUse DEF CreateUndo
<1>6. Relies(c)'
  BY <1>2, <1>4, <1>5, IdleRow DEF Relies, world, fills
<1>7. CASE out = "ok"
  <2>1. slot' = [slot EXCEPT ![w] = "none"] /\ slot'[w] = "none" /\ UNCHANGED degraded
    BY <1>2, <1>7 DEF CreateUndo, IInv, Types
  <2>2. (w \notin Live(mem))'
    BY <1>2, <1>3, <1>7, FileRows DEF Rewritten, Live
  <2>3. Agrees(w)'
    BY <1>2, <1>4, <1>5, <2>1, <2>2 DEF Agrees, Committed, world, fills
  <2>4. \E s \in {"none", "idle"} : slot' = [slot EXCEPT ![w] = s]
    BY <2>1
  <2> QED
    BY <1>2, <1>3, <1>4, <1>5, <1>6, <2>1, <2>3, <2>4, IdleRow, CallerWrites
<1>8. CASE out # "ok"
  <2>1. UNCHANGED slot /\ degraded' = TRUE
    BY <1>8 DEF CreateUndo
  <2>2. Agrees(w)'
    BY <1>2, <1>4, <1>5, <2>1 DEF Agrees, Committed, world, fills
  <2> QED
    BY <1>2, <1>3, <1>4, <1>5, <1>6, <2>1, <2>2, IdleRow, CallerWrites
<1> QED
  BY <1>7, <1>8

-----------------------------------------------------------------------------
(* startSession. *)
LEMMA StartReadKeeps ==
  ASSUME IInv, ~Shared, NEW c \in Callers, NEW w \in Wsids, StartRead(c, w)
  PROVE  IInv'
<1>1. /\ phase = "up" /\ tx[c].pc = "idle" /\ tx[c].w = Nobody /\ w # Nobody /\ Committed(w)
      /\ \A d \in Callers : tx[d].w # w
  BY FileRows DEF StartRead, MayUse, At, IInv, Relies
<1>2. \A pcs : ~UsedAt(w, pcs)
  BY <1>1 DEF UsedAt
<1> PICK e : e = mem.entry[w]
  OBVIOUS
<1> PICK r : r = [pc |-> "begin", w |-> w, conv |-> IF e.life = "live" THEN e.resume ELSE NoConv]
  OBVIOUS
<1>3. r.pc = "begin" /\ r.w = w /\ r.conv = (IF w \in Live(mem) THEN e.resume ELSE NoConv)
  BY DEF Live
<1>4. mem \in Files /\ e \in AnyEntries /\ Fits(Past, mem)
  BY DEF IInv, FilesOK, FileOK, Files
<1>5. r \in TxRows
  BY <1>4, FileRows DEF TxRows, Stations, AnyEntries
<1>6. tx' = [tx EXCEPT ![c] = r] /\ tx'[c] = r
  BY DoneRow DEF StartRead
<1>7. \A pcs : UsedAt(w, pcs)' <=> "begin" \in pcs
  <2>1. tx \in [Callers -> TxRows]
    BY DoneRow
  <2> QED
    BY <1>1, <1>3, <1>6, <2>1 DEF UsedAt
<1>8. UNCHANGED <<mem, slot, conv, pump, phase, latched, degraded, faults>>
  BY DEF StartRead, store, live, world, fills
<1>9. slot[w] \in {"idle", "active"}
  BY <1>1, <1>2 DEF IInv, Agrees, Committed
<1>10. Suits(w, r.conv)'
  <2>1. SUFFICES ASSUME w \in Live(mem)
                 PROVE  /\ r.conv \in {NoConv, Legacy, [of |-> w, view |-> mem.entry[w].view]}
                        /\ r.conv = Legacy <=> mem.entry[w].resume = Legacy
    BY <1>8 DEF Suits, Live
  <2>2. r.conv = mem.entry[w].resume
    BY <1>3, <2>1
  <2> QED
    BY <1>4, <2>1, <2>2 DEF Fits, FitsAs
<1>11. Relies(c)'
  BY <1>1, <1>3, <1>6, <1>8, <1>9, <1>10 DEF Relies, SlotsAt
<1>12. Agrees(w)'
  BY <1>1, <1>2, <1>7, <1>8, <1>9 DEF Agrees, Committed, Live, IInv, Suits
<1> QED
  BY <1>1, <1>3, <1>5, <1>6, <1>11, <1>12, CallerMoves DEF StartRead, live

LEMMA StartBeginKeeps ==
  ASSUME IInv, NEW c \in Callers, StartBegin(c)
  PROVE  IInv'
<1> PICK w : w = tx[c].w
  OBVIOUS
<1>1. tx[c].pc = "begin" /\ "spawn" \in Stations
  BY DEF StartBegin, At, Stations
<1>2. /\ w \in Wsids /\ w # Nobody /\ phase = "up" /\ slot[w] \in {"idle", "active", "reserved"}
      /\ Suits(w, tx[c].conv)
      /\ \A d \in Callers \ {c} : tx[d].w # w
  BY <1>1, Users DEF SlotsAt, IInv, Relies
<1>3. \A pcs : UsedAt(w, pcs) <=> "begin" \in pcs
  BY <1>1, Users
<1>4. UNCHANGED <<mem, conv, pump, phase, latched, degraded, faults>>
  BY DEF StartBegin, store, world, fills
<1>5. CASE slot[w] = "idle"
  <2>1. PICK r \in TxRows : /\ tx' = [tx EXCEPT ![c] = r] /\ tx'[c] = r /\ r.pc = "spawn" /\ r.w = w
                            /\ r.conv = tx[c].conv
                            /\ \A pcs : UsedAt(w, pcs)' <=> "spawn" \in pcs
    BY <1>1, <1>2, <1>5, GotoUse DEF StartBegin
  <2>2. slot' = [slot EXCEPT ![w] = "starting"] /\ slot'[w] = "starting"
    BY <1>2, <1>5 DEF StartBegin, IInv, Types
  <2>3. pump[w] = "none"
    BY <1>2, <1>5 DEF IInv, Agrees
  <2>4. Suits(w, r.conv)'
    BY <1>2, <1>4, <2>1 DEF Suits, Live
  <2>5. Relies(c)'
    BY <1>2, <1>4, <2>1, <2>2, <2>3, <2>4 DEF Relies, SlotsAt
  <2>6. Agrees(w)'
    BY <1>2, <1>3, <1>4, <1>5, <2>1, <2>2, <2>3 DEF IInv, Agrees, Committed, Live
  <2>7. \E s \in {"none", "idle", "starting", "active", "resetting"} : slot' = [slot EXCEPT ![w] = s]
    BY <2>2
  <2> QED
    BY <1>2, <1>5, <2>1, <2>5, <2>6, <2>7, CallerMoves DEF StartBegin
<1>6. CASE slot[w] # "idle"
  <2>1. tx' = [tx EXCEPT ![c] = Idle] /\ tx'[c] = Idle /\ (\A pcs : ~UsedAt(w, pcs)') /\ UNCHANGED slot
    BY <1>2, <1>6, IdleUse DEF StartBegin
  <2>2. Relies(c)'
    BY <1>2, <1>4, <2>1, IdleRow DEF Relies
  <2>3. Agrees(w)'
    BY <1>2, <1>3, <1>4, <2>1 DEF IInv, Agrees, Committed, Live, Suits
  <2> QED
    BY <1>2, <2>1, <2>2, <2>3, IdleRow, CallerMoves DEF StartBegin
<1> QED
  BY <1>5, <1>6
LEMMA SpawnKeeps ==
  ASSUME IInv, NEW c \in Callers, NEW p \in {"fresh", "seen"}, Spawn(c, p)
  PROVE  IInv'
<1> PICK w : w = tx[c].w
  OBVIOUS
<1>1. tx[c].pc = "spawn"
  BY DEF Spawn, At
<1>2. /\ w \in Wsids /\ w # Nobody /\ phase = "up" /\ slot[w] = "starting"
      /\ Suits(w, tx[c].conv)
      /\ \A d \in Callers \ {c} : tx[d].w # w
  BY <1>1, Users DEF SlotsAt, IInv, Relies
<1>3. \A pcs : UsedAt(w, pcs) <=> "spawn" \in pcs
  BY <1>1, Users
<1> PICK k : k = IF tx[c].conv # NoConv THEN tx[c].conv ELSE [of |-> w, view |-> mem.entry[w].view]
  OBVIOUS
<1> PICK r : r = [tx[c] EXCEPT !.pc = "accept", !.conv = k]
  OBVIOUS
<1>4. tx \in [Callers -> TxRows] /\ mem \in Files
  BY DoneRow DEF IInv, FilesOK, FileOK
<1>5. mem.entry[w].view \in Nat /\ k \in AnyConvs
  BY <1>2, <1>4, FileRows DEF Files, AnyEntries, TxRows
<1>6. r \in TxRows /\ r.pc = "accept" /\ r.w = w /\ r.conv = k
  BY <1>4, <1>5 DEF TxRows, Stations
<1>7. tx' = [tx EXCEPT ![c] = r] /\ conv' = [conv EXCEPT ![w] = k] /\ pump' = [pump EXCEPT ![w] = p]
  BY <1>4 DEF Spawn
<1>8. UNCHANGED <<mem, slot, phase, latched, degraded, faults>>
  BY DEF Spawn, store, world, fills
<1>9. tx'[c] = r /\ conv'[w] = k /\ pump'[w] = p /\ \A pcs : UsedAt(w, pcs)' <=> "accept" \in pcs
  <2>1. tx'[c] = r /\ conv'[w] = k /\ pump'[w] = p
    BY <1>2, <1>4, <1>7 DEF IInv, Types
  <2>2. \A pcs : UsedAt(w, pcs)' <=> "accept" \in pcs
    BY <1>2, <1>4, <1>6, <1>7 DEF UsedAt
  <2> QED
    BY <2>1, <2>2
<1>10. Suits(w, k)
  <2>1. SUFFICES ASSUME w \in Live(mem)
                 PROVE  /\ k \in {NoConv, Legacy, [of |-> w, view |-> mem.entry[w].view]}
                        /\ k = Legacy <=> mem.entry[w].resume = Legacy
    BY DEF Suits
  <2> QED
    BY <1>2, <1>5, <2>1, FileRows DEF Suits
<1>11. Suits(w, r.conv)' /\ Suits(w, conv[w])'
  BY <1>6, <1>8, <1>9, <1>10 DEF Suits, Live
<1>12. Relies(c)'
  BY <1>2, <1>6, <1>8, <1>9, <1>11 DEF Relies, SlotsAt
<1>13. Agrees(w)'
  BY <1>2, <1>3, <1>8, <1>9, <1>11 DEF IInv, Agrees, Committed, Live
<1>14. /\ \E q \in AnyConvs : conv' = [conv EXCEPT ![w] = q]
       /\ \E q \in {"none", "fresh", "seen"} : pump' = [pump EXCEPT ![w] = q]
  BY <1>5, <1>7
<1>15. UNCHANGED slot /\ UNCHANGED <<store, world, degraded, faults>>
  BY DEF Spawn
<1>16. {tx[c].w, r.w} \subseteq {w, Nobody}
  BY <1>6
<1> QED
  BY <1>2, <1>6, <1>7, <1>12, <1>13, <1>14, <1>15, <1>16, CallerMoves

LEMMA StartFailsKeeps ==
  ASSUME IInv, NEW c \in Callers, StartFails(c)
  PROVE  IInv'
<1> PICK w : w = tx[c].w
  OBVIOUS
<1>1. tx[c].pc = "spawn"
  BY DEF StartFails, At
<1>2. /\ w \in Wsids /\ w # Nobody /\ phase = "up" /\ slot[w] = "starting" /\ pump[w] = "none"
      /\ \A d \in Callers \ {c} : tx[d].w # w
  BY <1>1, Users DEF SlotsAt, IInv, Relies
<1>3. \A pcs : UsedAt(w, pcs) <=> "spawn" \in pcs
  BY <1>1, Users
<1>4. UNCHANGED <<mem, conv, pump, phase, latched, degraded, faults>>
  BY DEF StartFails, store, world, fills
<1>5. tx' = [tx EXCEPT ![c] = Idle] /\ tx'[c] = Idle /\ (\A pcs : ~UsedAt(w, pcs)')
  BY <1>2, IdleUse DEF StartFails
<1>6. slot' = [slot EXCEPT ![w] = "idle"] /\ slot'[w] = "idle"
  BY <1>2 DEF StartFails, IInv, Types
<1>7. Relies(c)'
  BY <1>2, <1>4, <1>5, IdleRow DEF Relies
<1>8. Agrees(w)'
  BY <1>2, <1>3, <1>4, <1>5, <1>6 DEF IInv, Agrees, Committed, Live
<1>9. \E s \in {"none", "idle", "starting", "active", "resetting"} : slot' = [slot EXCEPT ![w] = s]
  BY <1>6
<1> QED
  BY <1>2, <1>5, <1>7, <1>8, <1>9, IdleRow, CallerMoves DEF StartFails

LEMMA StartAcceptKeeps ==
  ASSUME IInv, NEW c \in Callers, StartAccept(c)
  PROVE  IInv'
<1> PICK w : w = tx[c].w
  OBVIOUS
<1>1. tx[c].pc = "accept" /\ "identity" \in Stations
  BY DEF StartAccept, At, Stations
<1>2. /\ w \in Wsids /\ w # Nobody /\ phase = "up" /\ slot[w] = "starting"
      /\ Suits(w, tx[c].conv) /\ (pump[w] # "none" => tx[c].conv = conv[w])
      /\ \A d \in Callers \ {c} : tx[d].w # w
  BY <1>1, Users DEF SlotsAt, IInv, Relies
<1>3. \A pcs : UsedAt(w, pcs) <=> "accept" \in pcs
  BY <1>1, Users
<1>4. UNCHANGED <<mem, conv, pump, phase, latched, degraded, faults>>
  BY DEF StartAccept, store, world, fills
<1>5. PICK r \in TxRows : /\ tx' = [tx EXCEPT ![c] = r] /\ tx'[c] = r /\ r.pc = "identity" /\ r.w = w
                          /\ r.conv = tx[c].conv
                          /\ \A pcs : UsedAt(w, pcs)' <=> "identity" \in pcs
  BY <1>1, <1>2, GotoUse DEF StartAccept
<1>6. slot' = [slot EXCEPT ![w] = "active"] /\ slot'[w] = "active"
  BY <1>2 DEF StartAccept, IInv, Types
<1>7. Suits(w, r.conv)' /\ (pump[w] # "none" => Suits(w, conv[w])')
  BY <1>2, <1>4, <1>5 DEF Suits, Live
<1>8. Relies(c)'
  BY <1>2, <1>4, <1>5, <1>6, <1>7 DEF Relies, SlotsAt
<1>9. Agrees(w)'
  BY <1>2, <1>3, <1>4, <1>5, <1>6, <1>7 DEF IInv, Agrees, Committed, Live
<1>10. \E s \in {"none", "idle", "starting", "active", "resetting"} : slot' = [slot EXCEPT ![w] = s]
  BY <1>6
<1> QED
  BY <1>2, <1>5, <1>8, <1>9, <1>10, CallerMoves DEF StartAccept

LEMMA StartIdentityKeeps ==
  ASSUME IInv, NEW c \in Callers, NEW known \in BOOLEAN, NEW out \in Outcomes, StartIdentity(c, known, out)
  PROVE  IInv'
<1> PICK w : w = tx[c].w
  OBVIOUS
<1> PICK e : e = IF known THEN [mem.entry[w] EXCEPT !.resume = tx[c].conv] ELSE mem.entry[w]
  OBVIOUS
<1>1. tx[c].pc = "identity"
  BY DEF StartIdentity, At
<1>2. /\ w \in Wsids /\ w # Nobody /\ phase = "up" /\ slot[w] \in {"idle", "active", "reserved"}
      /\ Suits(w, tx[c].conv) /\ (pump[w] # "none" => tx[c].conv = conv[w])
  BY <1>1, Users DEF SlotsAt, IInv, Relies
<1>3. \A pcs : UsedAt(w, pcs) <=> "identity" \in pcs
  BY <1>1, Users
<1>4. /\ mem \in Files /\ mem.entry[w] \in AnyEntries /\ tx[c].conv \in AnyConvs
      /\ latched \in BOOLEAN /\ faults \in Nat /\ (latched => faults > 0)
  BY <1>2 DEF IInv, FilesOK, FileOK, Files, Types, Bounded
<1>5. /\ e \in AnyEntries /\ e.life = mem.entry[w].life /\ e.view = mem.entry[w].view /\ e.old = mem.entry[w].old
      /\ e.resume = IF known THEN tx[c].conv ELSE mem.entry[w].resume
  BY <1>4 DEF AnyEntries
<1>6. ASSUME w \in Live(mem) PROVE Welcome(w, e)
  <2>1. SUFFICES /\ FitsAs(Past, w, e)
                 /\ e.resume = Legacy => mem.entry[w].resume = Legacy
                 /\ mem.filled \/ unfilled \/ e.view <= 1
    BY <1>6 DEF Welcome
  <2>2. FitsAs(Past, w, mem.entry[w]) /\ (mem.filled \/ unfilled \/ mem.entry[w].view <= 1)
    BY <1>6 DEF IInv, FilesOK, FileOK, Fits, Past
  <2>3. tx[c].conv \in {NoConv, Legacy, [of |-> w, view |-> mem.entry[w].view]}
        /\ (tx[c].conv = Legacy <=> mem.entry[w].resume = Legacy)
    BY <1>2, <1>6 DEF Suits
  <2> QED
    BY <1>5, <2>2, <2>3, FileRows DEF FitsAs
<1>7. \/ w \in Live(mem) /\ Rewritten(w, e, out)
      \/ w \notin Live(mem) /\ UNCHANGED <<store, faults>> /\ FilesOK'
  BY <1>2, <1>5, <1>6, MutateRewrites, SameFills DEF StartIdentity, IInv, world
<1>8. tx' = [tx EXCEPT ![c] = Idle] /\ tx'[c] = Idle /\ (\A pcs : ~UsedAt(w, pcs)')
  BY <1>2, IdleUse DEF StartIdentity
<1>9. UNCHANGED <<slot, conv, pump, phase, degraded>>
  BY DEF StartIdentity, live, world, fills
<1>10. Relies(c)'
  BY <1>2, <1>8, <1>9, IdleRow DEF Relies
<1>11. /\ (w \in Live(mem))' <=> w \in Live(mem)
       /\ latched => latched'
       /\ w \in Live(mem) => mem'.entry[w] = IF out = "failed" THEN mem.entry[w] ELSE e
  <2>1. CASE w \in Live(mem) /\ Rewritten(w, e, out)
    <3>1. mem'.entry[w] = IF out = "failed" THEN mem.entry[w] ELSE e
      BY <2>1 DEF Rewritten
    <3>2. latched' = (latched \/ out = "unsynced")
      BY <2>1 DEF Rewritten
    <3>3. (w \in Live(mem))' <=> w \in Live(mem)
      BY <1>5, <3>1 DEF Live
    <3> QED
      BY <3>1, <3>2, <3>3
  <2>2. CASE w \notin Live(mem) /\ UNCHANGED <<store, faults>>
    BY <2>2 DEF Live, store
  <2> QED
    BY <1>7, <2>1, <2>2
<1>12. pump[w] # "none" => Suits(w, conv[w])'
  <2>1. SUFFICES ASSUME pump[w] # "none", w \in Live(mem)
                 PROVE  /\ conv[w] \in {NoConv, Legacy, [of |-> w, view |-> mem'.entry[w].view]}
                        /\ conv[w] = Legacy <=> mem'.entry[w].resume = Legacy
    BY <1>9, <1>11 DEF Suits
  <2>2. conv[w] = tx[c].conv
    BY <1>2, <2>1
  <2> QED
    BY <1>2, <1>5, <1>11, <2>1, <2>2 DEF Suits
<1>13. ASSUME slot[w] = "active", pump[w] = "seen", faults' = 0, w \in Live(mem)
       PROVE  mem'.entry[w].resume = conv[w]
  <2>1. known = TRUE /\ tx[c].conv = conv[w]
    BY <1>2, <1>13 DEF StartIdentity
  <2>2. faults' = (IF out = "ok" \/ latched THEN faults ELSE faults + 1)
    BY <1>7, <1>13 DEF Rewritten
  <2>3. out = "ok"
    BY <1>4, <1>13, <2>2
  <2> QED
    BY <1>5, <1>11, <1>13, <2>1, <2>3
<1>14. Agrees(w)'
  BY <1>2, <1>3, <1>8, <1>9, <1>11, <1>12, <1>13 DEF IInv, Agrees, Committed
<1>15. slot[w] # "none" /\ UNCHANGED <<slot, conv, pump, world, degraded>>
  BY <1>2 DEF StartIdentity, live
<1> QED
  BY <1>2, <1>7, <1>8, <1>10, <1>14, <1>15, IdleRow, CallerWrites
-----------------------------------------------------------------------------
(* newSession. *)
LEMMA NewBeginKeeps ==
  ASSUME IInv, ~Shared, NEW c \in Callers, NEW w \in Wsids, NewBegin(c, w)
  PROVE  IInv'
<1>1. /\ phase = "up" /\ tx[c].pc = "idle" /\ tx[c].w = Nobody /\ w # Nobody /\ slot[w] \in {"idle", "active"}
      /\ \A d \in Callers : tx[d].w # w
  BY FileRows DEF NewBegin, MayUse, At, IInv, Relies
<1>2. \A pcs : ~UsedAt(w, pcs)
  BY <1>1 DEF UsedAt
<1> PICK r : r = [tx[c] EXCEPT !.pc = "reset", !.w = w]
  OBVIOUS
<1>3. /\ r \in TxRows /\ tx' = [tx EXCEPT ![c] = r] /\ tx'[c] = r /\ r.pc = "reset" /\ r.w = w
      /\ \A pcs : UsedAt(w, pcs)' <=> "reset" \in pcs
  <2>1. tx \in [Callers -> TxRows] /\ tx' = [tx EXCEPT ![c] = r]
    BY DoneRow DEF NewBegin
  <2>2. r \in TxRows /\ tx'[c] = r /\ r.pc = "reset" /\ r.w = w
    BY <2>1 DEF TxRows, Stations
  <2>3. \A pcs : UsedAt(w, pcs)' <=> "reset" \in pcs
    BY <1>1, <2>1, <2>2 DEF UsedAt
  <2> QED
    BY <2>1, <2>2, <2>3
<1>4. UNCHANGED <<mem, phase, latched, degraded, faults>> /\ UNCHANGED <<store, world, degraded, faults>>
  BY DEF NewBegin, store, world, fills
<1>5. /\ slot' = [slot EXCEPT ![w] = "resetting"] /\ slot'[w] = "resetting"
      /\ conv' = [conv EXCEPT ![w] = NoConv] /\ pump' = [pump EXCEPT ![w] = "none"] /\ pump'[w] = "none"
  BY DEF NewBegin, Without, IInv, Types
<1>6. Relies(c)'
  BY <1>1, <1>3, <1>4, <1>5 DEF Relies, SlotsAt
<1>7. Agrees(w)'
  BY <1>1, <1>2, <1>3, <1>4, <1>5 DEF IInv, Agrees, Committed, Live
<1>8. \E s \in {"none", "idle", "starting", "active", "resetting"} : slot' = [slot EXCEPT ![w] = s]
  BY <1>5
<1>9. /\ \E q \in AnyConvs : conv' = [conv EXCEPT ![w] = q]
      /\ \E q \in {"none", "fresh", "seen"} : pump' = [pump EXCEPT ![w] = q]
  BY <1>5, FileRows
<1>10. {tx[c].w, r.w} \subseteq {w, Nobody} /\ slot[w] # "none"
  BY <1>1, <1>3
<1> QED
  BY <1>1, <1>3, <1>4, <1>6, <1>7, <1>8, <1>9, <1>10, CallerMoves

LEMMA NewResetKeeps ==
  ASSUME IInv, NEW c \in Callers, NEW out \in Outcomes, NewReset(c, out)
  PROVE  IInv'
<1> PICK w : w = tx[c].w
  OBVIOUS
<1> PICK e : e = AfterReset(mem.entry[w])
  OBVIOUS
<1>1. tx[c].pc = "reset"
  BY DEF NewReset, At
<1>2. w \in Wsids /\ w # Nobody /\ phase = "up" /\ slot[w] = "resetting" /\ pump[w] = "none"
  BY <1>1, Users DEF SlotsAt, IInv, Agrees
<1>3. \A pcs : UsedAt(w, pcs) <=> "reset" \in pcs
  BY <1>1, Users
<1>4. mem \in Files /\ mem.entry[w] \in AnyEntries
  BY <1>2 DEF IInv, FilesOK, FileOK, Files
<1>5. /\ e \in AnyEntries /\ e.life = mem.entry[w].life /\ e.resume = NoConv /\ e.old = FALSE
  <2>1. /\ e.life = mem.entry[w].life /\ e.resume = NoConv /\ e.old = FALSE
        /\ e.view = IF mem.entry[w].view = 0 THEN 2 ELSE mem.entry[w].view + 1
        /\ e = [life |-> e.life, resume |-> e.resume, view |-> e.view, old |-> e.old]
    BY <1>4 DEF AnyEntries, AfterReset
  <2>2. e.view \in Nat
    BY <1>4, <2>1 DEF AnyEntries
  <2> QED
    BY <1>4, <2>1, <2>2, FileRows DEF AnyEntries
<1>6. ASSUME w \in Live(mem), ~latched PROVE Welcome(w, e)
  <2>1. mem.filled \/ unfilled
    BY <1>2, <1>6 DEF IInv, Bounded
  <2> QED
    BY <1>5, <1>6, <2>1, FileRows DEF Welcome, FitsAs
<1>7. \/ w \in Live(mem) /\ Rewritten(w, e, out)
      \/ w \notin Live(mem) /\ UNCHANGED <<store, faults>> /\ FilesOK'
  BY <1>2, <1>5, <1>6, MutateRewrites, SameFills DEF NewReset, IInv, world
<1>8. tx' = [tx EXCEPT ![c] = Idle] /\ tx'[c] = Idle /\ (\A pcs : ~UsedAt(w, pcs)')
  BY <1>2, IdleUse DEF NewReset
<1>9. slot' = [slot EXCEPT ![w] = "idle"] /\ slot'[w] = "idle"
  BY <1>2 DEF NewReset, IInv, Types
<1>10. UNCHANGED <<conv, pump, phase, degraded>>
  BY DEF NewReset, world, fills
<1>11. Relies(c)'
  BY <1>2, <1>8, <1>10, IdleRow DEF Relies
<1>12. ((w \in Live(mem))' <=> w \in Live(mem)) /\ (latched => latched')
  <2>1. CASE w \in Live(mem) /\ Rewritten(w, e, out)
    <3>1. mem'.entry[w] = IF out = "failed" THEN mem.entry[w] ELSE e
      BY <2>1 DEF Rewritten
    <3>2. latched' = (latched \/ out = "unsynced")
      BY <2>1 DEF Rewritten
    <3> QED
      BY <1>5, <3>1, <3>2 DEF Live
  <2>2. CASE w \notin Live(mem) /\ UNCHANGED <<store, faults>>
    BY <2>2 DEF Live, store
  <2> QED
    BY <1>7, <2>1, <2>2
<1>13. Agrees(w)'
  BY <1>2, <1>3, <1>8, <1>9, <1>10, <1>12 DEF IInv, Agrees, Committed
<1>14. slot[w] # "none" /\ UNCHANGED <<conv, pump, world>> /\ UNCHANGED degraded
       /\ \E s \in {"none", "idle"} : slot' = [slot EXCEPT ![w] = s]
  BY <1>2, <1>9 DEF NewReset
<1> QED
  BY <1>2, <1>7, <1>8, <1>11, <1>13, <1>14, IdleRow, CallerWrites

LEMMA NewUnreadKeeps ==
  ASSUME IInv, NEW c \in Callers, NewUnread(c)
  PROVE  IInv'
<1> PICK w : w = tx[c].w
  OBVIOUS
<1>1. tx[c].pc = "reset"
  BY DEF NewUnread, At
<1>2. /\ w \in Wsids /\ w # Nobody /\ phase = "up" /\ slot[w] = "resetting" /\ pump[w] = "none"
      /\ \A d \in Callers \ {c} : tx[d].w # w
  BY <1>1, Users DEF SlotsAt, IInv, Agrees
<1>3. \A pcs : UsedAt(w, pcs) <=> "reset" \in pcs
  BY <1>1, Users
<1>4. UNCHANGED <<mem, conv, pump, phase, latched, degraded, faults>>
  BY DEF NewUnread, store, world, fills
<1>5. tx' = [tx EXCEPT ![c] = Idle] /\ tx'[c] = Idle /\ (\A pcs : ~UsedAt(w, pcs)')
  BY <1>2, IdleUse DEF NewUnread
<1>6. slot' = [slot EXCEPT ![w] = "idle"] /\ slot'[w] = "idle"
  BY <1>2 DEF NewUnread, IInv, Types
<1>7. Relies(c)'
  BY <1>2, <1>4, <1>5, IdleRow DEF Relies
<1>8. Agrees(w)'
  BY <1>2, <1>3, <1>4, <1>5, <1>6 DEF IInv, Agrees, Committed, Live
<1>9. \E s \in {"none", "idle", "starting", "active", "resetting"} : slot' = [slot EXCEPT ![w] = s]
  BY <1>6
<1> QED
  BY <1>2, <1>5, <1>7, <1>8, <1>9, IdleRow, CallerMoves DEF NewUnread

-----------------------------------------------------------------------------
(* removeSession. *)
LEMMA RemoveEnterKeeps ==
  ASSUME IInv, ~Shared, NEW c \in Callers, NEW w \in Wsids, RemoveEnter(c, w)
  PROVE  IInv'
<1>1. /\ phase = "up" /\ tx[c].pc = "idle" /\ tx[c].w = Nobody /\ w # Nobody /\ slot[w] # "none"
      /\ \A d \in Callers : tx[d].w # w
  BY FileRows DEF RemoveEnter, MayUse, At, IInv, Relies
<1>2. \A pcs : ~UsedAt(w, pcs)
  BY <1>1 DEF UsedAt
<1> PICK r : r = [tx[c] EXCEPT !.pc = "remove", !.w = w]
  OBVIOUS
<1>3. /\ r \in TxRows /\ tx' = [tx EXCEPT ![c] = r] /\ tx'[c] = r /\ r.pc = "remove" /\ r.w = w
      /\ \A pcs : UsedAt(w, pcs)' <=> "remove" \in pcs
  <2>1. tx \in [Callers -> TxRows] /\ tx' = [tx EXCEPT ![c] = r]
    BY DoneRow DEF RemoveEnter
  <2>2. r \in TxRows /\ tx'[c] = r /\ r.pc = "remove" /\ r.w = w
    BY <2>1 DEF TxRows, Stations
  <2>3. \A pcs : UsedAt(w, pcs)' <=> "remove" \in pcs
    BY <1>1, <2>1, <2>2 DEF UsedAt
  <2> QED
    BY <2>1, <2>2, <2>3
<1>4. UNCHANGED <<mem, slot, conv, pump, phase, latched, degraded, faults>>
  BY DEF RemoveEnter, store, live, world, fills
<1>5. slot[w] \in {"idle", "active", "reserved"}
  BY <1>1, <1>2 DEF IInv, Agrees, Types
<1>6. Relies(c)'
  BY <1>1, <1>3, <1>4, <1>5 DEF Relies, SlotsAt
<1>7. Agrees(w)'
  BY <1>1, <1>2, <1>3, <1>4, <1>5 DEF IInv, Agrees, Committed, Live, Suits
<1>8. {tx[c].w, r.w} \subseteq {w, Nobody} /\ slot[w] # "none"
  BY <1>1, <1>3
<1> QED
  BY <1>1, <1>3, <1>6, <1>7, <1>8, CallerMoves DEF RemoveEnter, live

LEMMA RemoveTearKeeps ==
  ASSUME IInv, NEW c \in Callers, RemoveTear(c)
  PROVE  IInv'
<1> PICK w : w = tx[c].w
  OBVIOUS
<1>1. tx[c].pc = "remove" /\ "tomb" \in Stations
  BY DEF RemoveTear, At, Stations
<1>2. /\ w \in Wsids /\ w # Nobody /\ phase = "up" /\ slot[w] \in {"idle", "active", "reserved"}
      /\ \A d \in Callers \ {c} : tx[d].w # w
  BY <1>1, Users DEF SlotsAt
<1>3. \A pcs : UsedAt(w, pcs) <=> "remove" \in pcs
  BY <1>1, Users
<1>4. UNCHANGED <<mem, phase, latched, degraded, faults>> /\ UNCHANGED <<store, world, degraded, faults>>
  BY DEF RemoveTear, store, world, fills
<1>5. CASE slot[w] \in {"idle", "active"}
  <2>1. PICK r \in TxRows : /\ tx' = [tx EXCEPT ![c] = r] /\ tx'[c] = r /\ r.pc = "tomb" /\ r.w = w
                            /\ \A pcs : UsedAt(w, pcs)' <=> "tomb" \in pcs
    BY <1>1, <1>2, <1>5, GotoUse DEF RemoveTear
  <2>2. /\ slot' = [slot EXCEPT ![w] = "idle"] /\ slot'[w] = "idle"
        /\ conv' = [conv EXCEPT ![w] = NoConv] /\ pump' = [pump EXCEPT ![w] = "none"] /\ pump'[w] = "none"
    BY <1>2, <1>5 DEF RemoveTear, Without, IInv, Types
  <2>3. Relies(c)'
    BY <1>2, <1>4, <2>1, <2>2 DEF Relies, SlotsAt
  <2>4. Agrees(w)'
    BY <1>2, <1>3, <1>4, <1>5, <2>1, <2>2 DEF IInv, Agrees, Committed, Live
  <2>5. \E s \in {"none", "idle", "starting", "active", "resetting"} : slot' = [slot EXCEPT ![w] = s]
    BY <2>2
  <2>6. /\ \E q \in AnyConvs : conv' = [conv EXCEPT ![w] = q]
        /\ \E q \in {"none", "fresh", "seen"} : pump' = [pump EXCEPT ![w] = q]
    BY <2>2, FileRows
  <2>7. {tx[c].w, r.w} \subseteq {w, Nobody} /\ slot[w] # "none"
    BY <1>2, <1>5, <2>1
  <2> QED
    BY <1>2, <1>4, <2>1, <2>3, <2>4, <2>5, <2>6, <2>7, CallerMoves
<1>6. CASE slot[w] \notin {"idle", "active"}
  <2>1. tx' = [tx EXCEPT ![c] = Idle] /\ tx'[c] = Idle /\ (\A pcs : ~UsedAt(w, pcs)')
    BY <1>2, <1>6, IdleUse DEF RemoveTear
  <2>2. UNCHANGED slot /\ UNCHANGED conv /\ UNCHANGED pump
    BY <1>6 DEF RemoveTear, live
  <2>3. Relies(c)'
    BY <1>2, <1>4, <2>1, IdleRow DEF Relies
  <2>4. Agrees(w)'
    BY <1>2, <1>3, <1>4, <1>6, <2>1, <2>2 DEF IInv, Agrees, Committed, Live
  <2> QED
    BY <1>2, <1>4, <2>1, <2>2, <2>3, <2>4, IdleRow, CallerMoves
<1> QED
  BY <1>5, <1>6

LEMMA RemoveTombKeeps ==
  ASSUME IInv, NEW c \in Callers, NEW out \in Outcomes, RemoveTomb(c, out)
  PROVE  IInv'
<1> PICK w : w = tx[c].w
  OBVIOUS
<1> PICK e : e = [mem.entry[w] EXCEPT !.life = "gone"]
  OBVIOUS
<1>1. tx[c].pc = "tomb" /\ "release" \in Stations
  BY DEF RemoveTomb, At, Stations
<1>2. w \in Wsids /\ w # Nobody /\ phase = "up" /\ slot[w] = "idle" /\ pump[w] = "none"
      /\ (~latched => w \in Live(mem))
  <2>1. w \in Wsids /\ w # Nobody /\ phase = "up" /\ slot[w] = "idle" /\ ~UsedAt(w, {"release"})
    BY <1>1, Users DEF SlotsAt
  <2> QED
    BY <2>1 DEF IInv, Agrees, Committed
<1>3. mem \in Files /\ mem.entry[w] \in AnyEntries
  BY <1>2 DEF IInv, FilesOK, FileOK, Files
<1>4. /\ e \in AnyEntries /\ e.life = "gone"
  BY <1>3 DEF AnyEntries
<1>5. Welcome(w, e)
  BY <1>4 DEF Welcome
<1>6. Rewritten(w, e, out)
  BY <1>2, <1>4, <1>5, PutRewrites, SameFills DEF RemoveTomb, IInv, world
<1>7. UNCHANGED <<slot, conv, pump, world, degraded, phase>>
  BY DEF RemoveTomb, live, world, fills
<1>8. CASE out = "ok"
  <2>1. PICK r \in TxRows : /\ tx' = [tx EXCEPT ![c] = r] /\ tx'[c] = r /\ r.pc = "release" /\ r.w = w
                            /\ \A pcs : UsedAt(w, pcs)' <=> "release" \in pcs
    BY <1>1, <1>2, <1>8, GotoUse DEF RemoveTomb
  <2>2. (w \notin Live(mem))'
    BY <1>2, <1>4, <1>6, <1>8 DEF Rewritten, Live
  <2>3. Relies(c)'
    BY <1>2, <1>7, <2>1, <2>2 DEF Relies, SlotsAt
  <2>4. Agrees(w)'
    BY <1>2, <1>7, <2>1, <2>2 DEF Agrees, Committed
  <2> QED
    BY <1>2, <1>6, <1>7, <2>1, <2>3, <2>4, CallerWrites
<1>9. CASE out # "ok"
  <2>1. tx' = [tx EXCEPT ![c] = Idle] /\ tx'[c] = Idle /\ (\A pcs : ~UsedAt(w, pcs)')
    BY <1>2, <1>9, IdleUse DEF RemoveTomb
  <2>2. ~latched' => (w \in Live(mem))'
    BY <1>2, <1>6, <1>9 DEF Rewritten, Live, Outcomes
  <2>3. Relies(c)'
    BY <1>2, <1>7, <2>1, IdleRow DEF Relies
  <2>4. Agrees(w)'
    BY <1>2, <1>7, <2>1, <2>2 DEF Agrees, Committed
  <2> QED
    BY <1>2, <1>6, <1>7, <2>1, <2>3, <2>4, IdleRow, CallerWrites
<1> QED
  BY <1>8, <1>9

LEMMA RemoveReleaseKeeps ==
  ASSUME IInv, NEW c \in Callers, RemoveRelease(c)
  PROVE  IInv'
<1> PICK w : w = tx[c].w
  OBVIOUS
<1>1. tx[c].pc = "release"
  BY DEF RemoveRelease, At
<1>2. /\ w \in Wsids /\ w # Nobody /\ phase = "up" /\ slot[w] = "idle" /\ pump[w] = "none"
      /\ ~latched => w \notin Live(mem)
      /\ \A d \in Callers \ {c} : tx[d].w # w
  BY <1>1, Users DEF SlotsAt, IInv, Agrees, Relies
<1>3. UNCHANGED <<mem, conv, pump, phase, latched, degraded, faults>>
  BY DEF RemoveRelease, store, world, fills
<1>4. tx' = [tx EXCEPT ![c] = Idle] /\ tx'[c] = Idle /\ (\A pcs : ~UsedAt(w, pcs)')
  BY <1>2, IdleUse DEF RemoveRelease
<1>5. slot' = [slot EXCEPT ![w] = "none"] /\ slot'[w] = "none"
  BY <1>2 DEF RemoveRelease, IInv, Types
<1>6. Relies(c)'
  BY <1>2, <1>3, <1>4, IdleRow DEF Relies
<1>7. Agrees(w)'
  BY <1>2, <1>3, <1>4, <1>5 DEF Agrees, Committed, Live
<1>8. \E s \in {"none", "idle", "starting", "active", "resetting"} : slot' = [slot EXCEPT ![w] = s]
  BY <1>5
<1> QED
  BY <1>2, <1>4, <1>6, <1>7, <1>8, IdleRow, CallerMoves DEF RemoveRelease
-----------------------------------------------------------------------------
(* The process of a session, and the other writes. *)
LEMMA InitSeenKeeps ==
  ASSUME IInv, NEW w \in Wsids, InitSeen(w)
  PROVE  IInv'
<1> PICK p \in {"seen", "checked"} : p = IF slot[w] = "active" THEN "checked" ELSE "seen"
  OBVIOUS
<1>1. /\ pump[w] = "fresh" /\ pump' = [pump EXCEPT ![w] = p] /\ pump'[w] = p
      /\ UNCHANGED tx /\ UNCHANGED <<store, slot, conv, world, degraded, faults>>
  BY DEF InitSeen, IInv, Types
<1>2. UNCHANGED <<mem, disk, slot, conv, restore, unfilled, revived, phase, latched, degraded, faults>>
  BY <1>1 DEF store, world, fills
<1>3. Types'
  BY <1>1, <1>2 DEF IInv, Types
<1>4. FilesOK' /\ Bounded' /\ Elsewhere(w)
  BY <1>1, <1>2 DEF IInv, Types, FilesOK, Past, Bounded, Occupied, Elsewhere
<1>5. \A pcs : UsedAt(w, pcs)' <=> UsedAt(w, pcs)
  BY <1>1 DEF UsedAt
<1>6. Agrees(w)'
  BY <1>1, <1>2, <1>5 DEF IInv, Agrees, Committed, Live, Suits
<1>7. ASSUME NEW d \in Callers, tx[d].w = w PROVE Relies(d)'
  BY <1>1, <1>2, <1>7 DEF IInv, Relies, Live, Suits
<1> QED
  BY <1>1, <1>3, <1>4, <1>6, <1>7, ProviderKeeps

LEMMA SessionEndsKeeps ==
  ASSUME IInv, NEW w \in Wsids, SessionEnds(w)
  PROVE  IInv'
<1>1. /\ slot[w] = "active" /\ phase = "up"
      /\ slot' = [slot EXCEPT ![w] = "idle"] /\ slot'[w] = "idle"
      /\ conv' = [conv EXCEPT ![w] = NoConv] /\ pump' = [pump EXCEPT ![w] = "none"] /\ pump'[w] = "none"
      /\ UNCHANGED tx /\ UNCHANGED <<store, world, degraded, faults>>
  BY DEF SessionEnds, Without, IInv, Types
<1>2. UNCHANGED <<mem, disk, restore, unfilled, revived, phase, latched, degraded, faults>>
  BY <1>1 DEF store, world, fills
<1>3. Types'
  BY <1>1, <1>2, FileRows DEF IInv, Types
<1>4. FilesOK' /\ Elsewhere(w)
  BY <1>1, <1>2 DEF IInv, Types, FilesOK, Past, Elsewhere
<1>5. Occupied' \subseteq Occupied
  BY <1>1 DEF Occupied, IInv, Types
<1>6. Bounded'
  BY <1>2, <1>3, <1>5, BoundedKept
<1>7. \A pcs : UsedAt(w, pcs)' <=> UsedAt(w, pcs)
  BY <1>1 DEF UsedAt
<1>8. Agrees(w)'
  BY <1>1, <1>2, <1>7 DEF IInv, Agrees, Committed, Live
<1>9. ASSUME NEW d \in Callers, tx[d].w = w PROVE Relies(d)'
  <2>1. w # Nobody /\ Relies(d)
    BY FileRows DEF IInv
  <2>2. tx[d].pc \notin {"put", "commit", "undo", "spawn", "accept", "reset", "tomb", "release"}
    BY <1>1, <1>9, <2>1 DEF Relies, SlotsAt
  <2> QED
    BY <1>1, <1>2, <1>9, <2>1, <2>2 DEF Relies, Live, Suits, SlotsAt
<1> QED
  BY <1>1, <1>3, <1>4, <1>6, <1>8, <1>9, ProviderKeeps

LEMMA ProviderWrites ==
  ASSUME IInv, NEW w \in Wsids, NEW e, NEW out \in Outcomes,
         Rewritten(w, e, out) \/ (UNCHANGED <<store, faults>> /\ FilesOK'),
         UNCHANGED <<slot, conv, tx, world, degraded>>,
         UNCHANGED pump \/ pump' = [pump EXCEPT ![w] = "seen"],
         Agrees(w)', \A d \in Callers : tx[d].w = w => Relies(d)'
  PROVE  IInv'
<1>1. /\ pump \in [Wsids -> {"none", "fresh", "seen", "checked"}]
      /\ faults \in Nat /\ latched \in BOOLEAN
  BY DEF IInv, Types
<1>2. pump' \in [Wsids -> {"none", "fresh", "seen", "checked"}] /\ (\A v \in Wsids \ {w} : pump'[v] = pump[v])
  BY <1>1
<1>3. faults' \in Nat /\ latched' \in BOOLEAN /\ (latched => latched') /\ (faults' = 0 => faults = 0)
  <2>1. CASE Rewritten(w, e, out)
    <3>1. faults' = (IF out = "ok" \/ latched THEN faults ELSE faults + 1) /\ latched' = (latched \/ out = "unsynced")
      BY <2>1 DEF Rewritten
    <3>2. latched' \in BOOLEAN /\ (latched => latched')
      BY <3>1
    <3>3. faults' \in Nat /\ (faults' = 0 => faults = 0)
      BY <1>1, <3>1
    <3> QED
      BY <3>2, <3>3
  <2> QED
    BY <1>1, <2>1 DEF store
<1>4. Types'
  BY <1>2, <1>3 DEF IInv, Types, world, fills
<1>5. FilesOK' /\ mem'.filled = mem.filled /\ (\A v \in Wsids \ {w} : mem'.entry[v] = mem.entry[v])
  BY DEF Rewritten, store
<1>6. \/ latched' = latched /\ faults' = faults
      \/ \E o \in Outcomes : /\ latched' = (latched \/ o = "unsynced")
                             /\ faults' = IF o = "ok" \/ latched THEN faults ELSE faults + 1
  BY DEF Rewritten, store
<1>7. Bounded'
  <2>1. Occupied' \subseteq Occupied
    BY DEF Occupied
  <2> QED
    BY <1>4, <1>5, <1>6, <2>1, BoundedKept DEF world, fills
<1>8. Elsewhere(w)
  BY <1>2, <1>3, <1>5 DEF Elsewhere, world, fills
<1> QED
  BY <1>4, <1>5, <1>7, <1>8, ProviderKeeps

LEMMA InitWriteKeeps ==
  ASSUME IInv, NEW w \in Wsids, NEW out \in Outcomes, InitWrite(w, out)
  PROVE  IInv'
<1> PICK e : e = [mem.entry[w] EXCEPT !.resume = conv[w]]
  OBVIOUS
<1>1. /\ pump[w] = "checked" /\ slot[w] \in {"starting", "active"} /\ phase = "up" /\ Suits(w, conv[w])
      /\ pump' = [pump EXCEPT ![w] = "seen"] /\ pump'[w] = "seen"
      /\ UNCHANGED <<slot, conv, tx, world, degraded>>
  BY DEF InitWrite, IInv, Types, Agrees
<1>2. /\ mem \in Files /\ mem.entry[w] \in AnyEntries /\ conv[w] \in AnyConvs
      /\ latched \in BOOLEAN /\ faults \in Nat /\ (latched => faults > 0)
  BY DEF IInv, FilesOK, FileOK, Files, Types, Bounded
<1>3. /\ e \in AnyEntries /\ e.life = mem.entry[w].life /\ e.view = mem.entry[w].view /\ e.old = mem.entry[w].old
      /\ e.resume = conv[w]
  BY <1>2 DEF AnyEntries
<1>4. ASSUME w \in Live(mem) PROVE Welcome(w, e)
  <2>1. SUFFICES /\ FitsAs(Past, w, e)
                 /\ e.resume = Legacy => mem.entry[w].resume = Legacy
                 /\ mem.filled \/ unfilled \/ e.view <= 1
    BY <1>4 DEF Welcome
  <2>2. FitsAs(Past, w, mem.entry[w]) /\ (mem.filled \/ unfilled \/ mem.entry[w].view <= 1)
    BY <1>4 DEF IInv, FilesOK, FileOK, Fits, Past
  <2>3. conv[w] \in {NoConv, Legacy, [of |-> w, view |-> mem.entry[w].view]}
        /\ (conv[w] = Legacy <=> mem.entry[w].resume = Legacy)
    BY <1>1, <1>4 DEF Suits
  <2> QED
    BY <1>3, <2>2, <2>3, FileRows DEF FitsAs
<1>5. \/ w \in Live(mem) /\ Rewritten(w, e, out)
      \/ w \notin Live(mem) /\ UNCHANGED <<store, faults>> /\ FilesOK'
  BY <1>3, <1>4, MutateRewrites, SameFills DEF InitWrite, IInv, world
<1>6. /\ (w \in Live(mem))' <=> w \in Live(mem)
      /\ latched => latched'
      /\ w \in Live(mem) => mem'.entry[w] = IF out = "failed" THEN mem.entry[w] ELSE e
  <2>1. CASE w \in Live(mem) /\ Rewritten(w, e, out)
    <3>1. mem'.entry[w] = IF out = "failed" THEN mem.entry[w] ELSE e
      BY <2>1 DEF Rewritten
    <3>2. latched' = (latched \/ out = "unsynced")
      BY <2>1 DEF Rewritten
    <3>3. (w \in Live(mem))' <=> w \in Live(mem)
      BY <1>3, <3>1 DEF Live
    <3> QED
      BY <3>1, <3>2, <3>3
  <2>2. CASE w \notin Live(mem) /\ UNCHANGED <<store, faults>>
    BY <2>2 DEF Live, store
  <2> QED
    BY <1>5, <2>1, <2>2
<1>7. \A pcs : UsedAt(w, pcs)' <=> UsedAt(w, pcs)
  BY <1>1 DEF UsedAt
<1>8. ASSUME NEW k, Suits(w, k) PROVE Suits(w, k)'
  <2>1. SUFFICES ASSUME w \in Live(mem)
                 PROVE  /\ k \in {NoConv, Legacy, [of |-> w, view |-> mem'.entry[w].view]}
                        /\ k = Legacy <=> mem'.entry[w].resume = Legacy
    BY <1>6 DEF Suits
  <2> QED
    BY <1>1, <1>3, <1>6, <1>8, <2>1 DEF Suits
<1>9. ASSUME slot[w] = "active", faults' = 0, w \in Live(mem)
      PROVE  mem'.entry[w].resume = conv[w]
  <2>1. faults' = (IF out = "ok" \/ latched THEN faults ELSE faults + 1)
    BY <1>5, <1>9 DEF Rewritten
  <2>2. out = "ok"
    BY <1>2, <1>9, <2>1
  <2> QED
    BY <1>3, <1>6, <1>9, <2>2
<1>10. Agrees(w)'
  <2>1. Suits(w, conv[w])'
    <3> PICK k : k = conv[w]
      OBVIOUS
    <3>1. Suits(w, k)' /\ k = conv'[w]
      BY <1>1, <1>8
    <3> QED
      BY <3>1 DEF Suits
  <2> QED
    BY <1>1, <1>6, <1>7, <1>9, <2>1 DEF IInv, Agrees, Committed, world, fills
<1>11. ASSUME NEW d \in Callers, tx[d].w = w PROVE Relies(d)'
  <2> PICK k : k = tx[d].conv
    OBVIOUS
  <2>1. Relies(d) /\ w # Nobody /\ tx'[d] = tx[d] /\ UNCHANGED <<slot, conv, phase>>
    BY <1>1, FileRows DEF IInv, world, fills
  <2>2. tx[d].pc \in {"begin", "spawn", "accept", "identity"} => Suits(w, tx[d].conv)'
    <3>1. tx[d].pc \in {"begin", "spawn", "accept", "identity"} => Suits(w, k)'
      BY <1>8, <1>11, <2>1 DEF Relies
    <3> QED
      BY <2>1, <3>1 DEF Suits
  <2>3. tx[d].pc # "spawn" /\ (tx[d].pc \in {"accept", "identity"} => tx[d].conv = conv[w])
    BY <1>1, <1>11, <2>1 DEF Relies
  <2> QED
    BY <1>1, <1>6, <1>11, <2>1, <2>2, <2>3 DEF Relies
<1> QED
  BY <1>1, <1>5, <1>10, <1>11, ProviderWrites

LEMMA ClearLegacyKeeps ==
  ASSUME IInv, NEW w \in Wsids, NEW out \in Outcomes, ClearLegacy(w, out)
  PROVE  IInv'
<1> PICK e : e = [mem.entry[w] EXCEPT !.old = FALSE]
  OBVIOUS
<1>1. phase = "up" /\ UNCHANGED <<slot, conv, tx, world, degraded>> /\ UNCHANGED pump
  BY DEF ClearLegacy, live
<1>2. mem \in Files /\ mem.entry[w] \in AnyEntries
  BY DEF IInv, FilesOK, FileOK, Files
<1>3. /\ e \in AnyEntries /\ e.life = mem.entry[w].life /\ e.view = mem.entry[w].view /\ e.old = FALSE
      /\ e.resume = mem.entry[w].resume
  BY <1>2 DEF AnyEntries
<1>4. ASSUME w \in Live(mem) PROVE Welcome(w, e)
  <2>1. FitsAs(Past, w, mem.entry[w]) /\ (mem.filled \/ unfilled \/ mem.entry[w].view <= 1)
    BY <1>4 DEF IInv, FilesOK, FileOK, Fits, Past
  <2> QED
    BY <1>3, <1>4, <2>1 DEF Welcome, FitsAs
<1>5. \/ w \in Live(mem) /\ Rewritten(w, e, out)
      \/ w \notin Live(mem) /\ UNCHANGED <<store, faults>> /\ FilesOK'
  BY <1>3, <1>4, MutateRewrites, SameFills DEF ClearLegacy, IInv, world
<1>6. /\ (w \in Live(mem))' <=> w \in Live(mem)
      /\ latched => latched'
      /\ faults' = 0 => faults = 0
      /\ mem'.entry[w].resume = mem.entry[w].resume /\ mem'.entry[w].view = mem.entry[w].view
  <2>1. CASE w \in Live(mem) /\ Rewritten(w, e, out)
    <3>1. mem'.entry[w] = IF out = "failed" THEN mem.entry[w] ELSE e
      BY <2>1 DEF Rewritten
    <3>2. latched' = (latched \/ out = "unsynced")
      BY <2>1 DEF Rewritten
    <3>3. (w \in Live(mem))' <=> w \in Live(mem)
      BY <1>3, <3>1 DEF Live
    <3>4. faults' = 0 => faults = 0
      BY <2>1 DEF Rewritten, IInv, Types
    <3> QED
      BY <1>3, <3>1, <3>2, <3>3, <3>4
  <2>2. CASE w \notin Live(mem) /\ UNCHANGED <<store, faults>>
    BY <2>2 DEF Live, store
  <2> QED
    BY <1>5, <2>1, <2>2
<1>7. \A pcs : UsedAt(w, pcs)' <=> UsedAt(w, pcs)
  BY <1>1 DEF UsedAt
<1>8. Suits(w, conv[w])' <=> Suits(w, conv[w])
  BY <1>1, <1>6 DEF Suits
<1>9. Agrees(w)'
  BY <1>1, <1>6, <1>7, <1>8 DEF IInv, Agrees, Committed, world, fills
<1>10. ASSUME NEW d \in Callers, tx[d].w = w PROVE Relies(d)'
  <2>1. Suits(w, tx[d].conv)' <=> Suits(w, tx[d].conv)
    BY <1>1, <1>6 DEF Suits
  <2> QED
    BY <1>1, <1>6, <1>10, <2>1 DEF IInv, Relies, world, fills
<1> QED
  BY <1>1, <1>5, <1>9, <1>10, ProviderWrites

LEMMA SetLayoutKeeps ==
  ASSUME IInv, NEW out \in Outcomes, SetLayout(out)
  PROVE  IInv'
<1>1. /\ Possible(out) /\ Write(mem, {}, out)
      /\ UNCHANGED <<slot, conv, pump, restore, unfilled, revived, phase, tx, degraded>>
  BY DEF SetLayout, live, world, fills
<1>2. FileOK(Past, mem) /\ Past' = Past
  BY <1>1 DEF IInv, FilesOK, Past
<1>3. /\ FilesOK' /\ mem' = mem /\ latched' = (latched \/ out = "unsynced")
      /\ faults' = (IF out = "ok" \/ latched THEN faults ELSE faults + 1)
  BY <1>1, <1>2, FilesWritten DEF IInv
<1>4. latched' \in BOOLEAN /\ (latched => latched')
  BY <1>3
<1>5. faults \in Nat /\ faults' \in Nat /\ (faults' = 0 => faults = 0)
  BY <1>3 DEF IInv, Types
<1>6. Types'
  BY <1>1, <1>4, <1>5 DEF IInv, Types
<1>7. Bounded'
  <2>1. Occupied' \subseteq Occupied
    BY <1>1 DEF Occupied
  <2> QED
    BY <1>1, <1>3, <1>6, <2>1, BoundedKept
<1>8. Elsewhere(Nobody)
  BY <1>1, <1>3, <1>4, <1>5 DEF Elsewhere
<1>9. (\A d \in Callers : Relies(d)') /\ (\A v \in Wsids : Agrees(v)')
  <2>1. \A d \in Callers : tx'[d] = tx[d] /\ (tx[d].w = Nobody \/ tx[d].w # Nobody)
    BY <1>1
  <2> QED
    BY <1>8, <2>1, FileRows, SessionLocal
<1>10. OneUser'
  BY <1>1 DEF IInv, OneUser
<1> QED
  BY <1>3, <1>6, <1>7, <1>9, <1>10 DEF IInv
-----------------------------------------------------------------------------
(* The end of a process. *)
LEMMA RestartedKeeps ==
  ASSUME IInv, NEW f, Restarted(f), FilesOK', {restore', unfilled'} \subseteq BOOLEAN, faults' \in Nat
  PROVE  IInv'
<1>1. /\ latched' = FALSE /\ degraded' = FALSE /\ slot' = AllNone /\ conv' = [w \in Wsids |-> NoConv]
      /\ pump' = AllNone /\ tx' = [c \in Callers |-> Idle] /\ phase' = "load"
  BY DEF Restarted
<1>2. \A w \in Wsids : slot'[w] = "none" /\ pump'[w] = "none"
  BY <1>1 DEF AllNone
<1>3. \A c \in Callers : tx'[c] = Idle
  BY <1>1
<1>4. Types'
  BY <1>1, FileRows, IdleRow DEF Types, AllNone, TxRows
<1>5. Occupied' = {}
  BY <1>2 DEF Occupied
<1>6. Bounded'
  BY <1>1, <1>5, FileRows, FS_EmptySet DEF Bounded
<1>7. OneUser'
  BY <1>3, IdleRow DEF OneUser
<1>8. \A c \in Callers : Relies(c)'
  BY <1>3, IdleRow DEF Relies
<1>9. \A w \in Wsids : Agrees(w)'
  BY <1>1, <1>2 DEF Agrees
<1> QED
  BY <1>4, <1>6, <1>7, <1>8, <1>9 DEF IInv

LEMMA ShutdownKeeps ==
  ASSUME IInv, NEW out \in Outcomes, Shutdown(out)
  PROVE  IInv'
<1> PICK f : f = IF out = "failed" \/ phase = "unwired" THEN disk.now ELSE mem
  OBVIOUS
<1>1. /\ Restarted(f) /\ mem' = f /\ UNCHANGED <<restore, unfilled>> /\ Past' = Past
      /\ disk' = [now |-> f, safe |-> IF out = "ok" /\ phase = "up" THEN f ELSE disk.safe]
      /\ faults' = IF out = "ok" \/ latched THEN faults ELSE faults + 1
  BY SameFills DEF Shutdown, Restarted
<1>2. FileOK(Past, f) /\ FileOK(Past, disk.safe)
  BY DEF IInv, FilesOK
<1>3. FileOK(Past, disk'.now) /\ FileOK(Past, disk'.safe) /\ DOMAIN disk' = {"now", "safe"}
  BY <1>1, <1>2
<1>4. FilesOK'
  BY <1>1, <1>2, <1>3 DEF FilesOK
<1>5. {restore', unfilled'} \subseteq BOOLEAN /\ faults' \in Nat
  BY <1>1 DEF IInv, Types
<1> QED
  BY <1>1, <1>4, <1>5, RestartedKeeps

LEMMA CrashKeeps ==
  ASSUME IInv, Crash
  PROVE  IInv'
<1> PICK f : f = disk.now
  OBVIOUS
<1>1. Restarted(f) /\ mem' = f /\ disk' = disk /\ UNCHANGED <<restore, unfilled, faults>> /\ Past' = Past
  BY SameFills DEF Crash, Restarted
<1>2. FilesOK' /\ {restore', unfilled'} \subseteq BOOLEAN /\ faults' \in Nat
  BY <1>1 DEF IInv, FilesOK, Types
<1> QED
  BY <1>1, <1>2, RestartedKeeps

LEMMA PowerCutKeeps ==
  ASSUME IInv, PowerCut
  PROVE  IInv'
<1>1. PICK f \in {disk.now, disk.safe} : Restarted(f) /\ disk' = [now |-> f, safe |-> f]
  BY DEF PowerCut
<1>2. mem' = f /\ UNCHANGED <<restore, unfilled, faults>> /\ Past' = Past
  BY <1>1, SameFills DEF PowerCut, Restarted
<1>3. FilesOK' /\ {restore', unfilled'} \subseteq BOOLEAN /\ faults' \in Nat
  BY <1>1, <1>2 DEF IInv, FilesOK, Types
<1> QED
  BY <1>1, <1>3, RestartedKeeps

-----------------------------------------------------------------------------
(* loadSessionRegistry: nobody uses a session, and no process runs. *)
LEMMA StartupKeeps ==
  ASSUME IInv, phase # "up", UNCHANGED <<conv, pump, tx, degraded>>, {restore', unfilled'} \subseteq BOOLEAN,
         phase' \in {"unwired", "fill", "mark", "up"}, faults' \in Nat, latched' \in BOOLEAN, latched' => faults' > 0,
         FilesOK', slot' \in [Wsids -> {"none", "idle"}],
         UNCHANGED slot \/ slot' = Dormant(mem)',
         phase' = "unwired" => phase = "load" /\ UNCHANGED slot,
         phase' # "unwired" /\ ~latched' => slot' = Dormant(mem)',
         phase' \in {"mark", "up"} /\ ~latched' => mem'.filled \/ unfilled'
  PROVE  IInv'
<1>1. \A w \in Wsids : pump'[w] = "none" /\ (phase' = "unwired" => slot'[w] = "none")
  BY DEF IInv, Agrees, Types
<1>2. \A c \in Callers : tx'[c] = tx[c] /\ tx[c].pc = "idle" /\ tx[c].w = Nobody
  BY DEF IInv, Relies
<1>3. Types'
  BY DEF IInv, Types
<1>4. Bounded'
  <2>1. Cardinality(Occupied') <= Cap
    <3>1. CASE UNCHANGED slot
      <4>1. Occupied' = Occupied
        BY <3>1 DEF Occupied
      <4> QED
        BY <4>1 DEF IInv, Bounded
    <3>2. CASE slot' = Dormant(mem)'
      <4>1. Occupied' = Live(mem')
        BY <3>2 DEF Occupied, Dormant, Live
      <4> QED
        BY <4>1 DEF FilesOK, FileOK
    <3> QED
      BY <3>1, <3>2
  <2> QED
    BY <2>1 DEF Bounded
<1>5. OneUser'
  BY <1>2 DEF OneUser
<1>6. \A c \in Callers : Relies(c)'
  BY <1>2 DEF Relies
<1>7. ASSUME NEW w \in Wsids PROVE Agrees(w)'
  <2>1. phase' # "unwired" /\ ~latched' => (slot'[w] = "idle" <=> w \in Live(mem'))
    BY DEF Dormant
  <2>2. slot'[w] \in {"none", "idle"}
    OBVIOUS
  <2> QED
    BY <1>1, <1>2, <2>1, <2>2 DEF Agrees, Committed, UsedAt
<1> QED
  BY <1>3, <1>4, <1>5, <1>6, <1>7 DEF IInv

LEMMA StartupSlots ==
  ASSUME IInv, phase # "up"
  PROVE  /\ slot \in [Wsids -> {"none", "idle"}]
         /\ phase \in {"fill", "mark"} /\ ~latched => slot = Dormant(mem)
         /\ \A f : Dormant(f) \in [Wsids -> {"none", "idle"}]
<1>1. \A w \in Wsids : slot[w] \in {"none", "idle"}
  BY DEF IInv, Agrees
<1>2. slot \in [Wsids -> {"none", "idle"}]
  BY <1>1 DEF IInv, Types
<1>3. ASSUME phase \in {"fill", "mark"}, ~latched PROVE slot = Dormant(mem)
  <2>1. \A w \in Wsids : \A pcs : ~UsedAt(w, pcs)
    BY FileRows DEF IInv, Relies, UsedAt
  <2>2. \A w \in Wsids : slot[w] = "idle" <=> w \in Live(mem)
    BY <1>1, <1>3, <2>1 DEF IInv, Agrees, Committed
  <2> QED
    BY <1>1, <1>2, <2>2 DEF Dormant
<1>4. \A f : Dormant(f) \in [Wsids -> {"none", "idle"}]
  BY DEF Dormant
<1> QED
  BY <1>2, <1>3, <1>4

LEMMA WriteFaults ==
  ASSUME IInv, NEW f, NEW ws, NEW out \in Outcomes, Write(f, ws, out)
  PROVE  /\ faults' \in Nat /\ latched' \in BOOLEAN
         /\ latched' => faults' > 0
<1>1. faults \in Nat /\ latched \in BOOLEAN /\ (latched => faults > 0)
  BY DEF IInv, Types, Bounded
<1>2. latched' = (latched \/ out = "unsynced") /\ faults' = IF out = "ok" \/ latched THEN faults ELSE faults + 1
  BY DEF Write
<1>3. latched' \in BOOLEAN /\ (latched' => latched \/ out = "unsynced")
  BY <1>2
<1> QED
  BY <1>1, <1>2, <1>3

LEMMA LoadKeeps ==
  ASSUME IInv, Load
  PROVE  IInv'
<1>1. /\ phase = "load" /\ UNCHANGED <<mem, disk, latched, restore, unfilled, revived, conv, pump, tx, degraded, faults>>
      /\ \/ phase' = "unwired" /\ UNCHANGED slot
         \/ phase' = "fill" /\ slot' = Dormant(mem)
  BY DEF Load, store, fills
<1>2. slot \in [Wsids -> {"none", "idle"}] /\ Dormant(mem) \in [Wsids -> {"none", "idle"}]
  BY <1>1, StartupSlots
<1>3. slot' \in [Wsids -> {"none", "idle"}]
  BY <1>1, <1>2
<1>4. FilesOK' /\ {restore', unfilled'} \subseteq BOOLEAN /\ faults' \in Nat
      /\ latched' \in BOOLEAN /\ (latched' => faults' > 0)
  BY <1>1 DEF IInv, FilesOK, Past, Types, Bounded
<1>5. Dormant(mem)' = Dormant(mem)
  BY <1>1 DEF Dormant, Live
<1>6. UNCHANGED slot \/ slot' = Dormant(mem)'
  BY <1>1, <1>5
<1> QED
  BY <1>1, <1>3, <1>4, <1>5, <1>6, StartupKeeps
LEMMA MigrateAgrees ==
  ASSUME IInv, NEW w \in Wsids, NEW out \in Outcomes, Migrate(w, out)
  PROVE  IInv'
<1> PICK f : f = Migrated(w)
  OBVIOUS
<1>1. /\ phase = "load" /\ Live(mem) = {} /\ Possible(out) /\ Write(f, {w}, out)
      /\ UNCHANGED <<restore, unfilled, revived, conv, pump, tx, degraded>>
      /\ \/ out = "ok" /\ phase' = "fill" /\ slot' = Dormant(f)
         \/ out # "ok" /\ phase' = "unwired" /\ UNCHANGED slot
  BY DEF Migrate, fills
<1>2. mem \in Files
  BY DEF IInv, FilesOK, FileOK
<1>3. FileOK(Past, f)
  <2> PICK e : e = [NewEntry EXCEPT !.resume = Legacy, !.view = 1, !.old = TRUE]
    OBVIOUS
  <2>1. e \in AnyEntries /\ e.life = "live" /\ e.resume = Legacy /\ e.view = 1 /\ e.old = TRUE
    BY FileRows DEF AnyEntries, NewEntry, NoEntry
  <2>2. f \in Files /\ Live(f) \subseteq {w} /\ (w \in Live(f) => f.entry[w] = e)
    <3>1. CASE restore = TRUE
      <4>1. f = [mem EXCEPT !.entry = [mem.entry EXCEPT ![w] = e], !.migrated = TRUE]
        BY <1>2, <3>1 DEF Migrated, Files
      <4>2. mem.entry \in [Wsids -> AnyEntries]
        BY <1>2 DEF Files
      <4> PICK g : g = [mem.entry EXCEPT ![w] = e]
        OBVIOUS
      <4>3. g \in [Wsids -> AnyEntries] /\ g[w] = e /\ (\A v \in Wsids \ {w} : g[v] = mem.entry[v])
        BY <2>1, <4>2
      <4>4. f \in Files /\ f.entry = g
        BY <1>2, <4>1, <4>3 DEF Files
      <4> QED
        BY <1>1, <4>3, <4>4 DEF Live
    <3>2. CASE restore = FALSE
      <4>1. f \in Files /\ f.entry = mem.entry
        BY <1>2, <3>2 DEF Migrated, Files
      <4> QED
        BY <1>1, <4>1 DEF Live
    <3> QED
      BY <3>1, <3>2 DEF IInv, Types
  <2>3. Cardinality(Live(f)) <= Cap
    <3>1. IsFiniteSet({w}) /\ Cardinality({w}) = 1
      BY FS_Singleton
    <3>2. IsFiniteSet(Live(f)) /\ Cardinality(Live(f)) <= 1 /\ Cardinality(Live(f)) \in Nat
      BY <2>2, <3>1, FS_Subset, FS_CardinalityType
    <3> QED
      BY <3>2, FileRows
  <2>4. Fits(Past, f)
    <3>1. \A v \in Live(f) : v = w /\ f.entry[v] = e
      BY <2>2
    <3>2. FitsAs(Past, w, e)
      BY <2>1 DEF FitsAs
    <3>3. e.view <= 1
      BY <2>1
    <3> QED
      BY <3>1, <3>2, <3>3 DEF Fits
  <2> QED
    BY <2>2, <2>3, <2>4 DEF FileOK
<1>4. FilesOK' /\ mem' = (IF out = "failed" THEN mem ELSE f)
  <2>1. Past' = Past
    BY <1>1 DEF Past
  <2> QED
    BY <1>1, <1>3, <2>1, FilesWritten DEF IInv
<1>5. faults' \in Nat
      /\ latched' \in BOOLEAN /\ (latched' => faults' > 0)
  BY <1>1, WriteFaults
<1>6. slot \in [Wsids -> {"none", "idle"}] /\ Dormant(f) \in [Wsids -> {"none", "idle"}]
  BY <1>1, StartupSlots
<1>7. {restore', unfilled'} \subseteq BOOLEAN
  BY <1>1 DEF IInv, Types
<1>8. CASE out = "ok"
  <2>1. mem' = f /\ slot' = Dormant(f) /\ phase' = "fill"
    BY <1>1, <1>4, <1>8
  <2>2. Dormant(mem)' = slot' /\ slot' \in [Wsids -> {"none", "idle"}]
    BY <1>6, <2>1 DEF Dormant, Live
  <2> QED
    BY <1>1, <1>4, <1>5, <1>7, <2>1, <2>2, StartupKeeps
<1>9. CASE out # "ok"
  <2>1. UNCHANGED slot /\ phase' = "unwired" /\ slot' \in [Wsids -> {"none", "idle"}]
    BY <1>1, <1>6, <1>9
  <2> QED
    BY <1>1, <1>4, <1>5, <1>7, <2>1, StartupKeeps
<1> QED
  BY <1>8, <1>9

(* A file whose sessions are those of the registry. *)
LEMMA SameSessions ==
  ASSUME IInv, NEW p, NEW f \in Files, \A w \in Wsids : f.entry[w].life = mem.entry[w].life, Fits(p, f)
  PROVE  FileOK(p, f) /\ Dormant(f) = Dormant(mem)
<1>1. Live(f) = Live(mem)
  BY DEF Live
<1> QED
  BY <1>1 DEF IInv, FilesOK, FileOK, Dormant

LEMMA FilledFits ==
  ASSUME IInv, ~mem.filled, NEW p, revived \subseteq p.renewed,
         unfilled => {w \in Fillable : mem.entry[w].view > 1} \subseteq p.renewed
  PROVE  /\ Filled \in Files /\ Filled.filled
         /\ \A w \in Wsids : Filled.entry[w].life = mem.entry[w].life
         /\ Fits(p, Filled)
<1> PICK f : f = Filled
  OBVIOUS
<1>1. mem \in Files /\ Fillable \subseteq Live(mem)
  BY DEF IInv, FilesOK, FileOK, Fillable
<1>2. /\ f.filled
      /\ f = [mem EXCEPT !.filled = TRUE, !.entry = f.entry]
      /\ f.entry = [w \in Wsids |-> IF w \in Fillable THEN [mem.entry[w] EXCEPT !.resume = Legacy] ELSE mem.entry[w]]
  BY <1>1 DEF Filled, Files
<1>3. ASSUME NEW w \in Wsids
      PROVE  /\ f.entry[w] \in AnyEntries /\ f.entry[w].life = mem.entry[w].life
             /\ f.entry[w].view = mem.entry[w].view /\ f.entry[w].old = mem.entry[w].old
             /\ f.entry[w].resume = IF w \in Fillable THEN Legacy ELSE mem.entry[w].resume
  <2>1. mem.entry[w] \in AnyEntries
    BY <1>1 DEF Files
  <2>2. f.entry[w] = IF w \in Fillable THEN [mem.entry[w] EXCEPT !.resume = Legacy] ELSE mem.entry[w]
    BY <1>2
  <2> QED
    BY <2>1, <2>2, FileRows DEF AnyEntries
<1>4. f \in Files
  <2>1. f.entry \in [Wsids -> AnyEntries]
    BY <1>2, <1>3
  <2> QED
    BY <1>1, <1>2, <2>1 DEF Files
<1>5. Fits(p, f)
  <2>1. Fits(Past, mem) /\ Live(f) = Live(mem) /\ Live(mem) \subseteq Wsids
    BY <1>3 DEF IInv, FilesOK, FileOK, Live
  <2>2. ASSUME NEW w \in Live(f) PROVE FitsAs(p, w, f.entry[w])
    <3>1. FitsAs(Past, w, mem.entry[w]) /\ (unfilled \/ mem.entry[w].view <= 1) /\ mem.entry[w].view \in Nat
      BY <1>1, <2>1, <2>2 DEF Fits, Past, Files, AnyEntries
    <3>2. CASE w \in Fillable
      <4>1. mem.entry[w].view <= 1 \/ w \in p.renewed
        BY <3>1, <3>2
      <4> QED
        BY <1>3, <2>1, <3>1, <3>2, <4>1 DEF FitsAs
    <3>3. CASE w \notin Fillable
      BY <1>3, <2>1, <3>1, <3>3 DEF FitsAs, Past
    <3> QED
      BY <3>2, <3>3
  <2>3. ASSUME NEW v \in Live(f), NEW w \in Live(f), f.entry[v].resume = Legacy, f.entry[w].resume = Legacy
        PROVE  v = w
    <3>1. CASE Fillable = {}
      BY <1>3, <2>1, <2>3, <3>1 DEF Fits
    <3>2. CASE Fillable # {}
      <4>1. Cardinality(Live(mem)) <= 1
        BY <3>2 DEF Fillable
      <4>2. IsFiniteSet(Live(mem)) /\ Cardinality(Live(mem)) \in Nat /\ {v, w} \subseteq Live(mem)
        BY <2>1, FileRows, FS_Subset, FS_CardinalityType
      <4>3. IsFiniteSet({v, w}) /\ Cardinality({v, w}) <= 1 /\ Cardinality({v, w}) \in Nat
        BY <4>1, <4>2, FS_Subset, FS_CardinalityType
      <4> SUFFICES ASSUME v # w PROVE FALSE
        OBVIOUS
      <4>4. IsFiniteSet({v}) /\ Cardinality({v}) = 1 /\ w \notin {v}
        BY FS_Singleton
      <4>5. Cardinality({v} \cup {w}) = 2 /\ {v} \cup {w} = {v, w}
        BY <4>4, FS_AddElement
      <4> QED
        BY <4>3, <4>5
    <3> QED
      BY <3>1, <3>2
  <2> QED
    BY <1>2, <2>2, <2>3 DEF Fits
<1> QED
  BY <1>2, <1>3, <1>4, <1>5

LEMMA FillAgrees ==
  ASSUME IInv, NEW out \in Outcomes, Fill(out)
  PROVE  IInv'
<1> PICK f : f = Filled
  OBVIOUS
<1>1. /\ phase = "fill" /\ phase' = "mark" /\ ~mem.filled /\ Possible(out) /\ Write(f, Fillable, out)
      /\ UNCHANGED <<slot, conv, pump, tx, degraded>>
      /\ unfilled' = (unfilled \/ out = "failed")
      /\ revived' = IF unfilled THEN revived \cup {w \in Fillable : mem.entry[w].view > 1} ELSE revived
      /\ restore' \in {restore, restore /\ out # "ok"}
  BY DEF Fill, NeedsFill, live
<1> PICK p : p = Past'
  OBVIOUS
<1>10. p.failed = unfilled' /\ p.renewed = revived' /\ Past.failed = unfilled /\ Past.renewed = revived
  BY DEF Past
<1>11. unfilled \in BOOLEAN /\ unfilled' \in BOOLEAN /\ (unfilled => unfilled') /\ (out = "failed" => unfilled')
  BY <1>1 DEF IInv, Types
<1>12. revived \subseteq revived' /\ (unfilled => {w \in Fillable : mem.entry[w].view > 1} \subseteq revived')
  BY <1>1
<1>2. FileOK(p, f) /\ Dormant(f) = Dormant(mem) /\ f.filled
  BY <1>1, <1>10, <1>12, FilledFits, SameSessions
<1>13. \A g : FileOK(Past, g) => FileOK(p, g)
  BY <1>10, <1>11, <1>12, PastGrows
<1>3. FilesOK' /\ mem' = (IF out = "failed" THEN mem ELSE f) /\ latched' = (latched \/ out = "unsynced")
  BY <1>1, <1>2, <1>13, FilesWritten DEF IInv
<1>4. faults' \in Nat
      /\ latched' \in BOOLEAN /\ (latched' => faults' > 0)
  BY <1>1, WriteFaults
<1>5. slot \in [Wsids -> {"none", "idle"}] /\ (~latched => slot = Dormant(mem)) /\ slot' = slot
  BY <1>1, StartupSlots
<1>6. {restore', unfilled'} \subseteq BOOLEAN
  BY <1>1, <1>11 DEF IInv, Types
<1>7. Dormant(mem)' = Dormant(mem)
  <2>1. Dormant(mem)' = Dormant(mem')
    BY DEF Dormant, Live
  <2> QED
    BY <1>2, <1>3, <2>1
<1>8. ~latched' => ~latched
  BY <1>3
<1>9. ~latched' => mem'.filled \/ unfilled'
  BY <1>2, <1>3, <1>11
<1> QED
  BY <1>1, <1>3, <1>4, <1>5, <1>6, <1>7, <1>8, <1>9, StartupKeeps

LEMMA SkipFillKeeps ==
  ASSUME IInv, SkipFill
  PROVE  IInv'
<1>1. /\ phase = "fill" /\ phase' = "mark" /\ mem.filled
      /\ UNCHANGED <<mem, disk, latched, slot, conv, pump, restore, unfilled, revived, tx, degraded, faults>>
  BY DEF SkipFill, NeedsFill, store, live, fills
<1>2. slot \in [Wsids -> {"none", "idle"}] /\ (~latched => slot = Dormant(mem)) /\ slot' = slot
  BY <1>1, StartupSlots
<1>3. FilesOK' /\ {restore', unfilled'} \subseteq BOOLEAN /\ faults' \in Nat
      /\ latched' \in BOOLEAN /\ (latched' => faults' > 0)
  BY <1>1 DEF IInv, FilesOK, Past, Types, Bounded
<1>4. Dormant(mem)' = Dormant(mem)
  BY <1>1 DEF Dormant, Live
<1> QED
  BY <1>1, <1>2, <1>3, <1>4, StartupKeeps

LEMMA MarkedFits ==
  ASSUME IInv
  PROVE  /\ Marked \in Files /\ Marked.filled = mem.filled
         /\ \A w \in Wsids : Marked.entry[w].life = mem.entry[w].life
         /\ Fits(Past, Marked)
<1> PICK f : f = Marked
  OBVIOUS
<1>1. mem \in Files
  BY DEF IInv, FilesOK, FileOK
<1>2. /\ f.filled = mem.filled
      /\ f = [mem EXCEPT !.marked = TRUE, !.entry = f.entry]
      /\ f.entry = [w \in Wsids |-> IF w \in Dated THEN [mem.entry[w] EXCEPT !.old = TRUE] ELSE mem.entry[w]]
  BY <1>1 DEF Marked, Files
<1>3. ASSUME NEW w \in Wsids
      PROVE  /\ f.entry[w] \in AnyEntries /\ f.entry[w].life = mem.entry[w].life
             /\ f.entry[w].view = mem.entry[w].view /\ f.entry[w].resume = mem.entry[w].resume
             /\ f.entry[w].old => mem.entry[w].old \/ mem.entry[w].view = 1
  <2>1. mem.entry[w] \in AnyEntries
    BY <1>1 DEF Files
  <2>2. f.entry[w] = IF w \in Dated THEN [mem.entry[w] EXCEPT !.old = TRUE] ELSE mem.entry[w]
    BY <1>2
  <2> QED
    BY <2>1, <2>2 DEF AnyEntries, Dated
<1>4. f \in Files
  <2>1. f.entry \in [Wsids -> AnyEntries]
    BY <1>2, <1>3
  <2> QED
    BY <1>1, <1>2, <2>1 DEF Files
<1>5. Fits(Past, f)
  <2>1. Fits(Past, mem) /\ Live(f) = Live(mem) /\ Live(mem) \subseteq Wsids
    BY <1>3 DEF IInv, FilesOK, FileOK, Live
  <2> QED
    BY <1>2, <1>3, <2>1 DEF Fits, FitsAs
<1> QED
  BY <1>2, <1>3, <1>4, <1>5

LEMMA MarkAgrees ==
  ASSUME IInv, NEW out \in Outcomes, Mark(out)
  PROVE  IInv'
<1> PICK f : f = Marked
  OBVIOUS
<1>1. /\ phase = "mark" /\ phase' = "up" /\ Possible(out) /\ Write(f, Dated, out)
      /\ UNCHANGED <<slot, conv, pump, tx, degraded, restore, unfilled, revived>>
  BY DEF Mark, live, fills
<1>2. FileOK(Past, f) /\ Dormant(f) = Dormant(mem) /\ f.filled = mem.filled /\ Past' = Past
  BY <1>1, MarkedFits, SameSessions DEF Past
<1>3. FilesOK' /\ mem' = (IF out = "failed" THEN mem ELSE f) /\ latched' = (latched \/ out = "unsynced")
  BY <1>1, <1>2, FilesWritten DEF IInv
<1>4. faults' \in Nat
      /\ latched' \in BOOLEAN /\ (latched' => faults' > 0)
  BY <1>1, WriteFaults
<1>5. slot \in [Wsids -> {"none", "idle"}] /\ (~latched => slot = Dormant(mem)) /\ slot' = slot
  BY <1>1, StartupSlots
<1>6. {restore', unfilled'} \subseteq BOOLEAN
  BY <1>1 DEF IInv, Types
<1>7. Dormant(mem)' = Dormant(mem)
  <2>1. Dormant(mem)' = Dormant(mem')
    BY DEF Dormant, Live
  <2> QED
    BY <1>2, <1>3, <2>1
<1>8. ~latched' => ~latched
  BY <1>3
<1>9. ~latched' => mem'.filled \/ unfilled'
  BY <1>1, <1>2, <1>3, <1>8 DEF IInv, Bounded
<1> QED
  BY <1>1, <1>3, <1>4, <1>5, <1>6, <1>7, <1>8, <1>9, StartupKeeps

LEMMA SkipMarkKeeps ==
  ASSUME IInv, SkipMark
  PROVE  IInv'
<1>1. /\ phase = "mark" /\ phase' = "up"
      /\ UNCHANGED <<mem, disk, latched, slot, conv, pump, restore, unfilled, revived, tx, degraded, faults>>
  BY DEF SkipMark, store, live, fills
<1>2. slot \in [Wsids -> {"none", "idle"}] /\ (~latched => slot = Dormant(mem)) /\ slot' = slot
  BY <1>1, StartupSlots
<1>3. FilesOK' /\ {restore', unfilled'} \subseteq BOOLEAN /\ faults' \in Nat
      /\ latched' \in BOOLEAN /\ (latched' => faults' > 0)
      /\ (~latched' => mem'.filled \/ unfilled')
  BY <1>1 DEF IInv, FilesOK, Past, Types, Bounded
<1>4. Dormant(mem)' = Dormant(mem)
  BY <1>1 DEF Dormant, Live
<1> QED
  BY <1>1, <1>2, <1>3, <1>4, StartupKeeps
-----------------------------------------------------------------------------
LEMMA IInvInit ==
  ASSUME Init
  PROVE  IInv
<1>1. PICK former \in SUBSET Wsids, dated \in BOOLEAN :
        /\ Cardinality(former) <= Cap
        /\ mem = File([w \in Wsids |->
                        IF w \notin former THEN NoEntry
                        ELSE [NewEntry EXCEPT !.view = IF dated /\ former = {w} THEN 1 ELSE 0]],
                      former # {})
        /\ disk = [now |-> mem, safe |-> mem] /\ unfilled = FALSE
        /\ latched = FALSE /\ restore \in BOOLEAN
        /\ slot = AllNone /\ conv = [w \in Wsids |-> NoConv] /\ pump = AllNone
        /\ tx = [c \in Callers |-> Idle] /\ degraded = FALSE
        /\ phase = "load" /\ faults = 0
  BY DEF Init
<1>2. ASSUME NEW w \in Wsids
      PROVE  /\ mem.entry[w] \in AnyEntries /\ mem.entry[w].view <= 1
             /\ mem.entry[w].resume = NoConv /\ mem.entry[w].old = FALSE
             /\ mem.entry[w].life = "live" <=> w \in former
  <2>1. mem.entry[w] = IF w \notin former THEN NoEntry
                       ELSE [NewEntry EXCEPT !.view = IF dated /\ former = {w} THEN 1 ELSE 0]
    BY <1>1 DEF File
  <2>2. CASE w \notin former
    BY <2>1, <2>2, FileRows DEF NoEntry
  <2>3. CASE w \in former
    <3>1. PICK n \in {0, 1} : mem.entry[w] = [NewEntry EXCEPT !.view = n]
      BY <2>1, <2>3
    <3>2. mem.entry[w] = [life |-> "live", resume |-> NoConv, view |-> n, old |-> FALSE]
      BY <3>1 DEF NewEntry, NoEntry
    <3>3. NoConv \in AnyConvs /\ n \in Nat /\ n <= 1
      BY <3>1, FileRows
    <3> QED
      BY <2>3, <3>2, <3>3 DEF AnyEntries
  <2> QED
    BY <2>2, <2>3
<1>3. mem \in Files
  <2> PICK g : g = mem.entry
    OBVIOUS
  <2>1. PICK m \in BOOLEAN : /\ mem = [entry |-> g, migrated |-> m, filled |-> FALSE, marked |-> FALSE]
                            /\ g = [w \in Wsids |-> g[w]]
    BY <1>1 DEF File
  <2>2. g \in [Wsids -> AnyEntries]
    BY <1>2, <2>1
  <2> QED
    BY <2>1, <2>2 DEF Files
<1>4. FileOK(Past, mem)
  <2>1. Live(mem) = former
    BY <1>2 DEF Live
  <2>2. Fits(Past, mem)
    BY <1>2, <2>1, FileRows DEF Fits, FitsAs
  <2> QED
    BY <1>1, <1>3, <2>1, <2>2 DEF FileOK
<1>5. FilesOK
  BY <1>1, <1>4 DEF FilesOK
<1>6. (\A w \in Wsids : slot[w] = "none" /\ pump[w] = "none") /\ (\A c \in Callers : tx[c] = Idle)
  BY <1>1 DEF AllNone
<1>7. Types
  BY <1>1, FileRows, IdleRow DEF Types, AllNone, TxRows
<1>8. Bounded
  <2>1. Occupied = {}
    BY <1>6 DEF Occupied
  <2> QED
    BY <1>1, <2>1, FileRows, FS_EmptySet DEF Bounded
<1>9. OneUser
  BY <1>6, IdleRow DEF OneUser
<1>10. \A c \in Callers : Relies(c)
  BY <1>6, IdleRow DEF Relies
<1>11. \A w \in Wsids : Agrees(w)
  BY <1>1, <1>6 DEF Agrees
<1> QED
  BY <1>5, <1>7, <1>8, <1>9, <1>10, <1>11 DEF IInv

LEMMA IInvNext ==
  ASSUME ~Shared, IInv, [Next]_vars
  PROVE  IInv'
<1>1. CASE UNCHANGED vars
  <2>1. UNCHANGED <<mem, disk, latched, restore, unfilled, revived, slot, conv, pump, tx, degraded, phase, faults>>
    BY <1>1 DEF vars
  <2>2. Types' /\ FilesOK' /\ OneUser' /\ Bounded'
    BY <2>1 DEF IInv, Types, FilesOK, Past, OneUser, Bounded, Occupied
  <2>3. \A c \in Callers : Relies(c)'
    BY <2>1 DEF IInv, Relies, Live, Suits
  <2>4. \A w \in Wsids : Agrees(w)'
    BY <2>1 DEF IInv, Agrees, Live, Suits, Committed, UsedAt
  <2> QED
    BY <2>2, <2>3, <2>4 DEF IInv
<1>2. CASE Next
  <2>1. ASSUME NEW c \in Callers,
               \/ CreateEnter(c) \/ CreateReserve(c) \/ CommitCreate(c) \/ CommitCreateFails(c)
               \/ StartBegin(c) \/ StartFails(c) \/ StartAccept(c)
               \/ NewUnread(c) \/ RemoveTear(c) \/ RemoveRelease(c)
        PROVE  IInv'
    BY <2>1, CreateEnterKeeps, CreateReserveKeeps, CommitCreateKeeps, CommitCreateFailsKeeps, StartBeginKeeps,
       StartFailsKeeps, StartAcceptKeeps, NewUnreadKeeps, RemoveTearKeeps, RemoveReleaseKeeps
  <2>2. ASSUME NEW c \in Callers, NEW p \in {"fresh", "seen"}, Spawn(c, p) PROVE IInv'
    BY <2>2, SpawnKeeps
  <2>3. ASSUME NEW c \in Callers, NEW w \in Wsids, StartRead(c, w) \/ NewBegin(c, w) \/ RemoveEnter(c, w)
        PROVE  IInv'
    BY <2>3, StartReadKeeps, NewBeginKeeps, RemoveEnterKeeps
  <2>4. ASSUME NEW c \in Callers, NEW out \in Outcomes,
               \/ CreatePut(c, out) \/ CreateUndo(c, out) \/ NewReset(c, out) \/ RemoveTomb(c, out)
               \/ \E known \in BOOLEAN : StartIdentity(c, known, out)
        PROVE  IInv'
    BY <2>4, CreatePutKeeps, CreateUndoKeeps, NewResetKeeps, RemoveTombKeeps, StartIdentityKeeps
  <2>5. ASSUME NEW w \in Wsids, InitSeen(w) \/ SessionEnds(w) PROVE IInv'
    BY <2>5, InitSeenKeeps, SessionEndsKeeps
  <2>6. ASSUME NEW w \in Wsids, NEW out \in Outcomes, InitWrite(w, out) \/ ClearLegacy(w, out) \/ Migrate(w, out)
        PROVE  IInv'
    BY <2>6, InitWriteKeeps, ClearLegacyKeeps, MigrateAgrees
  <2>7. ASSUME NEW out \in Outcomes, SetLayout(out) \/ Shutdown(out) \/ Fill(out) \/ Mark(out) PROVE IInv'
    BY <2>7, SetLayoutKeeps, ShutdownKeeps, FillAgrees, MarkAgrees
  <2>8. CASE Crash \/ PowerCut \/ Load \/ SkipFill \/ SkipMark
    BY <2>8, CrashKeeps, PowerCutKeeps, LoadKeeps, SkipFillKeeps, SkipMarkKeeps
  <2> QED
    BY <1>2, <2>1, <2>2, <2>3, <2>4, <2>5, <2>6, <2>7, <2>8 DEF Next
<1> QED
  BY <1>1, <1>2

LEMMA IInvHolds == ASSUME ~Shared PROVE Spec => []IInv
<1>1. IInv /\ [Next]_vars => IInv'
  BY IInvNext
<1> QED
  BY <1>1, IInvInit, PTL DEF Spec

LEMMA InvGivesSlotsMatch ==
  ASSUME IInv
  PROVE  SlotsMatch
<1>1. ASSUME phase = "up", ~latched, ~degraded, NEW w \in Wsids \ InUse
      PROVE  Committed(w) <=> w \in Live(mem)
  <2>1. \A pcs : ~UsedAt(w, pcs)
    BY <1>1 DEF UsedAt, InUse
  <2> QED
    BY <1>1, <2>1 DEF IInv, Agrees
<1>2. ASSUME NEW f, FileOK(Past, f) PROVE ~TooMany(f)
  <2>1. Cardinality(Live(f)) \in Nat /\ Cap \in Nat
    BY LiveFinite, FileRows DEF Live
  <2> QED
    BY <1>2, <2>1 DEF TooMany, FileOK
<1> QED
  BY <1>1, <1>2 DEF SlotsMatch, IInv, FilesOK

LEMMA InvGivesEntriesFitViews ==
  ASSUME IInv
  PROVE  EntriesFitViews
<1>1. ASSUME NEW f, Fits(Past, f)
      PROVE  /\ \A w \in Live(f) : FitsAs(Past, w, f.entry[w])
             /\ \A v, w \in Live(f) :
                   v # w /\ f.entry[v].resume # NoConv => f.entry[v].resume # f.entry[w].resume
  <2>1. \A w \in Live(f) : FitsAs(Past, w, f.entry[w])
    BY <1>1 DEF Fits
  <2>2. ASSUME NEW v \in Live(f), NEW w \in Live(f), v # w, f.entry[v].resume # NoConv,
               f.entry[v].resume = f.entry[w].resume
        PROVE  FALSE
    <3>1. FitsAs(Past, v, f.entry[v]) /\ FitsAs(Past, w, f.entry[w])
      BY <2>1
    <3>2. f.entry[v].resume = Legacy <=> f.entry[w].resume = Legacy
      BY <2>2
    <3>3. CASE f.entry[v].resume = Legacy
      BY <1>1, <2>2, <3>2, <3>3 DEF Fits
    <3>4. CASE f.entry[v].resume # Legacy
      <4>1. f.entry[v].resume = [of |-> v, view |-> f.entry[v].view]
        BY <2>2, <3>1, <3>4 DEF FitsAs
      <4>2. f.entry[w].resume = [of |-> w, view |-> f.entry[w].view]
        BY <2>2, <3>1, <3>2, <3>4 DEF FitsAs
      <4>3. f.entry[v].resume.of = v /\ f.entry[w].resume.of = w
        BY <4>1, <4>2
      <4> QED
        BY <2>2, <4>3
    <3> QED
      BY <3>3, <3>4
  <2> QED
    BY <2>1, <2>2
<1>2. Fits(Past, mem) /\ Fits(Past, disk.now) /\ Fits(Past, disk.safe)
  BY DEF IInv, FilesOK, FileOK
<1> QED
  BY <1>1, <1>2 DEF EntriesFitViews, FitsView, FitsAs, Past

LEMMA InvGivesIdentityRecorded ==
  ASSUME IInv
  PROVE  IdentityRecorded
<1>1. ASSUME NEW w \in Wsids \ InUse PROVE ~UsedAt(w, {"identity"})
  BY <1>1 DEF UsedAt, InUse
<1> QED
  BY <1>1 DEF IdentityRecorded, IInv, Agrees

\* With at most one binding on a session at a time, the slots of the manager are
\* those of the registry once nothing is under way and no latch is set, for every
\* set of sessions and callers, and any file a restart can find fits the limit.
THEOREM SlotsMatchHolds == ASSUME ~Shared PROVE Spec => []SlotsMatch
BY IInvHolds, InvGivesSlotsMatch, PTL

\* Under the same condition no session ever resumes a conversation of another
\* session or of an earlier view, in memory or in a file that a restart can find,
\* but for the legacy one in a session that was renewed before the resume backfill
\* was tried again.
THEOREM EntriesFitViewsHolds == ASSUME ~Shared PROVE Spec => []EntriesFitViews
<1>1. IInv => EntriesFitViews
  BY InvGivesEntriesFitViews
<1> QED
  BY <1>1, IInvHolds, PTL

\* Under the same condition, the identity of a running conversation is on record
\* whichever came first, the acceptance of its session or its init.
THEOREM IdentityRecordedHolds == ASSUME ~Shared PROVE Spec => []IdentityRecorded
BY IInvHolds, InvGivesIdentityRecorded, PTL
=============================================================================
