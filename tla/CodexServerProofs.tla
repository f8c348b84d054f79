-------------------------- MODULE CodexServerProofs --------------------------
(***************************************************************************)
(* What holds of CodexServer for any callers and any bounds: who is inside *)
(* the two locks, that no generation is left without somebody to finalize  *)
(* it, that the recorder polled for errors is that of the server in use,   *)
(* and that the log of a finalized generation is whole.  At the end, what  *)
(* holds of the supervised process of a server (ProcSupervisor).           *)
(***************************************************************************)
EXTENDS CodexServer, ProcSupervisor, TLAPS

Exclusive == {"old", "new", "spawn", "attach", "shake", "undo"}
Inside == Exclusive \cup {"wire", "clear"}

Fields == {"fin", "watch", "born", "hooked"}
Shape ==
    /\ DOMAIN gen = Gens /\ \A g \in Gens : Fields \subseteq DOMAIN gen[g]
    /\ DOMAIN pc = Callers /\ DOMAIN srv = Callers
    /\ last \in 0..MaxGens /\ cur \in 0..last /\ epoch \in Nat
    /\ \A g \in Gens : gen[g].watch = "waiting" => gen[g].born \in Nat

\* A lock is held by exactly the caller whose code is inside it.
Locks ==
    /\ \A c \in Callers : /\ pc[c] \in Inside <=> mu = c
                          /\ pc[c] \in Exclusive <=> smu = c
    /\ mu = Free \/ mu \in Callers
    /\ smu = Free \/ smu \in Callers

\* Whoever builds a generation works with one that is allocated, and by then the published
\* one is being finalized.
Building ==
    /\ \A c \in Callers : pc[c] \in {"spawn", "attach", "shake", "undo"} => srv[c] \in 1..last
    /\ smu # Free /\ cur # 0 => gen[cur].fin # "no"

\* A watcher that still waits has the epoch of its own generation, and only that of the
\* published one has the present epoch.
Epochs ==
    \A g \in Gens : gen[g].watch = "waiting" =>
        /\ gen[g].born <= epoch
        /\ cur # 0 /\ cur # g => gen[g].born < epoch

\* The generation in use is polled and has its handlers, but for the caller that is about to
\* see to it.
Polled == cur # 0 => wireGen = cur /\ gen[cur].hooked
Monitor == /\ mu = Free => Polled
           /\ \A c \in Callers : pc[c] = "clear" => Polled

Inv == Shape /\ Locks /\ Building /\ Epochs /\ Monitor /\ EveryGenerationHasOwner

-----------------------------------------------------------------------------
LEMMA PlacesOK ==
    /\ Exclusive \subseteq Inside
    /\ {"spawn", "attach", "shake", "undo", "old", "new"} \subseteq Exclusive
    /\ {"wire", "clear"} \subseteq Inside \ Exclusive
    /\ {"idle", "gate", "gated", "lock", "serve", "turn", "line"} \cap Inside = {}
BY DEF Exclusive, Inside

LEMMA FreeIsNobody == \A c \in Callers : c # Free
BY BoundsAssumption DEF Callers, Free

LEMMA InvInit == Init => Inv
<1> SUFFICES ASSUME Init PROVE Inv
  OBVIOUS
<1>1. Shape
  BY BoundsAssumption DEF Init, Shape, NoGeneration, Fields
<1>2. Locks
  BY PlacesOK, FreeIsNobody DEF Init, Locks
<1>3. Building /\ Epochs /\ Monitor /\ EveryGenerationHasOwner
  BY BoundsAssumption DEF Init, Building, Epochs, Monitor, Polled, EveryGenerationHasOwner, NoGeneration
<1> QED
  BY <1>1, <1>2, <1>3 DEF Inv

-----------------------------------------------------------------------------
\* A step edits one generation.
Edits(g) ==
    /\ DOMAIN gen' = Gens /\ \A h \in Gens \ {g} : gen'[h] = gen[h]
    /\ Fields \subseteq DOMAIN gen'[g]
Same(g) ==
    /\ gen'[g].fin = gen[g].fin /\ gen'[g].watch = gen[g].watch
    /\ gen'[g].born = gen[g].born /\ gen'[g].hooked = gen[g].hooked

\* A step is tame if it takes no generation back to before its finalization, starts no
\* watcher, stops one only of a generation that is being finalized, and removes no handlers.
TameAt(g) ==
    /\ gen'[g].fin = "no" => gen[g].fin = "no" /\ gen'[g].watch = gen[g].watch
    /\ gen'[g].watch = "waiting" => gen[g].watch = "waiting" /\ gen'[g].born = gen[g].born
    /\ gen[g].hooked => gen'[g].hooked
Tame == DOMAIN gen' = Gens /\ \A g \in Gens : Fields \subseteq DOMAIN gen'[g] /\ TameAt(g)
ServersStay == UNCHANGED <<last, cur, epoch, smu, mu, wireGen>>

LEMMA GensAreRecords == Inv => DOMAIN gen = Gens /\ \A g \in Gens : Fields \subseteq DOMAIN gen[g]
BY DEF Inv, Shape

LEMMA UnchangedTame == Inv /\ gen' = gen => Tame
BY GensAreRecords DEF Tame, TameAt

LEMMA EditTame == ASSUME Inv, NEW g \in Gens, Edits(g), TameAt(g) PROVE Tame
BY GensAreRecords DEF Tame, TameAt, Edits

LEMMA SameTame == ASSUME Inv, NEW g \in Gens, Edits(g), Same(g) PROVE Tame
BY EditTame DEF Same, TameAt

\* What Begun does to a generation: nothing, or its finalization begins.
LEMMA BegunEdits ==
  ASSUME Inv, NEW g \in Gens, gen' = [gen EXCEPT ![g] = Begun(@)]
  PROVE  Tame /\ gen'[g].fin # "no"
<1>1. gen' = [gen EXCEPT ![g] = Begun(gen[g])]
  OBVIOUS
<1>2. DOMAIN gen' = Gens /\ gen'[g] = Begun(gen[g]) /\ \A h \in Gens \ {g} : gen'[h] = gen[h]
  BY <1>1, GensAreRecords
<1>3. Fields \subseteq DOMAIN gen'[g]
  BY <1>2, GensAreRecords DEF Begun, Fields
<1>4. gen'[g].fin # "no"
  BY <1>2, GensAreRecords DEF Begun, Fields
<1>5. gen'[g].watch = gen[g].watch /\ gen'[g].born = gen[g].born /\ gen'[g].hooked = gen[g].hooked
  BY <1>2, GensAreRecords DEF Begun, Fields
<1> QED
  BY <1>2, <1>3, <1>4, <1>5, EditTame DEF Edits, TameAt

LEMMA ServerTame ==
  ASSUME Inv, NEW g \in Gens, Says(g) \/ Exits(g) \/ FinSteps(g) \/ ReaderSteps(g) \/ WatchBegins(g) \/ WatchTells(g)
  PROVE  Tame
<1>1. DOMAIN gen = Gens /\ \A h \in Gens : Fields \subseteq DOMAIN gen[h]
  BY GensAreRecords
<1>3. CASE Says(g)
  <2>1. Edits(g) /\ Same(g)
    BY <1>1, <1>3 DEF Says, Edits, Same, Fields
  <2> QED
    BY <2>1, SameTame
<1>4. CASE Exits(g)
  <2>1. Edits(g) /\ Same(g)
    BY <1>1, <1>4 DEF Exits, Edits, Same, Fields
  <2> QED
    BY <2>1, SameTame
<1>5. CASE FinDetached(g)
  <2>1. Edits(g)
    BY <1>1, <1>5 DEF FinDetached, Edits, Fields
  <2>2. TameAt(g)
    BY <1>1, <1>5 DEF FinDetached, TameAt, Fields
  <2> QED
    BY <2>1, <2>2, EditTame
<1>6. CASE FinClosed(g)
  <2>1. Edits(g)
    BY <1>1, <1>6 DEF FinClosed, Edits, Fields
  <2>2. TameAt(g)
    BY <1>1, <1>6 DEF FinClosed, TameAt, Fields
  <2> QED
    BY <2>1, <2>2, EditTame
<1>7. CASE Reads(g)
  <2>1. Edits(g) /\ Same(g)
    BY <1>1, <1>7 DEF Reads, Edits, Same, Fields
  <2> QED
    BY <2>1, SameTame
<1>8. CASE Lines(g)
  <2>1. Edits(g) /\ Same(g)
    BY <1>1, <1>8 DEF Lines, Edits, Same, Fields
  <2> QED
    BY <2>1, SameTame
<1>9. CASE HandlerPolls(g) \/ HandlerLatches(g)
  <2>1. Edits(g) /\ Same(g)
    BY <1>1, <1>9 DEF HandlerPolls, HandlerLatches, Edits, Same, Fields
  <2> QED
    BY <2>1, SameTame
<1>10. CASE ReadsEof(g)
  <2>1. Edits(g) /\ Same(g)
    BY <1>1, <1>10 DEF ReadsEof, Edits, Same, Fields
  <2> QED
    BY <2>1, SameTame
<1>11. CASE WatchBegins(g)
  BY <1>11, BegunEdits DEF WatchBegins
<1>12. CASE WatchTells(g)
  <2>1. Edits(g)
    BY <1>1, <1>12 DEF WatchTells, Edits, Fields
  <2>2. TameAt(g)
    BY <1>1, <1>12 DEF WatchTells, TameAt, Fields
  <2> QED
    BY <2>1, <2>2, EditTame
<1> QED
  BY <1>3, <1>4, <1>5, <1>6, <1>7, <1>8, <1>9, <1>10, <1>11, <1>12 DEF FinSteps, ReaderSteps

-----------------------------------------------------------------------------
\* A step that is tame and moves nobody into or out of the locks, nor within them, keeps the
\* invariant: all that the server, its reader and its finalizer do, and the callers outside.
Moves(c) == pc[c] \notin Inside /\ pc'[c] \notin Inside
LEMMA QuietStep ==
  ASSUME Inv, Tame, ServersStay, DOMAIN pc' = Callers, DOMAIN srv' = Callers,
         \A c \in Callers : Moves(c) \/ (pc'[c] = pc[c] /\ srv'[c] = srv[c])
  PROVE  Inv'
<1>1. Shape'
  BY DEF Inv, Shape, Tame, TameAt, ServersStay
<1>2. Locks'
  BY PlacesOK DEF Inv, Locks, ServersStay, Moves
<1>3. cur # 0 => cur \in Gens
  BY BoundsAssumption DEF Inv, Shape, Gens
<1>4. Building'
  BY <1>3, PlacesOK DEF Inv, Building, ServersStay, Moves, Tame, TameAt
<1>5. Epochs'
  BY DEF Inv, Epochs, ServersStay, Tame, TameAt
<1>6. Monitor'
  BY <1>3, PlacesOK DEF Inv, Monitor, Polled, ServersStay, Moves, Tame, TameAt
<1>7. EveryGenerationHasOwner'
  BY PlacesOK, BoundsAssumption DEF Inv, EveryGenerationHasOwner, ServersStay, Moves, Tame, TameAt, Shape, Gens
<1> QED
  BY <1>1, <1>2, <1>4, <1>5, <1>6, <1>7 DEF Inv

LEMMA ServerStep ==
  ASSUME Inv, NEW g \in Gens, Says(g) \/ Exits(g) \/ FinSteps(g) \/ ReaderSteps(g) \/ WatchBegins(g) \/ WatchTells(g)
  PROVE  Inv'
<1>1. ServersStay /\ UNCHANGED <<pc, srv>>
  BY DEF Says, Exits, FinSteps, FinDetached, FinClosed, ReaderSteps, Reads, Lines, HandlerPolls, HandlerLatches,
     ReadsEof, WatchBegins, WatchTells, ServersStay, single, app, mine
<1> QED
  BY <1>1, ServerTame, QuietStep DEF Inv, Shape

LEMMA CallLinesTame == ASSUME Inv, NEW c \in Callers, CallLines(c) PROVE Tame
<1>1. PICK ok \in BOOLEAN : gen' = [gen EXCEPT ![srv[c]].werr = @ \/ ~ok]
  BY DEF CallLines
<1>2. CASE srv[c] \in Gens
  <2>1. Edits(srv[c]) /\ Same(srv[c])
    BY <1>1, <1>2, GensAreRecords DEF Edits, Same, Fields
  <2> QED
    BY <1>2, <2>1, SameTame
<1>3. CASE srv[c] \notin Gens
  <2>1. DOMAIN gen' = Gens /\ \A h \in Gens : gen'[h] = gen[h]
    BY <1>1, <1>3, GensAreRecords
  <2> QED
    BY <2>1, GensAreRecords DEF Tame, TameAt
<1> QED
  BY <1>2, <1>3

\* The callers outside the locks, and the beginning of the shutdown.
Outside(c) ==
    \/ StartEnters(c) \/ KeeperEnters(c) \/ Ends(c)
    \/ GatePolls(c) \/ GateRefuses(c) \/ GatePasses(c) \/ UsesLiving(c) \/ BuildsNone(c)
    \/ Refused(c) \/ HostMade(c) \/ NoThread(c) \/ TurnStarted(c) \/ TurnFails(c) \/ Calls(c) \/ CallLines(c)

LEMMA OutsideStep == ASSUME Inv, NEW c \in Callers, Outside(c) PROVE Inv'
<1>1. DOMAIN pc = Callers /\ DOMAIN srv = Callers
  BY DEF Inv, Shape
<1>2. CASE CallLines(c)
  <2>1. Tame
    BY <1>2, CallLinesTame
  <2>2. ServersStay /\ Leaves(c, "line")
    BY <1>2 DEF CallLines, ServersStay, single, app
  <2>3. /\ DOMAIN pc' = Callers /\ DOMAIN srv' = Callers /\ Moves(c)
        /\ \A b \in Callers \ {c} : pc'[b] = pc[b] /\ srv'[b] = srv[b]
    BY <1>1, <2>2, PlacesOK DEF Leaves, At, Goes, Moves
  <2> QED
    BY <2>1, <2>2, <2>3, QuietStep
<1>3. CASE ~CallLines(c)
  <2>1. Tame
    BY <1>3, UnchangedTame
       DEF Outside, StartEnters, KeeperEnters, Ends, GatePolls, GateRefuses, GatePasses, UsesLiving, BuildsNone,
           Refused, HostMade, NoThread, TurnStarted, TurnFails, Calls
  <2>2. ServersStay
    BY <1>3
       DEF Outside, StartEnters, KeeperEnters, Ends, GatePolls, GateRefuses, GatePasses, UsesLiving, BuildsNone,
           Refused, HostMade, NoThread, TurnStarted, TurnFails, Calls, ServersStay, single, app, mine
  <2>3. CASE Ends(c)
    <3>1. UNCHANGED <<pc, srv>>
      BY <2>3 DEF Ends, mine
    <3> QED
      BY <1>1, <2>1, <2>2, <3>1, QuietStep
  <2>4. CASE ~Ends(c)
    <3>1. \E x, y \in {"idle", "gate", "gated", "lock", "serve", "turn", "line"} : At(c, x, y)
      BY <1>3, <2>4
         DEF Outside, StartEnters, KeeperEnters, GatePolls, GateRefuses, GatePasses, UsesLiving, BuildsNone,
             Refused, HostMade, NoThread, TurnStarted, TurnFails, Calls, Leaves
    <3>2. srv' = srv \/ \E g : srv' = [srv EXCEPT ![c] = g]
      BY <1>3, <2>4
         DEF Outside, StartEnters, KeeperEnters, GatePolls, GateRefuses, GatePasses, UsesLiving, BuildsNone,
             Refused, HostMade, NoThread, TurnStarted, TurnFails, Calls, Leaves
    <3>3. /\ DOMAIN pc' = Callers /\ DOMAIN srv' = Callers /\ Moves(c)
          /\ \A b \in Callers \ {c} : pc'[b] = pc[b] /\ srv'[b] = srv[b]
      BY <1>1, <3>1, <3>2, PlacesOK DEF At, Goes, Moves
    <3> QED
      BY <2>1, <2>2, <3>3, QuietStep
  <2> QED
    BY <2>3, <2>4
<1> QED
  BY <1>2, <1>3

-----------------------------------------------------------------------------
\* Inside the locks.  A step that goes on within them: `Turns(c, y)' is what it does to pc.
Turns(c, y) ==
    /\ DOMAIN pc' = Callers /\ pc'[c] = y /\ \A b \in Callers \ {c} : pc'[b] = pc[b]
Holds(c) == mu = c /\ \A b \in Callers \ {c} : pc[b] \notin Inside
Empty == mu = Free /\ smu = Free /\ \A b \in Callers : pc[b] \notin Inside

LEMMA AtTurns == ASSUME Inv, NEW c \in Callers, NEW x, NEW y, At(c, x, y) PROVE Turns(c, y) /\ pc[c] = x
BY DEF Inv, Shape, At, Goes, Turns

LEMMA LeavesTurns ==
  ASSUME Inv, NEW c \in Callers, NEW x, Leaves(c, x)
  PROVE  Turns(c, "idle") /\ pc[c] = x /\ DOMAIN srv' = Callers /\ \A b \in Callers \ {c} : srv'[b] = srv[b]
BY AtTurns DEF Inv, Shape, Leaves

LEMMA InsideHolds == ASSUME Inv, NEW c \in Callers, pc[c] \in Inside PROVE Holds(c)
BY DEF Inv, Locks, Holds

LEMMA ExclusiveHolds == ASSUME Inv, NEW c \in Callers, pc[c] \in Exclusive PROVE Holds(c) /\ smu = c
BY InsideHolds DEF Inv, Locks, Inside

LEMMA FreeIsEmpty == ASSUME Inv, mu = Free PROVE Empty
<1>1. \A b \in Callers : pc[b] \notin Inside
  BY FreeIsNobody DEF Inv, Locks
<1>2. \A b \in Callers : smu # b
  BY <1>1 DEF Inv, Locks, Inside
<1> QED
  BY <1>1, <1>2 DEF Inv, Locks, Empty

LEMMA CurIsGen ==
  Inv => /\ last \in 0..MaxGens /\ cur \in 0..last /\ (cur # 0 => cur \in Gens)
         /\ \A g \in 1..last : g \in Gens /\ g # 0
BY BoundsAssumption DEF Inv, Shape, Gens

LEMMA EntersStep ==
  ASSUME Inv, NEW c \in Callers, mu = Free, Enters(c), wireGen' = wireGen
  PROVE  Inv'
<1>1. Empty
  BY FreeIsEmpty
<1>2. Tame /\ (cur # 0 => gen'[cur].fin # "no")
  BY CurIsGen, UnchangedTame, BegunEdits DEF Enters
<1>3. PICK y \in {"old", "new"} : Turns(c, y)
  BY AtTurns DEF Enters
<1>4. mu' = c /\ smu' = c /\ UNCHANGED <<last, cur, epoch, srv>>
  BY DEF Enters
<1>5. Shape'
  BY <1>2, <1>3, <1>4 DEF Inv, Shape, Tame, TameAt, Turns
<1>6. Locks'
  BY <1>1, <1>3, <1>4, PlacesOK, FreeIsNobody DEF Locks, Empty, Turns, Exclusive, Inside
<1>7. Building'
  BY <1>1, <1>2, <1>3, <1>4, PlacesOK DEF Building, Empty, Turns, Inside
<1>8. Epochs'
  BY <1>2, <1>4 DEF Inv, Epochs, Tame, TameAt
<1>9. Monitor'
  BY <1>1, <1>3, <1>4, PlacesOK, FreeIsNobody DEF Monitor, Empty, Turns, Inside
<1>10. EveryGenerationHasOwner'
  BY <1>1, <1>2, <1>4, PlacesOK, BoundsAssumption DEF Inv, EveryGenerationHasOwner, Empty, Tame, TameAt, Shape, Gens
<1> QED
  BY <1>5, <1>6, <1>7, <1>8, <1>9, <1>10 DEF Inv

LEMMA OldDoneStep == ASSUME Inv, NEW c \in Callers, OldDone(c) PROVE Inv'
<1>1. Turns(c, "new") /\ pc[c] = "old"
  BY AtTurns DEF OldDone
<1>2. Holds(c) /\ smu = c
  BY <1>1, ExclusiveHolds, PlacesOK
<1>3. UNCHANGED <<gen, last, cur, epoch, smu, mu, wireGen, srv>>
  BY DEF OldDone, single, app
<1>4. Shape'
  BY <1>1, <1>3 DEF Inv, Shape, Turns
<1>5. Locks'
  BY <1>1, <1>2, <1>3 DEF Inv, Locks, Holds, Turns, Exclusive, Inside
<1>6. Building' /\ Epochs' /\ EveryGenerationHasOwner'
  BY <1>1, <1>3 DEF Inv, Building, Epochs, EveryGenerationHasOwner, Turns
<1>7. Monitor'
  BY <1>1, <1>3 DEF Inv, Monitor, Polled, Turns
<1> QED
  BY <1>4, <1>5, <1>6, <1>7 DEF Inv

LEMMA NewGenerationStep == ASSUME Inv, NEW c \in Callers, NewGeneration(c) PROVE Inv'
<1>1. Turns(c, "spawn") /\ pc[c] = "new"
  BY AtTurns DEF NewGeneration
<1>2. Holds(c) /\ smu = c
  BY <1>1, ExclusiveHolds, PlacesOK
<1>3. /\ UNCHANGED <<gen, cur, epoch, smu, mu, wireGen>> /\ last' = last + 1 /\ last < MaxGens
      /\ DOMAIN srv' = Callers /\ srv'[c] = last + 1 /\ \A b \in Callers \ {c} : srv'[b] = srv[b]
  BY DEF NewGeneration, single, app, Inv, Shape
<1>4. last \in 0..MaxGens /\ cur \in 0..last
  BY CurIsGen
<1>5. Shape'
  BY <1>1, <1>3, <1>4, BoundsAssumption DEF Inv, Shape, Turns
<1>6. Locks'
  BY <1>1, <1>2, <1>3 DEF Inv, Locks, Holds, Turns, Exclusive, Inside
<1>7. Building'
  BY <1>1, <1>3, <1>4, BoundsAssumption DEF Inv, Building, Turns
<1>8. Epochs' /\ Monitor'
  BY <1>1, <1>3 DEF Inv, Epochs, Monitor, Polled, Turns
<1>9. EveryGenerationHasOwner'
  BY <1>1, <1>3, <1>4, BoundsAssumption DEF Inv, EveryGenerationHasOwner, Turns
<1> QED
  BY <1>5, <1>6, <1>7, <1>8, <1>9 DEF Inv

\* The attempt is given up: nothing is published, and the locks' inner one is released.
LEMMA EmptiesStep ==
  ASSUME Inv, NEW c \in Callers, NEW x \in {"new", "undo"}, At(c, x, "wire"), Empties(c),
         UNCHANGED <<gen, last, epoch, mu, wireGen, srv>>
  PROVE  Inv'
<1>1. Turns(c, "wire") /\ pc[c] = x
  BY AtTurns
<1>2. Holds(c) /\ smu = c
  BY <1>1, ExclusiveHolds, PlacesOK
<1>3. cur' = 0 /\ smu' = Free
  BY DEF Empties
<1>4. Shape'
  BY <1>1, <1>3, CurIsGen DEF Inv, Shape, Turns
<1>5. Locks'
  BY <1>1, <1>2, <1>3, FreeIsNobody DEF Inv, Locks, Holds, Turns, Exclusive, Inside
<1>6. Building' /\ Epochs' /\ Monitor'
  BY <1>1, <1>2, <1>3, FreeIsNobody DEF Inv, Building, Epochs, Monitor, Polled, Turns, Holds
<1>7. EveryGenerationHasOwner'
  BY <1>1, <1>2, <1>3, FreeIsNobody DEF Inv, EveryGenerationHasOwner, Building, Turns, Shape
<1> QED
  BY <1>4, <1>5, <1>6, <1>7 DEF Inv

\* The server starts and gets its recorder, or the generation begins to be finalized.
LEMMA BuildStep ==
  ASSUME Inv, NEW c \in Callers, Spawns(c) \/ Attaches(c) \/ SpawnFails(c) \/ ShakeFails(c)
  PROVE  Inv'
<1>1. PICK x \in {"spawn", "attach", "shake"}, y \in {"attach", "shake", "undo"} : At(c, x, y)
  BY DEF Spawns, Attaches, SpawnFails, ShakeFails
<1>2. Turns(c, y) /\ pc[c] = x
  BY <1>1, AtTurns
<1>3. Holds(c) /\ smu = c
  BY <1>2, ExclusiveHolds, PlacesOK
<1>4. srv[c] \in 1..last /\ srv[c] \in Gens
  BY <1>2, CurIsGen DEF Inv, Building, Gens
<1>5. UNCHANGED <<last, cur, epoch, smu, mu, wireGen, srv>>
  BY DEF Spawns, Attaches, SpawnFails, ShakeFails, single, app
<1>6. Tame /\ (y = "undo" => gen'[srv[c]].fin # "no")
  <2>1. CASE Spawns(c) \/ Attaches(c)
    <3>1. Edits(srv[c]) /\ Same(srv[c])
      BY <2>1, <1>4, GensAreRecords DEF Spawns, Attaches, Edits, Same, Fields
    <3>2. y # "undo"
      BY <2>1, <1>2, AtTurns DEF Spawns, Attaches, Turns
    <3> QED
      BY <1>4, <3>1, <3>2, SameTame
  <2>2. CASE SpawnFails(c) \/ ShakeFails(c)
    BY <2>2, <1>4, BegunEdits DEF SpawnFails, ShakeFails
  <2> QED
    BY <2>1, <2>2
<1>7. Shape'
  BY <1>2, <1>5, <1>6 DEF Inv, Shape, Turns, Tame, TameAt
<1>8. Locks'
  BY <1>2, <1>3, <1>5 DEF Inv, Locks, Holds, Turns, Exclusive, Inside
<1>9. Building'
  BY <1>2, <1>4, <1>5, <1>6, CurIsGen DEF Inv, Building, Turns, Tame, TameAt
<1>10. Epochs' /\ Monitor'
  BY <1>2, <1>5, <1>6, CurIsGen DEF Inv, Epochs, Monitor, Polled, Turns, Tame, TameAt
<1>11. EveryGenerationHasOwner'
  BY <1>2, <1>5, <1>6, CurIsGen DEF Inv, EveryGenerationHasOwner, Turns, Tame, TameAt, Gens
<1> QED
  BY <1>7, <1>8, <1>9, <1>10, <1>11 DEF Inv

LEMMA PublishesStep == ASSUME Inv, NEW c \in Callers, Publishes(c) PROVE Inv'
<1> DEFINE n == srv[c]
<1>1. Turns(c, "wire") /\ pc[c] = "shake"
  BY AtTurns DEF Publishes
<1>2. Holds(c) /\ smu = c
  BY <1>1, ExclusiveHolds, PlacesOK
<1>3. n \in 1..last /\ n \in Gens
  BY <1>1, CurIsGen DEF Inv, Building, Gens
<1>4. cur' = n /\ epoch' = epoch + 1 /\ smu' = Free /\ UNCHANGED <<last, mu, wireGen, srv>>
  BY DEF Publishes, app
<1>5. Edits(n)
  BY <1>3, GensAreRecords DEF Publishes, Edits, Fields
<1>6. gen'[n].fin = gen[n].fin /\ gen'[n].watch = "waiting" /\ gen'[n].born = epoch + 1
  BY <1>3, GensAreRecords DEF Publishes, Fields
<1>7. epoch \in Nat /\ \A h \in Gens \ {n} : gen'[h].watch = "waiting" => gen'[h].born \in Nat /\ gen'[h].born <= epoch
  BY <1>5 DEF Edits, Inv, Shape, Epochs
<1>8. Shape'
  BY <1>1, <1>3, <1>4, <1>5, <1>6, <1>7, CurIsGen, GensAreRecords DEF Inv, Shape, Turns, Edits
<1>9. Locks'
  BY <1>1, <1>2, <1>4, FreeIsNobody DEF Inv, Locks, Holds, Turns, Exclusive, Inside
<1>10. Building' /\ Monitor'
  BY <1>1, <1>2, <1>4, PlacesOK, FreeIsNobody DEF Inv, Building, Monitor, Holds, Turns
<1>11. Epochs'
  BY <1>4, <1>6, <1>7 DEF Epochs
<1>12. EveryGenerationHasOwner'
  <2> SUFFICES ASSUME NEW g \in 1..last', gen'[g].fin = "no"
               PROVE  \/ gen'[g].watch = "waiting" /\ cur' = g
                      \/ gen'[g].watch = "taken"
                      \/ \E b \in Callers : pc'[b] \in {"spawn", "attach", "shake"} /\ srv'[b] = g
    BY DEF EveryGenerationHasOwner
  <2>1. CASE g = n
    BY <1>4, <1>6, <2>1
  <2>2. CASE g # n
    <3>1. g \in Gens \ {n} /\ gen'[g] = gen[g] /\ g \in 1..last
      BY <1>4, <1>5, <2>2, CurIsGen DEF Edits, Gens
    <3>2. cur # g
      BY <1>2, <3>1, FreeIsNobody, CurIsGen DEF Inv, Building
    <3> QED
      BY <1>1, <1>4, <3>1, <3>2 DEF Inv, EveryGenerationHasOwner, Turns
  <2> QED
    BY <2>1, <2>2
<1> QED
  BY <1>8, <1>9, <1>10, <1>11, <1>12 DEF Inv

LEMMA WiresStep == ASSUME Inv, NEW c \in Callers, Wires(c) PROVE Inv'
<1>1. /\ pc[c] = "wire"
      /\ DOMAIN srv' = Callers /\ \A b \in Callers \ {c} : srv'[b] = srv[b]
      /\ \/ Turns(c, "idle") /\ mu' = Free
         \/ Turns(c, "clear") /\ mu' = mu
  BY AtTurns, LeavesTurns DEF Wires, Inv, Shape
<1>2. Holds(c)
  BY <1>1, InsideHolds, PlacesOK
<1>3. smu = Free /\ UNCHANGED <<last, cur, epoch, smu>>
  BY DEF Wires, single
<1>4. Tame /\ Polled'
  <2>1. CASE cur = 0
    BY <1>3, <2>1, UnchangedTame DEF Wires, Polled
  <2>2. CASE cur # 0
    <3>1. gen' = [gen EXCEPT ![cur].hooked = TRUE] /\ wireGen' = cur /\ cur \in Gens
      BY <2>2, CurIsGen DEF Wires
    <3>2. Edits(cur)
      BY <3>1, GensAreRecords DEF Edits, Fields
    <3>3. gen'[cur].fin = gen[cur].fin /\ gen'[cur].watch = gen[cur].watch /\ gen'[cur].born = gen[cur].born
      BY <3>1, GensAreRecords DEF Fields
    <3>4. gen'[cur].hooked
      BY <3>1, GensAreRecords DEF Fields
    <3>5. Tame
      BY <3>1, <3>2, <3>3, <3>4, EditTame DEF TameAt
    <3> QED
      BY <1>3, <3>1, <3>4, <3>5 DEF Polled
  <2> QED
    BY <2>1, <2>2
<1>5. Shape'
  BY <1>1, <1>3, <1>4 DEF Inv, Shape, Turns, Tame, TameAt
<1>6. Locks'
  BY <1>1, <1>2, <1>3, FreeIsNobody DEF Inv, Locks, Holds, Turns, Exclusive, Inside
<1>7. Building' /\ Epochs' /\ Monitor'
  BY <1>1, <1>3, <1>4 DEF Inv, Building, Epochs, Monitor, Turns, Tame, TameAt
<1>8. EveryGenerationHasOwner'
  BY <1>1, <1>3, <1>4, CurIsGen DEF Inv, EveryGenerationHasOwner, Turns, Tame, TameAt, Gens
<1> QED
  BY <1>5, <1>6, <1>7, <1>8 DEF Inv

LEMMA ClearsStep == ASSUME Inv, NEW c \in Callers, Clears(c) PROVE Inv'
<1>1. /\ pc[c] = "clear"
      /\ DOMAIN srv' = Callers /\ \A b \in Callers \ {c} : srv'[b] = srv[b]
      /\ Turns(c, "idle") \/ Turns(c, "serve")
  BY AtTurns, LeavesTurns DEF Clears, Inv, Shape
<1>2. Holds(c)
  BY <1>1, InsideHolds, PlacesOK
<1>3. mu' = Free /\ smu = Free /\ UNCHANGED <<gen, last, cur, epoch, smu, wireGen>>
  BY DEF Clears, single
<1>4. Shape'
  BY <1>1, <1>3 DEF Inv, Shape, Turns
<1>5. Locks'
  BY <1>1, <1>2, <1>3, FreeIsNobody DEF Inv, Locks, Holds, Turns, Exclusive, Inside
<1>6. Building' /\ Epochs'
  BY <1>1, <1>3 DEF Inv, Building, Epochs, Turns
<1>7. Monitor'
  BY <1>1, <1>3 DEF Inv, Monitor, Polled, Turns
<1>8. EveryGenerationHasOwner'
  BY <1>1, <1>3 DEF Inv, EveryGenerationHasOwner, Turns
<1> QED
  BY <1>4, <1>5, <1>6, <1>7, <1>8 DEF Inv

-----------------------------------------------------------------------------
LEMMA WatchTakesStep == ASSUME Inv, NEW g \in Gens, WatchTakes(g) PROVE Inv'
<1>1. gen[g].watch = "waiting" /\ smu = Free /\ UNCHANGED <<last, epoch, smu, mu, wireGen, pc, srv>>
  BY DEF WatchTakes, app, mine
<1>2. Edits(g)
  BY GensAreRecords DEF WatchTakes, Edits, Fields
<1>3. gen'[g].fin = gen[g].fin /\ gen'[g].watch = "taken" /\ gen'[g].hooked = gen[g].hooked
  BY GensAreRecords DEF WatchTakes, Fields
<1>4. cur' = cur \/ cur' = 0
  BY DEF WatchTakes
<1>5. cur # 0 /\ cur # g => cur' = cur
  BY <1>1 DEF WatchTakes, Inv, Epochs, Shape
<1>6. Shape'
  BY <1>1, <1>2, <1>3, <1>4, CurIsGen, GensAreRecords DEF Inv, Shape, Edits
<1>7. Locks' /\ Building'
  BY <1>1 DEF Inv, Locks, Building
<1>8. Epochs'
  BY <1>1, <1>2, <1>3, <1>4 DEF Inv, Epochs, Edits
<1>9. Monitor'
  BY <1>1, <1>2, <1>3, <1>4, CurIsGen DEF Inv, Monitor, Polled, Edits
<1>10. EveryGenerationHasOwner'
  <2> SUFFICES ASSUME NEW h \in 1..last, h # g, gen'[h].fin = "no"
               PROVE  \/ gen'[h].watch = "waiting" /\ cur' = h
                      \/ gen'[h].watch = "taken"
                      \/ \E b \in Callers : pc[b] \in {"spawn", "attach", "shake"} /\ srv[b] = h
    BY <1>1, <1>3 DEF EveryGenerationHasOwner
  <2>1. gen'[h] = gen[h] /\ h # 0
    BY <1>2, CurIsGen DEF Edits, Gens
  <2> QED
    BY <1>5, <2>1 DEF Inv, EveryGenerationHasOwner
<1> QED
  BY <1>6, <1>7, <1>8, <1>9, <1>10 DEF Inv

LEMMA ShutdownTakesStep == ASSUME Inv, ShutdownTakes PROVE Inv'
<1>1. Tame /\ (cur # 0 => gen'[cur].fin # "no")
  BY CurIsGen, UnchangedTame, BegunEdits DEF ShutdownTakes
<1>2. /\ cur' = 0 /\ smu = Free /\ \A c \in Callers : pc[c] = "idle"
      /\ UNCHANGED <<last, epoch, smu, mu, wireGen, pc, srv>>
  BY DEF ShutdownTakes, mine
<1>3. Shape'
  BY <1>1, <1>2, CurIsGen DEF Inv, Shape, Tame, TameAt
<1>4. Locks' /\ Building' /\ Monitor'
  BY <1>2 DEF Inv, Locks, Building, Monitor, Polled
<1>5. Epochs'
  BY <1>1, <1>2 DEF Inv, Epochs, Tame, TameAt
<1>6. EveryGenerationHasOwner'
  BY <1>1, <1>2, CurIsGen DEF Inv, EveryGenerationHasOwner, Tame, TameAt, Gens
<1> QED
  BY <1>3, <1>4, <1>5, <1>6 DEF Inv

LEMMA InvStep == Inv /\ [Next]_vars => Inv'
<1> SUFFICES ASSUME Inv, [Next]_vars PROVE Inv'
  OBVIOUS
<1>1. CASE UNCHANGED vars
  BY <1>1 DEF vars, Inv, Shape, Locks, Building, Epochs, Monitor, Polled, EveryGenerationHasOwner
<1>2. ASSUME NEW g \in Gens, Says(g) \/ Exits(g) \/ FinSteps(g) \/ ReaderSteps(g) \/ WatcherSteps(g) PROVE Inv'
  BY <1>2, ServerStep, WatchTakesStep DEF WatcherSteps
<1>3. ASSUME NEW c \in Callers, StartEnters(c) \/ KeeperEnters(c) \/ Ends(c) \/ CallerSteps(c) PROVE Inv'
  <2>1. CASE Outside(c)
    BY <2>1, OutsideStep
  <2>2. CASE Builds(c) \/ Replaces(c)
    BY <2>2, EntersStep DEF Builds, Replaces
  <2>3. CASE NoFile(c) \/ Undone(c)
    BY <2>3, EmptiesStep DEF NoFile, Undone, app
  <2> QED
    BY <1>3, <2>1, <2>2, <2>3, OldDoneStep, NewGenerationStep, BuildStep, PublishesStep, WiresStep, ClearsStep
       DEF CallerSteps, Outside
<1>4. CASE ShutdownBegins
  BY <1>4, UnchangedTame, QuietStep DEF ShutdownBegins, ServersStay, single, mine, Inv, Shape
<1>5. CASE ShutdownTakes
  BY <1>5, ShutdownTakesStep
<1> QED
  BY <1>1, <1>2, <1>3, <1>4, <1>5 DEF Next, ShutDown

(* Whatever callers, failures and deaths of the server there are: the invariant *)
(* holds.                                                                       *)
LEMMA InvHolds == Spec => []Inv
<1> QED
  BY InvInit, InvStep, PTL DEF Spec

(* replaceCodexGeneration, ensureAppServer, RunOwnedHandshake: the holder of    *)
(* codexServerMu is the one caller between its Lock and its Unlock, that of     *)
(* Single.mu the one inside WithExclusiveEpoch; no early return leaves a lock   *)
(* behind, and nobody else builds or finalizes a generation meanwhile.          *)
THEOREM LocksHolds == Spec => []Locks
<1>1. Inv => Locks
  BY DEF Inv
<1> QED
  BY <1>1, InvHolds, PTL

(* A generation nobody has begun to finalize is published with its watcher, its *)
(* watcher is about to, or it is being built: for any number of generations     *)
(* and callers, no app-server and no log is forgotten.                          *)
THEOREM EveryGenerationHasOwnerHolds == Spec => []EveryGenerationHasOwner
<1>1. Inv => EveryGenerationHasOwner
  BY DEF Inv
<1> QED
  BY <1>1, InvHolds, PTL

(* Outside a replacement, the recorder polled for errors is that of the server  *)
(* in use, and its connection has the handlers that poll it.                    *)
THEOREM MonitorFollowsHolds == Spec => []MonitorFollows
<1>1. Inv => MonitorFollows
  BY DEF Inv, Monitor, Polled, MonitorFollows
<1> QED
  BY <1>1, InvHolds, PTL
-----------------------------------------------------------------------------
(***************************************************************************)
(* The log of a generation.                                                *)
(***************************************************************************)
LogFields == {"proc", "out", "said", "kept", "eof", "cut", "rd", "sink", "early", "werr", "fin", "late", "meta", "watch"}

\* A frame the server wrote is in the pipe or was handed to the recorder, unless it was read
\* before the recorder was attached, or after a drain that timed out; when a drain did not,
\* the read loop has ended.  A file is closed with no recorder attached and no write in
\* flight, and stays so; of a generation whose server never started nothing was ever said.
Log(g) ==
    /\ LogFields \subseteq DOMAIN gen[g]
    /\ {gen[g].eof, gen[g].cut, gen[g].early, gen[g].werr, gen[g].late} \subseteq BOOLEAN
    /\ {gen[g].out, gen[g].said, gen[g].kept} \subseteq Nat
    /\ gen[g].sink \in {"none", "on", "off"}
    /\ gen[g].said = gen[g].kept + gen[g].out \/ gen[g].early \/ gen[g].late
    /\ gen[g].eof => gen[g].cut \/ (gen[g].out = 0 /\ gen[g].proc = "gone")
    /\ gen[g].sink = "off" => gen[g].eof \/ gen[g].late
    /\ gen[g].fin \in {"closing", "done"} => gen[g].sink = "off" \/ gen[g].proc = "none"
    /\ gen[g].sink = "off" => gen[g].fin \in {"closing", "done"}
    /\ gen[g].fin = "done" => gen[g].rd # "line" /\ (gen[g].werr <=> gen[g].meta = "error")
    /\ gen[g].proc = "none" => /\ gen[g].sink = "none" /\ gen[g].out = 0 /\ gen[g].said = gen[g].kept
                               /\ gen[g].rd = "scan" /\ gen[g].watch = "no"

\* What a caller relies on for the generation it works with: the one it is about to start is
\* untouched, the one it has started has no recorder yet, one that is in use was started, and
\* a file it writes to is not closed yet.
Works(c) ==
    /\ pc[c] = "spawn" => gen[srv[c]].proc = "none" /\ gen[srv[c]].fin = "no"
    /\ pc[c] = "attach" => gen[srv[c]].sink = "none" /\ gen[srv[c]].fin = "no" /\ gen[srv[c]].watch = "no"
    /\ pc[c] \in {"attach", "shake", "serve", "line"} => srv[c] \in Gens /\ gen[srv[c]].proc # "none"
    /\ pc[c] = "line" => gen[srv[c]].fin # "done"

Logs ==
    /\ \A g \in Gens : Log(g) /\ (g > last => gen[g].proc = "none" /\ gen[g].fin = "no")
    /\ \A c \in Callers : Works(c)
    /\ cur # 0 => gen[cur].proc # "none"

LEMMA LogsInit == Init => Logs
<1> SUFFICES ASSUME Init PROVE Logs
  OBVIOUS
<1>1. \A g \in Gens : gen[g] = NoGeneration
  BY DEF Init
<1>2. ASSUME NEW g \in Gens PROVE Log(g) /\ gen[g].proc = "none" /\ gen[g].fin = "no"
  <2>1. LogFields \subseteq DOMAIN gen[g]
    BY <1>1 DEF LogFields, NoGeneration
  <2>2. /\ gen[g].proc = "none" /\ gen[g].out = 0 /\ gen[g].said = 0 /\ gen[g].kept = 0
        /\ gen[g].eof = FALSE /\ gen[g].cut = FALSE /\ gen[g].rd = "scan" /\ gen[g].sink = "none"
        /\ gen[g].early = FALSE /\ gen[g].werr = FALSE /\ gen[g].fin = "no"
        /\ gen[g].late = FALSE /\ gen[g].watch = "no"
    BY <1>1 DEF NoGeneration
  <2>3. {gen[g].eof, gen[g].cut, gen[g].early, gen[g].werr, gen[g].late} \subseteq BOOLEAN
    BY <2>2
  <2>4. /\ {gen[g].out, gen[g].said, gen[g].kept} \subseteq Nat
        /\ gen[g].said = gen[g].kept + gen[g].out /\ gen[g].said = gen[g].kept
    BY <2>2
  <2> QED
    BY <2>1, <2>2, <2>3, <2>4, Zenon DEF Log
<1>3. \A c \in Callers : Works(c)
  BY DEF Init, Works
<1> QED
  BY <1>2, <1>3 DEF Logs, Init

\* What a step leaves of a generation that somebody is about to attach a recorder to.
Steady(g) == gen'[g].sink = gen[g].sink /\ gen'[g].fin = gen[g].fin /\ gen'[g].watch = gen[g].watch

\* A step changes one generation that is allocated, and loses neither its server nor a write.
Amends(g) ==
    /\ g <= last /\ DOMAIN gen' = Gens
    /\ \A h \in Gens \ {g} : gen'[h] = gen[h]
    /\ Log(g)'
    /\ gen[g].proc # "none" => gen'[g].proc # "none"
    /\ gen'[g].fin = "done" => gen[g].fin = "done" \/ ~InFlight(g)

LEMMA LogsKept ==
  ASSUME Inv, Logs, gen' = gen \/ \E g \in Gens : Amends(g), last' \in Nat, last <= last',
         cur' # 0 => cur' \in Gens /\ (cur' = cur \/ gen'[cur'].proc # "none"),
         \A b \in Callers : \/ Works(b)'
                            \/ /\ pc'[b] = pc[b] /\ srv'[b] = srv[b]
                               /\ pc[b] = "spawn" => gen'[srv[b]] = gen[srv[b]]
                               /\ pc[b] = "attach" => Steady(srv[b])
  PROVE  Logs'
<1>1. last \in 0..MaxGens /\ MaxGens \in Nat /\ Gens = 1..MaxGens
  BY BoundsAssumption DEF Inv, Shape, Gens
<1>2. \A g \in Gens : gen'[g] = gen[g] \/ (g <= last /\ Log(g)')
  BY DEF Amends
<1>3. \A g \in Gens : /\ gen[g].proc # "none" => gen'[g].proc # "none"
                      /\ gen'[g].fin = "done" => gen[g].fin = "done" \/ ~InFlight(g)
  BY DEF Amends
<1>4. ASSUME NEW g \in Gens PROVE Log(g)'
  BY <1>2, <1>4 DEF Logs, Log
<1>5. ASSUME NEW g \in Gens, g > last' PROVE gen'[g].proc = "none" /\ gen'[g].fin = "no"
  BY <1>1, <1>2, <1>5 DEF Logs
<1>6. ASSUME NEW b \in Callers PROVE Works(b)'
  <2>1. SUFFICES ASSUME pc'[b] = pc[b] /\ srv'[b] = srv[b],
                        pc[b] = "spawn" => gen'[srv[b]] = gen[srv[b]],
                        pc[b] = "attach" => Steady(srv[b])
                 PROVE  Works(b)'
    OBVIOUS
  <2>2. Works(b)
    BY DEF Logs
  <2>3. pc[b] = "line" => InFlight(srv[b])
    BY DEF InFlight
  <2> QED
    BY <1>3, <2>1, <2>2, <2>3 DEF Works, Steady
<1>7. cur' # 0 => gen'[cur'].proc # "none"
  BY <1>3 DEF Logs
<1> QED
  BY <1>4, <1>5, <1>6, <1>7 DEF Logs

\* What the server, its reader, its finalizer and its watcher do: fields of one generation.
Keeps(g, but) ==
    /\ LogFields \subseteq DOMAIN gen'[g]
    /\ \A f \in LogFields \ but : gen'[g][f] = gen[g][f]

LEMMA ServerAmends ==
  ASSUME Inv, Logs, NEW g \in Gens, gen[g].proc # "none" \/ gen[g].fin # "no",
         Says(g) \/ Exits(g) \/ FinSteps(g) \/ ReaderSteps(g) \/ WatcherSteps(g)
  PROVE  Amends(g)
<1>1. /\ DOMAIN gen = Gens /\ LogFields \subseteq DOMAIN gen[g] /\ Log(g) /\ g <= last
  BY BoundsAssumption DEF Inv, Shape, Logs, Log, Gens
<1>2. CASE Says(g)
  <2>1. /\ Keeps(g, {"out", "said"})
        /\ gen'[g].out = gen[g].out + 1 /\ gen'[g].said = gen[g].said + 1
        /\ DOMAIN gen' = Gens /\ \A h \in Gens \ {g} : gen'[h] = gen[h]
    BY <1>1, <1>2 DEF Says, LogFields, Keeps
  <2>2. gen[g].proc = "up"
    BY <1>2 DEF Says
  <2>3. Log(g)'
    <3>1. gen'[g].said = gen'[g].kept + gen'[g].out \/ gen'[g].early \/ gen'[g].late
      BY <1>1, <2>1 DEF Log, Keeps, LogFields
    <3>2. {gen'[g].out, gen'[g].said, gen'[g].kept} \subseteq Nat
      BY <1>1, <2>1 DEF Log, Keeps, LogFields
    <3> QED
      BY <1>1, <2>1, <2>2, <3>1, <3>2 DEF Log, Keeps, LogFields
  <2> QED
    BY <1>1, <2>1, <2>2, <2>3 DEF Amends, Keeps, LogFields
<1>3. CASE Exits(g)
  BY <1>1, <1>3 DEF Exits, Amends, Log, LogFields
<1>4. CASE FinDetached(g)
  BY <1>1, <1>4 DEF FinDetached, Amends, Log, LogFields
<1>5. CASE FinClosed(g)
  BY <1>1, <1>5 DEF FinClosed, Amends, Log, LogFields, InFlight
<1>6. CASE Reads(g)
  <2>1. /\ Keeps(g, {"out", "rd", "kept", "early"}) /\ gen'[g].out = gen[g].out - 1
        /\ DOMAIN gen' = Gens /\ \A h \in Gens \ {g} : gen'[h] = gen[h]
        /\ gen'[g].early = (gen[g].early \/ gen[g].sink = "none")
    BY <1>1, <1>6 DEF Reads, LogFields, Keeps
  <2>2. gen[g].out > 0 /\ ~gen[g].eof
    BY <1>6 DEF Reads
  <2>3. Log(g)' /\ gen'[g].fin = gen[g].fin
    <3>1. CASE gen[g].sink = "on"
      <4>1. gen'[g].rd = "line" /\ gen'[g].kept = gen[g].kept + 1
        BY <1>1, <1>6, <3>1 DEF Reads, LogFields
      <4>2. /\ gen'[g].said = gen'[g].kept + gen'[g].out \/ gen'[g].early \/ gen'[g].late
            /\ {gen'[g].out, gen'[g].said, gen'[g].kept} \subseteq Nat
        BY <1>1, <2>1, <2>2, <4>1 DEF Log, Keeps, LogFields
      <4> QED
        BY <1>1, <2>1, <2>2, <3>1, <4>1, <4>2 DEF Log, Keeps, LogFields
    <3>2. CASE gen[g].sink # "on"
      <4>1. gen'[g].rd = gen[g].rd /\ gen'[g].kept = gen[g].kept
        BY <1>1, <1>6, <3>2 DEF Reads, LogFields
      <4>2. /\ gen'[g].early \/ gen'[g].late
            /\ {gen'[g].out, gen'[g].said, gen'[g].kept} \subseteq Nat
        <5>1. gen[g].sink \in {"none", "on", "off"} /\ (gen[g].sink = "off" => gen[g].late)
          BY <1>1, <2>2 DEF Log
        <5>2. gen'[g].late = gen[g].late
          BY <2>1 DEF Keeps, LogFields
        <5>3. gen'[g].early \/ gen'[g].late
          BY <2>1, <3>2, <5>1, <5>2
        <5>4. gen'[g].said = gen[g].said
          BY <2>1 DEF Keeps, LogFields
        <5> QED
          BY <1>1, <2>1, <2>2, <4>1, <5>3, <5>4 DEF Log
      <4> QED
        BY <1>1, <2>1, <2>2, <3>2, <4>1, <4>2 DEF Log, Keeps, LogFields
    <3> QED
      BY <3>1, <3>2
  <2> QED
    BY <1>1, <2>1, <2>3 DEF Amends, Keeps, LogFields
<1>7. CASE Lines(g)
  BY <1>1, <1>7 DEF Lines, Amends, Log, LogFields
<1>8. CASE HandlerPolls(g) \/ HandlerLatches(g)
  BY <1>1, <1>8 DEF HandlerPolls, HandlerLatches, Amends, Log, LogFields
<1>9. CASE ReadsEof(g)
  <2>1. PICK cut \in BOOLEAN : /\ cut \/ AtEnd(g)
                              /\ gen' = [gen EXCEPT ![g].eof = TRUE, ![g].cut = cut]
    BY <1>9 DEF ReadsEof
  <2>2. /\ Keeps(g, {"eof", "cut"}) /\ gen'[g].eof = TRUE /\ gen'[g].cut = cut
        /\ DOMAIN gen' = Gens /\ \A h \in Gens \ {g} : gen'[h] = gen[h]
    BY <1>1, <2>1 DEF LogFields, Keeps
  <2>3. Log(g)'
    BY <1>1, <2>1, <2>2 DEF Log, Keeps, LogFields, AtEnd
  <2> QED
    BY <1>1, <2>2, <2>3 DEF Amends, Keeps, LogFields
<1>10. CASE WatchTakes(g) \/ WatchTells(g)
  BY <1>1, <1>10 DEF WatchTakes, WatchTells, Amends, Log, LogFields
<1>11. CASE WatchBegins(g)
  BY <1>1, <1>11 DEF WatchBegins, Begun, Amends, Log, LogFields
<1> QED
  BY <1>2, <1>3, <1>4, <1>5, <1>6, <1>7, <1>8, <1>9, <1>10, <1>11 DEF FinSteps, ReaderSteps, WatcherSteps

\* Before it is published or finalized, a server and its reader leave the recorder alone.
LEMMA SteadyServer ==
  ASSUME Inv, Logs, NEW g \in Gens, gen[g].fin = "no", gen[g].watch = "no",
         Says(g) \/ Exits(g) \/ FinSteps(g) \/ ReaderSteps(g) \/ WatcherSteps(g)
  PROVE  Steady(g)
<1>1. DOMAIN gen = Gens /\ LogFields \subseteq DOMAIN gen[g]
  BY DEF Inv, Shape, Logs, Log
<1>2. CASE Says(g)
  BY <1>1, <1>2 DEF Says, Steady, LogFields
<1>3. CASE Exits(g)
  BY <1>1, <1>3 DEF Exits, Steady, LogFields
<1>4. CASE Reads(g)
  BY <1>1, <1>4 DEF Reads, Steady, LogFields
<1>5. CASE Lines(g)
  BY <1>1, <1>5 DEF Lines, Steady, LogFields
<1>6. CASE HandlerPolls(g) \/ HandlerLatches(g)
  BY <1>1, <1>6 DEF HandlerPolls, HandlerLatches, Steady, LogFields
<1>7. CASE ReadsEof(g)
  BY <1>1, <1>7 DEF ReadsEof, Steady, LogFields
<1> QED
  BY <1>2, <1>3, <1>4, <1>5, <1>6, <1>7
     DEF FinSteps, FinDetached, FinClosed, ReaderSteps, WatcherSteps, WatchTakes, WatchBegins, WatchTells

LEMMA ServerLogs ==
  ASSUME Inv, Logs, NEW g \in Gens,
         Says(g) \/ Exits(g) \/ FinSteps(g) \/ ReaderSteps(g) \/ WatcherSteps(g)
  PROVE  Logs'
<1>1. Log(g)
  BY DEF Logs
<1>2. gen[g].proc # "none" \/ gen[g].fin # "no"
  <2>1. gen[g].out \in Nat /\ (gen[g].proc = "none" => gen[g].out = 0 /\ gen[g].rd = "scan" /\ gen[g].watch = "no")
    BY <1>1 DEF Log
  <2>2. CASE Says(g) \/ Exits(g) \/ FinSteps(g)
    BY <2>2 DEF Says, Exits, FinSteps, FinDetached, FinClosed
  <2>3. CASE ReaderSteps(g)
    <3>1. gen[g].rd # "scan" \/ gen[g].out > 0 \/ gen[g].proc = "gone"
      BY <2>3 DEF ReaderSteps, Reads, Lines, HandlerPolls, HandlerLatches, ReadsEof, Broken, AtEnd
    <3> QED
      BY <2>1, <3>1
  <2>4. CASE WatcherSteps(g)
    BY <2>1, <2>4 DEF WatcherSteps, WatchTakes, WatchBegins, WatchTells
  <2> QED
    BY <2>2, <2>3, <2>4
<1>3. Amends(g)
  BY <1>2, ServerAmends
<1>4. UNCHANGED <<last, pc, srv>> /\ (cur' = cur \/ cur' = 0)
  BY DEF Says, Exits, FinSteps, FinDetached, FinClosed, ReaderSteps, Reads, Lines, HandlerPolls, HandlerLatches,
     ReadsEof, WatcherSteps, WatchTakes, WatchBegins, WatchTells, single, mine
<1>5. last' \in Nat /\ last <= last' /\ (cur' # 0 => cur' \in Gens /\ cur' = cur)
  BY <1>4, CurIsGen DEF Inv, Shape
<1>6. ASSUME NEW b \in Callers, pc[b] = "spawn" PROVE gen'[srv[b]] = gen[srv[b]]
  <2>1. srv[b] \in Gens /\ srv[b] # g
    BY <1>2, <1>6, CurIsGen DEF Inv, Building, Logs, Works, Gens
  <2> QED
    BY <1>3, <2>1 DEF Amends
<1>7. ASSUME NEW b \in Callers, pc[b] = "attach" PROVE Steady(srv[b])
  <2>1. srv[b] \in Gens /\ gen[srv[b]].fin = "no" /\ gen[srv[b]].watch = "no"
    BY <1>7 DEF Logs, Works
  <2>2. CASE srv[b] # g
    BY <1>3, <2>1, <2>2 DEF Amends, Steady
  <2>3. CASE srv[b] = g
    BY <2>1, <2>3, SteadyServer
  <2> QED
    BY <2>2, <2>3
<1> QED
  BY <1>3, <1>4, <1>5, <1>6, <1>7, LogsKept

LEMMA BegunAmends ==
  ASSUME Inv, Logs, NEW g \in Gens, g <= last, gen' = [gen EXCEPT ![g] = Begun(@)]
  PROVE  Amends(g)
<1>1. DOMAIN gen = Gens /\ LogFields \subseteq DOMAIN gen[g] /\ Log(g)
  BY DEF Inv, Shape, Logs, Log
<1> QED
  BY <1>1 DEF Begun, Amends, Log, LogFields

\* A caller moves on, and changes at most one generation.
LEMMA CallerLogs ==
  ASSUME Inv, Logs, NEW c \in Callers, NEW y, Turns(c, y), \A b \in Callers \ {c} : srv'[b] = srv[b],
         \/ gen' = gen
         \/ \E g \in Gens : Amends(g) /\ \A b \in Callers \ {c} : pc[b] \notin {"spawn", "attach"},
         last' \in {last, last + 1}, cur' = cur \/ cur' = 0, Works(c)'
  PROVE  Logs'
<1>1. last' \in Nat /\ last <= last' /\ (cur' # 0 => cur' \in Gens /\ cur' = cur)
  BY CurIsGen, BoundsAssumption DEF Inv, Shape
<1>2. \A b \in Callers : \/ Works(b)'
                         \/ /\ pc'[b] = pc[b] /\ srv'[b] = srv[b]
                            /\ pc[b] = "spawn" => gen'[srv[b]] = gen[srv[b]]
                            /\ pc[b] = "attach" => Steady(srv[b])
  BY DEF Turns, Steady
<1> QED
  BY <1>1, <1>2, LogsKept

LEMMA OutsideLogs == ASSUME Inv, Logs, NEW c \in Callers, Outside(c) PROVE Logs'
<1>0. DOMAIN pc = Callers /\ DOMAIN srv = Callers /\ Works(c)
  BY DEF Inv, Shape, Logs
<1>1. CASE Ends(c)
  <2>1. Turns(c, pc[c]) /\ UNCHANGED <<gen, last, cur, pc, srv>>
    BY <1>0, <1>1 DEF Ends, Turns, single, mine
  <2> QED
    BY <1>0, <2>1, CallerLogs DEF Works
<1>2. CASE CallLines(c)
  <2>1. Turns(c, "idle") /\ pc[c] = "line" /\ \A b \in Callers \ {c} : srv'[b] = srv[b]
    BY <1>2, LeavesTurns DEF CallLines
  <2>2. srv[c] \in Gens /\ gen[srv[c]].proc # "none" /\ gen[srv[c]].fin # "done" /\ UNCHANGED <<last, cur>>
    BY <1>0, <1>2, <2>1 DEF Works, CallLines, single
  <2>3. ASSUME NEW g \in Gens, g = srv[c] PROVE Amends(g)
    <3>1. DOMAIN gen = Gens /\ LogFields \subseteq DOMAIN gen[g] /\ Log(g) /\ g <= last
      BY <2>2, <2>3, BoundsAssumption DEF Inv, Shape, Logs, Log, Gens
    <3>2. PICK ok \in BOOLEAN : gen' = [gen EXCEPT ![g].werr = @ \/ ~ok]
      BY <1>2, <2>3 DEF CallLines
    <3> QED
      BY <2>2, <2>3, <3>1, <3>2 DEF Amends, Log, LogFields
  <2>4. Works(c)'
    BY <2>1 DEF Works, Turns
  <2>5. ASSUME NEW b \in Callers, pc[b] = "spawn" PROVE gen'[srv[b]] = gen[srv[b]]
    <3>1. srv[b] \in Gens /\ srv[b] # srv[c]
      BY <2>2, <2>5, CurIsGen DEF Inv, Building, Logs, Works, Gens
    <3> QED
      BY <2>2, <2>3, <3>1 DEF Amends
  <2>8. ASSUME NEW b \in Callers, pc[b] = "attach" PROVE Steady(srv[b])
    <3>1. srv[b] \in Gens /\ Log(srv[b])
      BY <2>8 DEF Logs, Works
    <3>2. PICK ok \in BOOLEAN : gen' = [gen EXCEPT ![srv[c]].werr = @ \/ ~ok]
      BY <1>2 DEF CallLines
    <3>3. DOMAIN gen = Gens /\ LogFields \subseteq DOMAIN gen[srv[b]]
      BY <3>1 DEF Inv, Shape, Log
    <3> QED
      BY <2>2, <3>1, <3>2, <3>3 DEF Steady, LogFields
  <2>6. last' \in Nat /\ last <= last' /\ (cur' # 0 => cur' \in Gens /\ cur' = cur)
    BY <2>2, CurIsGen, BoundsAssumption DEF Inv, Shape
  <2>7. \A b \in Callers : \/ Works(b)'
                           \/ /\ pc'[b] = pc[b] /\ srv'[b] = srv[b]
                              /\ pc[b] = "spawn" => gen'[srv[b]] = gen[srv[b]]
                              /\ pc[b] = "attach" => Steady(srv[b])
    BY <2>1, <2>4, <2>5, <2>8 DEF Turns
  <2> QED
    BY <2>2, <2>3, <2>6, <2>7, LogsKept
<1>3. CASE ~Ends(c) /\ ~CallLines(c)
  <2>1. UNCHANGED <<gen, last, cur>>
    BY <1>3
       DEF Outside, StartEnters, KeeperEnters, GatePolls, GateRefuses, GatePasses, UsesLiving, BuildsNone,
           Refused, HostMade, NoThread, TurnStarted, TurnFails, Calls, single
  <2>2. PICK x, y \in {"idle", "gate", "gated", "lock", "serve", "turn", "line"} : At(c, x, y)
    BY <1>3
       DEF Outside, StartEnters, KeeperEnters, GatePolls, GateRefuses, GatePasses, UsesLiving, BuildsNone,
           Refused, HostMade, NoThread, TurnStarted, TurnFails, Calls, Leaves
  <2>3. srv' = srv \/ \E g : srv' = [srv EXCEPT ![c] = g]
    BY <1>3
       DEF Outside, StartEnters, KeeperEnters, GatePolls, GateRefuses, GatePasses, UsesLiving, BuildsNone,
           Refused, HostMade, NoThread, TurnStarted, TurnFails, Calls, Leaves
  <2>4. Turns(c, y) /\ pc[c] = x /\ \A b \in Callers \ {c} : srv'[b] = srv[b]
    BY <1>0, <2>2, <2>3, AtTurns
  <2>5. Works(c)'
    <3>1. CASE y = "serve"
      <4>1. UsesLiving(c)
        BY <1>3, <2>4, <3>1
           DEF Outside, StartEnters, KeeperEnters, GatePolls, GateRefuses, GatePasses, BuildsNone, Turns,
               Refused, HostMade, NoThread, TurnStarted, TurnFails, Calls, Leaves, At, Goes
      <4>2. srv'[c] = cur /\ cur \in Gens /\ gen[cur].proc = "up"
        BY <1>0, <4>1, CurIsGen DEF UsesLiving, Alive
      <4> QED
        BY <2>1, <2>4, <3>1, <4>2 DEF Works, Turns
    <3>2. CASE y = "line"
      <4>1. Calls(c) /\ gen[srv[c]].sink = "on" /\ UNCHANGED srv /\ pc[c] = "serve"
        BY <1>3, <2>4, <3>2
           DEF Outside, StartEnters, KeeperEnters, GatePolls, GateRefuses, GatePasses, UsesLiving, BuildsNone, Turns,
               Refused, HostMade, NoThread, TurnStarted, TurnFails, Calls, Leaves, At, Goes
      <4>2. srv[c] \in Gens /\ gen[srv[c]].proc # "none" /\ Log(srv[c])
        BY <1>0, <4>1 DEF Works, Logs
      <4>3. gen[srv[c]].fin # "done"
        BY <4>1, <4>2 DEF Log
      <4> QED
        BY <2>1, <2>4, <3>2, <4>1, <4>2, <4>3 DEF Works, Turns
    <3>3. CASE y \notin {"serve", "line"}
      BY <2>4, <3>3 DEF Works, Turns
    <3> QED
      BY <3>1, <3>2, <3>3
  <2> QED
    BY <2>1, <2>4, <2>5, CallerLogs
<1> QED
  BY <1>1, <1>2, <1>3

\* The callers inside the locks: the others build nothing meanwhile.
LEMMA EntersLogs == ASSUME Inv, Logs, NEW c \in Callers, mu = Free, Enters(c) PROVE Logs'
<1>1. \A b \in Callers : pc[b] \notin {"spawn", "attach"}
  BY FreeIsEmpty, PlacesOK DEF Empty
<1>2. PICK y \in {"old", "new"} : Turns(c, y)
  BY AtTurns DEF Enters
<1>3. UNCHANGED <<last, cur, srv>>
  BY DEF Enters
<1>4. gen' = gen \/ \E g \in Gens : Amends(g)
  <2>1. CASE cur = 0
    BY <2>1 DEF Enters
  <2>2. CASE cur # 0
    <3>1. PICK g : g = cur
      OBVIOUS
    <3>2. g \in Gens /\ g <= last /\ gen' = [gen EXCEPT ![g] = Begun(@)]
      BY <2>2, <3>1, CurIsGen DEF Enters
    <3> QED
      BY <3>2, BegunAmends
  <2> QED
    BY <2>1, <2>2
<1>5. Works(c)'
  BY <1>2 DEF Works, Turns
<1> QED
  BY <1>1, <1>2, <1>3, <1>4, <1>5, CallerLogs

LEMMA NewGenerationLogs == ASSUME Inv, Logs, NEW c \in Callers, NewGeneration(c) PROVE Logs'
<1>1. Turns(c, "spawn") /\ UNCHANGED <<gen, cur>> /\ last' = last + 1 /\ last < MaxGens
  BY AtTurns DEF NewGeneration, single
<1>2. srv'[c] = last + 1 /\ \A b \in Callers \ {c} : srv'[b] = srv[b]
  BY DEF NewGeneration, Inv, Shape
<1>3. PICK n : n = last + 1
  OBVIOUS
<1>4. n \in Gens /\ n > last
  BY <1>1, <1>3, BoundsAssumption DEF Inv, Shape, Gens
<1>5. gen[n].proc = "none" /\ gen[n].fin = "no"
  BY <1>4 DEF Logs
<1>6. Works(c)'
  BY <1>1, <1>2, <1>3, <1>5 DEF Works, Turns
<1> QED
  BY <1>1, <1>2, <1>6, CallerLogs

\* The server starts; it gets its recorder; or the generation begins to be finalized.
LEMMA SpawnsAmends ==
  ASSUME Inv, Logs, NEW c \in Callers, Spawns(c), NEW g \in Gens, g = srv[c], g <= last
  PROVE  /\ Amends(g) /\ gen'[g].proc = "up"
         /\ gen'[g].sink = "none" /\ gen'[g].fin = "no" /\ gen'[g].watch = "no"
<1>1. /\ DOMAIN gen = Gens /\ LogFields \subseteq DOMAIN gen[g] /\ Log(g)
      /\ gen[g].proc = "none" /\ gen[g].fin = "no"
  BY DEF Inv, Shape, Logs, Log, Works, Spawns, At
<1>2. /\ Keeps(g, {"proc"}) /\ gen'[g].proc = "up"
      /\ DOMAIN gen' = Gens /\ \A h \in Gens \ {g} : gen'[h] = gen[h]
  BY <1>1 DEF Spawns, LogFields, Keeps
<1>3. /\ gen[g].sink = "none" /\ gen[g].watch = "no" /\ gen[g].said = gen[g].kept /\ gen[g].out = 0
      /\ {gen[g].out, gen[g].said, gen[g].kept} \subseteq Nat
  BY <1>1 DEF Log
<1>4. /\ gen[g].said = gen[g].kept + gen[g].out
      /\ gen[g].eof => gen[g].cut
  BY <1>1, <1>3 DEF Log
<1>5. Log(g)'
  <2>1. \A f \in LogFields \ {"proc"} : gen'[g][f] = gen[g][f]
    BY <1>2 DEF Keeps
  <2>2. /\ gen'[g].out = gen[g].out /\ gen'[g].said = gen[g].said /\ gen'[g].kept = gen[g].kept
        /\ gen'[g].eof = gen[g].eof /\ gen'[g].cut = gen[g].cut /\ gen'[g].rd = gen[g].rd
        /\ gen'[g].sink = gen[g].sink /\ gen'[g].early = gen[g].early /\ gen'[g].werr = gen[g].werr
        /\ gen'[g].fin = gen[g].fin /\ gen'[g].late = gen[g].late
    BY <2>1 DEF LogFields
  <2>3. LogFields \subseteq DOMAIN gen'[g]
    BY <1>2 DEF Keeps
  <2>4. /\ {gen'[g].eof, gen'[g].cut, gen'[g].early, gen'[g].werr, gen'[g].late} \subseteq BOOLEAN
        /\ {gen'[g].out, gen'[g].said, gen'[g].kept} \subseteq Nat
        /\ gen'[g].said = gen'[g].kept + gen'[g].out
    <3>1. {gen[g].eof, gen[g].cut, gen[g].early, gen[g].werr, gen[g].late} \subseteq BOOLEAN
      BY <1>1, Zenon DEF Log
    <3>2. {gen'[g].eof, gen'[g].cut, gen'[g].early, gen'[g].werr, gen'[g].late}
            = {gen[g].eof, gen[g].cut, gen[g].early, gen[g].werr, gen[g].late}
      BY <2>2, Zenon
    <3>3. {gen'[g].eof, gen'[g].cut, gen'[g].early, gen'[g].werr, gen'[g].late} \subseteq BOOLEAN
      BY <3>1, <3>2, Zenon
    <3>4. /\ {gen'[g].out, gen'[g].said, gen'[g].kept} \subseteq Nat
          /\ gen'[g].said = gen'[g].kept + gen'[g].out
      BY <1>3, <1>4, <2>2
    <3> QED
      BY <3>3, <3>4
  <2>5. gen'[g].eof => gen'[g].cut
    BY <1>4, <2>2
  <2>6. gen'[g].sink = "none" /\ gen'[g].fin = "no" /\ gen'[g].proc = "up"
    BY <1>1, <1>2, <1>3, <2>2
  <2> QED
    BY <2>3, <2>4, <2>5, <2>6 DEF Log
<1> QED
  BY <1>1, <1>2, <1>3, <1>5 DEF Amends, Keeps, LogFields

LEMMA AttachesAmends ==
  ASSUME Inv, Logs, NEW c \in Callers, Attaches(c), NEW g \in Gens, g = srv[c], g <= last
  PROVE  Amends(g)
<1>1. /\ DOMAIN gen = Gens /\ LogFields \subseteq DOMAIN gen[g] /\ Log(g)
      /\ gen[g].proc # "none" /\ gen[g].fin = "no"
  BY DEF Inv, Shape, Logs, Log, Works, Attaches, At
<1>2. /\ Keeps(g, {"sink"}) /\ gen'[g].sink = "on"
      /\ DOMAIN gen' = Gens /\ \A h \in Gens \ {g} : gen'[h] = gen[h]
  BY <1>1 DEF Attaches, LogFields, Keeps
<1>3. Log(g)'
  BY <1>1, <1>2 DEF Log, Keeps, LogFields
<1> QED
  BY <1>1, <1>2, <1>3 DEF Amends, Keeps, LogFields

LEMMA BuildLogs ==
  ASSUME Inv, Logs, NEW c \in Callers, Spawns(c) \/ Attaches(c) \/ SpawnFails(c) \/ ShakeFails(c)
  PROVE  Logs'
<1>1. PICK x \in {"spawn", "attach", "shake"}, y \in {"attach", "shake", "undo"} : At(c, x, y)
  BY DEF Spawns, Attaches, SpawnFails, ShakeFails
<1>2. Turns(c, y) /\ pc[c] = x
  BY <1>1, AtTurns
<1>3. \A b \in Callers \ {c} : pc[b] \notin {"spawn", "attach"}
  BY <1>2, ExclusiveHolds, PlacesOK DEF Holds
<1>4. PICK g : g = srv[c]
  OBVIOUS
<1>5. g \in Gens /\ g <= last
  BY <1>2, <1>4, CurIsGen DEF Inv, Building
<1>6. UNCHANGED <<last, cur, srv>>
  BY DEF Spawns, Attaches, SpawnFails, ShakeFails, single
<1>7. Amends(g) /\ Works(c)'
  <2>1. CASE Spawns(c)
    <3>1. y = "attach"
      BY <1>2, <2>1, AtTurns DEF Spawns, Turns
    <3> QED
      BY <1>2, <1>4, <1>5, <1>6, <2>1, <3>1, SpawnsAmends DEF Works, Turns
  <2>2. CASE Attaches(c)
    <3>1. y = "shake" /\ x = "attach"
      BY <1>2, <2>2, AtTurns DEF Attaches, Turns
    <3>2. Amends(g) /\ gen[g].proc # "none"
      BY <1>2, <1>4, <1>5, <2>2, <3>1, AttachesAmends DEF Logs, Works
    <3> QED
      BY <1>2, <1>4, <1>5, <1>6, <3>1, <3>2 DEF Works, Turns, Amends
  <2>3. CASE SpawnFails(c) \/ ShakeFails(c)
    <3>1. y = "undo"
      BY <1>2, <2>3, AtTurns DEF SpawnFails, ShakeFails, Turns
    <3>2. Amends(g)
      BY <1>4, <1>5, <2>3, BegunAmends DEF SpawnFails, ShakeFails
    <3> QED
      BY <1>2, <3>1, <3>2 DEF Works, Turns
  <2> QED
    BY <2>1, <2>2, <2>3
<1> QED
  BY <1>2, <1>3, <1>5, <1>6, <1>7, CallerLogs

LEMMA PublishesLogs == ASSUME Inv, Logs, NEW c \in Callers, Publishes(c) PROVE Logs'
<1>1. Turns(c, "wire") /\ pc[c] = "shake"
  BY AtTurns DEF Publishes
<1>2. \A b \in Callers \ {c} : pc[b] \notin {"spawn", "attach"}
  BY <1>1, ExclusiveHolds, PlacesOK DEF Holds
<1>3. PICK g : g = srv[c]
  OBVIOUS
<1>4. g \in Gens /\ g <= last /\ gen[g].proc # "none"
  BY <1>1, <1>3, CurIsGen DEF Inv, Building, Logs, Works
<1>5. UNCHANGED <<last, srv>> /\ cur' = g
  BY <1>3 DEF Publishes
<1>6. Amends(g)
  <2>1. DOMAIN gen = Gens /\ LogFields \subseteq DOMAIN gen[g] /\ Log(g)
    BY <1>4 DEF Inv, Shape, Logs, Log
  <2>2. gen' = [gen EXCEPT ![g].born = epoch + 1, ![g].watch = "waiting"]
    BY <1>3 DEF Publishes
  <2> QED
    BY <1>4, <2>1, <2>2 DEF Amends, Log, LogFields
<1>7. gen'[g].proc # "none" /\ last' \in Nat /\ last <= last'
  BY <1>4, <1>5, <1>6, CurIsGen, BoundsAssumption DEF Amends
<1>8. \A b \in Callers : \/ Works(b)'
                         \/ /\ pc'[b] = pc[b] /\ srv'[b] = srv[b]
                            /\ pc[b] = "spawn" => gen'[srv[b]] = gen[srv[b]]
                            /\ pc[b] = "attach" => Steady(srv[b])
  BY <1>1, <1>2, <1>5 DEF Turns, Works
<1> QED
  BY <1>4, <1>5, <1>6, <1>7, <1>8, LogsKept

LEMMA WiresLogs == ASSUME Inv, Logs, NEW c \in Callers, Wires(c) PROVE Logs'
<1>1. PICK y \in {"idle", "clear"} : Turns(c, y)
  BY AtTurns, LeavesTurns DEF Wires
<1>2. UNCHANGED <<last, cur>> /\ smu = Free /\ \A b \in Callers \ {c} : srv'[b] = srv[b]
  BY LeavesTurns DEF Wires, single
<1>3. \A b \in Callers : pc[b] \notin {"spawn", "attach"}
  BY <1>2, ExclusiveHolds, FreeIsNobody, PlacesOK
<1>4. gen' = gen \/ \E g \in Gens : Amends(g)
  <2>1. CASE cur = 0
    BY <2>1 DEF Wires
  <2>2. CASE cur # 0
    <3>1. PICK g : g = cur
      OBVIOUS
    <3>2. g \in Gens /\ g <= last
      BY <2>2, <3>1, CurIsGen
    <3>3. DOMAIN gen = Gens /\ LogFields \subseteq DOMAIN gen[g] /\ Log(g)
      BY <3>2 DEF Inv, Shape, Logs, Log
    <3>4. gen' = [gen EXCEPT ![g].hooked = TRUE]
      BY <2>2, <3>1 DEF Wires
    <3> QED
      BY <3>2, <3>3, <3>4 DEF Amends, Log, LogFields
  <2> QED
    BY <2>1, <2>2
<1>5. Works(c)'
  BY <1>1 DEF Works, Turns
<1> QED
  BY <1>1, <1>2, <1>3, <1>4, <1>5, CallerLogs

LEMMA ClearsLogs == ASSUME Inv, Logs, NEW c \in Callers, Clears(c) PROVE Logs'
<1>1. UNCHANGED <<gen, last, cur>>
  BY DEF Clears, single
<1>2. CASE Leaves(c, "clear")
  <2>1. Turns(c, "idle") /\ \A b \in Callers \ {c} : srv'[b] = srv[b]
    BY <1>2, LeavesTurns
  <2>2. Works(c)'
    BY <2>1 DEF Works, Turns
  <2> QED
    BY <1>1, <2>1, <2>2, CallerLogs
<1>3. CASE ~Leaves(c, "clear")
  <2>1. Turns(c, "serve") /\ cur # 0 /\ srv' = [srv EXCEPT ![c] = cur]
    BY <1>3, AtTurns DEF Clears
  <2>2. srv'[c] = cur /\ \A b \in Callers \ {c} : srv'[b] = srv[b]
    BY <2>1 DEF Inv, Shape
  <2>3. Works(c)'
    BY <1>1, <2>1, <2>2, CurIsGen DEF Works, Turns, Logs
  <2> QED
    BY <1>1, <2>1, <2>2, <2>3, CallerLogs
<1> QED
  BY <1>2, <1>3

LEMMA ShutdownTakesLogs == ASSUME Inv, Logs, ShutdownTakes PROVE Logs'
<1>1. cur' = 0 /\ UNCHANGED <<last, pc, srv>> /\ \A c \in Callers : pc[c] = "idle"
  BY DEF ShutdownTakes, mine
<1>2. gen' = gen \/ \E g \in Gens : Amends(g)
  <2>1. CASE cur = 0
    BY <2>1 DEF ShutdownTakes
  <2>2. CASE cur # 0
    <3>1. PICK g : g = cur
      OBVIOUS
    <3>2. g \in Gens /\ g <= last /\ gen' = [gen EXCEPT ![g] = Begun(@)]
      BY <2>2, <3>1, CurIsGen DEF ShutdownTakes
    <3> QED
      BY <3>2, BegunAmends
  <2> QED
    BY <2>1, <2>2
<1>3. last' \in Nat /\ last <= last'
  BY <1>1, CurIsGen, BoundsAssumption
<1> QED
  BY <1>1, <1>2, <1>3, LogsKept

LEMMA LogsStep == Inv /\ Logs /\ [Next]_vars => Logs'
<1> SUFFICES ASSUME Inv, Logs, [Next]_vars PROVE Logs'
  OBVIOUS
<1>1. CASE UNCHANGED vars
  <2>1. UNCHANGED <<gen, last, cur, pc, srv>>
    BY <1>1 DEF vars
  <2>2. last' \in Nat /\ last <= last' /\ (cur' # 0 => cur' \in Gens /\ cur' = cur)
    BY <2>1, CurIsGen, BoundsAssumption
  <2> QED
    BY <2>1, <2>2, LogsKept DEF Steady
<1>2. ASSUME NEW g \in Gens, Says(g) \/ Exits(g) \/ FinSteps(g) \/ ReaderSteps(g) \/ WatcherSteps(g) PROVE Logs'
  BY <1>2, ServerLogs
<1>3. ASSUME NEW c \in Callers, StartEnters(c) \/ KeeperEnters(c) \/ Ends(c) \/ CallerSteps(c) PROVE Logs'
  <2>1. CASE Outside(c)
    BY <2>1, OutsideLogs
  <2>2. CASE Builds(c) \/ Replaces(c)
    BY <2>2, EntersLogs DEF Builds, Replaces
  <2>3. CASE OldDone(c) \/ NoFile(c) \/ Undone(c)
    <3>1. PICK y \in {"new", "wire"} : Turns(c, y)
      BY <2>3, AtTurns DEF OldDone, NoFile, Undone
    <3>2. UNCHANGED <<gen, last, srv>> /\ (cur' = cur \/ cur' = 0)
      BY <2>3 DEF OldDone, NoFile, Undone, Empties, single
    <3>3. Works(c)'
      BY <3>1 DEF Works, Turns
    <3> QED
      BY <3>1, <3>2, <3>3, CallerLogs
  <2> QED
    BY <1>3, <2>1, <2>2, <2>3, NewGenerationLogs, BuildLogs, PublishesLogs, WiresLogs, ClearsLogs
       DEF CallerSteps, Outside
<1>4. CASE ShutdownBegins
  <2>1. UNCHANGED <<gen, last, cur, pc, srv>>
    BY <1>4 DEF ShutdownBegins, single, mine
  <2>2. last' \in Nat /\ last <= last' /\ (cur' # 0 => cur' \in Gens /\ cur' = cur)
    BY <2>1, CurIsGen, BoundsAssumption
  <2> QED
    BY <2>1, <2>2, LogsKept DEF Steady
<1>5. CASE ShutdownTakes
  BY <1>5, ShutdownTakesLogs
<1> QED
  BY <1>1, <1>2, <1>3, <1>4, <1>5 DEF Next, ShutDown

(* Conn.record, Generation.Line, StopRecording, Generation.Close: of a          *)
(* finalized generation every frame the server wrote was handed to the          *)
(* recorder, but where the drain timed out, the scanner failed or a frame came  *)
(* before the recorder, and the meta file tells of a write error exactly if     *)
(* there was one, for any number of generations, frames, callers and failed     *)
(* writes.                                                                      *)
THEOREM LogIsWholeHolds == Spec => []LogIsWhole
<1>1. Logs => LogIsWhole
  <2> SUFFICES ASSUME Logs, NEW g \in Gens, gen[g].fin = "done"
               PROVE  /\ gen[g].kept = gen[g].said \/ gen[g].late \/ gen[g].cut \/ gen[g].early
                      /\ gen[g].werr <=> gen[g].meta = "error"
    BY DEF LogIsWhole
  <2>1. Log(g)
    BY DEF Logs
  <2> QED
    BY <2>1 DEF Log
<1> QED
  BY <1>1, InvHolds, LogsInit, LogsStep, PTL DEF Spec
-----------------------------------------------------------------------------
(***************************************************************************)
(* The process of an app-server, like that of any provider, is supervised  *)
(* as ProcSupervisor says.  For any descendants it may fork, any number of *)
(* calls of Terminate and any number of probes: what its Exit says is what *)
(* became of it.                                                           *)
(***************************************************************************)
Stations == {"wait", "record", "kill", "probe", "rekill", "force", "closeErr", "closeOut", "drain",
             "publish", "done"}
ProcTypes ==
    /\ leader \in {"run", "zombie", "reaped"} /\ hit \subseteq {"TERM", "KILL"}
    /\ kid \in [Kids -> {"unborn", "new", "up", "doomed", "out", "gone"}] /\ holds \subseteq Kids
    /\ sup \in [pc : Stations, i : Nat]
    /\ {exited, canceled, termSent, killSent, forced} \subseteq BOOLEAN
    /\ exit \in [ready : BOOLEAN, fatal : {"none", "exit", "TERM", "KILL", "other"}, incomplete : BOOLEAN]
    /\ cause \in {"none", "exit", "TERM", "KILL", "other"}

\* A signal that reached the child alive is on record, and what is on record was sent: the
\* kills of the cleanup come when the child has been reaped, and reach it no more.
OnRecord ==
    /\ "TERM" \in hit => termSent
    /\ "KILL" \in hit => killSent
    /\ termSent => "TERM" \in sent
    /\ killSent => "KILL" \in sent

\* How far the supervisor is, and what it has seen by then: past the cleanup the group is gone
\* or was given up, and a group that is gone does not come back.
Supervised ==
    /\ sup.pc # "wait" => leader = "reaped"
    /\ sup.pc \in {"closeErr", "closeOut"} => forced
    /\ sup.pc \in {"drain", "publish", "done"} => forced \/ InGroup = {}
    /\ exit.ready => sup.pc = "done" /\ exit.fatal = cause /\ exit.incomplete = forced

ProcInv == ProcTypes /\ OnRecord /\ Supervised

LEMMA ProcInvInit == ProcInit => ProcInv
<1> SUFFICES ASSUME ProcInit PROVE ProcTypes /\ OnRecord /\ Supervised
  BY DEF ProcInv
<1>1. ProcTypes
  BY DEF ProcInit, ProcTypes, Stations, NotReady
<1>2. OnRecord /\ Supervised
  BY DEF ProcInit, OnRecord, Supervised, NotReady
<1> QED
  BY <1>1, <1>2

\* Nobody joins a group that is empty and whose leader is gone.
LEMMA GroupStaysEmpty ==
  ASSUME ProcTypes, Fork \/ KidMoves, leader # "run", InGroup = {}
  PROVE  (InGroup)' = {}
<1>1. \A k \in Kids : kid[k] \in {"unborn", "out", "gone"}
  BY DEF ProcTypes, InGroup
<1>2. \A k \in Kids : kid'[k] \in {"unborn", "out", "gone"}
  BY <1>1 DEF ProcTypes, Fork, KidMoves
<1> QED
  BY <1>2 DEF InGroup

\* A signal of Terminate or of its timer.
LEMMA SignalKeeps ==
  ASSUME ProcInv, NEW sig \in {"TERM", "KILL"}, Hits(sig), sig \in sent', sent \subseteq sent',
         sig = "TERM" => termSent' /\ killSent' = killSent,
         sig = "KILL" => killSent' /\ termSent' = termSent,
         {termSent', killSent', canceled'} \subseteq BOOLEAN,
         UNCHANGED <<exited, exit, forced, sup>>
  PROVE  ProcInv'
<1>1. ProcTypes'
  BY DEF ProcInv, ProcTypes, Hits, Reachable, InGroup
<1>2. OnRecord'
  BY DEF ProcInv, OnRecord, Hits
<1>3. InGroup = {} => (InGroup)' = {}
  BY DEF ProcInv, ProcTypes, Hits, Reachable, InGroup
<1>4. Supervised'
  BY <1>3 DEF ProcInv, Supervised, Hits
<1> QED
  BY <1>1, <1>2, <1>4 DEF ProcInv

LEMMA TerminateKeeps ==
  ASSUME ProcInv, Terminate, canceled' \in BOOLEAN, UNCHANGED <<exited, exit, forced, sup>>
  PROVE  ProcInv'
<1>1. CASE UNCHANGED <<os, signals>>
  BY <1>1 DEF os, signals, ProcInv, ProcTypes, OnRecord, Supervised, InGroup
<1>2. CASE Hits("TERM") /\ termSent' = TRUE /\ sent' = sent \cup {"TERM"} /\ killSent' = killSent
  <2>1. {termSent', killSent', canceled'} \subseteq BOOLEAN
    BY <1>2 DEF ProcInv, ProcTypes
  <2>2. "TERM" \in sent' /\ sent \subseteq sent'
    BY <1>2
  <2> QED
    BY <1>2, <2>1, <2>2, SignalKeeps
<1> QED
  BY <1>1, <1>2 DEF Terminate, SendTerm, os, signals

LEMMA EscalateKeeps == ASSUME ProcInv, Escalate PROVE ProcInv'
<1>1. CASE UNCHANGED <<os, killSent, sent>>
  BY <1>1 DEF Escalate, pipes, os, ProcInv, ProcTypes, OnRecord, Supervised, InGroup
<1>2. CASE Hits("KILL") /\ killSent' = TRUE /\ sent' = sent \cup {"KILL"}
  <2>1. /\ {termSent', killSent', canceled'} \subseteq BOOLEAN
        /\ termSent' = termSent /\ UNCHANGED <<exited, exit, forced, sup>>
    BY <1>2 DEF Escalate, ProcInv, ProcTypes
  <2>2. "KILL" \in sent' /\ sent \subseteq sent'
    BY <1>2
  <2> QED
    BY <1>2, <2>1, <2>2, SignalKeeps
<1> QED
  BY <1>1, <1>2 DEF Escalate

\* The supervisor's own steps. A kill of the cleanup finds no living child.
LEMMA CleanupKills ==
  ASSUME ProcInv, sup.pc # "wait", Hits("KILL") \/ UNCHANGED os
  PROVE  /\ hit' = hit /\ leader' = leader /\ cause' = cause /\ holds' = holds
         /\ kid' \in [Kids -> {"unborn", "new", "up", "doomed", "out", "gone"}]
<1>1. leader = "reaped"
  BY DEF ProcInv, Supervised
<1> QED
  BY <1>1 DEF ProcInv, ProcTypes, Hits, os

LEMMA SupervisorKeeps ==
  ASSUME ProcInv, Supervisor
  PROVE  ProcInv'
<1>0. ProcTypes /\ OnRecord /\ Supervised /\ OnRecord' /\ UNCHANGED <<canceled, termSent, killSent>>
  <2>1. UNCHANGED <<canceled, termSent, killSent, sent>>
    BY DEF Supervisor, Supervises, signals, Reap, RecordExit, FirstKill, Probe, Rekill,
       Confirm, ForceClose, Drain, Publish
  <2>2. hit' = hit
    <3>1. CASE FirstKill \/ Rekill
      BY <3>1, CleanupKills DEF FirstKill, Rekill, SupAt
    <3> QED
      BY <3>1 DEF Supervisor, os, Reap, RecordExit, Probe, Confirm, ForceClose, Drain, Publish
  <2> QED
    BY <2>1, <2>2 DEF ProcInv, OnRecord
<1>1. CASE Reap
  <2>1. sup' \in [pc : Stations, i : Nat] /\ sup'.pc = "record" /\ sup.pc = "wait"
    BY <1>0, <1>1 DEF Reap, SupAt, Go, ProcTypes, Stations
  <2> QED
    BY <1>0, <1>1, <2>1 DEF Reap, ProcInv, ProcTypes, Supervised
<1>2. CASE RecordExit
  <2>1. sup' \in [pc : Stations, i : Nat] /\ sup'.pc = "kill" /\ sup.pc = "record"
    BY <1>0, <1>2 DEF RecordExit, SupAt, Go, ProcTypes, Stations
  <2> QED
    BY <1>0, <1>2, <2>1 DEF RecordExit, os, ProcInv, ProcTypes, Supervised
<1> DEFINE Cleanup == {"kill", "probe", "rekill"}
<1>3. ASSUME sup.pc \in Cleanup, sup' \in [pc : Stations, i : Nat],
             sup'.pc \in Cleanup \cup {"drain", "force"},
             sup'.pc = "drain" => (InGroup)' = {},
             leader' = leader, cause' = cause, hit' = hit, holds' = holds,
             kid' \in [Kids -> {"unborn", "new", "up", "doomed", "out", "gone"}],
             UNCHANGED <<exited, exit, forced>>
      PROVE  ProcInv'
  BY <1>0, <1>3 DEF ProcInv, ProcTypes, Supervised
<1>4. "ESRCH" \in Outcomes => InGroup = {}
  BY DEF Outcomes
<1>5. UNCHANGED os => (InGroup)' = InGroup
  BY DEF os, InGroup
<1>6. CASE FirstKill
  <2>1. /\ sup' \in [pc : Stations, i : Nat] /\ sup.pc = "kill" /\ sup'.pc \in {"probe", "drain"}
        /\ sup'.pc = "drain" => (InGroup)' = {}
    BY <1>0, <1>4, <1>5, <1>6 DEF FirstKill, SupAt, Go, ProcTypes, Stations
  <2>2. Hits("KILL") \/ UNCHANGED os
    BY <1>6 DEF FirstKill
  <2> QED
    BY <1>3, <1>6, <2>1, <2>2, CleanupKills DEF FirstKill
<1>7. CASE Probe
  <2>1. /\ sup' \in [pc : Stations, i : Nat] /\ sup.pc = "probe"
        /\ sup'.pc \in {"probe", "rekill", "drain"} /\ sup'.pc = "drain" => (InGroup)' = {}
    BY <1>0, <1>4, <1>5, <1>7 DEF Probe, SupAt, Go, ProcTypes, Stations
  <2> QED
    BY <1>3, <1>7, <2>1, CleanupKills DEF Probe
<1>8. CASE Rekill
  <2>1. /\ sup' \in [pc : Stations, i : Nat] /\ sup.pc = "rekill" /\ sup'.pc \in {"probe", "drain"}
        /\ sup'.pc = "drain" => (InGroup)' = {}
    BY <1>0, <1>4, <1>5, <1>8 DEF Rekill, SupAt, Go, ProcTypes, Stations
  <2>2. Hits("KILL") \/ UNCHANGED os
    BY <1>8 DEF Rekill
  <2> QED
    BY <1>3, <1>8, <2>1, <2>2, CleanupKills DEF Rekill
<1>9. CASE Confirm
  <2>1. /\ sup' \in [pc : Stations, i : Nat] /\ sup.pc = "probe" /\ sup'.pc \in {"drain", "force"}
        /\ sup'.pc = "drain" => (InGroup)' = {}
    BY <1>0, <1>4, <1>5, <1>9 DEF Confirm, SupAt, Go, ProcTypes, Stations
  <2> QED
    BY <1>3, <1>9, <2>1, CleanupKills DEF Confirm
<1>10. CASE ForceClose
  <2>1. /\ sup' \in [pc : Stations, i : Nat] /\ sup.pc \in {"force", "closeErr", "closeOut"}
        /\ sup'.pc \in {"closeErr", "closeOut", "drain"} /\ forced' /\ forced' \in BOOLEAN
    BY <1>0, <1>10 DEF ForceClose, SupAt, Go, ProcTypes, Supervised, Stations
  <2> QED
    BY <1>0, <1>10, <2>1 DEF ForceClose, os, ProcInv, ProcTypes, Supervised
<1>11. CASE Drain
  <2>1. sup' \in [pc : Stations, i : Nat] /\ sup'.pc = "publish" /\ sup.pc = "drain"
    BY <1>0, <1>11 DEF Drain, SupAt, Go, ProcTypes, Stations
  <2> QED
    BY <1>0, <1>5, <1>11, <2>1 DEF Drain, os, ProcInv, ProcTypes, Supervised
<1>12. CASE Publish
  <2>1. sup' \in [pc : Stations, i : Nat] /\ sup'.pc = "done" /\ sup.pc = "publish"
    BY <1>0, <1>12 DEF Publish, SupAt, Go, ProcTypes, Stations
  <2> QED
    BY <1>0, <1>5, <1>12, <2>1 DEF Publish, os, ProcInv, ProcTypes, Supervised
<1> QED
  BY <1>1, <1>2, <1>6, <1>7, <1>8, <1>9, <1>10, <1>11, <1>12 DEF Supervisor

LEMMA ProcInvStep == ProcInv /\ [ProcNext]_procVars => ProcInv'
<1> SUFFICES ASSUME ProcInv, [ProcNext]_procVars PROVE ProcInv'
  OBVIOUS
<1>1. CASE UNCHANGED procVars
  BY <1>1 DEF procVars, os, signals, ProcInv, ProcTypes, OnRecord, Supervised, InGroup
<1>2. CASE Fork \/ KidMoves
  <2>1. /\ hit' = hit /\ leader' = leader /\ cause' = cause
        /\ UNCHANGED <<exited, canceled, exit, forced, sup, termSent, killSent, sent>>
    BY <1>2 DEF Fork, KidMoves, signals
  <2>2. /\ kid' \in [Kids -> {"unborn", "new", "up", "doomed", "out", "gone"}]
        /\ holds' \subseteq Kids
    BY <1>2 DEF Fork, KidMoves, ProcInv, ProcTypes
  <2>3. ProcTypes' /\ OnRecord'
    BY <2>1, <2>2 DEF ProcInv, ProcTypes, OnRecord
  <2>4. leader = "reaped" /\ InGroup = {} => (InGroup)' = {}
    BY <1>2, GroupStaysEmpty DEF ProcInv
  <2>5. Supervised'
    BY <2>1, <2>4 DEF ProcInv, Supervised
  <2> QED
    BY <2>3, <2>5 DEF ProcInv
<1>3. CASE LeaderDies \/ LeaderKilled
  <2>1. /\ leader = "run" /\ leader' = "zombie" /\ cause' \in {"exit", "TERM", "KILL", "other"}
        /\ UNCHANGED <<hit, kid, holds, exited, canceled, exit, forced, sup, termSent, killSent, sent>>
    BY <1>3 DEF LeaderDies, LeaderKilled, signals
  <2>2. sup.pc = "wait" /\ ~exit.ready
    BY <2>1 DEF ProcInv, Supervised
  <2> QED
    BY <2>1, <2>2 DEF ProcInv, ProcTypes, OnRecord, Supervised
<1>4. CASE CallerTerminates \/ WatcherTerminates
  BY <1>4, TerminateKeeps DEF CallerTerminates, WatcherTerminates, ProcInv, ProcTypes
<1>5. CASE Escalate
  BY <1>5, EscalateKeeps
<1>6. CASE cancelRequested \/ WatcherLeaves \/ Reader \/ Close
  <2>1. /\ canceled' \in BOOLEAN
        /\ UNCHANGED <<os, exited, exit, forced, sup, termSent, killSent, sent>>
    BY <1>6 DEF cancelRequested, WatcherLeaves, Reader, ReadEnds, ReadLooks, Close,
       Elsewhere, signals, ProcInv, ProcTypes
  <2> QED
    BY <2>1 DEF os, ProcInv, ProcTypes, OnRecord, Supervised, InGroup
<1>7. CASE Supervisor
  BY <1>7, SupervisorKeeps
<1> QED
  BY <1>1, <1>2, <1>3, <1>4, <1>5, <1>6, <1>7 DEF ProcNext

(* For any signals of callers, contexts and the cleanup, in any order with the  *)
(* child's own end: of a process whose context was cancelled, the end by a      *)
(* signal that reached it alive is reported as a cancellation, and no end is    *)
(* by a signal nobody sent (CanceledByContext, Terminate, cleanupGroup).        *)
THEOREM VerdictIsCauseHolds == ProcSpec => []VerdictIsCause
<1>1. ProcInv => VerdictIsCause
  BY DEF ProcInv, ProcTypes, OnRecord, Supervised, VerdictIsCause, CanceledByContext
<1> QED
  BY <1>1, ProcInvInit, ProcInvStep, PTL DEF ProcSpec

(* For any number of descendants, whatever they fork between two kills: a       *)
(* process that is done has left nothing in its group, or its Exit says that    *)
(* it was given up (cleanupGroup, supervise of proc.go).                        *)
THEOREM DoneIsCleanHolds == ProcSpec => []DoneIsClean
<1>1. ProcInv => DoneIsClean
  BY DEF ProcInv, Supervised, DoneIsClean
<1> QED
  BY <1>1, ProcInvInit, ProcInvStep, PTL DEF ProcSpec
=============================================================================
