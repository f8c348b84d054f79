---------------------------- MODULE CodexServer ----------------------------
(***************************************************************************)
(* The life of the shared Codex app-server and of its wire log:            *)
(* internal/codex/single.go, owner.go and session.go, the recorder side of *)
(* rpc.go and internal/wirelog, and the callers in app.go that create,     *)
(* replace, watch and shut down a generation.                              *)
(*                                                                         *)
(* One generation is one app-server process with its connection and its    *)
(* recording.  Bindings, the connection's read loop, the watcher of each   *)
(* generation and the shutdown run concurrently; they meet at two locks    *)
(* (codexServerMu, then Single.mu), at the owner's own lock (a             *)
(* finalization runs once, whoever else asks for it waits) and at wireMu,  *)
(* whose critical sections are single steps here.                          *)
(***************************************************************************)
EXTENDS Naturals, FiniteSets

CONSTANTS Starters,     \* callers that start a Codex session
          Keepers,      \* callers that ask for the account or replace the server
          MaxGens,      \* bound: generations allocated
          MaxFrames,    \* bound: frames a server writes
          MaxOps,       \* bound: operations of the callers together
          MaxBadWrites  \* bound: writes of the wire log that fail

ASSUME BoundsAssumption ==
    /\ MaxGens \in Nat \ {0} /\ MaxFrames \in Nat /\ MaxOps \in Nat
    /\ MaxBadWrites \in Nat
    /\ Starters \cap Keepers = {}
    /\ "free" \notin Starters \cup Keepers

Callers == Starters \cup Keepers
Free == "free"
Gens == 1..MaxGens

VARIABLES
    gen,     \* per generation: its process, pipe, recorder, finalization and watcher
    last,    \* generations allocated
    cur,     \* Single: the generation published, 0 if none
    epoch,   \* Single: publications so far
    smu,     \* Single.mu: the caller inside WithExclusiveEpoch, or Free
    mu,      \* codexServerMu: the caller that holds it, or Free
    wireGen, \* the generation checkWireRecorder polls, 0 before the first
    latch,   \* the recorder error latch: the generation whose error it keeps, 0 if clear
    phase,   \* the shutdown: up, waiting (new transactions refused), taken, off
    pc,      \* per caller: where its binding stands
    srv,     \* per caller: the generation it works with (or polled)
    wants,   \* per caller: a server, alive or rebuilt, or a new one in any case
    bad,     \* per caller: RunOwnedHandshake is to return an error
    live,    \* per starter: the generation its published host is connected to, 0 if none
    left,    \* operations still to come
    faults   \* writes of the wire log that may still fail

vars == <<gen, last, cur, epoch, smu, mu, wireGen, latch, phase, pc, srv, wants, bad, live, left, faults>>
single == <<cur, epoch, smu>>
app == <<mu, wireGen, latch, phase, live>>
mine == <<pc, srv, wants, bad, left>>

Generation == [proc : {"none", "up", "gone"},  \* the app-server process
               out  : 0..MaxFrames,            \* frames in the pipe, written and not yet read
               said : 0..MaxFrames,            \* frames written
               kept : 0..MaxFrames,            \* frames read and handed to the recorder
               eof  : BOOLEAN,                 \* Conn.Done: the read loop has ended
               cut  : BOOLEAN,                 \* it ended on an error of its scanner
               rd   : {"scan", "line", "wired", "polled"}, \* where the read loop stands
               seen : 0..MaxGens,              \* the generation the read loop polled
               sink : {"none", "on", "off"},   \* the recorder: to be attached, attached, taken out
               early : BOOLEAN,                \* history: a frame was read before it was attached
               werr : BOOLEAN,                 \* the first write error, latched
               hooked : BOOLEAN,               \* wireCodexConn has installed the handlers
               fin  : {"no", "killing", "closing", "done"},
               late : BOOLEAN,                 \* the drain timed out
               meta : {"none", "clean", "error"}, \* what the meta file says of the recorder
               watch : {"no", "waiting", "taken", "told"}, \* WatchGeneration's goroutine
               born : Nat]                     \* the epoch its watcher holds

NoGeneration == [proc |-> "none", out |-> 0, said |-> 0, kept |-> 0, eof |-> FALSE, cut |-> FALSE,
                 rd |-> "scan", seen |-> 0, sink |-> "none", early |-> FALSE, werr |-> FALSE,
                 hooked |-> FALSE, fin |-> "no", late |-> FALSE, meta |-> "none", watch |-> "no", born |-> 0]

(***************************************************************************)
(* The process, its pipe, and the read loop of its connection, which runs  *)
(* from the start of the process on, before the recorder is attached.      *)
(***************************************************************************)
Says(g) == /\ gen[g].proc = "up" /\ gen[g].said < MaxFrames
           /\ gen' = [gen EXCEPT ![g].out = @ + 1, ![g].said = @ + 1]
           /\ UNCHANGED <<last, faults, single, app, mine>>

\* The process ends, by itself or because it is being terminated.
Exits(g) == /\ gen[g].proc = "up"
            /\ gen' = [gen EXCEPT ![g].proc = "gone"]
            /\ UNCHANGED <<last, faults, single, app, mine>>

\* Conn.record of a frame read: it registers as in flight where a sink is attached, and is
\* silently dropped where none is.
Reads(g) == /\ gen[g].rd = "scan" /\ gen[g].out > 0 /\ ~gen[g].eof
            /\ LET on == gen[g].sink = "on"
               IN gen' = [gen EXCEPT ![g].out = @ - 1,
                                     ![g].rd = IF on THEN "line" ELSE @,
                                     ![g].kept = IF on THEN @ + 1 ELSE @,
                                     ![g].early = @ \/ gen[g].sink = "none"]
            /\ UNCHANGED <<last, faults, single, app, mine>>

\* Generation.Line: a write that fails, or that finds the file closed, is latched.
Wrote(g, ok) == IF ok THEN faults' = faults
                ELSE IF gen[g].fin = "done" THEN faults' = faults
                ELSE faults > 0 /\ faults' = faults - 1
Lines(g) == /\ gen[g].rd = "line"
            /\ \E ok \in IF gen[g].fin = "done" THEN {FALSE} ELSE BOOLEAN, to \in {"scan", "wired"} :
                 /\ to = "wired" => gen[g].hooked \* a notification, for the handler installed
                 /\ Wrote(g, ok)
                 /\ gen' = [gen EXCEPT ![g].rd = to, ![g].werr = @ \/ ~ok]
            /\ UNCHANGED <<last, single, app, mine>>

\* checkWireRecorder in the handler: one section reads the generation to poll, a later one
\* latches its error, if no error is latched.
Latched(g) == latch' = IF latch = 0 /\ g # 0 /\ gen[g].werr THEN g ELSE latch
HandlerPolls(g) == /\ gen[g].rd = "wired"
                   /\ gen' = [gen EXCEPT ![g].rd = "polled", ![g].seen = wireGen]
                   /\ UNCHANGED <<last, faults, single, app, mine>>
HandlerLatches(g) == /\ gen[g].rd = "polled"
                     /\ Latched(gen[g].seen)
                     /\ gen' = [gen EXCEPT ![g].rd = "scan", ![g].seen = 0]
                     /\ UNCHANGED <<last, faults, single, mu, wireGen, phase, live, mine>>

\* The read loop ends once every holder of the write end is gone and the pipe is empty, or
\* on an error of its scanner: a line over its limit, or stdout closed by the supervisor of
\* the process after its exit.  What is in the pipe then is not read any more.
Broken(g) == gen[g].out > 0 \/ gen[g].proc = "gone"
AtEnd(g) == gen[g].out = 0 /\ gen[g].proc = "gone"
ReadsEof(g) == /\ gen[g].rd = "scan" /\ ~gen[g].eof
               /\ \E cut \in BOOLEAN :
                    /\ IF cut THEN Broken(g) ELSE AtEnd(g)
                    /\ gen' = [gen EXCEPT ![g].eof = TRUE, ![g].cut = cut]
               /\ UNCHANGED <<last, faults, single, app, mine>>

(***************************************************************************)
(* FinalizeWith.  The first to ask begins it, under the owner's lock; who  *)
(* asks later waits until it is done.  A generation whose server never     *)
(* started goes straight to the closing of its file.                       *)
(***************************************************************************)
Begun(r) == IF r.fin # "no" THEN r ELSE [r EXCEPT !.fin = IF r.proc = "none" THEN "closing" ELSE "killing"]

\* Terminate has been sent.  Wait returns when the process is gone, the drain when the read
\* loop has ended, or late; then StopRecording takes the sink out.
FinDetached_NoDrain(g) == /\ gen[g].fin = "killing" /\ gen[g].proc = "gone"
                          /\ gen' = [gen EXCEPT ![g].sink = "off", ![g].fin = "closing"]
                          /\ UNCHANGED <<last, faults, single, app, mine>>
FinDetached(g) == /\ gen[g].fin = "killing" /\ gen[g].proc = "gone"
                  /\ gen' = [gen EXCEPT ![g].sink = "off", ![g].fin = "closing", ![g].late = ~gen[g].eof]
                  /\ UNCHANGED <<last, faults, single, app, mine>>
\* It waits for the writes in flight, and only then the file is closed and the meta written.
InFlight(g) == gen[g].rd = "line" \/ \E c \in Callers : pc[c] = "line" /\ srv[c] = g
FinClosed(g) == /\ gen[g].fin = "closing" /\ ~InFlight(g)
                /\ gen' = [gen EXCEPT ![g].fin = "done",
                                      ![g].meta = IF gen[g].werr THEN "error" ELSE "clean"]
                /\ UNCHANGED <<last, faults, single, app, mine>>

\* The result every caller of FinalizeWith gets.
FinError(g) == gen[g].late \/ gen[g].meta = "error"

(***************************************************************************)
(* WatchGeneration: the goroutine of a published generation.               *)
(***************************************************************************)
WatchTakes_AnyEpoch(g) == /\ gen[g].watch = "waiting" /\ gen[g].proc = "gone" /\ smu = Free
                          /\ cur' = 0
                          /\ gen' = [gen EXCEPT ![g].watch = "taken"]
                          /\ UNCHANGED <<last, epoch, smu, faults, app, mine>>
\* CompareAndTakeEpoch: it takes its own generation out of the Single, never a later one.
WatchTakes(g) == /\ gen[g].watch = "waiting" /\ gen[g].proc = "gone" /\ smu = Free
                 /\ cur' = IF epoch = gen[g].born THEN 0 ELSE cur
                 /\ gen' = [gen EXCEPT ![g].watch = "taken"]
                 /\ UNCHANGED <<last, epoch, smu, faults, app, mine>>
\* It finalizes the generation in both cases, and tells the application when that is done.
WatchBegins(g) == /\ gen[g].watch = "taken" /\ gen[g].fin = "no"
                  /\ gen' = [gen EXCEPT ![g] = Begun(@)]
                  /\ UNCHANGED <<last, faults, single, app, mine>>
WatchTells(g) == /\ gen[g].watch = "taken" /\ gen[g].fin = "done"
                 /\ gen' = [gen EXCEPT ![g].watch = "told"]
                 /\ UNCHANGED <<last, faults, single, app, mine>>

(***************************************************************************)
(* The callers.  A binding that finds the shutdown begun is refused.       *)
(***************************************************************************)
Goes(c, there) == pc' = [pc EXCEPT ![c] = there]
At(c, here, there) == pc[c] = here /\ Goes(c, there)
\* The binding returns: what it held in its variables is gone.
Leaves(c, here) == /\ At(c, here, "idle")
                   /\ srv' = [srv EXCEPT ![c] = 0] /\ wants' = [wants EXCEPT ![c] = "server"]
                   /\ bad' = [bad EXCEPT ![c] = FALSE] /\ left' = left

\* StartSession: codexWireGate polls the recorder, latches what it finds, and then decides.
StartEnters(c) == /\ c \in Starters /\ phase = "up" /\ live[c] = 0 /\ left > 0
                  /\ At(c, "idle", "gate")
                  /\ left' = left - 1
                  /\ srv' = [srv EXCEPT ![c] = wireGen]
                  /\ UNCHANGED <<gen, last, faults, single, app, wants, bad>>
GatePolls(c) == /\ At(c, "gate", "gated")
                /\ Latched(srv[c])
                /\ UNCHANGED <<gen, last, faults, single, mu, wireGen, phase, live, srv, wants, bad, left>>
GateRefuses(c) == /\ latch # 0 /\ Leaves(c, "gated")
                  /\ UNCHANGED <<gen, last, faults, single, app>>
GatePasses(c) == /\ latch = 0 /\ At(c, "gated", "lock")
                 /\ srv' = [srv EXCEPT ![c] = 0]
                 /\ UNCHANGED <<gen, last, faults, single, app, wants, bad, left>>

\* AuthStatus, and the two bindings that replace the server.
KeeperEnters(c) == /\ c \in Keepers /\ phase = "up" /\ left > 0
                   /\ At(c, "idle", "lock")
                   /\ \E w \in {"server", "new"} : wants' = [wants EXCEPT ![c] = w]
                   /\ left' = left - 1
                   /\ UNCHANGED <<gen, last, faults, single, app, srv, bad>>

(***************************************************************************)
(* replaceCodexGeneration and RunOwnedHandshake: everything from Enters to *)
(* Publishes, NoFile or Undone happens under Single.mu as well.            *)
(***************************************************************************)
Enters(c) == /\ mu' = c /\ smu' = c
             /\ At(c, "lock", IF cur = 0 THEN "new" ELSE "old")
             /\ gen' = IF cur = 0 THEN gen ELSE [gen EXCEPT ![cur] = Begun(@)]
             /\ UNCHANGED <<last, cur, epoch, faults, srv, wants, bad, left>>

\* ensureAppServer under codexServerMu: a server that is alive is used, and none is built
\* once the shutdown has begun.
Alive == cur # 0 /\ gen[cur].proc = "up"
UsesLiving(c) == /\ wants[c] = "server" /\ mu = Free /\ smu = Free /\ Alive
                 /\ At(c, "lock", "serve")
                 /\ srv' = [srv EXCEPT ![c] = cur]
                 /\ UNCHANGED <<gen, last, faults, single, app, wants, bad, left>>
BuildsNone(c) == /\ wants[c] = "server" /\ mu = Free /\ smu = Free /\ ~Alive
                 /\ phase # "up" /\ Leaves(c, "lock")
                 /\ UNCHANGED <<gen, last, faults, single, app>>
Builds(c) == /\ wants[c] = "server" /\ mu = Free /\ smu = Free /\ ~Alive
             /\ phase = "up" /\ Enters(c)
             /\ UNCHANGED <<wireGen, latch, phase, live>>

\* A restart or a recovery of the recording: refuseIfCodexLive, under the same lock, sees the
\* hosts that are published.
HostsLive == \E s \in Starters : live[s] # 0
Refused(c) == /\ wants[c] = "new" /\ mu = Free /\ HostsLive
              /\ Leaves(c, "lock")
              /\ UNCHANGED <<gen, last, faults, single, app>>
Replaces(c) == /\ wants[c] = "new" /\ mu = Free /\ smu = Free /\ ~HostsLive
               /\ Enters(c)
               /\ UNCHANGED <<wireGen, latch, phase, live>>
OldDone(c) == /\ At(c, "old", "new")
              /\ gen[cur].fin = "done"
              /\ bad' = [bad EXCEPT ![c] = FinError(cur)]
              /\ UNCHANGED <<gen, last, faults, single, app, srv, wants, left>>
Empties(c) == cur' = 0 /\ smu' = Free /\ bad' = [bad EXCEPT ![c] = TRUE]
NewGeneration(c) == /\ last < MaxGens
                    /\ At(c, "new", "spawn")
                    /\ last' = last + 1 /\ srv' = [srv EXCEPT ![c] = last + 1]
                    /\ UNCHANGED <<gen, faults, single, app, wants, bad, left>>
NoFile(c) == /\ At(c, "new", "wire")
             /\ Empties(c)
             /\ UNCHANGED <<gen, last, epoch, faults, app, srv, wants, left>>
\* The server starts, and its connection reads from then on.
Spawns(c) == /\ At(c, "spawn", "attach")
             /\ gen' = [gen EXCEPT ![srv[c]].proc = "up"]
             /\ UNCHANGED <<last, faults, single, app, srv, wants, bad, left>>
\* The recorder is attached before the handshake (whose own frames are not told apart).  A new
\* connection has none, so that this cannot fail.
Attaches(c) == /\ At(c, "attach", "shake")
               /\ gen' = [gen EXCEPT ![srv[c]].sink = "on"]
               /\ UNCHANGED <<last, faults, single, app, srv, wants, bad, left>>
\* Without a server, too, the generation is finalized: the attempt leaves its evidence.
SpawnFails(c) == /\ At(c, "spawn", "undo")
                 /\ gen' = [gen EXCEPT ![srv[c]] = Begun(@)]
                 /\ UNCHANGED <<last, faults, single, app, srv, wants, bad, left>>
ShakeFails(c) == /\ At(c, "shake", "undo")
                 /\ gen' = [gen EXCEPT ![srv[c]] = Begun(@)]
                 /\ UNCHANGED <<last, faults, single, app, srv, wants, bad, left>>
Undone(c) == /\ At(c, "undo", "wire")
             /\ gen[srv[c]].fin = "done"
             /\ Empties(c)
             /\ UNCHANGED <<gen, last, epoch, faults, app, srv, wants, left>>
\* Publication gives the epoch that the watcher of this generation gets.
Publishes(c) == /\ At(c, "shake", "wire")
                /\ cur' = srv[c] /\ epoch' = epoch + 1 /\ smu' = Free
                /\ gen' = [gen EXCEPT ![srv[c]].born = epoch + 1, ![srv[c]].watch = "waiting"]
                /\ UNCHANGED <<last, faults, app, srv, wants, bad, left>>

\* A generation that is published is polled and has its handlers from here on, whatever
\* RunOwnedHandshake returned; the latch is lifted only if it returned no error.
Wires_IfNoError(c) == /\ smu = Free
                      /\ gen' = IF cur = 0 \/ bad[c] THEN gen ELSE [gen EXCEPT ![cur].hooked = TRUE]
                      /\ wireGen' = IF cur = 0 \/ bad[c] THEN wireGen ELSE cur
                      /\ \/ (bad[c] \/ cur = 0) /\ Leaves(c, "wire") /\ mu' = Free
                         \/ ~bad[c] /\ cur # 0 /\ At(c, "wire", "clear") /\ UNCHANGED <<mu, srv, wants, bad, left>>
                      /\ UNCHANGED <<last, faults, single, latch, phase, live>>
Wires(c) == /\ smu = Free
            /\ gen' = IF cur = 0 THEN gen ELSE [gen EXCEPT ![cur].hooked = TRUE]
            /\ wireGen' = IF cur = 0 THEN wireGen ELSE cur
            /\ \/ (bad[c] \/ cur = 0) /\ Leaves(c, "wire") /\ mu' = Free
               \/ ~bad[c] /\ cur # 0 /\ At(c, "wire", "clear") /\ UNCHANGED <<mu, srv, wants, bad, left>>
            /\ UNCHANGED <<last, faults, single, latch, phase, live>>
\* ensureAppServer then returns what the Single holds by now.
Clears(c) == /\ latch' = 0 /\ mu' = Free /\ smu = Free
             /\ \/ (wants[c] = "new" \/ cur = 0) /\ Leaves(c, "clear")
                \/ /\ wants[c] = "server" /\ cur # 0 /\ At(c, "clear", "serve")
                   /\ srv' = [srv EXCEPT ![c] = cur] /\ UNCHANGED <<wants, bad, left>>
             /\ UNCHANGED <<gen, last, faults, single, wireGen, phase, live>>

(***************************************************************************)
(* What the callers do with the server, outside both locks.                *)
(***************************************************************************)
\* startCodexHost: the thread is made on the connection, then the host is published; a turn
\* that cannot be started takes it back.
HostMade(c) == /\ c \in Starters /\ At(c, "serve", "turn")
               /\ ~gen[srv[c]].eof
               /\ live' = [live EXCEPT ![c] = srv[c]]
               /\ UNCHANGED <<gen, last, faults, single, mu, wireGen, latch, phase, srv, wants, bad, left>>
NoThread(c) == /\ c \in Starters /\ Leaves(c, "serve")
               /\ UNCHANGED <<gen, last, faults, single, app>>
TurnStarted(c) == /\ Leaves(c, "turn") /\ ~gen[srv[c]].eof
                  /\ UNCHANGED <<gen, last, faults, single, app>>
TurnFails(c) == /\ Leaves(c, "turn")
                /\ live' = [live EXCEPT ![c] = 0]
                /\ UNCHANGED <<gen, last, faults, single, mu, wireGen, latch, phase>>
Ends(c) == /\ c \in Starters /\ phase = "up" /\ pc[c] = "idle" /\ live[c] # 0
           /\ live' = [live EXCEPT ![c] = 0]
           /\ UNCHANGED <<gen, last, faults, single, mu, wireGen, latch, phase, mine>>

\* account/read: the request is recorded like a frame that arrives, then the call ends.  On a
\* connection whose read loop has ended it may fail before that.
Calls(c) == /\ c \in Keepers /\ pc[c] = "serve"
            /\ \/ (gen[srv[c]].sink # "on" \/ gen[srv[c]].eof) /\ Leaves(c, "serve")
               \/ gen[srv[c]].sink = "on" /\ At(c, "serve", "line") /\ UNCHANGED <<srv, wants, bad, left>>
            /\ UNCHANGED <<gen, last, faults, single, app>>
CallLines(c) == /\ Leaves(c, "line")
                /\ \E ok \in IF gen[srv[c]].fin = "done" THEN {FALSE} ELSE BOOLEAN :
                     /\ Wrote(srv[c], ok)
                     /\ gen' = [gen EXCEPT ![srv[c]].werr = @ \/ ~ok]
                /\ UNCHANGED <<last, single, app>>

(***************************************************************************)
(* The shutdown: new transactions are refused, those begun are waited for, *)
(* the hosts are torn down, then the generation is taken and finalized.    *)
(***************************************************************************)
ShutdownBegins == /\ phase = "up" /\ phase' = "waiting"
                  /\ UNCHANGED <<gen, last, faults, single, mu, wireGen, latch, live, mine>>
ShutdownTakes == /\ phase = "waiting" /\ \A c \in Callers : pc[c] = "idle"
                 /\ smu = Free
                 /\ live' = [s \in Starters |-> 0]
                 /\ cur' = 0
                 /\ gen' = IF cur = 0 THEN gen ELSE [gen EXCEPT ![cur] = Begun(@)]
                 /\ phase' = "off"
                 /\ UNCHANGED <<last, epoch, smu, faults, mu, wireGen, latch, mine>>
ShutDown == phase = "off" /\ UNCHANGED vars

CallerSteps(c) == \/ GatePolls(c) \/ GateRefuses(c) \/ GatePasses(c) \/ UsesLiving(c) \/ BuildsNone(c) \/ Builds(c)
                  \/ Refused(c) \/ Replaces(c) \/ OldDone(c) \/ NewGeneration(c) \/ NoFile(c)
                  \/ Spawns(c) \/ SpawnFails(c) \/ Attaches(c) \/ ShakeFails(c) \/ Undone(c) \/ Publishes(c)
                  \/ Wires(c) \/ Clears(c) \/ HostMade(c) \/ NoThread(c)
                  \/ TurnStarted(c) \/ TurnFails(c) \/ Calls(c) \/ CallLines(c)
FinSteps(g) == FinDetached(g) \/ FinClosed(g)
ReaderSteps(g) == Reads(g) \/ Lines(g) \/ HandlerPolls(g) \/ HandlerLatches(g) \/ ReadsEof(g)
WatcherSteps(g) == WatchTakes(g) \/ WatchBegins(g) \/ WatchTells(g)

Init == /\ gen = [g \in Gens |-> NoGeneration] /\ last = 0
        /\ cur = 0 /\ epoch = 0 /\ smu = Free /\ mu = Free
        /\ wireGen = 0 /\ latch = 0 /\ phase = "up"
        /\ pc = [c \in Callers |-> "idle"] /\ srv = [c \in Callers |-> 0]
        /\ wants = [c \in Callers |-> "server"] /\ bad = [c \in Callers |-> FALSE]
        /\ live = [s \in Starters |-> 0] /\ left = MaxOps
        /\ faults = MaxBadWrites

Next == \/ \E g \in Gens : Says(g) \/ Exits(g) \/ FinSteps(g) \/ ReaderSteps(g) \/ WatcherSteps(g)
        \/ \E c \in Callers : StartEnters(c) \/ KeeperEnters(c) \/ Ends(c) \/ CallerSteps(c)
        \/ ShutdownBegins \/ ShutdownTakes \/ ShutDown

Spec == Init /\ [][Next]_vars

(***************************************************************************)
(* Properties                                                              *)
(***************************************************************************)
\* A generation that nobody has begun to finalize is the one published, with its watcher, or
\* has died and its watcher is about to, or is still being built under the lock.  So no
\* app-server runs on that nothing would ever end, and no log stays without its meta file:
\* not the new server that a stale watcher takes for its own, not the old one after a
\* replacement that reported an error, and not the log of a server that never started.
EveryGenerationHasOwner == \A g \in 1..last : gen[g].fin = "no" =>
    \/ gen[g].watch = "waiting" /\ cur = g
    \/ gen[g].watch = "taken"
    \/ \E c \in Callers : pc[c] \in {"spawn", "attach", "shake"} /\ srv[c] = g

\* Of a finalized generation the log is whole: every frame the server wrote was handed to the
\* recorder, down to those still in the pipe when it died, and the meta file tells of a write
\* error if there was one (no write comes after it).  Excepted are a drain that timed out, a
\* read loop that ended on an error, of which the log says nothing, and frames read before
\* the recorder was attached, which are dropped without a word (rpc.go:165).
LogIsWhole == \A g \in Gens : gen[g].fin = "done" =>
    /\ gen[g].kept = gen[g].said \/ gen[g].late \/ gen[g].cut \/ gen[g].early
    /\ gen[g].werr <=> gen[g].meta = "error"

\* Outside a replacement, the recorder that is polled for errors is that of the server in
\* use, also after a replacement that reported an error: its failures cannot go unseen.
MonitorFollows == mu = Free /\ cur # 0 => wireGen = cur /\ gen[cur].hooked

=============================================================================
