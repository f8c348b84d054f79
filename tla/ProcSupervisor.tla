--------------------------- MODULE ProcSupervisor ---------------------------
(***************************************************************************)
(* One supervised child process and its process group: internal/proc.      *)
(*                                                                         *)
(* The supervisor reaps the child, cleans up its group within a budget,    *)
(* waits for the end of stderr and publishes the Exit.  Callers and the    *)
(* watcher of a context may terminate the group meanwhile, a caller reads  *)
(* stdout, and the child and its descendants fork, exit and die.           *)
(*                                                                         *)
(* What holds p.mu is one step, with the kill in it.  The id of the group  *)
(* is taken not to be used anew while it is signalled.                     *)
(***************************************************************************)
EXTENDS Naturals, FiniteSets

CONSTANTS
    Kids,       \* descendants that the child and they themselves may fork
    Offsets,    \* probes of cleanupGroup before the final one (cleanupOffsets)
    MaxTerms,   \* bound: calls of Terminate by callers
    Detach      \* TRUE: a descendant may leave the group (setsid)

ASSUME ConstantsAssumption ==
    IsFiniteSet(Kids) /\ {Offsets, MaxTerms} \subseteq Nat /\ Detach \in BOOLEAN

VARIABLES
    \* of the operating system
    leader,     \* the child: run, zombie, reaped
    cause,      \* what it died of: exit, TERM, KILL, other
    hit,        \* signals sent to the group while the child ran
    kid,        \* of each descendant: unborn, new: being created, up, doomed: killed, out, gone
    holds,      \* descendants that inherited stdout and stderr
    \* Proc, under p.mu
    exited, canceled, termSent, killSent,
    exit,       \* Proc.exit: [ready, fatal, incomplete]
    forced, callerClosed,
    \* its goroutines
    sup,        \* the supervisor: [pc, i]
    watcher,    \* of the context: watch, decided: about to call Terminate, off
    escalations,\* timers of Terminate that have not passed
    outClosed, errClosed, \* this side's read ends
    rd,         \* the reader of stdout: read, woken by a close, eof, incomplete, closed
    closing,    \* stdoutReader.Close: no, flagged, done
    terms,
    sent        \* history: signals that a Terminate has sent to the group

os == <<leader, cause, hit, kid, holds>>
pipes == <<outClosed, errClosed, rd, closing, callerClosed>>
signals == <<termSent, killSent, escalations, sent>>
procVars == <<os, exited, canceled, exit, forced, sup, watcher, terms, signals, pipes>>

NotReady == [ready |-> FALSE, fatal |-> "none", incomplete |-> FALSE]

-----------------------------------------------------------------------------
(* The processes. *)

InGroup == {k \in Kids : kid[k] \in {"new", "up", "doomed"}}
Reachable == {k \in InGroup : kid[k] # "new"}
Open == leader = "run" \/ holds # {}            \* a write end of the pipes is open

(* A child or a descendant forks; the new process may close what it inherits,  *)
(* and is in the group, or outside of it, with the one that forked.            *)
Fork ==
    /\ \E k \in Kids, inherits \in BOOLEAN :
         /\ kid[k] = "unborn"
         /\ \/ leader = "run" /\ kid' = [kid EXCEPT ![k] = "new"]
            \/ \E j \in Kids : /\ kid[j] \in {"up", "out"} /\ (inherits => j \in holds)
                              /\ kid' = [kid EXCEPT ![k] = IF kid[j] = "up" THEN "new" ELSE "out"]
         /\ holds' = IF inherits THEN holds \cup {k} ELSE holds
    /\ UNCHANGED <<leader, cause, hit, exited, canceled, exit, forced, sup, watcher, terms, signals, pipes>>

(* A new process becomes visible to kill, a detaching one leaves the group,    *)
(* and any but a hung one ends sometime: one that was killed may hang.         *)
KidMoves ==
    /\ \E k \in Kids :
         \/ kid[k] = "new" /\ kid' = [kid EXCEPT ![k] = "up"] /\ UNCHANGED holds
         \/ kid[k] = "up" /\ Detach /\ kid' = [kid EXCEPT ![k] = "out"] /\ UNCHANGED holds
         \/ kid[k] \in {"up", "doomed", "out"} /\ kid' = [kid EXCEPT ![k] = "gone"] /\ holds' = holds \ {k}
    /\ UNCHANGED <<leader, cause, hit, exited, canceled, exit, forced, sup, watcher, terms, signals, pipes>>

(* The child exits, crashes, or dies of a signal: a TERM or a KILL may also    *)
(* come from itself.                                                           *)
LeaderDies ==
    /\ leader = "run" /\ leader' = "zombie"
    /\ cause' \in {"exit", "TERM", "KILL", "other"}
    /\ UNCHANGED <<hit, kid, holds, exited, canceled, exit, forced, sup, watcher, terms, signals, pipes>>

(* A child with a KILL on it does not go on for ever. *)
LeaderKilled ==
    /\ leader = "run" /\ "KILL" \in hit
    /\ leader' = "zombie" /\ cause' = "KILL"
    /\ UNCHANGED <<hit, kid, holds, exited, canceled, exit, forced, sup, watcher, terms, signals, pipes>>

(* kill(-pgid, sig).  A group of which only a zombie or processes in creation  *)
(* are left is told apart from none by some systems (nil) and not by others    *)
(* (EPERM, or another errno).                                                  *)
Outcomes ==
    IF leader = "run" \/ Reachable # {} THEN {"nil"}
    ELSE IF leader = "zombie" \/ InGroup # {} THEN {"nil", "EPERM"}
    ELSE {"ESRCH"}

Hits(sig) ==
    /\ hit' = IF leader = "run" THEN hit \cup {sig} ELSE hit
    /\ kid' = IF sig = "KILL" THEN [k \in Kids |-> IF k \in Reachable THEN "doomed" ELSE kid[k]] ELSE kid
    /\ UNCHANGED <<leader, cause, holds>>

-----------------------------------------------------------------------------
(* Terminate. *)

(* deviation: the signal is on record before it is known to have been sent *)
SendTerm_RecordsFirst ==
    /\ \E r \in Outcomes :
         IF r = "nil"
         THEN Hits("TERM") /\ escalations' = escalations + 1 /\ sent' = sent \cup {"TERM"}
         ELSE UNCHANGED <<os, escalations, sent>>
    /\ termSent' = TRUE /\ UNCHANGED killSent

(* TERM to the group and its record are one step, with a timer for the KILL;   *)
(* a group that cannot be reached gets neither.                                *)
SendTerm ==
    /\ \E r \in Outcomes :
         IF r = "nil"
         THEN Hits("TERM") /\ termSent' = TRUE /\ escalations' = escalations + 1 /\ sent' = sent \cup {"TERM"}
         ELSE UNCHANGED <<os, termSent, escalations, sent>>
    /\ UNCHANGED killSent

(* Terminate sends nothing once the end of the child is on record. *)
Terminate == IF exited THEN UNCHANGED <<os, signals>> ELSE SendTerm

CallerTerminates ==
    /\ terms < MaxTerms /\ terms' = terms + 1
    /\ Terminate
    /\ UNCHANGED <<exited, canceled, exit, forced, sup, watcher, pipes>>

(* deviation: the KILL is kept for processes whose context was cancelled *)
Escalate_IfCanceled ==
    /\ escalations > 0 /\ escalations' = escalations - 1
    /\ \E r \in Outcomes :
         IF ~exited /\ canceled /\ r = "nil"
         THEN Hits("KILL") /\ killSent' = TRUE /\ sent' = sent \cup {"KILL"}
         ELSE UNCHANGED <<os, killSent, sent>>
    /\ UNCHANGED <<exited, canceled, exit, forced, sup, watcher, terms, termSent, pipes>>

(* The grace is over: KILL to the group, unless the child's end is on record.  *)
Escalate ==
    /\ escalations > 0 /\ escalations' = escalations - 1
    /\ \E r \in Outcomes :
         IF ~exited /\ r = "nil"
         THEN Hits("KILL") /\ killSent' = TRUE /\ sent' = sent \cup {"KILL"}
         ELSE UNCHANGED <<os, killSent, sent>>
    /\ UNCHANGED <<exited, canceled, exit, forced, sup, watcher, terms, termSent, pipes>>

(* The context is cancelled: only if the end is not on record does it count,   *)
(* and only then is the group terminated.                                      *)
cancelRequested ==
    /\ watcher = "watch"
    /\ watcher' = IF exited THEN "off" ELSE "decided"
    /\ canceled' = (canceled \/ ~exited)
    /\ UNCHANGED <<os, exited, exit, forced, sup, terms, signals, pipes>>

WatcherTerminates ==
    /\ watcher = "decided" /\ watcher' = "off"
    /\ Terminate
    /\ UNCHANGED <<exited, canceled, exit, forced, sup, terms, pipes>>

WatcherLeaves ==
    /\ watcher = "watch" /\ exited /\ watcher' = "off"
    /\ UNCHANGED <<os, exited, canceled, exit, forced, sup, terms, signals, pipes>>

(* CanceledByContext once the exit is ready, and before. *)
CanceledByContext ==
    /\ canceled
    /\ exit.ready => \/ exit.fatal = "TERM" /\ termSent
                     \/ exit.fatal = "KILL" /\ killSent

-----------------------------------------------------------------------------
(* The supervisor. *)

SupAt(pc) == sup.pc = pc
Go(pc) == sup' = [sup EXCEPT !.pc = pc]
Supervises == <<canceled, watcher, terms, signals>>

(* cmd.Wait reaps the child, *)
Reap ==
    /\ SupAt("wait") /\ leader = "zombie" /\ leader' = "reaped" /\ Go("record")
    /\ UNCHANGED <<cause, hit, kid, holds, exited, exit, forced, Supervises, pipes>>

(* which is then put on record. *)
RecordExit ==
    /\ SupAt("record") /\ exited' = TRUE /\ Go("kill")
    /\ UNCHANGED <<os, exit, forced, Supervises, pipes>>

(* cleanupGroup: a first KILL, whatever it returns but that nobody is there,   *)
FirstKill ==
    /\ SupAt("kill")
    /\ \E r \in Outcomes : IF r = "ESRCH"
                           THEN Go("drain") /\ UNCHANGED os
                           ELSE (IF r = "nil" THEN Hits("KILL") ELSE UNCHANGED os)
                                /\ sup' = [pc |-> "probe", i |-> 0]
    /\ UNCHANGED <<exited, exit, forced, Supervises, pipes>>

(* then at each offset a probe, *)
Probe ==
    /\ SupAt("probe") /\ sup.i < Offsets
    /\ \E r \in Outcomes : sup' = [pc |-> CASE r = "ESRCH" -> "drain" [] r = "nil" -> "rekill" [] OTHER -> "probe",
                                   i |-> IF r = "EPERM" THEN sup.i + 1 ELSE sup.i]
    /\ UNCHANGED <<os, exited, exit, forced, Supervises, pipes>>

(* and a KILL if it found somebody; *)
Rekill ==
    /\ SupAt("rekill")
    /\ \E r \in Outcomes :
         /\ sup' = IF r = "ESRCH" THEN [sup EXCEPT !.pc = "drain"] ELSE [pc |-> "probe", i |-> sup.i + 1]
         /\ IF r = "nil" THEN Hits("KILL") ELSE UNCHANGED os
    /\ UNCHANGED <<exited, exit, forced, Supervises, pipes>>

(* deviation: the budget is over and nobody looks whether the group is gone *)
Confirm_Assumes ==
    /\ SupAt("probe") /\ sup.i = Offsets /\ Go("drain")
    /\ UNCHANGED <<os, exited, exit, forced, Supervises, pipes>>

(* last a probe that sends nothing: who is not gone by then stays. *)
Confirm ==
    /\ SupAt("probe") /\ sup.i = Offsets
    /\ \E r \in Outcomes : Go(IF r = "ESRCH" THEN "drain" ELSE "force")
    /\ UNCHANGED <<os, exited, exit, forced, Supervises, pipes>>

(* deviation: the reader may wake up before it can know why *)
ForceClose_Late ==
    /\ \/ SupAt("force") /\ Go("closeErr") /\ UNCHANGED <<forced, errClosed, outClosed>>
       \/ SupAt("closeErr") /\ Go("closeOut") /\ errClosed' = TRUE /\ UNCHANGED <<forced, outClosed>>
       \/ SupAt("closeOut") /\ Go("flag") /\ outClosed' = TRUE /\ UNCHANGED <<forced, errClosed>>
       \/ SupAt("flag") /\ Go("drain") /\ forced' = TRUE /\ UNCHANGED <<outClosed, errClosed>>
    /\ UNCHANGED <<os, exited, exit, rd, closing, callerClosed, Supervises>>

(* Giving up: first the flag, then both read ends. *)
ForceClose ==
    /\ \/ SupAt("force") /\ Go("closeErr") /\ forced' = TRUE /\ UNCHANGED <<errClosed, outClosed>>
       \/ SupAt("closeErr") /\ Go("closeOut") /\ errClosed' = TRUE /\ UNCHANGED <<forced, outClosed>>
       \/ SupAt("closeOut") /\ Go("drain") /\ outClosed' = TRUE /\ UNCHANGED <<forced, errClosed>>
    /\ UNCHANGED <<os, exited, exit, rd, closing, callerClosed, Supervises>>

(* wg.Wait: the reader of stderr has come to an end. *)
Drain ==
    /\ SupAt("drain") /\ (errClosed \/ ~Open) /\ Go("publish") /\ errClosed' = TRUE
    /\ UNCHANGED <<os, exited, exit, forced, outClosed, rd, closing, callerClosed, Supervises>>

Publish ==
    /\ SupAt("publish") /\ Go("done")
    /\ exit' = [ready |-> TRUE, fatal |-> cause, incomplete |-> forced]
    /\ UNCHANGED <<os, exited, forced, Supervises, pipes>>

-----------------------------------------------------------------------------
(* stdoutReader. *)

Elsewhere == <<os, exited, canceled, exit, forced, sup, watcher, terms, signals>>

ReadEnds ==
    /\ rd = "read"
    /\ \/ ~Open /\ ~outClosed /\ rd' = "eof"
       \/ outClosed /\ rd' = "woken"
    /\ UNCHANGED <<Elsewhere, outClosed, errClosed, closing, callerClosed>>

(* Read looks why it was woken. *)
ReadLooks ==
    /\ rd = "woken"
    /\ rd' = IF forced /\ ~callerClosed THEN "incomplete" ELSE "closed"
    /\ UNCHANGED <<Elsewhere, outClosed, errClosed, closing, callerClosed>>

(* Close says so first and closes then. *)
Close ==
    /\ \/ closing = "no" /\ closing' = "flagged" /\ callerClosed' = TRUE /\ UNCHANGED outClosed
       \/ closing = "flagged" /\ closing' = "done" /\ outClosed' = TRUE /\ UNCHANGED callerClosed
    /\ UNCHANGED <<Elsewhere, errClosed, rd>>

-----------------------------------------------------------------------------
ProcInit ==
    /\ leader = "run" /\ cause = "none" /\ hit = {} /\ kid = [k \in Kids |-> "unborn"] /\ holds = {}
    /\ exited = FALSE /\ canceled = FALSE /\ termSent = FALSE /\ killSent = FALSE
    /\ exit = NotReady /\ forced = FALSE /\ callerClosed = FALSE
    /\ sup = [pc |-> "wait", i |-> 0] /\ watcher = "watch" /\ escalations = 0
    /\ outClosed = FALSE /\ errClosed = FALSE /\ rd = "read" /\ closing = "no"
    /\ terms = 0 /\ sent = {}

Supervisor == Reap \/ RecordExit \/ FirstKill \/ Probe \/ Rekill \/ Confirm \/ ForceClose \/ Drain \/ Publish
Reader == ReadEnds \/ ReadLooks
ProcNext ==
    \/ Fork \/ KidMoves \/ LeaderDies \/ LeaderKilled
    \/ CallerTerminates \/ Escalate \/ cancelRequested \/ WatcherTerminates \/ WatcherLeaves
    \/ Supervisor \/ Reader \/ Close

ProcSpec == ProcInit /\ [][ProcNext]_procVars

(* The goroutines are scheduled and their timers pass, a killed child dies.    *)
(* A descendant may live on for ever, killed or not.                           *)
FairProcSpec ==
    /\ ProcSpec
    /\ WF_procVars(LeaderKilled) /\ WF_procVars(Escalate) /\ WF_procVars(WatcherTerminates)
    /\ WF_procVars(Supervisor) /\ WF_procVars(Reader)

-----------------------------------------------------------------------------
(* Of a process whose context was cancelled in time: if a signal of Terminate  *)
(* reached the child alive and it died of that signal, this is reported as a   *)
(* cancellation, and nothing is that did not die of a signal really sent.      *)
VerdictIsCause ==
    exit.ready /\ canceled =>
        /\ cause \in hit => CanceledByContext
        /\ CanceledByContext => cause \in sent

(* A process that is done and was not given up has left nothing in its group,  *)
(* not even what was forked between two signals.                               *)
DoneIsClean == exit.ready /\ ~exit.incomplete => InGroup = {}

(* A child that has ended, or that Terminate has reached, is reported and its  *)
(* reader released, though it ignores TERM or its descendants hang: Wait and   *)
(* Done are bounded (the comment on Proc).  And the reader is told: the end of *)
(* a stream that was cut off never looks like a Close of its own.              *)
DoneFollowsExit ==
    leader # "run" \/ termSent ~> exit.ready /\ (rd \in {"eof", "incomplete"} \/ callerClosed)
=============================================================================
