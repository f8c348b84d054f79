------------------------------ MODULE Journal ------------------------------
(***************************************************************************)
(* internal/journal/journal.go: the append-only JSONL log under the gate,  *)
(* escalation and evidence records, with its repair of a torn tail.        *)
(*                                                                         *)
(* A line is its number and the form it has in the file: whole, bare (all  *)
(* of the JSON, no newline) or part (a cut-off piece).  file is what a     *)
(* read would return now; device is every content that could be found      *)
(* after a crash now.  fsync makes the two agree; a write, or an open with *)
(* O_TRUNC, adds to device what it may leave behind half done.             *)
(*                                                                         *)
(* One process uses a journal, and Append holds its mutex from the write   *)
(* to the end of the fsync.                                                *)
(***************************************************************************)
EXTENDS Integers, Sequences, SequencesExt

CONSTANTS
  MaxAppends,     \* bound: calls of Append
  MaxCrashes      \* bound: crashes

ASSUME JournalAssumption == MaxAppends \in Nat /\ MaxCrashes \in Nat

VARIABLES
  pc,             \* "down", the steps of Open, "open", "written" (Append before fsync)
  file,           \* the content of the file
  device,         \* the contents a crash may leave
  lines,          \* Journal.lines
  degraded,       \* Journal.degraded
  next,           \* how often Append was called
  crashes,        \* history: how many crashes there were
  acked,          \* history: the lines whose Append returned nil
  interrupted     \* history: a crash or an I/O error has hit a repair's rewriting of the file

history == <<next, crashes, acked, interrupted>>
journalVars == <<pc, file, device, lines, degraded, history>>

Line(n, form) == [n |-> n, form |-> form]
Numbers(c) == [i \in DOMAIN c |-> c[i].n]
Whole(ns) == [i \in DOMAIN ns |-> Line(ns[i], "whole")]

(* parseLines: a line that is cut off before another one is not repairable;  *)
(* one at the very end is torn, even a bare one, whose JSON parses.          *)
Malformed(c) == \E i \in 1..(Len(c) - 1) : c[i].form # "whole"
Torn(c) == c # <<>> /\ Last(c).form # "whole"
Good(c) == IF Torn(c) THEN Front(c) ELSE c

(* What writing a line, or a list of lines, at the end of c may leave. *)
CutOff(c, n) == {Append(c, Line(n, form)) : form \in {"part", "bare"}}
Halfway(ns) ==
  {Whole(SubSeq(ns, 1, k)) : k \in 0..Len(ns)}
    \cup UNION {CutOff(Whole(SubSeq(ns, 1, k - 1)), ns[k]) : k \in DOMAIN ns}

JournalInit ==
  /\ pc = "down"
  /\ file = <<>> /\ device = {<<>>}
  /\ lines = <<>> /\ degraded = FALSE
  /\ next = 0 /\ crashes = 0 /\ acked = {} /\ interrupted = FALSE

-----------------------------------------------------------------------------
(* Open *)

(* deviation: a bare last line is taken for a good one because it parses *)
Load_BareIsGood ==
  /\ pc = "down" /\ ~Malformed(file)
  /\ lines' = Numbers(SelectSeq(file, LAMBDA l : l.form # "part"))
  /\ pc' = IF file # <<>> /\ Last(file).form = "part" THEN "torn" ELSE "open"
  /\ degraded' = FALSE
  /\ UNCHANGED <<file, device, history>>

(* Read and parse the file.  With a malformed line in the middle Open returns *)
(* an error and touches nothing, so the journal stays down for good.          *)
Load ==
  /\ pc = "down" /\ ~Malformed(file)
  /\ lines' = Numbers(Good(file))
  /\ pc' = IF Torn(file) THEN "torn" ELSE "open"
  /\ degraded' = FALSE
  /\ UNCHANGED <<file, device, history>>

(* The tail is copied to <path>.quarantine; that file is never read again.   *)
Quarantine ==
  /\ pc = "torn"
  /\ pc' \in {"quarantined", "down"}
  /\ UNCHANGED <<file, device, lines, degraded, history>>

(* truncateAndSync: open with O_TRUNC, write the good lines back, fsync. *)
Truncate ==
  /\ pc = "quarantined"
  /\ pc' = "truncated"
  /\ file' = <<>>
  /\ device' = device \cup {<<>>}
  /\ UNCHANGED <<lines, degraded, history>>

Rewrite ==
  /\ pc = "truncated"
  /\ device' = device \cup Halfway(lines)
  /\ \/ pc' = "rewritten" /\ file' = Whole(lines) /\ UNCHANGED interrupted
     \/ pc' = "down" /\ file' \in Halfway(lines) /\ interrupted' = TRUE
  /\ UNCHANGED <<lines, degraded, next, crashes, acked>>

SyncRepair ==
  /\ pc = "rewritten"
  /\ \/ pc' = "open" /\ device' = {file} /\ UNCHANGED interrupted
     \/ pc' = "down" /\ interrupted' = TRUE /\ UNCHANGED device
  /\ UNCHANGED <<file, lines, degraded, next, crashes, acked>>

-----------------------------------------------------------------------------
(* Append *)

(* deviation: the line counts as appended before it is on the device *)
Write_AcksEarly ==
  /\ pc = "open" /\ ~degraded /\ next < MaxAppends
  /\ next' = next + 1
  /\ pc' = "written"
  /\ file' = Append(file, Line(next', "whole"))
  /\ device' = device \cup {file'} \cup CutOff(file, next')
  /\ acked' = acked \cup {next'}
  /\ UNCHANGED <<lines, degraded, crashes, interrupted>>

Write ==
  /\ pc = "open" /\ ~degraded /\ next < MaxAppends
  /\ next' = next + 1
  /\ pc' = "written"
  /\ file' = Append(file, Line(next', "whole"))
  /\ device' = device \cup {file'} \cup CutOff(file, next')
  /\ UNCHANGED <<lines, degraded, crashes, acked, interrupted>>

(* A short or failed write: a piece of the line may be in the file. *)
WriteFails ==
  /\ pc = "open" /\ ~degraded /\ next < MaxAppends
  /\ next' = next + 1
  /\ file' \in {file} \cup CutOff(file, next')
  /\ device' = device \cup {file} \cup CutOff(file, next')
  /\ degraded' = TRUE
  /\ UNCHANGED <<pc, lines, crashes, acked, interrupted>>

(* The end of a successful Append: fsync, and only then the line counts. *)
Sync ==
  /\ pc = "written"
  /\ pc' = "open"
  /\ device' = {file}
  /\ lines' = Append(lines, next)
  /\ acked' = acked \cup {next}
  /\ UNCHANGED <<file, degraded, next, crashes, interrupted>>

SyncFails ==
  /\ pc = "written"
  /\ pc' = "open"
  /\ degraded' = TRUE
  /\ UNCHANGED <<file, device, lines, history>>

-----------------------------------------------------------------------------
Repairing == pc \in {"truncated", "rewritten"}

(* The process dies, and the next one finds what this one has written; or    *)
(* the machine does, and only what a crash leaves is there.                  *)
Crash ==
  /\ crashes < MaxCrashes
  /\ pc' = "down"
  /\ \/ UNCHANGED <<file, device>>
     \/ file' \in device /\ device' = {file'}
  /\ lines' = <<>>
  /\ degraded' = FALSE
  /\ crashes' = crashes + 1
  /\ interrupted' = (interrupted \/ Repairing)
  /\ UNCHANGED <<next, acked>>

JournalNext ==
  \/ Load \/ Quarantine \/ Truncate \/ Rewrite \/ SyncRepair
  \/ Write \/ WriteFails \/ Sync \/ SyncFails
  \/ Crash

JournalSpec == JournalInit /\ [][JournalNext]_journalVars

-----------------------------------------------------------------------------
LineRecord == [n : 1..MaxAppends, form : {"whole", "bare", "part"}]

(* Every variable has its type. *)
JournalTypeOK ==
  /\ pc \in {"down", "torn", "quarantined", "truncated", "rewritten", "open", "written"}
  /\ file \in Seq(LineRecord)
  /\ \A c \in device : c \in Seq(LineRecord)
  /\ lines \in Seq(1..MaxAppends)
  /\ degraded \in BOOLEAN
  /\ next \in 0..MaxAppends /\ crashes \in 0..MaxCrashes
  /\ acked \subseteq 1..MaxAppends
  /\ interrupted \in BOOLEAN

Listed(ns) ==
  /\ acked \subseteq ToSet(ns)
  /\ \A i, j \in DOMAIN ns : i < j => ns[i] < ns[j]
Kept(c) == Listed(Numbers(Good(c)))

(* A line whose Append returned nil is found again whatever crash comes,     *)
(* and the lines stand in the order in which they were appended, across any  *)
(* number of repairs: as long as no crash and no I/O error has hit the few   *)
(* steps in which Open rewrites the file.                                    *)
AckedOutlastRepairs == Repairing \/ interrupted \/ \A c \in device : Kept(c)

(* No failed or interrupted write ever leaves a file that Open must refuse.  *)
NeverRefused == \A c \in device \cup {file} : ~Malformed(c)

(* While a journal takes appends, its lines are those of the file, so what   *)
(* the projections read from memory is what a restart would read from disk.  *)
MemoryIsFile ==
  pc = "open" /\ ~degraded => ~Torn(file) /\ lines = Numbers(file)
=============================================================================
