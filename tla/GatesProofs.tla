----------------------------- MODULE GatesProofs -----------------------------
(***************************************************************************)
(* What holds of Gates for any versions, scopes and bounds: one approval   *)
(* in force per gate, none given under a blocker or over a specification   *)
(* known to be stale, and test contracts only over a plan in force.  At    *)
(* the end, what holds of the journals they are kept in (Journal).         *)
(***************************************************************************)
EXTENDS Gates, Journal, SequenceTheorems, TLAPS

Seen == [Parts -> Versions \cup {0}]

\* No gate of `es' has two approvals in force.
One(es) ==
  \A i, j \in DOMAIN es :
    es[i].gate = es[j].gate /\ es[i].state = "active" /\ es[j].state = "active" => i = j

\* A test contract rests on an earlier entry.
Linked(gate, up, es) == up \in 0..Len(es) /\ (gate = "tca" => up # 0)
AllLinked(es) == \A i \in DOMAIN es : Linked(es[i].gate, es[i].up, es)

Sane(es) == es \in Seq(Entry) /\ One(es) /\ AllLinked(es)

\* The entry under decision, and what its decision has established so far.
Chosen == entries[decide.i]
Deciding == decide.at # "idle" => decide.i \in DOMAIN entries /\ decide.verdict \in {"approved", "rejected"}
Linking == submit.at = "built" => submit.gate \in Gates /\ Linked(submit.gate, submit.up, entries)
Reminded == decide.at # "idle" => \A g \in Lapsed(entries) : StaleItem(g) \in inbox \/ g = Chosen.gate
Unblocked == decide.at = "commit" => Blocking(Chosen.gate) = {}
Rested ==
  decide.at \in {"resolve", "check", "commit"} /\ decide.verdict = "approved" =>
    Rests(Chosen, States) /\ EvidenceFits(Chosen)

Inv == /\ TypeOK /\ Sane(entries) /\ Sane(found)
       /\ Deciding /\ Linking /\ Reminded /\ Unblocked /\ Rested

-----------------------------------------------------------------------------
LEMMA EmptyGood == Sane(<<>>)
BY DEF Sane, One, AllLinked

\* An entry whose state alone changes.
LEMMA EntryState ==
  ASSUME NEW e \in Entry, NEW s \in {"pending", "active", "stale", "superseded", "rejected"},
         NEW f, f = [e EXCEPT !.state = s]
  PROVE  /\ f \in Entry /\ f.state = s /\ f.gate = e.gate
         /\ f.up = e.up /\ f.base = e.base /\ f.seen = e.seen
BY DEF Entry

\* `fs' is `es' with some approvals taken out of force.
Ages(es, fs) ==
  /\ DOMAIN fs = DOMAIN es /\ Len(fs) = Len(es)
  /\ \A i \in DOMAIN es :
       /\ fs[i].gate = es[i].gate /\ fs[i].up = es[i].up
       /\ fs[i].base = es[i].base /\ fs[i].seen = es[i].seen
       /\ fs[i].state = es[i].state \/ (es[i].state = "active" /\ fs[i].state = "stale")

LEMMA MarkedGood ==
  ASSUME Sane(entries), NEW n
  PROVE  Sane(Marked(n)) /\ Ages(entries, Marked(n))
<1> DEFINE es == Marked(n)
<1>1. entries \in Seq(Entry) /\ Len(entries) \in Nat /\ DOMAIN entries = 1..Len(entries)
  BY DEF Sane
<1>2. \A i \in DOMAIN entries :
        /\ es[i] \in Entry
        /\ es[i].gate = entries[i].gate /\ es[i].up = entries[i].up
        /\ es[i].base = entries[i].base /\ es[i].seen = entries[i].seen
        /\ es[i].state = entries[i].state \/ (entries[i].state = "active" /\ es[i].state = "stale")
  <2> SUFFICES ASSUME NEW i \in DOMAIN entries
               PROVE  /\ es[i] \in Entry
                      /\ es[i].gate = entries[i].gate /\ es[i].up = entries[i].up
                      /\ es[i].base = entries[i].base /\ es[i].seen = entries[i].seen
                      /\ es[i].state = entries[i].state \/ (entries[i].state = "active" /\ es[i].state = "stale")
    OBVIOUS
  <2>1. entries[i] \in Entry
    BY <1>1
  <2>2. CASE i <= n /\ Decays(i)
    <3>1. es[i] = [entries[i] EXCEPT !.state = "stale"] /\ entries[i].state = "active"
      BY <2>2 DEF Marked, Decays
    <3> QED
      BY <2>1, <3>1, EntryState
  <2>3. CASE ~(i <= n /\ Decays(i))
    <3>1. es[i] = entries[i]
      BY <2>3 DEF Marked
    <3> QED
      BY <2>1, <3>1
  <2> QED
    BY <2>2, <2>3
<1>3. es \in Seq(Entry) /\ DOMAIN es = DOMAIN entries /\ Len(es) = Len(entries)
  <2>1. es \in [1..Len(entries) -> Entry]
    BY <1>1, <1>2 DEF Marked
  <2> QED
    BY <1>1, <2>1
<1> HIDE DEF es
<1>4. Ages(entries, es)
  BY <1>2, <1>3 DEF Ages
<1>5. Sane(es)
  BY <1>2, <1>3 DEF Sane, One, AllLinked, Linked
<1> QED
  BY <1>4, <1>5 DEF es

LEMMA DecidedGood ==
  ASSUME Sane(entries), NEW d \in DOMAIN entries, entries[d].state = "pending"
  PROVE  /\ Sane(Decided(d)) /\ DOMAIN Decided(d) = DOMAIN entries /\ Len(Decided(d)) = Len(entries)
         /\ \A i \in DOMAIN entries : Decided(d)[i].gate = entries[i].gate
         /\ \A i \in DOMAIN entries : entries[i].state = "pending" /\ Decided(d)[i].state = "active"
                                        => i = d /\ decide.verdict # "rejected"
<1> DEFINE es == Decided(d)
<1>1. entries \in Seq(Entry) /\ Len(entries) \in Nat /\ DOMAIN entries = 1..Len(entries)
  BY DEF Sane
<1>2. \A i \in DOMAIN entries : /\ es[i] \in Entry /\ es[i].gate = entries[i].gate /\ es[i].up = entries[i].up
                                /\ es[i].state = "active" =>
                                     \/ entries[i].state = "active" /\ (entries[i].gate # entries[d].gate \/ es[d].state # "active")
                                     \/ i = d /\ decide.verdict # "rejected"
  <2> SUFFICES ASSUME NEW i \in DOMAIN entries
               PROVE  /\ es[i] \in Entry /\ es[i].gate = entries[i].gate /\ es[i].up = entries[i].up
                      /\ es[i].state = "active" =>
                           \/ entries[i].state = "active" /\ (entries[i].gate # entries[d].gate \/ es[d].state # "active")
                           \/ i = d /\ decide.verdict # "rejected"
    OBVIOUS
  <2>1. entries[i] \in Entry /\ entries[d] \in Entry
    BY <1>1
  <2>2. CASE decide.verdict = "rejected"
    <3>1. es = [entries EXCEPT ![d] = [entries[d] EXCEPT !.state = "rejected"]]
      BY <2>2 DEF Decided
    <3>2. es[d] = [entries[d] EXCEPT !.state = "rejected"] /\ (i # d => es[i] = entries[i])
      BY <1>1, <3>1
    <3> HIDE DEF es
    <3> QED
      BY <2>1, <3>2, EntryState
  <2>3. CASE decide.verdict # "rejected"
    <3>1. CASE i = d
      <4>1. es[i] = [entries[i] EXCEPT !.state = "active"]
        BY <2>3, <3>1 DEF Decided
      <4> HIDE DEF es
      <4> QED
        BY <2>1, <2>3, <3>1, <4>1, EntryState
    <3>2. CASE i # d /\ entries[i].gate = entries[d].gate /\ entries[i].state = "active"
      <4>1. es[i] = [entries[i] EXCEPT !.state = "superseded"]
        BY <2>3, <3>2 DEF Decided
      <4> HIDE DEF es
      <4> QED
        BY <2>1, <3>2, <4>1, EntryState
    <3>3. CASE i # d /\ ~(entries[i].gate = entries[d].gate /\ entries[i].state = "active")
      <4>1. es[i] = entries[i]
        BY <2>3, <3>3 DEF Decided
      <4> HIDE DEF es
      <4> QED
        BY <2>1, <3>3, <4>1
    <3> QED
      BY <3>1, <3>2, <3>3
  <2> QED
    BY <2>2, <2>3
<1>3. es \in Seq(Entry) /\ DOMAIN es = DOMAIN entries /\ Len(es) = Len(entries)
  <2>1. DOMAIN es = DOMAIN entries /\ es = [i \in DOMAIN entries |-> es[i]]
    BY <1>1 DEF Decided
  <2>2. es \in [1..Len(entries) -> Entry]
    BY <1>1, <1>2, <2>1
  <2> QED
    BY <1>1, <2>2
<1> HIDE DEF es
<1>4. Sane(es)
  BY <1>2, <1>3 DEF Sane, One, AllLinked, Linked
<1>5. \A i \in DOMAIN entries : entries[i].state = "pending" /\ es[i].state = "active"
                                  => i = d /\ decide.verdict # "rejected"
  BY <1>2
<1> QED
  BY <1>2, <1>3, <1>4, <1>5 DEF es

LEMMA AppendGood ==
  ASSUME Sane(entries), NEW e \in Entry, e.state = "pending", Linked(e.gate, e.up, entries)
  PROVE  /\ Sane(Append(entries, e)) /\ Len(Append(entries, e)) = Len(entries) + 1
         /\ \A i \in DOMAIN entries : Append(entries, e)[i] = entries[i]
<1>1. entries \in Seq(Entry) /\ Len(entries) \in Nat /\ DOMAIN entries = 1..Len(entries)
  BY DEF Sane
<1> DEFINE es == Append(entries, e)
<1>2. /\ es \in Seq(Entry) /\ Len(es) = Len(entries) + 1 /\ DOMAIN es = 1..(Len(entries) + 1)
      /\ es[Len(entries) + 1] = e /\ \A i \in DOMAIN entries : es[i] = entries[i]
  BY <1>1
<1> HIDE DEF es
<1>3. \A i \in DOMAIN es : i \in DOMAIN entries \/ (es[i] = e /\ i = Len(entries) + 1)
  <2>1. \A i \in 1..(Len(entries) + 1) : i \in 1..Len(entries) \/ i = Len(entries) + 1
    BY <1>1
  <2> QED
    BY <1>1, <1>2, <2>1
<1>4. One(es)
  BY <1>2, <1>3 DEF Sane, One
<1>5. AllLinked(es)
  BY <1>1, <1>2, <1>3 DEF Sane, AllLinked, Linked
<1> QED
  BY <1>2, <1>4, <1>5 DEF es, Sane

-----------------------------------------------------------------------------
LEMMA GateAppendKeeps ==
  ASSUME Inv, NEW new, Sane(new), NEW ok \in BOOLEAN, GateAppend(new, ok)
  PROVE  Sane(entries') /\ Sane(found') /\ gateDown' \in BOOLEAN /\ entries' \in {entries, new}
BY DEF Inv, TypeOK, JournalOK, GateAppend

LEMMA InboxAppendKeeps ==
  ASSUME Inv, NEW new, new \subseteq Conditions, NEW ok \in BOOLEAN, InboxAppend(new, ok)
  PROVE  InboxOK' /\ (ok => inbox' = new)
<1>1. inbox \subseteq Conditions /\ foundInbox \subseteq Conditions /\ escDown \in BOOLEAN
  BY DEF Inv, TypeOK, InboxOK
<1>2. CASE ok
  BY <1>1, <1>2 DEF InboxAppend, InboxOK
<1>3. CASE ~ok
  <2>1. \A C : C \subseteq Lines(new) => Partly(C) \subseteq Conditions
    BY <1>1 DEF Lines, Partly
  <2>2. inbox' \subseteq Conditions /\ foundInbox' \subseteq Conditions /\ escDown' \in BOOLEAN
    BY <1>1, <1>3, <2>1 DEF InboxAppend, inboxVars
  <2> QED
    BY <1>3, <2>2 DEF InboxOK
<1> QED
  BY <1>2, <1>3

LEMMA MarkKeeps ==
  ASSUME Inv, Pass \/ PassStops
  PROVE  /\ Sane(entries') /\ Sane(found') /\ gateDown' \in BOOLEAN /\ Ages(entries, entries')
BY MarkedGood DEF Inv, TypeOK, JournalOK, Pass, PassStops

LEMMA WantedOK ==
  ASSUME Inv, NEW es
  PROVE  Wanted(es) \subseteq Conditions /\ \A g \in Lapsed(es) : StaleItem(g) \in Wanted(es)
BY DEF Inv, TypeOK, InboxOK, Wanted, Degradation, Lapsed, Conditions, SystemConditions

LEMMA ReconcileKeeps ==
  ASSUME Inv, NEW ok \in BOOLEAN, ReconcileLocked(ok)
  PROVE  /\ Sane(entries') /\ Sane(found') /\ gateDown' \in BOOLEAN /\ Ages(entries, entries')
         /\ InboxOK'
         /\ ok => \A g \in Lapsed(entries') : StaleItem(g) \in inbox'
<1>1. CASE PassStops /\ ~ok /\ UNCHANGED inboxVars
  BY <1>1, MarkKeeps DEF Inv, TypeOK, InboxOK, inboxVars
<1>2. CASE /\ entries' = Marked(Len(entries)) /\ UNCHANGED <<gateDown, found>>
           /\ InboxAppend(Wanted(Marked(Len(entries))), ok)
  <2>1. Sane(entries') /\ Ages(entries, entries')
    BY <1>2, MarkedGood DEF Inv
  <2>2. Sane(found') /\ gateDown' \in BOOLEAN
    BY <1>2 DEF Inv, TypeOK, JournalOK
  <2>3. InboxOK' /\ (ok => inbox' = Wanted(entries'))
    BY <1>2, WantedOK, InboxAppendKeeps
  <2> QED
    BY <2>1, <2>2, <2>3, WantedOK
<1> QED
  BY <1>1, <1>2 DEF ReconcileLocked

-----------------------------------------------------------------------------
\* The types of the flows, the files and the counters.
LEMMA FlowsStep == ASSUME Inv, Next PROVE FlowsOK'
<1> DEFINE D == [i : Nat, verdict : {"", "approved", "rejected"},
                 at : {"idle", "prepare", "resolve", "check", "commit"}]
           S == [gate : Gates \cup {""}, seen : Seen, up : Nat, base : Versions \cup {0},
                 at : {"idle", "built", "sent"}]
           R == [base : Versions \cup {0}, passed : BOOLEAN, at : {"idle", "running", "finished"}]
<1>1. /\ decide \in D /\ submit \in S /\ run \in R
      /\ DOMAIN entries \subseteq Nat /\ \A i \in DOMAIN entries : entries[i] \in Entry
  <2>1. entries \in Seq(Entry)
    BY DEF Inv, TypeOK, JournalOK
  <2>2. DOMAIN entries \subseteq Nat /\ \A i \in DOMAIN entries : entries[i] \in Entry
    BY <2>1
  <2>3. decide \in D /\ submit \in S /\ run \in R
    BY DEF Inv, TypeOK, FlowsOK, Seen
  <2> QED
    BY <2>2, <2>3
<1>2. Undecided \in D /\ NoRun \in R
  BY DEF Undecided, NoRun
<1>3. NoSubmission \in S
  BY DEF NoSubmission, Seen, Unbound
<1>4. \A at \in {"idle", "prepare", "resolve", "check", "commit"} : [decide EXCEPT !.at = at] \in D
  BY <1>1
<1>5. decide' \in D
  <2>1. \A i \in DOMAIN entries, v \in {"approved", "rejected"} : [i |-> i, verdict |-> v, at |-> "prepare"] \in D
    BY <1>1
  <2> HIDE DEF D
  <2> QED
    BY <1>1, <1>2, <1>4, <2>1
       DEF Next, Edit, Watch, Decide, Prepare, Resolve, Check, Commit, Build, Refuse, Submit, Sent, RunStart,
           RunRefused, RunFinish, RunWire, CreateManual, ResolveManually, Planner, InboxStep, Restart, flows,
           Goto, Return
<1>6. submit' \in S
  <2>1. CASE Build
    <3>1. tree \in [Parts -> Versions] /\ \A r \in evidence : r.oracle \in Versions /\ r.plan \in Versions \cup {0}
      BY DEF Inv, TypeOK, FilesOK
    <3>2. \A i \in DOMAIN entries : entries[i].seen \in Seen
      BY <1>1 DEF Entry, Seen
    <3>3. \A g \in Gates, s \in Seen, u \in Nat, b \in Versions \cup {0} : Building(g, s, u, b) => submit' \in S
      <4> SUFFICES ASSUME NEW g \in Gates, NEW s \in Seen, NEW u \in Nat, NEW b \in Versions \cup {0},
                          Building(g, s, u, b)
                   PROVE  submit' \in S
        OBVIOUS
      <4>1. submit' = [gate |-> g, seen |-> s, up |-> u, base |-> b, at |-> "built"]
        BY DEF Building
      <4> QED
        BY <4>1
    <3>4. Unbound \in Seen /\ \A v \in Versions \cup {0}, p \in Parts, s \in Seen : [s EXCEPT ![p] = v] \in Seen
      BY DEF Unbound, Seen
    <3>5. CASE BuildGate1
      <4>1. [Unbound EXCEPT !["spec"] = tree["spec"]] \in Seen
        BY <3>1, <3>4 DEF Parts
      <4> QED
        BY <3>3, <3>5, <4>1 DEF BuildGate1, Gates
    <3>6. CASE BuildGate2
      <4>1. PICK i \in DOMAIN entries :
              Building("gate2", [Unbound EXCEPT !["spec"] = entries[i].seen["spec"], !["plan"] = tree["plan"]], 0, 0)
        BY <3>6 DEF BuildGate2, ShownActive
      <4>2. entries[i].seen["spec"] \in Versions \cup {0}
        BY <3>2 DEF Seen, Parts
      <4>3. [Unbound EXCEPT !["spec"] = entries[i].seen["spec"], !["plan"] = tree["plan"]] \in Seen
        BY <3>1, <4>2 DEF Parts, Seen, Unbound
      <4> HIDE DEF S
      <4> QED
        BY <3>3, <4>1, <4>3 DEF Gates
    <3>7. CASE BuildTCA
      <4>1. PICK i \in DOMAIN entries, r \in evidence :
              Building("tca", [Unbound EXCEPT !["oracle"] = r.oracle], i, r.plan)
        BY <3>7 DEF BuildTCA, ShownActive
      <4>2. [Unbound EXCEPT !["oracle"] = r.oracle] \in Seen
        BY <3>1, <3>4 DEF Parts
      <4> HIDE DEF S
      <4> QED
        BY <1>1, <3>1, <3>3, <4>1, <4>2 DEF Gates
    <3> QED
      BY <2>1, <3>5, <3>6, <3>7 DEF Build
  <2>2. CASE ~Build
    <3>1. [submit EXCEPT !.at = "sent"] \in S
      BY <1>1
    <3> HIDE DEF S
    <3> QED
      BY <1>1, <1>3, <2>2, <3>1
         DEF Next, Edit, Watch, Decide, Prepare, Resolve, Check, Commit, Refuse, Submit, Sent, RunStart,
             RunRefused, RunFinish, RunWire, CreateManual, ResolveManually, Planner, InboxStep, Restart, flows
  <2> QED
    BY <2>1, <2>2
<1>7. run' \in R
  <2>1. CASE RunStart
    <3>1. PICK i \in DOMAIN Marked(Len(entries)) :
            run' = [base |-> entries[i].seen["plan"], passed |-> FALSE, at |-> "running"]
      BY <2>1 DEF RunStart, ActiveIn
    <3>2. entries[i] \in Entry
      BY <1>1, <3>1 DEF Marked
    <3>3. entries[i].seen["plan"] \in Versions \cup {0}
      BY <3>2 DEF Entry, Parts
    <3> QED
      BY <3>1, <3>3
  <2>2. CASE RunFinish
    BY <1>1, <2>2 DEF RunFinish
  <2>3. CASE ~RunStart /\ ~RunFinish
    <3> HIDE DEF R
    <3> QED
      BY <1>1, <1>2, <2>3
         DEF Next, Edit, Watch, Decide, Prepare, Resolve, Check, Commit, Build, Refuse, Submit, Sent,
             RunRefused, RunWire, CreateManual, ResolveManually, Planner, InboxStep, Restart, flows
  <2> QED
    BY <2>1, <2>2, <2>3
<1> QED
  BY <1>5, <1>6, <1>7 DEF FlowsOK, Seen

LEMMA FilesStep == ASSUME Inv, Next PROVE FilesOK'
<1>1. /\ tree \in [Parts -> Versions] /\ evidence \subseteq [plan : Versions \cup {0}, oracle : Versions]
      /\ run.base \in Versions \cup {0}
  BY DEF Inv, TypeOK, FilesOK, FlowsOK
<1>2. CASE \E p \in Parts : Edit(p)
  BY <1>1, <1>2 DEF Edit, FilesOK
<1>3. CASE RunFinish
  <2>1. [plan |-> run.base, oracle |-> tree["oracle"]] \in [plan : Versions \cup {0}, oracle : Versions]
    BY <1>1 DEF Parts
  <2> QED
    BY <1>1, <1>3, <2>1 DEF RunFinish, FilesOK
<1>4. CASE ~RunFinish /\ ~\E p \in Parts : Edit(p)
  <2>1. UNCHANGED <<tree, evidence>>
    BY <1>4
       DEF Next, Watch, Decide, Prepare, Resolve, Check, Commit, Build, Refuse, Submit, Sent, RunStart,
           RunRefused, RunWire, CreateManual, ResolveManually, Planner, InboxStep, Restart
  <2> QED
    BY <1>1, <2>1 DEF FilesOK
<1> QED
  BY <1>2, <1>3, <1>4

LEMMA CountsStep == ASSUME Inv, Next PROVE CountsOK'
<1>1. edits \in Nat /\ faults \in Nat /\ restarts \in Nat
  BY DEF Inv, TypeOK, CountsOK
<1>2. edits' \in {edits, edits + 1}
  BY DEF Next, Edit, Watch, Decide, Prepare, Resolve, Check, Commit, Build, Refuse, Submit, Sent, RunStart,
         RunRefused, RunFinish, RunWire, CreateManual, ResolveManually, Planner, InboxStep, Restart, counts
<1>3. restarts' \in {restarts, restarts + 1}
  BY DEF Next, Edit, Watch, Decide, Prepare, Resolve, Check, Commit, Build, Refuse, Submit, Sent, RunStart,
         RunRefused, RunFinish, RunWire, CreateManual, ResolveManually, Planner, InboxStep, Restart, counts
<1>4. \A new, ok : GateAppend(new, ok) \/ InboxAppend(new, ok) => faults' \in {faults, faults + 1}
  BY DEF GateAppend, InboxAppend
<1>5. Pass \/ PassStops => faults' \in {faults, faults + 1}
  BY DEF Pass, PassStops
<1>6. \A ok : ReconcileLocked(ok) => faults' \in {faults, faults + 1}
  BY <1>4, <1>5 DEF ReconcileLocked
<1>7. faults' \in {faults, faults + 1}
  BY <1>4, <1>5, <1>6
     DEF Next, Edit, Watch, Decide, Prepare, Resolve, Check, Commit, Build, Refuse, Submit, Sent, RunStart,
         RunRefused, RunFinish, RunWire, CreateManual, ResolveManually, Planner, InboxStep, Restart, counts
<1> QED
  BY <1>1, <1>2, <1>3, <1>7 DEF CountsOK

-----------------------------------------------------------------------------
\* What the steps of others leave alone: a decision, and a submission.
Decision == Deciding /\ Reminded /\ Unblocked /\ Rested

LEMMA IdleDecision == ASSUME decide'.at = "idle" PROVE Decision'
BY DEF Decision, Deciding, Reminded, Unblocked, Rested

LEMMA SameDecision == ASSUME Inv, UNCHANGED <<entries, inbox, decide>> PROVE Decision'
BY DEF Inv, Decision, Deciding, Reminded, Unblocked, Rested, Chosen, Blocking, Lapsed, Rests, EvidenceFits, States

LEMMA Lengths ==
  Inv => /\ Len(entries) \in Nat /\ DOMAIN entries = 1..Len(entries)
         /\ \A i \in DOMAIN entries : entries[i] \in Entry
BY DEF Inv, Sane

LEMMA SameSubmission ==
  ASSUME Inv, submit' = submit, Len(entries') \in Nat, Len(entries') >= Len(entries)
  PROVE  Linking'
BY Lengths DEF Inv, Linking, Linked

LEMMA NoLinking == ASSUME submit'.at # "built" PROVE Linking'
BY DEF Linking

LEMMA InvFrom ==
  ASSUME Inv, Next, Sane(entries'), Sane(found'), gateDown' \in BOOLEAN, InboxOK', Decision', Linking'
  PROVE  Inv'
BY FlowsStep, FilesStep, CountsStep DEF Inv, TypeOK, JournalOK, Sane, Decision

LEMMA SameJournal ==
  ASSUME Inv, UNCHANGED gateVars
  PROVE  Sane(entries') /\ Sane(found') /\ gateDown' \in BOOLEAN /\ Len(entries') \in Nat /\ Len(entries') = Len(entries)
BY Lengths DEF Inv, TypeOK, JournalOK, gateVars

LEMMA SameInbox == ASSUME Inv, UNCHANGED inboxVars PROVE InboxOK'
BY DEF Inv, TypeOK, InboxOK, inboxVars

LEMMA AgedLength == ASSUME Inv, Ages(entries, entries') PROVE Len(entries') \in Nat /\ Len(entries') = Len(entries)
BY Lengths DEF Ages

\* Steps that touch neither journal.
LEMMA FilesKeep ==
  ASSUME Inv, Next, UNCHANGED <<gateVars, inboxVars, decide>>, submit' = submit
  PROVE  Inv'
BY SameJournal, SameInbox, SameDecision, SameSubmission, InvFrom DEF gateVars, inboxVars

\* Steps that write to the inbox only, while nothing is being decided.
LEMMA InboxKeeps ==
  ASSUME Inv, Next, MuFree, decide' = decide, UNCHANGED gateVars,
         submit' = submit \/ submit'.at # "built",
         NEW new, new \subseteq Conditions, NEW ok \in BOOLEAN, InboxAppend(new, ok)
  PROVE  Inv'
<1>1. InboxOK'
  BY InboxAppendKeeps
<1>2. Decision'
  BY IdleDecision DEF MuFree
<1>3. Linking'
  BY SameJournal, SameSubmission, NoLinking
<1> QED
  BY <1>1, <1>2, <1>3, SameJournal, InvFrom

LEMMA WatchStep == ASSUME Inv, Next, Watch PROVE Inv'
<1>1. PICK ok \in BOOLEAN : ReconcileLocked(ok)
  BY DEF Watch
<1>2. Decision'
  BY IdleDecision DEF Watch, MuFree, flows
<1>3. Linking'
  BY <1>1, ReconcileKeeps, AgedLength, SameSubmission DEF Watch, flows
<1> QED
  BY <1>1, <1>2, <1>3, ReconcileKeeps, InvFrom

LEMMA RunStartStep == ASSUME Inv, Next, RunStart \/ RunRefused PROVE Inv'
<1>1. Pass \/ PassStops
  BY DEF RunStart, RunRefused
<1>2. InboxOK'
  BY SameInbox DEF RunStart, RunRefused
<1>3. Decision'
  BY IdleDecision DEF RunStart, RunRefused, MuFree, flows
<1>4. Linking'
  BY <1>1, MarkKeeps, AgedLength, SameSubmission DEF RunStart, RunRefused, flows
<1> QED
  BY <1>1, <1>2, <1>3, <1>4, MarkKeeps, InvFrom

LEMMA DecideStep == ASSUME Inv, Next, NEW i \in DOMAIN entries, NEW v \in {"approved", "rejected"}, Decide(i, v) PROVE Inv'
<1>1. ReconcileLocked(TRUE) /\ decide' = [i |-> i, verdict |-> v, at |-> "prepare"] /\ submit' = submit
  BY DEF Decide
<1>2. /\ Sane(entries') /\ Sane(found') /\ gateDown' \in BOOLEAN /\ Ages(entries, entries') /\ InboxOK'
      /\ \A g \in Lapsed(entries') : StaleItem(g) \in inbox'
  BY <1>1, ReconcileKeeps
<1>3. decide'.i = i /\ decide'.verdict = v /\ decide'.at = "prepare" /\ i \in DOMAIN entries'
  BY <1>1, <1>2 DEF Ages
<1>4. Decision'
  BY <1>2, <1>3 DEF Decision, Deciding, Reminded, Unblocked, Rested
<1>5. Linking'
  BY <1>1, <1>2, AgedLength, SameSubmission
<1> QED
  BY <1>2, <1>4, <1>5, InvFrom

LEMMA Goes ==
  ASSUME Inv, NEW at \in {"idle", "prepare", "resolve", "check", "commit"}, Goto(at)
  PROVE  decide'.at = at /\ decide'.i = decide.i /\ decide'.verdict = decide.verdict
BY DEF Inv, TypeOK, FlowsOK, Goto

LEMMA Returns == ASSUME Return PROVE Decision'
BY IdleDecision DEF Return, Undecided

LEMMA PrepareStep == ASSUME Inv, Next, Prepare PROVE Inv'
<1>1. UNCHANGED <<gateVars, inboxVars>> /\ submit' = submit
  BY DEF Prepare
<1>2. Decision'
  <2>1. CASE Return
    BY <2>1, Returns
  <2>2. CASE /\ decide.verdict = "approved" /\ Current(Chosen) /\ EvidenceFits(Chosen) /\ Goto("resolve")
    <3>1. decide'.at = "resolve" /\ decide'.i = decide.i /\ decide'.verdict = decide.verdict
      BY <2>2, Goes
    <3>2. Rests(Chosen, States)
      BY <2>2 DEF Current
    <3> QED
      BY <1>1, <2>2, <3>1, <3>2
         DEF Prepare, Inv, Decision, Deciding, Reminded, Unblocked, Rested, Chosen, Lapsed, Rests, EvidenceFits, States, gateVars, inboxVars
  <2>3. CASE decide.verdict = "rejected" /\ Goto("check")
    <3>1. decide'.at = "check" /\ decide'.i = decide.i /\ decide'.verdict = decide.verdict
      BY <2>3, Goes
    <3> QED
      BY <1>1, <2>3, <3>1
         DEF Prepare, Inv, Decision, Deciding, Reminded, Unblocked, Rested, Chosen, Lapsed, gateVars, inboxVars
  <2> QED
    BY <2>1, <2>2, <2>3 DEF Prepare, Chosen
<1> QED
  BY <1>1, <1>2, SameJournal, SameInbox, SameSubmission, InvFrom

LEMMA ResolveStep == ASSUME Inv, Next, Resolve PROVE Inv'
<1>1. PICK ok \in BOOLEAN : /\ InboxAppend(inbox \ {StaleItem(Chosen.gate)}, ok)
                            /\ IF ok THEN Goto("check") ELSE Return
  BY DEF Resolve, Chosen
<1>2. UNCHANGED gateVars /\ submit' = submit /\ decide.at = "resolve"
  BY DEF Resolve
<1>3. InboxOK' /\ (ok => inbox' = inbox \ {StaleItem(Chosen.gate)})
  BY <1>1, InboxAppendKeeps DEF Inv, TypeOK, InboxOK
<1>4. Decision'
  <2>1. CASE ~ok
    BY <1>1, <2>1, Returns
  <2>2. CASE ok
    <3>1. decide'.at = "check" /\ decide'.i = decide.i /\ decide'.verdict = decide.verdict
      BY <1>1, <2>2, Goes
    <3>2. entries' = entries
      BY <1>2 DEF gateVars
    <3>3. Reminded'
      <4> SUFFICES ASSUME NEW g \in Lapsed(entries), g # Chosen.gate PROVE StaleItem(g) \in inbox'
        BY <3>1, <3>2 DEF Reminded, Chosen
      <4>1. StaleItem(g) \in inbox
        BY <1>2 DEF Inv, Reminded
      <4>2. StaleItem(g) # StaleItem(Chosen.gate)
        BY DEF StaleItem
      <4> QED
        BY <1>3, <2>2, <4>1, <4>2
    <3> QED
      BY <1>2, <3>1, <3>2, <3>3
         DEF Inv, Decision, Deciding, Unblocked, Rested, Chosen, Rests, EvidenceFits, States
  <2> QED
    BY <2>1, <2>2
<1> QED
  BY <1>2, <1>3, <1>4, SameJournal, SameSubmission, InvFrom

LEMMA CheckStep == ASSUME Inv, Next, Check PROVE Inv'
<1>1. UNCHANGED <<gateVars, inboxVars>> /\ submit' = submit /\ decide.at = "check"
  BY DEF Check
<1>2. Decision'
  <2>1. CASE Return
    BY <2>1, Returns
  <2>2. CASE Blocking(Chosen.gate) = {} /\ Goto("commit")
    <3>1. decide'.at = "commit" /\ decide'.i = decide.i /\ decide'.verdict = decide.verdict
      BY <2>2, Goes
    <3>2. entries' = entries /\ inbox' = inbox
      BY <1>1 DEF gateVars, inboxVars
    <3> QED
      BY <1>1, <2>2, <3>1, <3>2
         DEF Inv, Decision, Deciding, Reminded, Unblocked, Rested, Chosen, Lapsed, Blocking, Rests, EvidenceFits, States
  <2> QED
    BY <2>1, <2>2 DEF Check, Chosen
<1> QED
  BY <1>1, <1>2, SameJournal, SameInbox, SameSubmission, InvFrom

LEMMA CommitStep == ASSUME Inv, Next, Commit PROVE Inv'
<1>1. PICK ok \in BOOLEAN : GateAppend(Decided(decide.i), ok)
  BY DEF Commit
<1>2. /\ decide.i \in DOMAIN entries /\ entries[decide.i].state = "pending" /\ Return
      /\ UNCHANGED inboxVars /\ submit' = submit
  BY DEF Commit, Inv, Deciding
<1>3. Sane(Decided(decide.i)) /\ Len(Decided(decide.i)) = Len(entries)
  BY <1>2, DecidedGood DEF Inv
<1>4. Sane(entries') /\ Sane(found') /\ gateDown' \in BOOLEAN /\ entries' \in {entries, Decided(decide.i)}
  BY <1>1, <1>3, GateAppendKeeps
<1>5. Linking'
  BY <1>2, <1>3, <1>4, Lengths, SameSubmission
<1> QED
  BY <1>2, <1>4, <1>5, Returns, SameInbox, InvFrom

LEMMA BuildStep == ASSUME Inv, Next, Build PROVE Inv'
<1>1. UNCHANGED <<gateVars, inboxVars, decide>>
  BY DEF Build
<1>2. PICK g, s, u, b : g \in Gates /\ Building(g, s, u, b) /\ ((u = 0 /\ g # "tca") \/ u \in DOMAIN entries)
  <2>1. CASE BuildGate1
    BY <2>1 DEF BuildGate1, Gates
  <2>2. CASE BuildGate2
    BY <2>2 DEF BuildGate2, Gates
  <2>3. CASE BuildTCA
    BY <2>3 DEF BuildTCA, Gates, ShownActive
  <2> QED
    BY <2>1, <2>2, <2>3 DEF Build
<1>3. Linked(g, u, entries)
  BY <1>2, Lengths DEF Linked
<1>4. Linking'
  BY <1>1, <1>2, <1>3 DEF Linking, Linked, Building, gateVars
<1> QED
  BY <1>1, <1>4, SameJournal, SameInbox, SameDecision, InvFrom DEF gateVars, inboxVars

LEMMA SubmitStep == ASSUME Inv, Next, Submit PROVE Inv'
<1> DEFINE e == [gate |-> submit.gate, seen |-> submit.seen, up |-> submit.up, base |-> submit.base, state |-> "pending"]
<1>1. PICK ok \in BOOLEAN :
        /\ GateAppend(Append(entries, e), ok)
        /\ submit' = IF ok /\ submit.gate = "tca" THEN [submit EXCEPT !.at = "sent"] ELSE NoSubmission
  BY DEF Submit
<1>2. submit.at = "built" /\ MuFree /\ decide' = decide /\ UNCHANGED inboxVars
  BY DEF Submit
<1>3. submit.gate \in Gates /\ Linked(submit.gate, submit.up, entries)
  BY <1>2 DEF Inv, Linking
<1>4. e \in Entry /\ e.state = "pending" /\ Linked(e.gate, e.up, entries)
  BY <1>3 DEF Entry, Inv, TypeOK, FlowsOK
<1>5. submit'.at # "built"
  BY <1>1 DEF NoSubmission, Inv, TypeOK, FlowsOK
<1> HIDE DEF e
<1>6. Sane(Append(entries, e))
  BY <1>4, AppendGood DEF Inv
<1>7. Sane(entries') /\ Sane(found') /\ gateDown' \in BOOLEAN
  BY <1>1, <1>6, GateAppendKeeps
<1>8. Decision'
  BY <1>2, IdleDecision DEF MuFree
<1> QED
  BY <1>2, <1>5, <1>7, <1>8, NoLinking, SameInbox, InvFrom

LEMMA RestartStep == ASSUME Inv, Next, Restart PROVE Inv'
<1>1. Sane(entries') /\ Sane(found') /\ gateDown' \in BOOLEAN
  BY EmptyGood DEF Restart, Inv
<1>2. InboxOK'
  BY DEF Restart, Inv, TypeOK, InboxOK
<1>3. Decision' /\ Linking'
  BY IdleDecision, NoLinking DEF Restart, Undecided, NoSubmission
<1> QED
  BY <1>1, <1>2, <1>3, InvFrom

LEMMA ItemsAreConditions ==
  {MissingItem, PlannerItem, EvidenceItem} \subseteq Conditions /\ \A s \in ManualScopes : ManualItem(s) \in Conditions
BY DEF Conditions, SystemConditions

LEMMA InboxStepStep == ASSUME Inv, Next, MuFree, NEW new, new \subseteq Conditions, InboxStep(new) PROVE Inv'
BY InboxKeeps DEF InboxStep, flows

LEMMA InvInit == Init => Inv
<1> SUFFICES ASSUME Init PROVE Inv
  OBVIOUS
<1>1. (CHOOSE v \in Versions : TRUE) \in Versions
  BY ConstantsAssumption
<1>2. TypeOK
  <2>1. JournalOK /\ InboxOK /\ CountsOK
    BY EmptyGood DEF Init, JournalOK, InboxOK, CountsOK, Sane
  <2>2. FilesOK
    BY <1>1 DEF Init, FilesOK
  <2>3. FlowsOK
    BY DEF Init, FlowsOK, Undecided, NoSubmission, NoRun, Unbound
  <2> QED
    BY <2>1, <2>2, <2>3 DEF TypeOK
<1>3. Deciding /\ Linking /\ Reminded /\ Unblocked /\ Rested
  BY DEF Init, Deciding, Linking, Reminded, Unblocked, Rested, Undecided, NoSubmission
<1> QED
  BY <1>2, <1>3, EmptyGood DEF Init, Inv

LEMMA InvNext == Inv /\ [Next]_vars => Inv'
<1> SUFFICES ASSUME Inv, [Next]_vars PROVE Inv'
  OBVIOUS
<1>1. CASE UNCHANGED vars
  <2>1. UNCHANGED <<tree, entries, gateDown, found, inbox, escDown, foundInbox, decide, submit, run, evidence,
                    edits, faults, restarts>>
    BY <1>1 DEF vars, gateVars, inboxVars, flows, counts
  <2>2. JournalOK' /\ InboxOK' /\ FlowsOK' /\ FilesOK' /\ CountsOK'
    <3>1. JournalOK'
      BY <2>1 DEF Inv, TypeOK, JournalOK
    <3>2. InboxOK' /\ CountsOK'
      BY <2>1 DEF Inv, TypeOK, InboxOK, CountsOK
    <3>3. FlowsOK'
      BY <2>1 DEF Inv, TypeOK, FlowsOK
    <3>4. FilesOK'
      BY <2>1 DEF Inv, TypeOK, FilesOK
    <3> QED
      BY <3>1, <3>2, <3>3, <3>4
  <2>3. Sane(entries') /\ Sane(found') /\ Linking'
    BY <2>1 DEF Inv, Linking
  <2> QED
    BY <2>1, <2>2, <2>3, SameDecision DEF Inv, TypeOK, Decision
<1>2. CASE Next
  <2> USE <1>2
  <2>1. CASE (\E p \in Parts : Edit(p)) \/ RunFinish
    BY <2>1, FilesKeep DEF Edit, RunFinish, flows
  <2>2. CASE \E i \in DOMAIN entries, v \in {"approved", "rejected"} : Decide(i, v)
    BY <2>2, DecideStep
  <2>3. CASE Refuse
    <3>1. inbox \cup {MissingItem} \subseteq Conditions
      BY ItemsAreConditions DEF Inv, TypeOK, InboxOK
    <3> QED
      BY <2>3, <3>1, InboxKeeps DEF Refuse, NoSubmission
  <2>4. CASE Sent
    <3>1. inbox \ {MissingItem} \subseteq Conditions
      BY DEF Inv, TypeOK, InboxOK
    <3> QED
      BY <2>4, <3>1, InboxKeeps DEF Sent, NoSubmission
  <2>5. CASE RunWire
    <3>1. (IF run.passed THEN inbox \ {EvidenceItem} ELSE inbox \cup {EvidenceItem}) \subseteq Conditions
      BY ItemsAreConditions DEF Inv, TypeOK, InboxOK
    <3> QED
      BY <2>5, <3>1, InboxKeeps DEF RunWire
  <2>6. CASE \E s \in ManualScopes : CreateManual(ManualItem(s))
    <3>1. PICK s \in ManualScopes : CreateManual(ManualItem(s))
      BY <2>6
    <3>2. inbox \cup {ManualItem(s)} \subseteq Conditions
      BY ItemsAreConditions DEF Inv, TypeOK, InboxOK
    <3> QED
      BY <3>1, <3>2, InboxStepStep DEF CreateManual
  <2>7. CASE \E c \in Conditions : ResolveManually(c)
    <3>1. PICK c \in Conditions : ResolveManually(c)
      BY <2>7
    <3>2. inbox \ {c} \subseteq Conditions
      BY DEF Inv, TypeOK, InboxOK
    <3> QED
      BY <3>1, <3>2, InboxStepStep DEF ResolveManually
  <2>8. CASE Planner
    <3>1. inbox \cup {PlannerItem} \subseteq Conditions /\ inbox \ {PlannerItem} \subseteq Conditions
      BY ItemsAreConditions DEF Inv, TypeOK, InboxOK
    <3> QED
      BY <2>8, <3>1, InboxStepStep DEF Planner
  <2> QED
    BY <2>1, <2>2, <2>3, <2>4, <2>5, <2>6, <2>7, <2>8, WatchStep, PrepareStep, ResolveStep, CheckStep, CommitStep,
       BuildStep, SubmitStep, RunStartStep, RestartStep DEF Next
<1> QED
  BY <1>1, <1>2

LEMMA InvHolds == Spec => []Inv
BY InvInit, InvNext, PTL DEF Spec

-----------------------------------------------------------------------------
\* An approval is the commit of the decision under way.
LEMMA ApprovalIsCommit ==
  ASSUME Inv, [Next]_vars, NEW i \in DOMAIN entries, Approves(i)
  PROVE  decide.at = "commit" /\ i = decide.i /\ decide.verdict = "approved"
<1>1. entries[i].state = "pending" /\ entries'[i].state = "active" /\ restarts' = restarts
  BY DEF Approves
<1>2. entries' # entries
  BY <1>1
<1>3. ~Ages(entries, entries')
  BY <1>1 DEF Ages
<1>4. CASE Commit
  <2>1. PICK ok \in BOOLEAN : GateAppend(Decided(decide.i), ok)
    BY <1>4 DEF Commit
  <2>2. decide.at = "commit" /\ decide.i \in DOMAIN entries /\ entries[decide.i].state = "pending"
    BY <1>4 DEF Commit, Inv, Deciding
  <2>3. entries' = Decided(decide.i)
    BY <1>2, <2>1 DEF GateAppend
  <2>4. i = decide.i /\ decide.verdict # "rejected"
    BY <1>1, <2>2, <2>3, DecidedGood DEF Inv
  <2> QED
    BY <2>2, <2>4 DEF Inv, Deciding
<1>5. ~Submit
  <2> SUFFICES ASSUME Submit PROVE FALSE
    OBVIOUS
  <2> DEFINE e == [gate |-> submit.gate, seen |-> submit.seen, up |-> submit.up, base |-> submit.base, state |-> "pending"]
  <2>1. PICK ok \in BOOLEAN : GateAppend(Append(entries, e), ok)
    BY DEF Submit
  <2>2. submit.gate \in Gates /\ Linked(submit.gate, submit.up, entries)
    BY DEF Submit, Inv, Linking
  <2>3. e \in Entry /\ e.state = "pending" /\ Linked(e.gate, e.up, entries)
    BY <2>2 DEF Entry, Inv, TypeOK, FlowsOK
  <2> HIDE DEF e
  <2>4. entries'[i] = entries[i]
    BY <1>2, <2>1, <2>3, AppendGood DEF GateAppend, Inv
  <2> QED
    BY <1>1, <2>4
<1>6. ~Restart
  BY <1>1 DEF Restart, Inv, TypeOK, CountsOK
<1>7. ~Watch /\ ~\E j \in DOMAIN entries, v \in {"approved", "rejected"} : Decide(j, v)
  BY <1>3, ReconcileKeeps DEF Watch, Decide
<1>8. ~RunStart /\ ~RunRefused
  BY <1>3, MarkKeeps DEF RunStart, RunRefused
<1>9. CASE ~Commit
  BY <1>2, <1>5, <1>6, <1>7, <1>8, <1>9
     DEF Next, vars, Edit, Prepare, Resolve, Check, Build, Refuse, Sent, RunFinish, RunWire, CreateManual,
         ResolveManually, Planner, InboxStep, gateVars
<1> QED
  BY <1>4, <1>9

(* The journals, the inbox, the flows and the files keep their types.        *)
THEOREM TypeHolds == Spec => []TypeOK
<1>1. Inv => TypeOK
  BY DEF Inv
<1> QED
  BY <1>1, InvHolds, PTL

(* Service.CommitDecision writes approval and supersession as one record: a  *)
(* gate never has two approvals in force, whatever a failed append left.     *)
THEOREM OneActivePerGateHolds == Spec => []OneActivePerGate
<1>1. Inv => OneActivePerGate
  BY DEF Inv, Sane, One, OneActivePerGate
<1> QED
  BY <1>1, InvHolds, PTL

(* gateDecide checks for blockers a step before it appends; workflowMu keeps *)
(* all who create items out, so none covers the scope of what is approved.   *)
THEOREM NoApprovalUnderBlockerHolds == Spec => NoApprovalUnderBlocker
<1>1. Inv /\ [Next]_vars => [\A i \in DOMAIN entries : Approves(i) => Blocking(entries[i].gate) = {}]_vars
  BY ApprovalIsCommit DEF Inv, Unblocked, Chosen
<1> QED
  BY <1>1, InvHolds, PTL DEF Spec, NoApprovalUnderBlocker

(* The reconciliation at the beginning of gateDecide makes up for the item   *)
(* of a stale specification, and only a new specification settles it: what   *)
(* is approved meanwhile is that.                                            *)
THEOREM NoApprovalOverStaleSpecHolds == Spec => NoApprovalOverStaleSpec
<1>1. ASSUME Inv, [Next]_vars, NEW i \in DOMAIN entries, Approves(i), entries[i].gate # "gate1"
      PROVE  "gate1" \notin Lapsed(entries)
  <2>1. decide.at = "commit" /\ i = decide.i
    BY <1>1, ApprovalIsCommit
  <2>2. StaleItem("gate1") \notin inbox
    <3>1. BlockScope(StaleItem("gate1")) = "workspace"
      BY DEF BlockScope, StaleItem, Scope
    <3> QED
      BY <1>1, <2>1, <3>1 DEF Inv, Unblocked, Chosen, Blocking
  <2> QED
    BY <1>1, <2>1, <2>2 DEF Inv, Reminded, Chosen
<1>2. Inv /\ [Next]_vars =>
        [\A i \in DOMAIN entries : Approves(i) /\ entries[i].gate # "gate1" => "gate1" \notin Lapsed(entries)]_vars
  BY <1>1
<1> QED
  BY <1>2, InvHolds, PTL DEF Spec, NoApprovalOverStaleSpec

(* TCAPolicy and BuildDecision: a contract is approved only over a plan      *)
(* approval in force, with evidence of the commit that approval is about.    *)
THEOREM ContractRestsOnActivePlanHolds == Spec => ContractRestsOnActivePlan
<1>1. ASSUME Inv, [Next]_vars, NEW i \in DOMAIN entries, Approves(i), entries[i].gate = "tca"
      PROVE  /\ entries[entries[i].up].state = "active"
             /\ entries[i].base = entries[entries[i].up].seen["plan"]
  <2>1. decide.at = "commit" /\ i = decide.i /\ decide.verdict = "approved"
    BY <1>1, ApprovalIsCommit
  <2>2. Rests(entries[i], States) /\ EvidenceFits(entries[i])
    BY <1>1, <2>1 DEF Inv, Rested, Chosen
  <2>3. entries[i].up \in DOMAIN entries /\ entries[i].up # 0
    BY <1>1, Lengths DEF Inv, Sane, AllLinked, Linked
  <2> QED
    BY <1>1, <2>2, <2>3 DEF Rests, States, EvidenceFits
<1>2. Inv /\ [Next]_vars =>
        [\A i \in DOMAIN entries :
           Approves(i) /\ entries[i].gate = "tca" =>
             /\ entries[entries[i].up].state = "active"
             /\ entries[i].base = entries[entries[i].up].seen["plan"]]_vars
  BY <1>1
<1> QED
  BY <1>2, InvHolds, PTL DEF Spec, ContractRestsOnActivePlan
-----------------------------------------------------------------------------
(***************************************************************************)
(* The two journals under the gates and the inbox are each one of Journal. *)
(* For any number of appends and crashes, no file is ever refused, the     *)
(* lines in memory are those of the file, and what was acknowledged        *)
(* outlasts every repair that is not itself interrupted.                   *)
(***************************************************************************)
Numbering == 1..MaxAppends
Forms == {"whole", "bare", "part"}

(* A content that Open does not refuse. *)
Sound(c) == c \in Seq(LineRecord) /\ ~Malformed(c)

-----------------------------------------------------------------------------
(* The operators on contents. *)

LEMMA LineTyped ==
  ASSUME NEW n \in Numbering, NEW form \in Forms
  PROVE  /\ Line(n, form) \in LineRecord
         /\ Line(n, form).n = n /\ Line(n, form).form = form
BY DEF Line, LineRecord, Numbering, Forms

LEMMA WholeOK ==
  ASSUME NEW ns \in Seq(Numbering)
  PROVE  /\ Whole(ns) \in Seq(LineRecord)
         /\ Len(Whole(ns)) = Len(ns)
         /\ \A i \in 1..Len(ns) : Whole(ns)[i] = Line(ns[i], "whole")
         /\ Numbers(Whole(ns)) = ns
         /\ ~Torn(Whole(ns)) /\ ~Malformed(Whole(ns))
<1>1. DOMAIN ns = 1..Len(ns) /\ Len(ns) \in Nat /\ \A i \in 1..Len(ns) : ns[i] \in Numbering
  BY LenProperties, ElementOfSeq
<1>2. \A i \in 1..Len(ns) : Line(ns[i], "whole") \in LineRecord
  BY <1>1, LineTyped DEF Forms
<1>3. Whole(ns) \in [1..Len(ns) -> LineRecord]
  BY <1>1, <1>2 DEF Whole
<1>4. Whole(ns) \in Seq(LineRecord)
  BY <1>1, <1>3, SeqDef
<1>5. Len(Whole(ns)) = Len(ns)
  BY <1>1, <1>3, <1>4, LenProperties
<1>6. \A i \in 1..Len(ns) : Whole(ns)[i] = Line(ns[i], "whole")
  BY <1>1 DEF Whole
<1>7. \A i \in 1..Len(ns) : Whole(ns)[i].n = ns[i] /\ Whole(ns)[i].form = "whole"
  BY <1>1, <1>6, LineTyped DEF Forms
<1>8. Numbers(Whole(ns)) = ns
  BY <1>1, <1>3, <1>7, LenProperties DEF Numbers
<1>9. ~Torn(Whole(ns)) /\ ~Malformed(Whole(ns))
  BY <1>1, <1>4, <1>5, <1>7, EmptySeq DEF Torn, Malformed, Last
<1> QED
  BY <1>4, <1>5, <1>6, <1>8, <1>9

LEMMA NumbersOK ==
  ASSUME NEW c \in Seq(LineRecord)
  PROVE  /\ Numbers(c) \in Seq(Numbering)
         /\ Len(Numbers(c)) = Len(c)
         /\ \A i \in 1..Len(c) : Numbers(c)[i] = c[i].n
<1>1. DOMAIN c = 1..Len(c) /\ Len(c) \in Nat /\ \A i \in 1..Len(c) : c[i] \in LineRecord
  BY LenProperties, ElementOfSeq
<1>2. \A i \in 1..Len(c) : c[i].n \in Numbering
  BY <1>1 DEF LineRecord, Numbering
<1>3. Numbers(c) \in [1..Len(c) -> Numbering]
  BY <1>1, <1>2 DEF Numbers
<1>4. Numbers(c) \in Seq(Numbering)
  BY <1>1, <1>3, SeqDef
<1> QED
  BY <1>1, <1>3, <1>4, LenProperties DEF Numbers

(* What Open keeps of a content is all whole, so it can be written again. *)
LEMMA GoodOK ==
  ASSUME NEW c, Sound(c)
  PROVE  /\ Good(c) \in Seq(LineRecord)
         /\ Whole(Numbers(Good(c))) = Good(c)
<1> DEFINE g == Good(c)
<1>1. DOMAIN c = 1..Len(c) /\ Len(c) \in Nat /\ \A i \in 1..Len(c) : c[i] \in LineRecord
  BY LenProperties, ElementOfSeq DEF Sound
<1>2. /\ g \in Seq(LineRecord)
      /\ \A i \in 1..Len(g) : g[i].form = "whole" /\ g[i] \in LineRecord
  <2>1. CASE Torn(c)
    <3>1. Len(c) >= 1
      BY <2>1, <1>1, EmptySeq DEF Torn, Sound
    <3>2. /\ Front(c) \in Seq(LineRecord)
          /\ Len(Front(c)) = Len(c) - 1
          /\ \A i \in 1..Len(c) - 1 : Front(c)[i] = c[i]
      BY <1>1, <3>1, SubSeqProperties DEF Front
    <3> QED
      BY <1>1, <2>1, <3>1, <3>2 DEF Good, Sound, Malformed
  <2>2. CASE ~Torn(c)
    <3>1. g = c
      BY <2>2 DEF Good
    <3>2. \A i \in 1..Len(c) : c[i].form = "whole"
      BY <1>1, <2>2, EmptySeq DEF Torn, Last, Sound, Malformed
    <3> QED
      BY <1>1, <3>1, <3>2 DEF Sound
  <2> QED
    BY <2>1, <2>2
<1>3. \A i \in 1..Len(g) : Line(g[i].n, "whole") = g[i]
  BY <1>2 DEF Line, LineRecord
<1>4. /\ Whole(Numbers(g)) \in Seq(LineRecord) /\ Len(Whole(Numbers(g))) = Len(g)
      /\ \A i \in 1..Len(g) : Whole(Numbers(g))[i] = g[i]
  BY <1>2, <1>3, NumbersOK, WholeOK
<1>5. Whole(Numbers(g)) = g
  BY <1>2, <1>4, SeqEqual
<1> QED
  BY <1>2, <1>5

(* Appending a line, whole or not, to whole lines gives a sound content, of  *)
(* which Open keeps the line only if it is whole.                            *)
LEMMA AppendOK ==
  ASSUME NEW ns \in Seq(Numbering), NEW n \in Numbering, NEW form \in Forms
  PROVE  /\ Sound(Append(Whole(ns), Line(n, form)))
         /\ form = "whole" => Append(Whole(ns), Line(n, form)) = Whole(Append(ns, n))
         /\ form # "whole" => Good(Append(Whole(ns), Line(n, form))) = Whole(ns)
<1> DEFINE c == Append(Whole(ns), Line(n, form))
<1>1. /\ Whole(ns) \in Seq(LineRecord) /\ Len(Whole(ns)) = Len(ns) /\ Len(ns) \in Nat
      /\ \A i \in 1..Len(ns) : Whole(ns)[i] = Line(ns[i], "whole")
      /\ \A i \in 1..Len(ns) : ns[i] \in Numbering
  BY WholeOK, LenProperties, ElementOfSeq
<1>2. Line(n, form) \in LineRecord /\ Line(n, form).form = form
  BY LineTyped
<1>3. /\ c \in Seq(LineRecord) /\ Len(c) = Len(ns) + 1
      /\ \A i \in 1..Len(ns) : c[i] = Line(ns[i], "whole")
      /\ c[Len(ns) + 1] = Line(n, form)
      /\ c # <<>>
  BY <1>1, <1>2, AppendProperties
<1>4. \A i \in 1..Len(ns) : c[i].form = "whole"
  BY <1>1, <1>3, LineTyped DEF Forms
<1>5. Sound(c)
  BY <1>1, <1>3, <1>4 DEF Sound, Malformed
<1>6. ASSUME form = "whole" PROVE c = Whole(Append(ns, n))
  <2>1. /\ Append(ns, n) \in Seq(Numbering) /\ Len(Append(ns, n)) = Len(ns) + 1
        /\ \A i \in 1..Len(ns) : Append(ns, n)[i] = ns[i]
        /\ Append(ns, n)[Len(ns) + 1] = n
    BY AppendProperties
  <2>2. /\ Whole(Append(ns, n)) \in Seq(LineRecord)
        /\ Len(Whole(Append(ns, n))) = Len(ns) + 1
        /\ \A i \in 1..Len(ns) + 1 : Whole(Append(ns, n))[i] = Line(Append(ns, n)[i], "whole")
    BY <2>1, WholeOK
  <2>3. \A i \in 1..Len(c) : c[i] = Whole(Append(ns, n))[i]
    BY <1>1, <1>3, <1>6, <2>1, <2>2
  <2> QED
    BY <1>3, <2>2, <2>3, SeqEqual
<1>7. ASSUME form # "whole" PROVE Good(c) = Whole(ns)
  <2>1. Torn(c)
    BY <1>1, <1>2, <1>3, <1>7 DEF Torn, Last
  <2>2. /\ Front(c) \in Seq(LineRecord) /\ Len(Front(c)) = Len(ns)
        /\ \A i \in 1..Len(ns) : Front(c)[i] = c[i]
    <3>1. \A i \in 1..Len(ns) : c[i] \in LineRecord
      BY <1>1, <1>3
    <3> QED
      BY <1>1, <1>3, <3>1, SubSeqProperties DEF Front
  <2>3. \A i \in 1..Len(ns) : Front(c)[i] = Whole(ns)[i]
    BY <1>1, <1>3, <2>2
  <2>4. Front(c) = Whole(ns)
    BY <1>1, <2>2, <2>3, SeqEqual
  <2> QED
    BY <2>1, <2>4 DEF Good
<1> QED
  BY <1>5, <1>6, <1>7

LEMMA PartlyOK ==
  ASSUME NEW ns \in Seq(Numbering), NEW n \in Numbering, NEW c \in CutOff(Whole(ns), n)
  PROVE  Sound(c) /\ Good(c) = Whole(ns)
<1>1. PICK form \in {"part", "bare"} : c = Append(Whole(ns), Line(n, form))
  BY DEF CutOff
<1>2. form \in Forms /\ form # "whole"
  BY DEF Forms
<1> QED
  BY <1>1, <1>2, AppendOK

(* What an interrupted write of whole lines leaves is sound too. *)
LEMMA HalfwayOK ==
  ASSUME NEW ns \in Seq(Numbering), NEW c \in Halfway(ns)
  PROVE  Sound(c)
<1>1. Len(ns) \in Nat /\ \A i \in 1..Len(ns) : ns[i] \in Numbering
  BY LenProperties, ElementOfSeq
<1>2. \A k \in 0..Len(ns) : SubSeq(ns, 1, k) \in Seq(Numbering)
  BY <1>1, SubSeqProperties
<1>3. CASE \E k \in 0..Len(ns) : c = Whole(SubSeq(ns, 1, k))
  BY <1>2, <1>3, WholeOK DEF Sound
<1>4. CASE \E k \in DOMAIN ns : c \in CutOff(Whole(SubSeq(ns, 1, k - 1)), ns[k])
  <2>1. PICK k \in 1..Len(ns) : c \in CutOff(Whole(SubSeq(ns, 1, k - 1)), ns[k])
    BY <1>4, LenProperties
  <2>2. SubSeq(ns, 1, k - 1) \in Seq(Numbering) /\ ns[k] \in Numbering
    BY <1>1, <1>2
  <2> QED
    BY <2>1, <2>2, PartlyOK
<1> QED
  BY <1>3, <1>4 DEF Halfway

LEMMA WholeIsHalfway ==
  ASSUME NEW ns \in Seq(Numbering)
  PROVE  Whole(ns) \in Halfway(ns)
<1>1. Len(ns) \in 0..Len(ns) /\ ns = SubSeq(ns, 1, Len(ns))
  BY SubSeqFull, LenProperties
<1>2. Whole(ns) = Whole(SubSeq(ns, 1, Len(ns)))
  BY <1>1
<1> QED
  BY <1>1, <1>2 DEF Halfway

LEMMA EmptyOK ==
  /\ Sound(<<>>) /\ Good(<<>>) = <<>>
  /\ Numbers(<<>>) = <<>> /\ Whole(<<>>) = <<>>
BY EmptySeq DEF Sound, Malformed, Good, Torn, Numbers, Whole

-----------------------------------------------------------------------------
(* The types, and that nothing Open refuses is ever in the file or can be    *)
(* left by a crash.  A degraded journal takes no write, so no line follows a *)
(* piece of one.                                                             *)
Contents ==
  /\ JournalTypeOK
  /\ \A c \in device : Sound(c)
  /\ file \in device

(* Where the lines in memory stand to the file, at each step. *)
Mirror ==
  /\ pc \in {"open", "rewritten"} /\ ~degraded => file = Whole(lines)
  /\ pc = "written" => file = Append(Whole(lines), Line(next, "whole")) /\ next >= 1
  /\ pc # "open" => ~degraded

JournalInv == Contents /\ Mirror

LEMMA JournalInvInit == JournalInit => JournalInv
<1> SUFFICES ASSUME JournalInit PROVE JournalInv
  OBVIOUS
<1>1. Contents
  <2>1. \A c \in device : Sound(c) /\ c \in Seq(LineRecord)
    BY EmptyOK DEF JournalInit, Sound
  <2>2. lines \in Seq(1..MaxAppends)
    BY EmptySeq DEF JournalInit
  <2>3. file \in Seq(LineRecord) /\ file \in device
    BY EmptySeq DEF JournalInit
  <2>4. next \in 0..MaxAppends /\ crashes \in 0..MaxCrashes
    BY JournalAssumption DEF JournalInit
  <2>5. JournalTypeOK
    BY <2>1, <2>2, <2>3, <2>4 DEF JournalInit, JournalTypeOK
  <2> QED
    BY <2>1, <2>3, <2>5 DEF Contents
<1>2. Mirror
  BY DEF JournalInit, Mirror
<1> QED
  BY <1>1, <1>2 DEF JournalInv

LEMMA JournalInvStep == JournalInv /\ [JournalNext]_journalVars => JournalInv'
<1> SUFFICES ASSUME JournalInv, [JournalNext]_journalVars PROVE JournalInv'
  OBVIOUS
<1> USE JournalAssumption
<1>1. /\ JournalTypeOK /\ lines \in Seq(Numbering) /\ file \in device /\ Sound(file)
      /\ \A c \in device : Sound(c)
      /\ file \in Seq(LineRecord)
  BY DEF JournalInv, Contents, JournalTypeOK, Numbering, Sound
<1>2. ASSUME Load PROVE JournalInv'
  <2>1. Good(file) \in Seq(LineRecord) /\ Whole(Numbers(Good(file))) = Good(file)
    BY <1>1, GoodOK
  <2>2. lines' \in Seq(Numbering) /\ Whole(lines') = Good(file)
    BY <1>2, <2>1, NumbersOK DEF Load
  <2>3. Contents'
    BY <1>1, <1>2, <2>2 DEF Load, Contents, JournalTypeOK, history, Numbering
  <2>4. Mirror'
    BY <1>2, <2>2 DEF Load, Mirror, Good
  <2> QED
    BY <2>3, <2>4 DEF JournalInv
<1>3. ASSUME Quarantine PROVE JournalInv'
  BY <1>3 DEF Quarantine, JournalInv, Contents, JournalTypeOK, Mirror, history
<1>4. ASSUME Truncate PROVE JournalInv'
  <2>1. Contents'
    BY <1>1, <1>4, EmptyOK, EmptySeq DEF Truncate, Contents, JournalTypeOK, history
  <2>2. Mirror'
    BY <1>4 DEF Truncate, JournalInv, Mirror
  <2> QED
    BY <2>1, <2>2 DEF JournalInv
<1>5. ASSUME Rewrite PROVE JournalInv'
  <2>1. /\ \A c \in Halfway(lines) : Sound(c)
        /\ Whole(lines) \in Halfway(lines)
    BY <1>1, HalfwayOK, WholeIsHalfway
  <2>2. file' \in Halfway(lines) /\ device' = device \cup Halfway(lines)
    BY <1>5, <2>1 DEF Rewrite
  <2>3. /\ \A c \in device' : Sound(c)
        /\ file' \in device'
    BY <1>1, <2>1, <2>2
  <2>4. Contents'
    BY <1>1, <1>5, <2>3 DEF Rewrite, Contents, JournalTypeOK, Sound
  <2>5. Mirror'
    BY <1>5 DEF Rewrite, JournalInv, Mirror
  <2> QED
    BY <2>4, <2>5 DEF JournalInv
<1>6. ASSUME SyncRepair PROVE JournalInv'
  <2>1. Contents'
    BY <1>1, <1>6 DEF SyncRepair, Contents, JournalTypeOK
  <2>2. Mirror'
    BY <1>6 DEF SyncRepair, JournalInv, Mirror
  <2> QED
    BY <2>1, <2>2 DEF JournalInv
<1>7. ASSUME Write PROVE JournalInv'
  <2>1. file = Whole(lines) /\ next' = next + 1 /\ next' \in Numbering
    BY <1>1, <1>7 DEF Write, JournalInv, Mirror, JournalTypeOK, Numbering
  <2>2. /\ Sound(file')
        /\ \A c \in CutOff(file, next') : Sound(c)
    <3>1. file' = Append(Whole(lines), Line(next', "whole"))
      BY <1>7, <2>1 DEF Write
    <3>2. Sound(file')
      BY <1>1, <2>1, <3>1, AppendOK DEF Forms
    <3>3. \A c \in CutOff(Whole(lines), next') : Sound(c)
      BY <1>1, <2>1, PartlyOK
    <3> QED
      BY <2>1, <3>2, <3>3
  <2>3. /\ \A c \in device' : Sound(c)
        /\ file' \in device'
    BY <1>1, <1>7, <2>2 DEF Write
  <2>4. Contents'
    BY <1>1, <1>7, <2>1, <2>3 DEF Write, Contents, JournalTypeOK, Sound, Numbering
  <2>5. Mirror'
    BY <1>1, <1>7, <2>1 DEF Write, Mirror, Numbering
  <2> QED
    BY <2>4, <2>5 DEF JournalInv
<1>8. ASSUME WriteFails PROVE JournalInv'
  <2>1. file = Whole(lines) /\ next' = next + 1 /\ next' \in Numbering
    BY <1>1, <1>8 DEF WriteFails, JournalInv, Mirror, JournalTypeOK, Numbering
  <2>2. \A c \in CutOff(file, next') : Sound(c)
    <3>1. \A c \in CutOff(Whole(lines), next') : Sound(c)
      BY <1>1, <2>1, PartlyOK
    <3> QED
      BY <2>1, <3>1
  <2>3. /\ \A c \in device' : Sound(c)
        /\ file' \in device'
    BY <1>1, <1>8, <2>2 DEF WriteFails
  <2>4. Contents'
    BY <1>1, <1>8, <2>1, <2>3 DEF WriteFails, Contents, JournalTypeOK, Sound, Numbering
  <2>5. Mirror'
    BY <1>8 DEF WriteFails, Mirror
  <2> QED
    BY <2>4, <2>5 DEF JournalInv
<1>9. ASSUME Sync PROVE JournalInv'
  <2>1. next \in Numbering
    BY <1>1, <1>9 DEF Sync, JournalInv, Mirror, JournalTypeOK, Numbering
  <2>2. lines' \in Seq(Numbering) /\ file = Whole(lines')
    BY <1>1, <1>9, <2>1, AppendOK, AppendProperties DEF Sync, JournalInv, Mirror, Forms
  <2>3. Contents'
    BY <1>1, <1>9, <2>1, <2>2 DEF Sync, Contents, JournalTypeOK, Numbering
  <2>4. Mirror'
    BY <1>9, <2>2 DEF Sync, Mirror
  <2> QED
    BY <2>3, <2>4 DEF JournalInv
<1>10. ASSUME SyncFails PROVE JournalInv'
  <2>1. Contents'
    BY <1>1, <1>10 DEF SyncFails, Contents, JournalTypeOK, history
  <2>2. Mirror'
    BY <1>10 DEF SyncFails, Mirror
  <2> QED
    BY <2>1, <2>2 DEF JournalInv
<1>11. ASSUME Crash PROVE JournalInv'
  <2>1. file' \in device' /\ device' \subseteq device
    BY <1>1, <1>11 DEF Crash
  <2>2. lines' \in Seq(1..MaxAppends) /\ interrupted' \in BOOLEAN
    BY <1>11, EmptySeq DEF Crash
  <2>3. crashes' \in 0..MaxCrashes
    BY <1>1, <1>11 DEF Crash, JournalTypeOK
  <2>4. \A c \in device' : Sound(c) /\ c \in Seq(LineRecord)
    BY <1>1, <2>1 DEF Sound
  <2>5. Contents'
    BY <1>1, <1>11, <2>1, <2>2, <2>3, <2>4 DEF Crash, Contents, JournalTypeOK
  <2>6. Mirror'
    BY <1>11 DEF Crash, Mirror
  <2> QED
    BY <2>5, <2>6 DEF JournalInv
<1>12. ASSUME UNCHANGED journalVars PROVE JournalInv'
  BY <1>12 DEF journalVars, history, JournalInv, Contents, JournalTypeOK, Mirror
<1> QED
  BY <1>2, <1>3, <1>4, <1>5, <1>6, <1>7, <1>8, <1>9, <1>10, <1>11, <1>12 DEF JournalNext

(* Every history keeps the inductive invariant. *)
LEMMA JournalInvHolds == JournalSpec => []JournalInv
BY JournalInvInit, JournalInvStep, PTL DEF JournalSpec

(* Every variable has its type, whatever the bounds on appends and crashes   *)
(* (the fields of journal.Journal and the steps of Open and Append).         *)
THEOREM JournalTypeHolds == JournalSpec => []JournalTypeOK
<1>1. JournalInv => JournalTypeOK
  BY DEF JournalInv, Contents
<1> QED
  BY <1>1, JournalInvHolds, PTL

(* Open never meets a file it has to refuse, after any failed write, failed  *)
(* fsync, crash or interrupted repair (parseLines, truncateAndSync).         *)
THEOREM NeverRefusedHolds == JournalSpec => []NeverRefused
<1>1. JournalInv => NeverRefused
  BY DEF JournalInv, Contents, Sound, NeverRefused
<1> QED
  BY <1>1, JournalInvHolds, PTL

(* While a journal takes appends, Journal.lines is what a restart would read *)
(* from the file (Open, Append).                                             *)
THEOREM MemoryIsFileHolds == JournalSpec => []MemoryIsFile
<1>1. JournalInv => MemoryIsFile
  BY WholeOK DEF JournalInv, Contents, JournalTypeOK, Mirror, MemoryIsFile, Numbering
<1> QED
  BY <1>1, JournalInvHolds, PTL

-----------------------------------------------------------------------------
(* The acknowledged lines A, with n appends made: they are listed, the list  *)
(* is in order, and no number runs ahead of the appends.                     *)
Record(ns, A, n) ==
  /\ A \subseteq ToSet(ns)
  /\ \A i, j \in DOMAIN ns : i < j => ns[i] < ns[j]
  /\ \A i \in DOMAIN ns : ns[i] <= n

(* Outside a repair every content that a crash can leave is such a record,   *)
(* and so is the list in memory from the moment the file has been read.      *)
Outlast ==
  \/ interrupted
  \/ /\ pc # "down" => Record(lines, acked, next)
     /\ ~Repairing => \A c \in device : Record(Numbers(Good(c)), acked, next)

LEMMA GoodWhole ==
  ASSUME NEW ns \in Seq(Numbering)
  PROVE  Numbers(Good(Whole(ns))) = ns
BY WholeOK DEF Good

LEMMA RecordGrows ==
  ASSUME NEW ns \in Seq(Numbering), NEW A, NEW n \in Nat, Record(ns, A, n)
  PROVE  Record(ns, A, n + 1)
<1>1. DOMAIN ns = 1..Len(ns) /\ \A i \in 1..Len(ns) : ns[i] \in Numbering
  BY LenProperties, ElementOfSeq
<1> QED
  BY <1>1 DEF Record, Numbering

LEMMA RecordAppend ==
  ASSUME NEW ns \in Seq(Numbering), NEW A, NEW n \in Nat, Record(ns, A, n),
         n + 1 \in Numbering
  PROVE  Record(Append(ns, n + 1), A, n + 1)
<1> DEFINE more == Append(ns, n + 1)
<1>1. DOMAIN ns = 1..Len(ns) /\ Len(ns) \in Nat /\ \A i \in 1..Len(ns) : ns[i] \in Numbering
  BY LenProperties, ElementOfSeq
<1>2. /\ more \in Seq(Numbering) /\ Len(more) = Len(ns) + 1
      /\ \A i \in 1..Len(ns) : more[i] = ns[i]
      /\ more[Len(ns) + 1] = n + 1
  BY AppendProperties
<1>3. DOMAIN more = 1..(Len(ns) + 1)
  BY <1>2, LenProperties
<1>4. \A i \in 1..Len(ns) : ns[i] \in Int /\ ns[i] <= n
  BY <1>1 DEF Record, Numbering
<1>5. A \subseteq ToSet(more)
  <2>1. \A i \in DOMAIN ns : i \in DOMAIN more /\ more[i] = ns[i]
    BY <1>1, <1>2, <1>3
  <2>2. ToSet(ns) \subseteq ToSet(more)
    BY <2>1 DEF ToSet
  <2> QED
    BY <2>2 DEF Record
<1>6. ASSUME NEW i \in DOMAIN more, NEW j \in DOMAIN more, i < j PROVE more[i] < more[j]
  <2>1. CASE j \in 1..Len(ns)
    BY <1>1, <1>2, <1>3, <1>6, <2>1 DEF Record
  <2>2. CASE j = Len(ns) + 1
    BY <1>1, <1>2, <1>3, <1>4, <1>6, <2>2
  <2> QED
    BY <1>1, <1>3, <2>1, <2>2
<1>7. \A i \in DOMAIN more : more[i] <= n + 1
  BY <1>1, <1>2, <1>3, <1>4
<1> QED
  BY <1>5, <1>6, <1>7 DEF Record

LEMMA OutlastInit == JournalInit => Outlast
<1> SUFFICES ASSUME JournalInit PROVE Outlast
  OBVIOUS
<1>1. Record(<<>>, {}, 0)
  BY DEF Record
<1> QED
  BY <1>1, EmptyOK DEF JournalInit, Outlast

LEMMA OutlastStep == JournalInv /\ Outlast /\ [JournalNext]_journalVars => Outlast'
<1> SUFFICES ASSUME JournalInv, Outlast, [JournalNext]_journalVars, ~interrupted' PROVE Outlast'
  BY DEF Outlast
<1>1. /\ JournalTypeOK /\ lines \in Seq(Numbering) /\ file \in device /\ next \in Nat
      /\ \A c \in device : Sound(c)
  BY JournalAssumption DEF JournalInv, Contents, JournalTypeOK, Numbering
<1>2. ~interrupted /\ (Crash => ~Repairing)
  <2>1. CASE Crash
    BY <1>1, <2>1 DEF Crash, JournalTypeOK
  <2>2. CASE ~Crash
    BY <2>2 DEF JournalNext, journalVars, history, Load, Quarantine, Truncate, Rewrite, SyncRepair, Write,
       WriteFails, Sync, SyncFails
  <2> QED
    BY <2>1, <2>2
<1>3. /\ pc # "down" => Record(lines, acked, next)
      /\ ~Repairing => \A c \in device : Record(Numbers(Good(c)), acked, next)
  BY <1>2 DEF Outlast
<1>4. ASSUME Load PROVE Outlast'
  BY <1>1, <1>3, <1>4 DEF Load, Outlast, Repairing, history
<1>5. ASSUME Quarantine PROVE Outlast'
  BY <1>3, <1>5 DEF Quarantine, Outlast, Repairing, history
<1>6. ASSUME Truncate PROVE Outlast'
  BY <1>3, <1>6 DEF Truncate, Outlast, Repairing, history
<1>7. ASSUME Rewrite PROVE Outlast'
  BY <1>2, <1>3, <1>7 DEF Rewrite, Outlast, Repairing
<1>8. ASSUME SyncRepair PROVE Outlast'
  <2>1. /\ pc = "rewritten" /\ pc' = "open" /\ device' = {file}
        /\ UNCHANGED <<lines, acked, next>>
    BY <1>8 DEF SyncRepair
  <2>2. ~degraded
    BY <2>1 DEF JournalInv, Mirror
  <2>3. Numbers(Good(file)) = lines
    BY <1>1, <2>1, <2>2, GoodWhole DEF JournalInv, Mirror
  <2> QED
    BY <1>3, <2>1, <2>3 DEF Outlast
<1>9. ASSUME Write \/ WriteFails PROVE Outlast'
  <2>1. /\ pc = "open" /\ ~degraded /\ next < MaxAppends
        /\ next' = next + 1 /\ UNCHANGED <<lines, acked>>
        /\ device' \subseteq device \cup {Append(file, Line(next', "whole"))} \cup CutOff(file, next')
    BY <1>1, <1>9 DEF Write, WriteFails
  <2>2. file = Whole(lines) /\ next + 1 \in Numbering
    BY <1>1, <2>1, JournalAssumption DEF JournalInv, Mirror, Numbering
  <2>3. Record(lines, acked, next + 1) /\ Record(Append(lines, next + 1), acked, next + 1)
    BY <1>1, <1>3, <2>1, <2>2, RecordGrows, RecordAppend
  <2>4. ASSUME NEW c \in device PROVE Record(Numbers(Good(c)), acked, next + 1)
    <3>1. Numbers(Good(c)) \in Seq(Numbering)
      BY <1>1, GoodOK, NumbersOK
    <3>2. Record(Numbers(Good(c)), acked, next)
      BY <1>3, <2>1 DEF Repairing
    <3> QED
      BY <1>1, <3>1, <3>2, RecordGrows
  <2>5. ASSUME NEW c \in CutOff(file, next + 1) PROVE Numbers(Good(c)) = lines
    <3>1. Good(c) = Whole(lines)
      BY <1>1, <2>2, PartlyOK
    <3> QED
      BY <1>1, <3>1, WholeOK
  <2>6. Numbers(Good(Append(file, Line(next + 1, "whole")))) = Append(lines, next + 1)
    <3>1. Append(file, Line(next + 1, "whole")) = Whole(Append(lines, next + 1))
      BY <1>1, <2>2, AppendOK DEF Forms
    <3>2. Append(lines, next + 1) \in Seq(Numbering)
      BY <1>1, <2>2, AppendProperties
    <3> QED
      BY <3>1, <3>2, GoodWhole
  <2>7. \A c \in device' : Record(Numbers(Good(c)), acked, next + 1)
    BY <2>1, <2>3, <2>4, <2>5, <2>6
  <2> QED
    BY <2>1, <2>3, <2>7 DEF Outlast
<1>10. ASSUME Sync PROVE Outlast'
  <2>1. /\ pc = "written" /\ device' = {file} /\ lines' = Append(lines, next)
        /\ acked' = acked \cup {next} /\ next' = next
    BY <1>10 DEF Sync
  <2>2. next \in Numbering /\ file = Append(Whole(lines), Line(next, "whole"))
    BY <1>1, <2>1 DEF JournalInv, Mirror, JournalTypeOK, Numbering
  <2>3. /\ Append(lines, next) \in Seq(Numbering)
        /\ Len(lines) + 1 \in 1..Len(Append(lines, next))
        /\ Append(lines, next)[Len(lines) + 1] = next
    BY <1>1, <2>2, AppendProperties, LenProperties
  <2>4. Numbers(Good(file)) = Append(lines, next)
    BY <1>1, <2>2, <2>3, AppendOK, GoodWhole DEF Forms
  <2>5. Record(Append(lines, next), acked, next)
    BY <1>1, <1>3, <2>1, <2>4 DEF Repairing
  <2>6. next \in ToSet(Append(lines, next))
    BY <2>3, LenProperties DEF ToSet
  <2>7. Record(Append(lines, next), acked \cup {next}, next)
    BY <2>5, <2>6 DEF Record
  <2> QED
    BY <2>1, <2>4, <2>7 DEF Outlast
<1>11. ASSUME SyncFails PROVE Outlast'
  BY <1>3, <1>11 DEF SyncFails, Outlast, Repairing, history
<1>12. ASSUME Crash PROVE Outlast'
  <2>1. /\ pc' = "down" /\ UNCHANGED <<acked, next>>
        /\ device' \subseteq device
    BY <1>1, <1>12 DEF Crash
  <2> QED
    BY <1>2, <1>3, <1>12, <2>1 DEF Outlast
<1>13. ASSUME UNCHANGED journalVars PROVE Outlast'
  BY <1>3, <1>13 DEF journalVars, history, Outlast, Repairing
<1> QED
  BY <1>4, <1>5, <1>6, <1>7, <1>8, <1>9, <1>10, <1>11, <1>12, <1>13 DEF JournalNext

(* A line whose Append returned nil outlasts every crash and every repair,   *)
(* in its place, for any number of them, as long as none of them hits the    *)
(* rewriting of the file (truncateAndSync, Append).                          *)
THEOREM AckedOutlastRepairsHolds == JournalSpec => []AckedOutlastRepairs
<1>1. Outlast => AckedOutlastRepairs
  BY DEF Outlast, AckedOutlastRepairs, Kept, Listed, Record
<1> QED
  BY <1>1, JournalInvInit, JournalInvStep, OutlastInit, OutlastStep, PTL DEF JournalSpec
=============================================================================
