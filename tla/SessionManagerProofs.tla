------------------------ MODULE SessionManagerProofs ------------------------
(***************************************************************************)
(* What holds of SessionManager for any set of sessions and providers, any *)
(* cap and any bound: who owns a slot, that Close settles every            *)
(* submission, that a retired token never comes back, that the manager     *)
(* implements SessionLifecycle, that the audit is the order of arrival and *)
(* that it shows one turn at a time.                                       *)
(***************************************************************************)
EXTENDS SessionManager, FiniteSetTheorems, SequenceTheorems, WellFoundedInduction, TLAPS

(* The part of TypeOK that the invariants below need. *)
Tokens == Token("submit") \cup Token("end") \cup Token("reset")
Shape ==
  /\ slots \in [WSIDs -> SlotRecord]
  /\ closed \in BOOLEAN
  /\ arrived \in [WSIDs -> Nat]
  /\ issued \in [WSIDs -> SUBSET Tokens]

(* Sequence numbers run ahead of every token handed out.  A removed slot has *)
(* forgotten its counters, and hands out nothing any more.                   *)
Ahead(s, toks) ==
  \A t \in toks : /\ t.kind = "submit" => t.seq <= s.seq
                  /\ t.kind = "end" => t.seq <= s.endSeq
                  /\ t.kind = "reset" => t.seq <= s.resetSeq
TokensBehind ==
  \A w \in WSIDs : /\ slots[w].stage # "gone" => Ahead(slots[w], issued[w])
                   /\ slots[w].stage = "free" => issued[w] = {}

Inv == Shape /\ Ownership /\ ClosedIsSettled /\ TokensBehind

-----------------------------------------------------------------------------
(* The empty slot, and the slots that are made from it. *)
LEMMA EmptySlotOK ==
  /\ EmptySlot \in SlotRecord
  /\ SlotOwned(EmptySlot)
  /\ EmptySlot.stage = "free"
<1>1. None \in Token_("submit") /\ None \in Token_("end") /\ None \in Token_("reset")
  BY DEF Token_
<1>2. "idle" \in Phases /\ "free" \in Stages
  BY DEF Phases, Stages
<1>3. EmptySlot \in SlotRecord
  BY <1>1, <1>2, EmptySeq DEF SlotRecord, EmptySlot
<1> QED
  BY <1>3 DEF EmptySlot, SlotRecord, SlotOwned, SubmissionOwner, EndOwner, ResetOwner,
     QueueOwner, Uncommitted

LEMMA NewSlotOK ==
  ASSUME NEW st \in Stages, NEW p \in Providers \cup {""}
  PROVE  /\ NewSlot(st, p) \in SlotRecord
         /\ SlotOwned(NewSlot(st, p))
         /\ NewSlot(st, p).stage = st /\ NewSlot(st, p).provider = p
         /\ NewSlot(st, p).submitting = None /\ NewSlot(st, p).endTok = None
         /\ NewSlot(st, p).resetTok = None
         /\ NewSlot(st, p).buf = <<>>
<1> DEFINE e == NewSlot(st, p)
<1>1. e \in SlotRecord
  BY EmptySlotOK DEF SlotRecord, NewSlot
<1>2. /\ e.stage = st /\ e.provider = p /\ e.phase = "idle" /\ ~e.fromNew /\ ~e.frozen
      /\ e.buf = <<>> /\ e.submitting = None /\ e.endTok = None /\ e.resetTok = None
  BY EmptySlotOK DEF EmptySlot, SlotRecord, NewSlot
<1>3. SlotOwned(e)
  BY <1>2 DEF SlotOwned, SubmissionOwner, EndOwner, ResetOwner, QueueOwner, Uncommitted
<1> QED
  BY <1>1, <1>2, <1>3

-----------------------------------------------------------------------------
(* A call replaces one slot and perhaps adds a token.  It keeps Inv if the   *)
(* new slot is well owned, settled when closed, and ahead of its tokens.     *)
Good(s, toks) ==
  /\ s \in SlotRecord
  /\ SlotOwned(s)
  /\ closed => s.submitting = None /\ s.buf = <<>>
  /\ s.stage # "gone" => Ahead(s, toks)
  /\ s.stage # "free"

LEMMA SlotStep ==
  ASSUME Inv, NEW w \in WSIDs, NEW s, NEW toks \in SUBSET Tokens,
         Good(s, toks), Put(w, s), UNCHANGED closed,
         issued' = [issued EXCEPT ![w] = toks],
         arrived' \in [WSIDs -> Nat]
  PROVE  Inv'
<1>1. /\ slots' \in [WSIDs -> SlotRecord]
      /\ slots'[w] = s
      /\ \A v \in WSIDs \ {w} : slots'[v] = slots[v]
  BY DEF Inv, Shape, Put, Good
<1>2. /\ issued' \in [WSIDs -> SUBSET Tokens]
      /\ issued'[w] = toks
      /\ \A v \in WSIDs \ {w} : issued'[v] = issued[v]
  BY DEF Inv, Shape
<1>3. Shape'
  BY <1>1, <1>2 DEF Inv, Shape
<1>4. Ownership'
  BY <1>1 DEF Inv, Ownership, Good
<1>5. ClosedIsSettled'
  BY <1>1 DEF Inv, ClosedIsSettled, Good
<1>6. TokensBehind'
  BY <1>1, <1>2 DEF Inv, TokensBehind, Good
<1> QED
  BY <1>3, <1>4, <1>5, <1>6 DEF Inv

(* The same for a call that hands out no token. *)
LEMMA QuietStep ==
  ASSUME Inv, NEW w \in WSIDs, NEW s,
         Good(s, issued[w]), Put(w, s), UNCHANGED <<closed, issued>>,
         arrived' \in [WSIDs -> Nat]
  PROVE  Inv'
<1>1. issued' = [issued EXCEPT ![w] = issued[w]] /\ issued[w] \in SUBSET Tokens
  BY DEF Inv, Shape
<1> QED
  BY <1>1, SlotStep

(* The same for a call that issues tok. *)
LEMMA IssueStep ==
  ASSUME Inv, NEW w \in WSIDs, NEW s, NEW tok \in Tokens,
         Good(s, issued[w] \cup {tok}), Put(w, s), Issue(w, tok),
         UNCHANGED <<closed, arrived>>
  PROVE  Inv'
<1>1. /\ issued' = [issued EXCEPT ![w] = issued[w] \cup {tok}]
      /\ issued[w] \cup {tok} \in SUBSET Tokens
      /\ arrived' \in [WSIDs -> Nat]
  BY DEF Inv, Shape, Issue
<1> QED
  BY <1>1, SlotStep

-----------------------------------------------------------------------------
(* One lemma per group of calls. *)
LEMMA RegistryInv ==
  ASSUME Inv, NEW w \in WSIDs, RegistryStep(w)
  PROVE  Inv'
<1>0. /\ slots[w] \in SlotRecord /\ SlotOwned(slots[w])
      /\ arrived \in [WSIDs -> Nat]
      /\ slots[w].stage # "gone" => Ahead(slots[w], issued[w])
      /\ slots[w].stage = "free" => issued[w] = {}
      /\ closed => slots[w].submitting = None /\ slots[w].buf = <<>>
  BY DEF Inv, Shape, Ownership, TokensBehind, ClosedIsSettled
<1>a. ASSUME NEW st \in {"reserved", "committed", "gone"}, NEW p \in Providers \cup {""},
             st # "gone" => issued[w] = {}
      PROVE  Good(NewSlot(st, p), issued[w])
  <2> DEFINE e == NewSlot(st, p)
  <2>1. st \in Stages
    BY DEF Stages
  <2>2. /\ e \in SlotRecord /\ SlotOwned(e) /\ e.stage = st
        /\ e.submitting = None /\ e.buf = <<>>
    BY <2>1, NewSlotOK
  <2>3. e.stage # "gone" => Ahead(e, issued[w])
    BY <1>a, <2>2 DEF Ahead
  <2>4. ASSUME NEW x, x = e PROVE Good(x, issued[w])
    <3> HIDE DEF e
    <3> QED
      BY <1>a, <2>2, <2>3, <2>4 DEF Good
  <2> QED
    BY <2>4
<1>1. ASSUME NEW p \in Providers, ReserveSession(w, p) PROVE Inv'
  BY <1>0, <1>1, <1>a, QuietStep DEF ReserveSession
<1>2. ASSUME NEW p \in Providers, RestoreDormant(w, p) PROVE Inv'
  BY <1>0, <1>2, <1>a, QuietStep DEF RestoreDormant
<1>3. ASSUME CommitCreate(w) PROVE Inv'
  <2> DEFINE s == [slots[w] EXCEPT !.stage = "committed"]
  <2>1. s \in SlotRecord
    BY <1>0 DEF SlotRecord, Stages
  <2>2. Good(s, issued[w])
    BY <1>0, <1>3, <2>1 DEF CommitCreate, Good, SlotOwned, SubmissionOwner, EndOwner,
       ResetOwner, QueueOwner, Uncommitted, Ahead, SlotRecord
  <2> QED
    BY <1>0, <1>3, <2>2, QuietStep DEF CommitCreate
<1>4. ASSUME AbortCreate(w) PROVE Inv'
  BY <1>0, <1>4, <1>a, QuietStep DEF AbortCreate
<1>5. ASSUME RemoveSession(w) PROVE Inv'
  BY <1>0, <1>5, <1>a, QuietStep DEF RemoveSession
<1>6. ASSUME FreezeTurns(w) PROVE Inv'
  <2> DEFINE s == [slots[w] EXCEPT !.frozen = TRUE]
  <2>1. s \in SlotRecord
    BY <1>0 DEF SlotRecord
  <2>2. Good(s, issued[w])
    BY <1>0, <1>6, <2>1 DEF FreezeTurns, CommittedSlot, Good, SlotOwned, SubmissionOwner, EndOwner,
       ResetOwner, QueueOwner, Uncommitted, Ahead, SlotRecord
  <2> QED
    BY <1>0, <1>6, <2>2, QuietStep DEF FreezeTurns
<1> QED
  BY <1>1, <1>2, <1>3, <1>4, <1>5, <1>6 DEF RegistryStep

(* A freshly issued token is a token, and not the nil pointer. *)
LEMMA FreshToken ==
  ASSUME NEW k, NEW g \in Nat, NEW q \in Nat
  PROVE  LET tok == [kind |-> k, gen |-> g, seq |-> q + 1] IN
         /\ tok \in Token(k) /\ tok # None
         /\ tok.kind = k /\ tok.gen = g /\ tok.seq = q + 1
<1> DEFINE tok == [kind |-> k, gen |-> g, seq |-> q + 1]
<1>1. tok.kind = k /\ tok.gen = g /\ tok.seq = q + 1
  OBVIOUS
<1>2. q + 1 \in Nat \ {0}
  OBVIOUS
<1>3. tok \in Token(k)
  BY <1>2 DEF Token
<1>4. tok # None
  <2>1. tok.seq # None.seq
    BY <1>1, <1>2 DEF None
  <2> QED
    BY <2>1
<1> QED
  BY <1>1, <1>3, <1>4

LEMMA CountersAreNumbers ==
  ASSUME NEW s \in SlotRecord
  PROVE  /\ s.gen \in Nat /\ s.gen + 1 \in Nat
         /\ s.seq \in Nat /\ s.seq + 1 \in Nat
         /\ s.sessionGen \in Nat
         /\ s.endSeq \in Nat /\ s.endSeq + 1 \in Nat
         /\ s.resetSeq \in Nat /\ s.resetSeq + 1 \in Nat
<1>1. /\ s.gen \in Nat /\ s.seq \in Nat /\ s.sessionGen \in Nat
      /\ s.endSeq \in Nat /\ s.resetSeq \in Nat
  BY DEF SlotRecord
<1> QED
  BY <1>1

LEMMA NextGenerationOK ==
  ASSUME NEW s \in SlotRecord
  PROVE  LET t == NextGeneration(s) IN
         /\ t \in SlotRecord
         /\ t.gen = s.gen + 1 /\ t.seq = s.seq /\ t.endSeq = s.endSeq
         /\ t.resetSeq = s.resetSeq /\ t.stage = s.stage /\ t.frozen = s.frozen
         /\ t.submitting = None /\ ~t.fromNew /\ t.phase = "idle"
         /\ t.endTok = None /\ t.resetTok = None /\ t.buf = <<>>
<1> DEFINE t == NextGeneration(s)
<1>1. "idle" \in Phases
  BY DEF Phases
<1>2. None \in Token_("submit") /\ None \in Token_("end") /\ None \in Token_("reset")
  BY DEF Token_
<1>3. s.gen + 1 \in Nat /\ <<>> \in Seq(Entry)
  BY CountersAreNumbers, EmptySeq
<1>4. t \in SlotRecord
  BY <1>1, <1>2, <1>3 DEF NextGeneration, SlotRecord
<1> QED
  BY <1>4 DEF NextGeneration, SlotRecord

(* Issuing a token with the next number keeps the counters ahead. *)
LEMMA AheadAfterIssue ==
  ASSUME NEW s \in SlotRecord, NEW u \in SlotRecord, NEW toks \in SUBSET Tokens,
         NEW tok \in Tokens, Ahead(s, toks), Ahead(u, {tok}),
         u.seq \in {s.seq, s.seq + 1}, u.endSeq \in {s.endSeq, s.endSeq + 1},
         u.resetSeq \in {s.resetSeq, s.resetSeq + 1}
  PROVE  Ahead(u, toks \cup {tok})
<1>1. /\ s.seq \in Nat /\ s.endSeq \in Nat /\ s.resetSeq \in Nat
      /\ s.seq <= u.seq /\ s.endSeq <= u.endSeq /\ s.resetSeq <= u.resetSeq
      /\ u.seq \in Nat /\ u.endSeq \in Nat /\ u.resetSeq \in Nat
  BY CountersAreNumbers
<1>2. \A t \in Tokens : t.seq \in Nat
  BY DEF Tokens, Token
<1>3. Ahead(u, toks)
  BY <1>1, <1>2 DEF Ahead
<1> QED
  BY <1>3 DEF Ahead

LEMMA SubmitInv ==
  ASSUME Inv, NEW w \in WSIDs, SubmitStep(w)
  PROVE  Inv'
<1> DEFINE s == slots[w]
<1>0. /\ slots[w] \in SlotRecord /\ SlotOwned(slots[w])
      /\ arrived \in [WSIDs -> Nat]
      /\ slots[w].stage # "gone" => Ahead(slots[w], issued[w])
      /\ closed => slots[w].submitting = None /\ slots[w].buf = <<>>
      /\ issued[w] \subseteq Tokens
  BY DEF Inv, Shape, Ownership, TokensBehind, ClosedIsSettled
<1>1. ASSUME NewSession(w) PROVE Inv'
  <2>1. Good(NextGeneration(s), issued[w])
    BY <1>0, <1>1, NextGenerationOK DEF NewSession, CommittedSlot, Good, SlotOwned,
       SubmissionOwner, EndOwner, ResetOwner, QueueOwner, Uncommitted, Ahead
  <2> QED
    BY <1>0, <1>1, <2>1, QuietStep DEF NewSession
<1>2. ASSUME BeginNewSessionSubmit(w) PROVE Inv'
  <2> DEFINE id == [kind |-> "submit", gen |-> s.gen + 1, seq |-> s.seq + 1]
             t == NextGeneration(s)
             u == [t EXCEPT !.seq = @ + 1, !.submitting = id,
                            !.fromNew = TRUE, !.phase = "starting", !.mark = arrived[w]]
  <2>0. s.gen \in Nat /\ s.gen + 1 \in Nat /\ s.seq \in Nat
    BY <1>0, CountersAreNumbers
  <2>1. /\ id \in Token("submit") /\ id # None /\ id.gen = s.gen + 1 /\ id.seq = s.seq + 1
        /\ id.kind = "submit"
    BY <2>0, FreshToken
  <2>2. u \in SlotRecord
    <3>1. t \in SlotRecord /\ t.seq + 1 \in Nat
      BY <1>0, NextGenerationOK, CountersAreNumbers
    <3>2. id \in Token_("submit") /\ "starting" \in Phases /\ arrived[w] \in Nat
      BY <1>0, <2>1 DEF Token_, Phases
    <3> QED
      BY <3>1, <3>2 DEF SlotRecord
  <2>3. Good(u, issued[w] \cup {id})
    <3>1. /\ u.seq = s.seq + 1 /\ u.endSeq = s.endSeq /\ u.resetSeq = s.resetSeq
          /\ u.gen = s.gen + 1 /\ u.stage = s.stage /\ u.submitting = id /\ u.fromNew
          /\ u.phase = "starting" /\ u.endTok = None /\ u.resetTok = None /\ u.buf = <<>>
      BY <1>0, <2>1, <2>2, NextGenerationOK DEF SlotRecord
    <3>2. Ahead(u, {id})
      BY <2>0, <2>1, <3>1 DEF Ahead
    <3>3. Ahead(u, issued[w] \cup {id})
      BY <1>0, <1>2, <2>1, <2>2, <3>1, <3>2, AheadAfterIssue DEF Tokens, BeginNewSessionSubmit, CommittedSlot
    <3>4. SlotOwned(u)
      BY <1>0, <1>2, <2>1, <3>1 DEF BeginNewSessionSubmit, CommittedSlot, SlotOwned, SubmissionOwner,
         EndOwner, ResetOwner, QueueOwner, Uncommitted
    <3> QED
      BY <1>2, <2>2, <3>1, <3>3, <3>4 DEF Good, BeginNewSessionSubmit, CommittedSlot
  <2> QED
    BY <1>0, <1>2, <2>1, <2>3, IssueStep DEF BeginNewSessionSubmit, Tokens
<1>3. ASSUME BeginSubmit(w) PROVE Inv'
  <2> DEFINE id == [kind |-> "submit", gen |-> s.gen, seq |-> s.seq + 1]
             u == [s EXCEPT !.seq = @ + 1, !.submitting = id, !.mark = arrived[w]]
  <2>0. s.gen \in Nat /\ s.gen + 1 \in Nat /\ s.seq \in Nat
    BY <1>0, CountersAreNumbers
  <2>1. /\ id \in Token("submit") /\ id # None /\ id.gen = s.gen /\ id.seq = s.seq + 1
        /\ id.kind = "submit"
    BY <2>0, FreshToken
  <2>2. u \in SlotRecord
    <3>1. s.seq + 1 \in Nat /\ id \in Token_("submit") /\ arrived[w] \in Nat
      BY <1>0, <2>1, CountersAreNumbers DEF Token_
    <3> QED
      BY <1>0, <3>1 DEF SlotRecord
  <2>3. Good(u, issued[w] \cup {id})
    <3>1. /\ u.seq = s.seq + 1 /\ u.endSeq = s.endSeq /\ u.resetSeq = s.resetSeq
          /\ u.gen = s.gen /\ u.stage = s.stage /\ u.submitting = id /\ u.fromNew = s.fromNew
          /\ u.phase = s.phase /\ u.endTok = s.endTok /\ u.resetTok = s.resetTok
          /\ u.sessionGen = s.sessionGen /\ u.buf = s.buf
      BY <1>0, <2>1, <2>2 DEF SlotRecord
    <3>2. Ahead(u, {id})
      BY <2>0, <2>1, <3>1 DEF Ahead
    <3>3. Ahead(u, issued[w] \cup {id})
      BY <1>0, <1>3, <2>1, <2>2, <3>1, <3>2, AheadAfterIssue DEF Tokens, BeginSubmit, CommittedSlot
    <3>4. SlotOwned(u)
      BY <1>0, <1>3, <2>1, <3>1 DEF BeginSubmit, CommittedSlot, SlotOwned, SubmissionOwner,
         EndOwner, ResetOwner, QueueOwner, Uncommitted
    <3> QED
      BY <1>3, <2>2, <3>1, <3>3, <3>4 DEF Good, BeginSubmit, CommittedSlot
  <2> QED
    BY <1>0, <1>3, <2>1, <2>3, IssueStep DEF BeginSubmit, Tokens
<1>4. ASSUME NEW id \in IssuedOf(w, "submit"), AcceptSubmit(w, id) PROVE Inv'
  <2> DEFINE t == [s EXCEPT !.submitting = None, !.fromNew = FALSE, !.buf = <<>>]
             u == IF s.fromNew THEN [t EXCEPT !.phase = "active", !.sessionGen = id.gen] ELSE t
  <2>1. t \in SlotRecord
    BY <1>0, EmptySeq DEF SlotRecord, Token_
  <2>2. id.gen = s.gen /\ s.gen \in Nat
    BY <1>0, <1>4 DEF AcceptSubmit, OwnsSubmission, SlotRecord
  <2>3. u \in SlotRecord
    BY <2>1, <2>2 DEF SlotRecord, Phases
  <2>4. Good(u, issued[w])
    BY <1>0, <1>4, <2>1, <2>2, <2>3 DEF AcceptSubmit, OwnsSubmission, CommittedSlot, Good,
       SlotOwned, SubmissionOwner, EndOwner, ResetOwner,
       QueueOwner, Uncommitted, Ahead, SlotRecord, None
  <2> QED
    BY <1>0, <1>4, <2>4, QuietStep DEF AcceptSubmit
<1>5. ASSUME NEW id \in IssuedOf(w, "submit"), RejectSubmit(w, id) PROVE Inv'
  <2> DEFINE t == [s EXCEPT !.submitting = None, !.fromNew = FALSE, !.buf = <<>>]
             u == IF s.fromNew THEN [t EXCEPT !.phase = "idle"] ELSE t
  <2>1. t \in SlotRecord
    BY <1>0, EmptySeq DEF SlotRecord, Token_
  <2>2. u \in SlotRecord
    BY <2>1 DEF SlotRecord, Phases
  <2>3. Good(u, issued[w])
    BY <1>0, <1>5, <2>1, <2>2 DEF RejectSubmit, OwnsSubmission, CommittedSlot, Good,
       SlotOwned, SubmissionOwner, EndOwner, ResetOwner,
       QueueOwner, Uncommitted, Ahead, SlotRecord, None
  <2> QED
    BY <1>0, <1>5, <2>3, QuietStep DEF RejectSubmit
<1> QED
  BY <1>1, <1>2, <1>3, <1>4, <1>5 DEF SubmitStep

LEMMA EndInv ==
  ASSUME Inv, NEW w \in WSIDs, EndStep(w)
  PROVE  Inv'
<1> DEFINE s == slots[w]
<1>0. /\ slots[w] \in SlotRecord /\ SlotOwned(slots[w])
      /\ arrived \in [WSIDs -> Nat]
      /\ slots[w].stage # "gone" => Ahead(slots[w], issued[w])
      /\ closed => slots[w].submitting = None /\ slots[w].buf = <<>>
      /\ issued[w] \subseteq Tokens
  BY DEF Inv, Shape, Ownership, TokensBehind, ClosedIsSettled
<1>1. ASSUME BeginEndSession(w) PROVE Inv'
  <2> DEFINE tok == [kind |-> "end", gen |-> s.sessionGen, seq |-> s.endSeq + 1]
             u == [s EXCEPT !.phase = "ending", !.endSeq = @ + 1, !.endTok = tok]
  <2>0. s.sessionGen \in Nat /\ s.endSeq \in Nat
    BY <1>0, CountersAreNumbers
  <2>1. tok \in Token("end") /\ tok # None /\ tok.seq = s.endSeq + 1 /\ tok.kind = "end"
    BY <2>0, FreshToken
  <2>2. u \in SlotRecord
    <3>1. s.endSeq + 1 \in Nat /\ tok \in Token_("end") /\ "ending" \in Phases
      BY <1>0, <2>1, CountersAreNumbers DEF Token_, Phases
    <3> QED
      BY <1>0, <3>1 DEF SlotRecord
  <2>3. Good(u, issued[w] \cup {tok})
    <3>1. /\ u.seq = s.seq /\ u.endSeq = s.endSeq + 1 /\ u.resetSeq = s.resetSeq
          /\ u.gen = s.gen /\ u.stage = s.stage /\ u.submitting = s.submitting
          /\ u.fromNew = s.fromNew /\ u.phase = "ending" /\ u.endTok = tok
          /\ u.resetTok = s.resetTok /\ u.sessionGen = s.sessionGen /\ u.buf = s.buf
      BY <1>0, <2>1, <2>2 DEF SlotRecord
    <3>2. Ahead(u, {tok})
      BY <2>0, <2>1, <3>1 DEF Ahead
    <3>3. Ahead(u, issued[w] \cup {tok})
      BY <1>0, <1>1, <2>1, <2>2, <3>1, <3>2, AheadAfterIssue DEF Tokens, BeginEndSession, CommittedSlot
    <3>4. SlotOwned(u)
      BY <1>0, <1>1, <2>1, <3>1 DEF BeginEndSession, CommittedSlot, SlotOwned, SubmissionOwner,
         EndOwner, ResetOwner, QueueOwner, Uncommitted
    <3> QED
      BY <1>1, <2>2, <3>1, <3>3, <3>4 DEF Good, BeginEndSession, CommittedSlot
  <2> QED
    BY <1>0, <1>1, <2>1, <2>3, IssueStep DEF BeginEndSession, Tokens
<1>2. ASSUME s.phase \in {"idle", "ending"}, s.stage = "committed", s.submitting = None,
             EnterReset(w)
      PROVE  Inv'
  <2> DEFINE tok == [kind |-> "reset", gen |-> s.gen, seq |-> s.resetSeq + 1]
             u == [s EXCEPT !.phase = "resetting", !.endTok = None,
                            !.resetSeq = @ + 1, !.resetTok = tok]
  <2>0. s.gen \in Nat /\ s.resetSeq \in Nat
    BY <1>0, CountersAreNumbers
  <2>1. /\ tok \in Token("reset") /\ tok # None /\ tok.gen = s.gen
        /\ tok.seq = s.resetSeq + 1 /\ tok.kind = "reset"
    BY <2>0, FreshToken
  <2>2. u \in SlotRecord
    <3>1. /\ s.resetSeq + 1 \in Nat /\ tok \in Token_("reset") /\ None \in Token_("end")
          /\ "resetting" \in Phases
      BY <1>0, <2>1, CountersAreNumbers DEF Token_, Phases
    <3> QED
      BY <1>0, <3>1 DEF SlotRecord
  <2>3. Good(u, issued[w] \cup {tok})
    <3>1. /\ u.seq = s.seq /\ u.endSeq = s.endSeq /\ u.resetSeq = s.resetSeq + 1
          /\ u.gen = s.gen /\ u.stage = s.stage /\ u.submitting = s.submitting
          /\ u.fromNew = s.fromNew /\ u.phase = "resetting" /\ u.endTok = None
          /\ u.resetTok = tok /\ u.buf = s.buf
      BY <1>0, <2>1, <2>2 DEF SlotRecord
    <3>2. Ahead(u, {tok})
      BY <2>0, <2>1, <3>1 DEF Ahead
    <3>3. Ahead(u, issued[w] \cup {tok})
      BY <1>0, <1>2, <2>1, <2>2, <3>1, <3>2, AheadAfterIssue DEF Tokens, CommittedSlot
    <3>4. SlotOwned(u)
      BY <1>0, <1>2, <2>1, <3>1 DEF CommittedSlot, SlotOwned, SubmissionOwner,
         EndOwner, ResetOwner, QueueOwner, Uncommitted
    <3> QED
      BY <1>0, <1>2, <2>2, <3>1, <3>3, <3>4 DEF Good
  <2> QED
    BY <1>0, <1>2, <2>1, <2>3, IssueStep DEF EnterReset, Tokens
<1>3. ASSUME BeginReset(w) PROVE Inv'
  BY <1>2, <1>3 DEF BeginReset, CommittedSlot
<1>4. ASSUME NEW t \in IssuedOf(w, "end"), FinishEndSessionIntoReset(w, t) PROVE Inv'
  BY <1>0, <1>2, <1>4 DEF FinishEndSessionIntoReset, EndingOwner, CommittedSlot, SlotOwned,
     SubmissionOwner
<1>5. ASSUME NEW ph \in {"idle", "active"}, s.phase = "ending", CommittedSlot(w)
      PROVE  Good([s EXCEPT !.phase = ph, !.endTok = None], issued[w])
  <2> DEFINE u == [s EXCEPT !.phase = ph, !.endTok = None]
  <2>1. u \in SlotRecord
    BY <1>0 DEF SlotRecord, Token_, Phases
  <2> QED
    BY <1>0, <1>5, <2>1 DEF CommittedSlot, Good,
       SlotOwned, SubmissionOwner, EndOwner, ResetOwner,
       QueueOwner, Uncommitted, Ahead, SlotRecord, None
<1>6. ASSUME NEW t \in IssuedOf(w, "end"), CancelEndSession(w, t) PROVE Inv'
  BY <1>0, <1>5, <1>6, QuietStep DEF CancelEndSession, EndingOwner
<1>7. ASSUME NEW t \in IssuedOf(w, "end"), FinishEndSession(w, t) PROVE Inv'
  BY <1>0, <1>5, <1>7, QuietStep DEF FinishEndSession, EndingOwner
<1>8. ASSUME NEW t \in IssuedOf(w, "reset"), FinishReset(w, t) PROVE Inv'
  <2> DEFINE u == [s EXCEPT !.phase = "idle", !.resetTok = None]
  <2>1. u \in SlotRecord
    BY <1>0 DEF SlotRecord, Token_, Phases
  <2>2. Good(u, issued[w])
    BY <1>0, <1>8, <2>1 DEF FinishReset, CommittedSlot, Good,
       SlotOwned, SubmissionOwner, EndOwner, ResetOwner,
       QueueOwner, Uncommitted, Ahead, SlotRecord, None
  <2> QED
    BY <1>0, <1>8, <2>2, QuietStep DEF FinishReset
<1> QED
  BY <1>1, <1>3, <1>4, <1>6, <1>7, <1>8 DEF EndStep

LEMMA EventInv ==
  ASSUME Inv, NEW w \in WSIDs, EventStep(w)
  PROVE  Inv'
<1> DEFINE s == slots[w]
<1>0. /\ slots[w] \in SlotRecord /\ SlotOwned(slots[w])
      /\ arrived \in [WSIDs -> Nat]
      /\ slots[w].stage # "gone" => Ahead(slots[w], issued[w])
      /\ closed => slots[w].submitting = None /\ slots[w].buf = <<>>
      /\ issued[w] \subseteq Tokens
  BY DEF Inv, Shape, Ownership, TokensBehind, ClosedIsSettled
<1>1. ASSUME NEW k \in Events \cup {"decision"}, QueueOrEmit(w, k) PROVE Inv'
  <2> DEFINE e == [kind |-> k, n |-> arrived[w] + 1]
             u == [s EXCEPT !.buf = Append(@, e)]
  <2>1. arrived' \in [WSIDs -> Nat] /\ UNCHANGED <<closed, issued>> /\ ~closed
    BY <1>0, <1>1 DEF QueueOrEmit
  <2>2. CASE s.submitting # None /\ Put(w, u)
    <3>0. arrived[w] + 1 \in Nat
      BY <1>0
    <3>1. e \in Entry /\ s.buf \in Seq(Entry)
      BY <1>0, <3>0 DEF Entry, SlotRecord
    <3>2. Append(s.buf, e) \in Seq(Entry)
      BY <3>1, AppendProperties
    <3>3. u \in SlotRecord
      BY <1>0, <3>2 DEF SlotRecord
    <3>4. Good(u, issued[w])
      BY <1>0, <1>1, <2>1, <2>2, <3>3 DEF QueueOrEmit, CommittedSlot, Good,
       SlotOwned, SubmissionOwner, EndOwner, ResetOwner,
       QueueOwner, Uncommitted, Ahead, SlotRecord, None
    <3> QED
      BY <2>1, <2>2, <3>4, QuietStep
  <2>3. CASE UNCHANGED slots
    BY <1>0, <2>1, <2>3 DEF Inv, Shape, Ownership, ClosedIsSettled, TokensBehind, Ahead
  <2> QED
    BY <1>1, <2>2, <2>3 DEF QueueOrEmit
<1> QED
  BY <1>1 DEF EventStep, Emit, EmitApprovalDecision

-----------------------------------------------------------------------------
(* Close aborts the submissions of all slots at once. *)
LEMMA CloseInv ==
  ASSUME Inv, Close
  PROVE  Inv'
<1>1. ASSUME NEW w \in WSIDs
      PROVE  /\ slots'[w] \in SlotRecord /\ SlotOwned(slots'[w])
             /\ slots'[w].submitting = None /\ slots'[w].buf = <<>>
             /\ slots'[w].stage = slots[w].stage
             /\ slots'[w].seq = slots[w].seq /\ slots'[w].endSeq = slots[w].endSeq
             /\ slots'[w].resetSeq = slots[w].resetSeq
  <2> DEFINE s == slots[w]
             u == [s EXCEPT !.submitting = None, !.fromNew = FALSE, !.buf = <<>>,
                            !.phase = IF @ = "starting" THEN "idle" ELSE @]
  <2>0. s \in SlotRecord /\ SlotOwned(s)
    BY DEF Inv, Shape, Ownership
  <2>1. slots'[w] = IF Interrupted(s) THEN u ELSE s
    BY DEF Close, AbortedSlot
  <2>2. CASE Interrupted(s)
    <3>1. "idle" \in Phases /\ None \in Token_("submit") /\ <<>> \in Seq(Entry)
      BY EmptySeq DEF Phases, Token_
    <3>2. u \in SlotRecord
      BY <2>0, <3>1 DEF SlotRecord
    <3>3. SlotOwned(u)
      BY <2>0, <2>2, <3>2 DEF Interrupted, SlotRecord, SlotOwned, SubmissionOwner, EndOwner,
         ResetOwner, QueueOwner, Uncommitted
    <3> QED
      BY <2>0, <2>1, <2>2, <3>2, <3>3 DEF SlotRecord
  <2>3. CASE ~Interrupted(s)
    BY <2>0, <2>1, <2>3 DEF Interrupted
  <2> QED
    BY <2>2, <2>3
<1>2. slots' \in [WSIDs -> SlotRecord]
  <2>1. slots' = [w \in WSIDs |-> slots'[w]]
    BY DEF Close
  <2> QED
    BY <1>1, <2>1
<1>3. closed' = TRUE /\ UNCHANGED <<arrived, issued>>
  BY DEF Close
<1>4. Shape'
  BY <1>2, <1>3 DEF Inv, Shape
<1>5. TokensBehind'
  BY <1>1, <1>3 DEF Inv, TokensBehind, Ahead
<1> QED
  BY <1>1, <1>4, <1>5 DEF Inv, Ownership, ClosedIsSettled

LEMMA InitInv == Init => Inv
<1> SUFFICES ASSUME Init PROVE Inv
  OBVIOUS
<1>1. EmptySlot \in SlotRecord /\ SlotOwned(EmptySlot) /\ EmptySlot.stage = "free"
  BY EmptySlotOK
<1>2. Shape
  BY <1>1 DEF Init, Shape
<1> QED
  BY <1>1, <1>2 DEF Init, Inv, Ownership, ClosedIsSettled, TokensBehind, Ahead

LEMMA StepInv == Inv /\ [Next]_vars => Inv'
<1>1. ASSUME Inv, NEW w \in WSIDs,
             RegistryStep(w) \/ SubmitStep(w) \/ EndStep(w) \/ EventStep(w)
      PROVE  Inv'
  BY <1>1, RegistryInv, SubmitInv, EndInv, EventInv
<1>2. Inv /\ Close => Inv'
  BY CloseInv
<1>3. Inv /\ UNCHANGED vars => Inv'
  BY DEF vars, Inv, Shape, Ownership, ClosedIsSettled, TokensBehind, Ahead
<1> QED
  BY <1>1, <1>2, <1>3 DEF Next

(* The inductive invariant behind the theorems of both proof modules. *)
THEOREM InvHolds == Spec => []Inv
BY InitInv, StepInv, PTL DEF Spec

(* One caller owns a slot at a time, and removing an idle slot loses nothing. *)
THEOREM OwnershipHolds == Spec => []Ownership
<1>1. Inv => Ownership
  BY DEF Inv
<1> QED
  BY <1>1, InvHolds, PTL

(* After Close no submission and no queue is left behind. *)
THEOREM ClosedIsSettledHolds == Spec => []ClosedIsSettled
<1>1. Inv => ClosedIsSettled
  BY DEF Inv
<1> QED
  BY <1>1, InvHolds, PTL

-----------------------------------------------------------------------------
(* A call leaves each of the three token places of a slot as it is or clears *)
(* it, or puts a token there that was never handed out before.               *)
Renews(w, x, toks) ==
  /\ x.submitting \in {slots[w].submitting, None} \cup toks
  /\ x.endTok \in {slots[w].endTok, None} \cup toks
  /\ x.resetTok \in {slots[w].resetTok, None} \cup toks
  /\ toks \cap issued[w] = {}

LEMMA RenewsSlot ==
  ASSUME Inv, NEW w \in WSIDs, NEW v \in WSIDs, NEW x, NEW toks,
         Put(v, x), Renews(v, x, toks)
  PROVE  (Outstanding(w)' \ Outstanding(w)) \cap issued[w] = {}
<1>1. slots \in [WSIDs -> SlotRecord]
  BY DEF Inv, Shape
<1>2. CASE w = v
  <2>1. slots'[w] = x
    BY <1>1, <1>2 DEF Put
  <2> QED
    BY <1>2, <2>1 DEF Outstanding, Renews
<1>3. CASE w # v
  BY <1>1, <1>3 DEF Put, Outstanding
<1> QED
  BY <1>2, <1>3

(* A number above the counter has not been handed out. *)
LEMMA UnissuedToken ==
  ASSUME Inv, NEW w \in WSIDs, slots[w].stage = "committed", NEW tok,
         \/ tok.kind = "submit" /\ tok.seq = slots[w].seq + 1
         \/ tok.kind = "end" /\ tok.seq = slots[w].endSeq + 1
         \/ tok.kind = "reset" /\ tok.seq = slots[w].resetSeq + 1
  PROVE  tok \notin issued[w]
<1>1. Ahead(slots[w], issued[w]) /\ slots[w] \in SlotRecord
  BY DEF Inv, TokensBehind, Shape
<1>2. /\ slots[w].seq \in Nat /\ slots[w].endSeq \in Nat /\ slots[w].resetSeq \in Nat
  BY <1>1, CountersAreNumbers
<1> QED
  BY <1>1, <1>2 DEF Ahead

LEMMA RegistryRenews ==
  ASSUME Inv, NEW w \in WSIDs, NEW v \in WSIDs, RegistryStep(v)
  PROVE  (Outstanding(w)' \ Outstanding(w)) \cap issued[w] = {}
<1>0. slots[v] \in SlotRecord
  BY DEF Inv, Shape
<1>1. ASSUME NEW st \in {"reserved", "committed", "gone"}, NEW p \in Providers \cup {""}
      PROVE  Renews(v, NewSlot(st, p), {})
  <2>1. st \in Stages
    BY DEF Stages
  <2>2. /\ NewSlot(st, p).submitting = None /\ NewSlot(st, p).endTok = None
        /\ NewSlot(st, p).resetTok = None
    BY <2>1, NewSlotOK
  <2> QED
    BY <2>2 DEF Renews
<1>2. ASSUME NEW p \in Providers, ReserveSession(v, p) \/ RestoreDormant(v, p)
      PROVE  (Outstanding(w)' \ Outstanding(w)) \cap issued[w] = {}
  BY <1>1, <1>2, RenewsSlot DEF ReserveSession, RestoreDormant
<1>3. CASE AbortCreate(v) \/ RemoveSession(v)
  BY <1>1, <1>3, RenewsSlot DEF AbortCreate, RemoveSession
<1>4. CASE CommitCreate(v)
  <2>1. Renews(v, [slots[v] EXCEPT !.stage = "committed"], {})
    BY <1>0 DEF Renews, SlotRecord
  <2> QED
    BY <1>4, <2>1, RenewsSlot DEF CommitCreate
<1>5. CASE FreezeTurns(v)
  <2>1. Renews(v, [slots[v] EXCEPT !.frozen = TRUE], {})
    BY <1>0 DEF Renews, SlotRecord
  <2> QED
    BY <1>5, <2>1, RenewsSlot DEF FreezeTurns
<1> QED
  BY <1>2, <1>3, <1>4, <1>5 DEF RegistryStep

LEMMA SubmitRenews ==
  ASSUME Inv, NEW w \in WSIDs, NEW v \in WSIDs, SubmitStep(v)
  PROVE  (Outstanding(w)' \ Outstanding(w)) \cap issued[w] = {}
<1> DEFINE s == slots[v]
           n == NextGeneration(s)
<1>0. s \in SlotRecord
  BY DEF Inv, Shape
<1>1. CASE NewSession(v)
  <2>1. Renews(v, n, {})
    BY <1>0, NextGenerationOK DEF Renews
  <2> QED
    BY <1>1, <2>1, RenewsSlot DEF NewSession
<1>2. CASE BeginNewSessionSubmit(v)
  <2> DEFINE id == [kind |-> "submit", gen |-> s.gen + 1, seq |-> s.seq + 1]
             u == [n EXCEPT !.seq = @ + 1, !.submitting = id,
                            !.fromNew = TRUE, !.phase = "starting", !.mark = arrived[v]]
  <2>1. id \notin issued[v]
    BY <1>2, UnissuedToken DEF BeginNewSessionSubmit, CommittedSlot
  <2>2. n \in SlotRecord /\ n.endTok = None /\ n.resetTok = None
    BY <1>0, NextGenerationOK
  <2>3. u.submitting = id /\ u.endTok = None /\ u.resetTok = None
    BY <2>2 DEF SlotRecord
  <2>4. Renews(v, u, {id})
    BY <2>1, <2>3 DEF Renews
  <2> QED
    BY <1>2, <2>4, RenewsSlot DEF BeginNewSessionSubmit
<1>3. CASE BeginSubmit(v)
  <2> DEFINE id == [kind |-> "submit", gen |-> s.gen, seq |-> s.seq + 1]
             u == [s EXCEPT !.seq = @ + 1, !.submitting = id, !.mark = arrived[v]]
  <2>1. id \notin issued[v]
    BY <1>3, UnissuedToken DEF BeginSubmit, CommittedSlot
  <2>2. u.submitting = id /\ u.endTok = s.endTok /\ u.resetTok = s.resetTok
    BY <1>0 DEF SlotRecord
  <2>3. Renews(v, u, {id})
    BY <2>1, <2>2 DEF Renews
  <2> QED
    BY <1>3, <2>3, RenewsSlot DEF BeginSubmit
<1>4. ASSUME NEW id \in IssuedOf(v, "submit"), AcceptSubmit(v, id) \/ RejectSubmit(v, id)
      PROVE  (Outstanding(w)' \ Outstanding(w)) \cap issued[w] = {}
  <2> DEFINE t == [s EXCEPT !.submitting = None, !.fromNew = FALSE, !.buf = <<>>]
  <2>1. t \in SlotRecord /\ t.submitting = None /\ t.endTok = s.endTok /\ t.resetTok = s.resetTok
    BY <1>0, EmptySeq DEF SlotRecord, Token_
  <2>2. ASSUME NEW x \in {t, [t EXCEPT !.phase = "active", !.sessionGen = id.gen],
                          [t EXCEPT !.phase = "idle"]}
        PROVE  Renews(v, x, {})
    BY <2>1, <2>2 DEF Renews, SlotRecord
  <2>3. PICK x \in {t, [t EXCEPT !.phase = "active", !.sessionGen = id.gen],
                     [t EXCEPT !.phase = "idle"]} : Put(v, x)
    BY <1>4 DEF AcceptSubmit, RejectSubmit
  <2> QED
    BY <2>2, <2>3, RenewsSlot
<1> QED
  BY <1>1, <1>2, <1>3, <1>4 DEF SubmitStep

LEMMA EndRenews ==
  ASSUME Inv, NEW w \in WSIDs, NEW v \in WSIDs, EndStep(v)
  PROVE  (Outstanding(w)' \ Outstanding(w)) \cap issued[w] = {}
<1> DEFINE s == slots[v]
<1>0. s \in SlotRecord
  BY DEF Inv, Shape
<1>1. CASE BeginEndSession(v)
  <2> DEFINE tok == [kind |-> "end", gen |-> s.sessionGen, seq |-> s.endSeq + 1]
             u == [s EXCEPT !.phase = "ending", !.endSeq = @ + 1, !.endTok = tok]
  <2>1. tok \notin issued[v]
    BY <1>1, UnissuedToken DEF BeginEndSession, CommittedSlot
  <2>2. u.submitting = s.submitting /\ u.endTok = tok /\ u.resetTok = s.resetTok
    BY <1>0 DEF SlotRecord
  <2>3. Renews(v, u, {tok})
    BY <2>1, <2>2 DEF Renews
  <2> QED
    BY <1>1, <2>3, RenewsSlot DEF BeginEndSession
<1>2. ASSUME s.stage = "committed", EnterReset(v)
      PROVE  (Outstanding(w)' \ Outstanding(w)) \cap issued[w] = {}
  <2> DEFINE tok == [kind |-> "reset", gen |-> s.gen, seq |-> s.resetSeq + 1]
             u == [s EXCEPT !.phase = "resetting", !.endTok = None,
                            !.resetSeq = @ + 1, !.resetTok = tok]
  <2>1. tok \notin issued[v]
    BY <1>2, UnissuedToken
  <2>2. u.submitting = s.submitting /\ u.endTok = None /\ u.resetTok = tok
    BY <1>0 DEF SlotRecord
  <2>3. Renews(v, u, {tok})
    BY <2>1, <2>2 DEF Renews
  <2> QED
    BY <1>2, <2>3, RenewsSlot DEF EnterReset
<1>3. CASE BeginReset(v)
  BY <1>2, <1>3 DEF BeginReset, CommittedSlot
<1>4. ASSUME NEW t \in IssuedOf(v, "end"), FinishEndSessionIntoReset(v, t)
      PROVE  (Outstanding(w)' \ Outstanding(w)) \cap issued[w] = {}
  BY <1>2, <1>4 DEF FinishEndSessionIntoReset, EndingOwner, CommittedSlot
<1>5. ASSUME NEW x \in {[s EXCEPT !.phase = "active", !.endTok = None],
                        [s EXCEPT !.phase = "idle", !.endTok = None],
                        [s EXCEPT !.phase = "idle", !.resetTok = None]}
      PROVE  Renews(v, x, {})
  BY <1>0, <1>5 DEF Renews, SlotRecord
<1>6. ASSUME NEW t, CancelEndSession(v, t) \/ FinishEndSession(v, t) \/ FinishReset(v, t)
      PROVE  (Outstanding(w)' \ Outstanding(w)) \cap issued[w] = {}
  BY <1>5, <1>6, RenewsSlot DEF CancelEndSession, FinishEndSession, FinishReset
<1> QED
  BY <1>1, <1>3, <1>4, <1>6 DEF EndStep

LEMMA EventRenews ==
  ASSUME Inv, NEW w \in WSIDs, NEW v \in WSIDs, EventStep(v)
  PROVE  (Outstanding(w)' \ Outstanding(w)) \cap issued[w] = {}
<1>0. slots[v] \in SlotRecord
  BY DEF Inv, Shape
<1>1. ASSUME NEW k, QueueOrEmit(v, k)
      PROVE  (Outstanding(w)' \ Outstanding(w)) \cap issued[w] = {}
  <2> DEFINE u == [slots[v] EXCEPT !.buf = Append(@, [kind |-> k, n |-> arrived[v] + 1])]
  <2>1. Renews(v, u, {})
    BY <1>0 DEF Renews, SlotRecord
  <2>2. CASE Put(v, u)
    BY <2>1, <2>2, RenewsSlot
  <2>3. CASE UNCHANGED slots
    BY <2>3 DEF Outstanding
  <2> QED
    BY <1>1, <2>2, <2>3 DEF QueueOrEmit
<1> QED
  BY <1>1 DEF EventStep, Emit, EmitApprovalDecision

(* No step makes a token valid again that was handed out and retired. *)
LEMMA RevivalStep ==
  ASSUME Inv, [Next]_vars, NEW w \in WSIDs
  PROVE  (Outstanding(w)' \ Outstanding(w)) \cap issued[w] = {}
<1>1. ASSUME NEW v \in WSIDs,
             RegistryStep(v) \/ SubmitStep(v) \/ EndStep(v) \/ EventStep(v)
      PROVE  (Outstanding(w)' \ Outstanding(w)) \cap issued[w] = {}
  BY <1>1, RegistryRenews, SubmitRenews, EndRenews, EventRenews
<1>2. CASE Close
  <2>1. slots[w] \in SlotRecord
    BY DEF Inv, Shape
  <2>2. slots'[w] = IF Interrupted(slots[w]) THEN AbortedSlot(slots[w]) ELSE slots[w]
    BY <1>2 DEF Close
  <2>3. /\ slots'[w].submitting \in {slots[w].submitting, None}
        /\ slots'[w].endTok = slots[w].endTok /\ slots'[w].resetTok = slots[w].resetTok
    BY <2>1, <2>2 DEF AbortedSlot, SlotRecord
  <2> QED
    BY <2>3 DEF Outstanding
<1>3. CASE UNCHANGED vars
  BY <1>3 DEF vars, Outstanding
<1> QED
  BY <1>1, <1>2, <1>3 DEF Next

(* A caller that lost its slot can never act on it again with its old token. *)
THEOREM NoTokenRevivalHolds == Spec => NoTokenRevival
<1>1. Inv /\ [Next]_vars =>
        [\A w \in WSIDs : (Outstanding(w)' \ Outstanding(w)) \cap issued[w] = {}]_vars
  BY RevivalStep
<1> QED
  BY <1>1, InvHolds, PTL DEF Spec, NoTokenRevival

-----------------------------------------------------------------------------
(* SessionManager implements SessionLifecycle, and from that: no provider     *)
(* exceeds its cap.  Also that a frozen session never starts another turn.    *)

(* The refinement mapping of Lifecycle. *)
Life == [w \in WSIDs |-> LifeOf(slots[w])]
Owner == [w \in WSIDs |-> slots[w].provider]

(* A slot outside the map holds nobody's place. *)
Vacant == \A w \in WSIDs : slots[w].stage \in {"free", "gone"} => slots[w].provider = ""

Places == {"free", "reserved", "idle", "starting", "active", "sending",
           "ending", "resetting", "gone"}

LEMMA LifeOfPlace ==
  ASSUME NEW s \in SlotRecord
  PROVE  /\ LifeOf(s) \in Places
         /\ s.stage = "committed" => LifeOf(s) \in Places \ {"free", "reserved", "gone"}
         /\ s.stage # "committed" => LifeOf(s) = s.stage
<1>1. s.stage \in Stages /\ s.phase \in Phases
  BY DEF SlotRecord
<1> QED
  BY <1>1 DEF LifeOf, Stages, Phases, Places

(* Replacing one slot replaces one entry of the mapping. *)
LEMMA PutMapped ==
  ASSUME Inv, NEW w \in WSIDs, NEW x, Put(w, x)
  PROVE  /\ Life' = [Life EXCEPT ![w] = LifeOf(x)]
         /\ Owner' = [Owner EXCEPT ![w] = x.provider]
         /\ slots'[w] = x
         /\ \A v \in WSIDs \ {w} : slots'[v] = slots[v]
<1>1. slots \in [WSIDs -> SlotRecord]
  BY DEF Inv, Shape
<1>2. /\ slots'[w] = x
      /\ \A v \in WSIDs \ {w} : slots'[v] = slots[v]
  BY <1>1 DEF Put
<1>3. Life' = [v \in WSIDs |-> LifeOf(slots'[v])] /\ Owner' = [v \in WSIDs |-> slots'[v].provider]
  BY DEF Life, Owner, LifeOf
<1>4. Life' = [Life EXCEPT ![w] = LifeOf(x)]
  BY <1>2, <1>3 DEF Life
<1>5. Owner' = [Owner EXCEPT ![w] = x.provider]
  BY <1>2, <1>3 DEF Owner
<1> QED
  BY <1>2, <1>4, <1>5

(* The four ways in which a slot moves, each an action of SessionLifecycle. *)
LEMMA CreateMapped ==
  ASSUME Inv, Vacant, ConstantsAssumption, NEW w \in WSIDs, NEW p \in Providers,
         NEW st \in {"reserved", "committed"}, ~closed, slots[w].stage = "free",
         Cardinality(Occupied(p)) < MaxSessions, Put(w, NewSlot(st, p)), UNCHANGED closed
  PROVE  Lifecycle!Next
<1> DEFINE x == NewSlot(st, p)
           to == IF st = "reserved" THEN "reserved" ELSE "idle"
<1>1. slots[w] \in SlotRecord
  BY DEF Inv, Shape
<1>2. /\ x.stage = st /\ x.provider = p /\ x.phase = "idle"
  BY EmptySlotOK DEF NewSlot, EmptySlot, SlotRecord
<1>3. LifeOf(x) = to
  BY <1>2 DEF LifeOf
<1>4. Life[w] = "free"
  BY <1>1, LifeOfPlace DEF Life
<1>c. Lifecycle!Cardinality(Occupied(p)) = Cardinality(Occupied(p))
  BY DEF Lifecycle!Cardinality, Cardinality
<1>5. Lifecycle!Place(p) = Occupied(p)
  <2>1. \A v \in WSIDs : slots[v].stage \in Stages
    BY DEF Inv, Shape, SlotRecord
  <2> QED
    BY <2>1 DEF Vacant, Occupied, Lifecycle!Place, ConstantsAssumption, Stages
<1>6. Life' = [Life EXCEPT ![w] = to] /\ Owner' = [Owner EXCEPT ![w] = p]
  BY <1>2, <1>3, PutMapped
<1>7. Lifecycle!Create(w, p, to)
  BY <1>4, <1>5, <1>6, <1>c DEF Lifecycle!Create, Life, Owner
<1>8. to \in Lifecycle!Places
  BY DEF Lifecycle!Places
<1> QED
  BY <1>7, <1>8 DEF Lifecycle!Next, Lifecycle!SessionNext

LEMMA MoveMapped ==
  ASSUME Inv, NEW w \in WSIDs, NEW x, NEW to,
         Put(w, x), UNCHANGED closed, x.provider = slots[w].provider, LifeOf(x) = to,
         <<LifeOf(slots[w]), to>> \in Lifecycle!Arrows,
         closed => <<LifeOf(slots[w]), to>> \notin Lifecycle!Beginnings \cup Lifecycle!Settlements
  PROVE  Lifecycle!Next
<1>1. Life' = [Life EXCEPT ![w] = to]
  BY PutMapped
<1>2. Owner' = Owner
  BY PutMapped DEF Owner
<1>3. Lifecycle!Move(w, to)
  BY <1>1, <1>2 DEF Lifecycle!Move, Life, Owner
<1>4. to \in Lifecycle!Places
  BY DEF Lifecycle!Places, Lifecycle!Arrows
<1> QED
  BY <1>3, <1>4 DEF Lifecycle!Next, Lifecycle!SessionNext

LEMMA RenewMapped ==
  ASSUME Inv, NEW w \in WSIDs, NEW x, slots[w].stage = "committed",
         Put(w, x), UNCHANGED closed, x.provider = slots[w].provider, LifeOf(x) = "idle"
  PROVE  Lifecycle!Next
<1>1. Life' = [Life EXCEPT ![w] = "idle"]
  BY PutMapped
<1>2. Owner' = Owner
  <2>1. Owner' = [Owner EXCEPT ![w] = Owner[w]]
    BY PutMapped DEF Owner
  <2> QED
    BY <2>1 DEF Owner
<1>3. Life[w] \in Lifecycle!Holding \ {"reserved"}
  <2>1. slots[w] \in SlotRecord
    BY DEF Inv, Shape
  <2> QED
    BY <2>1, LifeOfPlace DEF Life, Lifecycle!Holding, Lifecycle!Places, Places
<1>4. Lifecycle!Renew(w)
  BY <1>1, <1>2, <1>3 DEF Lifecycle!Renew, Life, Owner
<1> QED
  BY <1>4 DEF Lifecycle!Next, Lifecycle!SessionNext

LEMMA ReleaseMapped ==
  ASSUME Inv, NEW w \in WSIDs, Put(w, NewSlot("gone", "")), UNCHANGED closed,
         \/ slots[w].stage = "reserved"
         \/ slots[w].stage = "committed" /\ LifeOf(slots[w]) = "idle" /\ ~closed
  PROVE  Lifecycle!Next
<1> DEFINE x == NewSlot("gone", "")
<1>1. x.stage = "gone" /\ x.provider = ""
  BY EmptySlotOK DEF NewSlot, EmptySlot, SlotRecord
<1>2. LifeOf(x) = "gone"
  BY <1>1 DEF LifeOf
<1>3. Life' = [Life EXCEPT ![w] = "gone"] /\ Owner' = [Owner EXCEPT ![w] = ""]
  BY <1>1, <1>2, PutMapped
<1>4. Life[w] = "reserved" \/ (Life[w] = "idle" /\ ~closed)
  BY DEF Life, LifeOf
<1>5. Lifecycle!Release(w)
  BY <1>3, <1>4 DEF Lifecycle!Release, Life, Owner
<1> QED
  BY <1>5 DEF Lifecycle!Next, Lifecycle!SessionNext

LEMMA StutterMapped ==
  ASSUME Inv, NEW w \in WSIDs, NEW x, Put(w, x), UNCHANGED closed,
         x.provider = slots[w].provider, LifeOf(x) = LifeOf(slots[w])
  PROVE  UNCHANGED Lifecycle!vars
<1>1. Life' = Life /\ Owner' = Owner
  BY PutMapped DEF Life, Owner
<1> QED
  BY <1>1 DEF Lifecycle!vars, Life, Owner

-----------------------------------------------------------------------------
(* One lemma per group of calls. *)
Simulated == Lifecycle!Next \/ UNCHANGED Lifecycle!vars

LEMMA RegistryMapped ==
  ASSUME Inv, Vacant, ConstantsAssumption, NEW w \in WSIDs, RegistryStep(w)
  PROVE  Simulated
<1>0. slots[w] \in SlotRecord /\ SlotOwned(slots[w])
  BY DEF Inv, Shape, Ownership
<1>1. ASSUME NEW p \in Providers, ReserveSession(w, p) \/ RestoreDormant(w, p)
      PROVE  Simulated
  BY <1>1, CreateMapped DEF ReserveSession, RestoreDormant, Simulated
<1>2. CASE CommitCreate(w)
  <2> DEFINE x == [slots[w] EXCEPT !.stage = "committed"]
  <2>1. /\ x.stage = "committed" /\ x.phase = slots[w].phase
        /\ x.submitting = slots[w].submitting /\ x.provider = slots[w].provider
    BY <1>0 DEF SlotRecord
  <2>2. LifeOf(slots[w]) = "reserved" /\ LifeOf(x) = "idle"
    BY <1>0, <1>2, <2>1 DEF CommitCreate, LifeOf, SlotOwned, Uncommitted
  <2> QED
    BY <1>2, <2>1, <2>2, MoveMapped DEF CommitCreate, Lifecycle!Arrows, Simulated
<1>3. CASE AbortCreate(w)
  BY <1>3, ReleaseMapped DEF AbortCreate, Simulated
<1>4. CASE RemoveSession(w)
  BY <1>4, ReleaseMapped DEF RemoveSession, CommittedSlot, LifeOf, Simulated
<1>5. CASE FreezeTurns(w)
  <2> DEFINE x == [slots[w] EXCEPT !.frozen = TRUE]
  <2>1. /\ x.stage = slots[w].stage /\ x.phase = slots[w].phase
        /\ x.submitting = slots[w].submitting /\ x.provider = slots[w].provider
    BY <1>0 DEF SlotRecord
  <2> QED
    BY <1>5, <2>1, StutterMapped DEF FreezeTurns, LifeOf, Simulated
<1> QED
  BY <1>1, <1>2, <1>3, <1>4, <1>5 DEF RegistryStep

LEMMA SubmitMapped ==
  ASSUME Inv, NEW w \in WSIDs, SubmitStep(w)
  PROVE  Simulated
<1> DEFINE s == slots[w]
           n == NextGeneration(s)
<1>0. s \in SlotRecord /\ SlotOwned(s)
  BY DEF Inv, Shape, Ownership
<1>n. /\ n \in SlotRecord /\ n.stage = s.stage /\ n.phase = "idle" /\ n.provider = s.provider
  <2>1. n.provider = s.provider
    BY <1>0 DEF NextGeneration, SlotRecord
  <2> QED
    BY <1>0, <2>1, NextGenerationOK
<1>1. CASE NewSession(w)
  <2>1. LifeOf(n) = "idle"
    BY <1>n, <1>1 DEF LifeOf, NewSession, CommittedSlot
  <2> QED
    BY <1>1, <1>n, <2>1, RenewMapped DEF NewSession, CommittedSlot, Simulated
<1>2. CASE BeginNewSessionSubmit(w)
  <2> DEFINE id == [kind |-> "submit", gen |-> s.gen + 1, seq |-> s.seq + 1]
             u == [n EXCEPT !.seq = @ + 1, !.submitting = id,
                            !.fromNew = TRUE, !.phase = "starting", !.mark = arrived[w]]
  <2>1. u.stage = s.stage /\ u.phase = "starting" /\ u.provider = s.provider
    BY <1>n DEF SlotRecord
  <2>2. LifeOf(s) = "idle" /\ LifeOf(u) = "starting"
    BY <1>2, <2>1 DEF BeginNewSessionSubmit, CommittedSlot, LifeOf
  <2>3. Put(w, u) /\ UNCHANGED closed /\ ~closed
    BY <1>2 DEF BeginNewSessionSubmit
  <2>4. ASSUME NEW x, x = u PROVE Simulated
    <3> HIDE DEF u
    <3> QED
      BY <2>1, <2>2, <2>3, <2>4, MoveMapped DEF Lifecycle!Arrows, Simulated
  <2> QED
    BY <2>4
<1>3. CASE BeginSubmit(w)
  <2> DEFINE id == [kind |-> "submit", gen |-> s.gen, seq |-> s.seq + 1]
             u == [s EXCEPT !.seq = @ + 1, !.submitting = id, !.mark = arrived[w]]
  <2>0. id # None
    BY <1>0, CountersAreNumbers, FreshToken
  <2>1. u.stage = s.stage /\ u.phase = s.phase /\ u.provider = s.provider /\ u.submitting = id
    BY <1>0 DEF SlotRecord
  <2>2. LifeOf(s) = "active" /\ LifeOf(u) = "sending"
    BY <1>3, <2>0, <2>1 DEF BeginSubmit, CommittedSlot, LifeOf
  <2>3. Put(w, u) /\ UNCHANGED closed /\ ~closed
    BY <1>3 DEF BeginSubmit
  <2>4. ASSUME NEW x, x = u PROVE Simulated
    <3> HIDE DEF u
    <3> QED
      BY <2>1, <2>2, <2>3, <2>4, MoveMapped DEF Lifecycle!Arrows, Simulated
  <2> QED
    BY <2>4
<1>4. ASSUME NEW id \in IssuedOf(w, "submit"), AcceptSubmit(w, id) \/ RejectSubmit(w, id)
      PROVE  Simulated
  <2> DEFINE t == [s EXCEPT !.submitting = None, !.fromNew = FALSE, !.buf = <<>>]
             a == [t EXCEPT !.phase = "active", !.sessionGen = id.gen]
             r == [t EXCEPT !.phase = "idle"]
  <2>1. /\ t \in SlotRecord /\ t.submitting = None /\ t.stage = s.stage
        /\ t.phase = s.phase /\ t.provider = s.provider
    BY <1>0, EmptySeq DEF SlotRecord, Token_
  <2>2. /\ a.submitting = None /\ a.stage = s.stage /\ a.phase = "active" /\ a.provider = s.provider
        /\ r.submitting = None /\ r.stage = s.stage /\ r.phase = "idle" /\ r.provider = s.provider
    BY <2>1 DEF SlotRecord
  <2>3. /\ ~closed /\ UNCHANGED closed /\ s.stage = "committed" /\ s.submitting # None
        /\ s.fromNew => Put(w, a) \/ Put(w, r)
        /\ ~s.fromNew => Put(w, t)
    BY <1>4 DEF AcceptSubmit, RejectSubmit, OwnsSubmission, CommittedSlot
  <2>4. CASE s.fromNew
    <3>1. LifeOf(s) = "starting" /\ LifeOf(a) = "active" /\ LifeOf(r) = "idle"
      BY <1>0, <2>2, <2>3, <2>4 DEF SlotOwned, SubmissionOwner, LifeOf
    <3>2. ASSUME NEW x \in {a, r}, Put(w, x) PROVE Simulated
      <4>1. x.provider = s.provider /\ <<LifeOf(s), LifeOf(x)>> \in Lifecycle!Arrows
        BY <2>2, <3>1, <3>2 DEF Lifecycle!Arrows
      <4> QED
        BY <2>3, <3>2, <4>1, MoveMapped DEF Simulated
    <3> QED
      BY <2>3, <2>4, <3>2
  <2>5. CASE ~s.fromNew
    <3>1. LifeOf(s) = "sending" /\ LifeOf(t) = "active"
      BY <1>0, <2>1, <2>3, <2>5 DEF SlotOwned, SubmissionOwner, LifeOf
    <3>2. t.provider = s.provider /\ <<LifeOf(s), LifeOf(t)>> \in Lifecycle!Arrows
      BY <2>1, <3>1 DEF Lifecycle!Arrows
    <3>3. Put(w, t)
      BY <2>3, <2>5
    <3> QED
      BY <2>3, <3>2, <3>3, MoveMapped DEF Simulated
  <2> QED
    BY <2>4, <2>5
<1> QED
  BY <1>1, <1>2, <1>3, <1>4 DEF SubmitStep

LEMMA EndMapped ==
  ASSUME Inv, NEW w \in WSIDs, EndStep(w)
  PROVE  Simulated
<1> DEFINE s == slots[w]
<1>0. s \in SlotRecord /\ SlotOwned(s)
  BY DEF Inv, Shape, Ownership
<1>1. ASSUME NEW x, x.stage = s.stage, x.provider = s.provider, x.submitting = None,
             Put(w, x), UNCHANGED closed, s.stage = "committed", s.submitting = None,
             <<s.phase, x.phase>> \in Lifecycle!Arrows,
             closed => <<s.phase, x.phase>> \notin Lifecycle!Beginnings \cup Lifecycle!Settlements
      PROVE  Simulated
  <2>1. LifeOf(s) = s.phase /\ LifeOf(x) = x.phase
    BY <1>1 DEF LifeOf
  <2> QED
    BY <1>1, <2>1, MoveMapped DEF Simulated
<1>2. CASE BeginEndSession(w)
  <2> DEFINE tok == [kind |-> "end", gen |-> s.sessionGen, seq |-> s.endSeq + 1]
             u == [s EXCEPT !.phase = "ending", !.endSeq = @ + 1, !.endTok = tok]
  <2>1. /\ u.stage = s.stage /\ u.provider = s.provider /\ u.submitting = s.submitting
        /\ u.phase = "ending"
    BY <1>0 DEF SlotRecord
  <2>2. /\ Put(w, u) /\ UNCHANGED closed /\ ~closed /\ s.stage = "committed"
        /\ s.phase = "active" /\ s.submitting = None
    BY <1>2 DEF BeginEndSession, CommittedSlot
  <2>3. <<"active", "ending">> \in Lifecycle!Arrows
    BY DEF Lifecycle!Arrows
  <2> HIDE DEF u
  <2> QED
    BY <1>1, <2>1, <2>2, <2>3
<1>3. ASSUME s.stage = "committed", s.submitting = None, EnterReset(w),
             <<s.phase, "resetting">> \in Lifecycle!Arrows,
             closed => s.phase = "ending"
      PROVE  Simulated
  <2> DEFINE tok == [kind |-> "reset", gen |-> s.gen, seq |-> s.resetSeq + 1]
             u == [s EXCEPT !.phase = "resetting", !.endTok = None,
                            !.resetSeq = @ + 1, !.resetTok = tok]
  <2>1. /\ u.stage = s.stage /\ u.provider = s.provider /\ u.submitting = s.submitting
        /\ u.phase = "resetting"
    BY <1>0 DEF SlotRecord
  <2>2. Put(w, u) /\ UNCHANGED closed
    BY <1>3 DEF EnterReset
  <2>3. <<"ending", "resetting">> \notin Lifecycle!Beginnings \cup Lifecycle!Settlements
    BY DEF Lifecycle!Beginnings, Lifecycle!Settlements
  <2> HIDE DEF u
  <2> QED
    BY <1>1, <1>3, <2>1, <2>2, <2>3
<1>4. CASE BeginReset(w)
  BY <1>3, <1>4 DEF BeginReset, CommittedSlot, Lifecycle!Arrows
<1>5. ASSUME NEW t, EndingOwner(w, t)
      PROVE  s.stage = "committed" /\ s.phase = "ending" /\ s.submitting = None
  BY <1>0, <1>5 DEF EndingOwner, CommittedSlot, SlotOwned, SubmissionOwner
<1>6. ASSUME NEW t, FinishEndSessionIntoReset(w, t) PROVE Simulated
  BY <1>3, <1>5, <1>6 DEF FinishEndSessionIntoReset, Lifecycle!Arrows
<1>7. ASSUME NEW to \in {"active", "idle"}, s.stage = "committed", s.phase = "ending",
             s.submitting = None, Put(w, [s EXCEPT !.phase = to, !.endTok = None]),
             UNCHANGED closed
      PROVE  Simulated
  <2> DEFINE u == [s EXCEPT !.phase = to, !.endTok = None]
  <2>1. /\ u.stage = s.stage /\ u.provider = s.provider /\ u.submitting = s.submitting
        /\ u.phase = to
    BY <1>0 DEF SlotRecord
  <2>2. /\ <<"ending", to>> \in Lifecycle!Arrows
        /\ <<"ending", to>> \notin Lifecycle!Beginnings \cup Lifecycle!Settlements
    BY DEF Lifecycle!Arrows, Lifecycle!Beginnings, Lifecycle!Settlements
  <2>3. Put(w, u)
    BY <1>7
  <2> HIDE DEF u
  <2> QED
    BY <1>1, <1>7, <2>1, <2>2, <2>3
<1>8. ASSUME NEW t, CancelEndSession(w, t) \/ FinishEndSession(w, t) PROVE Simulated
  BY <1>5, <1>7, <1>8 DEF CancelEndSession, FinishEndSession
<1>9. ASSUME NEW t, FinishReset(w, t) PROVE Simulated
  <2> DEFINE u == [s EXCEPT !.phase = "idle", !.resetTok = None]
  <2>1. /\ u.stage = s.stage /\ u.provider = s.provider /\ u.submitting = s.submitting
        /\ u.phase = "idle"
    BY <1>0 DEF SlotRecord
  <2>2. /\ <<"resetting", "idle">> \in Lifecycle!Arrows
        /\ <<"resetting", "idle">> \notin Lifecycle!Beginnings \cup Lifecycle!Settlements
    BY DEF Lifecycle!Arrows, Lifecycle!Beginnings, Lifecycle!Settlements
  <2>3. /\ Put(w, u) /\ UNCHANGED closed /\ s.stage = "committed" /\ s.phase = "resetting"
        /\ s.submitting = None
    BY <1>0, <1>9 DEF FinishReset, CommittedSlot, SlotOwned, SubmissionOwner
  <2> HIDE DEF u
  <2> QED
    BY <1>1, <2>1, <2>2, <2>3
<1> QED
  BY <1>2, <1>4, <1>6, <1>8, <1>9 DEF EndStep

LEMMA EventMapped ==
  ASSUME Inv, NEW w \in WSIDs, EventStep(w)
  PROVE  Simulated
<1>1. ASSUME NEW k, QueueOrEmit(w, k) PROVE Simulated
  <2> DEFINE u == [slots[w] EXCEPT !.buf = Append(@, [kind |-> k, n |-> arrived[w] + 1])]
  <2>0. slots[w] \in SlotRecord
    BY DEF Inv, Shape
  <2>1. /\ u.stage = slots[w].stage /\ u.provider = slots[w].provider
        /\ u.submitting = slots[w].submitting /\ u.phase = slots[w].phase
    BY <2>0 DEF SlotRecord
  <2>2. UNCHANGED closed /\ (Put(w, u) \/ UNCHANGED slots)
    BY <1>1 DEF QueueOrEmit
  <2>3. CASE Put(w, u)
    <3> HIDE DEF u
    <3>1. LifeOf(u) = LifeOf(slots[w])
      BY <2>1 DEF LifeOf
    <3> QED
      BY <2>1, <2>2, <2>3, <3>1, StutterMapped DEF Simulated
  <2>4. CASE UNCHANGED slots
    BY <2>2, <2>4 DEF Simulated, Lifecycle!vars, LifeOf
  <2> QED
    BY <2>2, <2>3, <2>4
<1> QED
  BY <1>1 DEF EventStep, Emit, EmitApprovalDecision

LEMMA CloseMapped ==
  ASSUME Inv, Close
  PROVE  Lifecycle!Next
<1>1. ASSUME NEW w \in WSIDs
      PROVE  /\ slots'[w].provider = slots[w].provider
             /\ LifeOf(slots'[w]) = CASE LifeOf(slots[w]) = "starting" -> "idle"
                                      [] LifeOf(slots[w]) = "sending" -> "active"
                                      [] OTHER -> LifeOf(slots[w])
  <2> DEFINE s == slots[w]
             a == AbortedSlot(s)
  <2>0. s \in SlotRecord /\ SlotOwned(s)
    BY DEF Inv, Shape, Ownership
  <2>1. slots'[w] = IF Interrupted(s) THEN a ELSE s
    BY DEF Close
  <2>2. /\ a.stage = s.stage /\ a.provider = s.provider /\ a.submitting = None
        /\ a.phase = IF s.phase = "starting" THEN "idle" ELSE s.phase
    BY <2>0 DEF AbortedSlot, SlotRecord
  <2>3. CASE Interrupted(s)
    <3>1. s.submitting # None /\ s.stage = "committed"
      BY <2>0, <2>3 DEF Interrupted, SlotOwned, QueueOwner, Uncommitted
    <3>2. s.phase \in {"starting", "active"}
      BY <2>0, <3>1 DEF SlotOwned, SubmissionOwner
    <3> HIDE DEF a
    <3> QED
      BY <2>1, <2>2, <2>3, <3>1, <3>2 DEF LifeOf
  <2>4. CASE ~Interrupted(s)
    <3>1. s.submitting = None /\ s.phase # "starting"
      BY <2>0, <2>4 DEF Interrupted, SlotOwned, SubmissionOwner
    <3>2. s.stage \in Stages /\ s.phase \in Phases
      BY <2>0 DEF SlotRecord
    <3>3. LifeOf(s) \notin {"starting", "sending"}
      BY <3>1, <3>2 DEF LifeOf, Stages, Phases
    <3> QED
      BY <2>1, <2>4, <3>3
  <2> QED
    BY <2>3, <2>4
<1>2. Life' = [w \in WSIDs |-> CASE Life[w] = "starting" -> "idle"
                                 [] Life[w] = "sending" -> "active"
                                 [] OTHER -> Life[w]]
  BY <1>1 DEF Life, LifeOf
<1>3. Owner' = Owner
  BY <1>1 DEF Owner
<1>4. Lifecycle!Shut
  BY <1>2, <1>3 DEF Lifecycle!Shut, Life, Owner, Close
<1> QED
  BY <1>4 DEF Lifecycle!Next

LEMMA StepSimulated ==
  ASSUME Inv, Vacant, [Next]_vars
  PROVE  Simulated
<1>1. ASSUME NEW w \in WSIDs,
             RegistryStep(w) \/ SubmitStep(w) \/ EndStep(w) \/ EventStep(w)
      PROVE  Simulated
  BY <1>1, ConstantsAssumption, RegistryMapped, SubmitMapped, EndMapped, EventMapped
<1>2. CASE Close
  BY <1>2, CloseMapped DEF Simulated
<1>3. CASE UNCHANGED vars
  BY <1>3 DEF vars, Simulated, Lifecycle!vars, LifeOf
<1> QED
  BY <1>1, <1>2, <1>3 DEF Next

-----------------------------------------------------------------------------
(* What the abstract steps keep: a place is held, by no more than the cap.   *)
LEMMA CapOfPart ==
  ASSUME NEW T, IsFiniteSet(T), NEW S \in SUBSET T, Cardinality(T) <= MaxSessions
  PROVE  Cardinality(S) <= MaxSessions
<1>1. MaxSessions \in Nat
  BY ConstantsAssumption DEF ConstantsAssumption
<1>2. /\ IsFiniteSet(S)
      /\ Cardinality(S) <= Cardinality(T)
  BY FS_Subset
<1>3. Cardinality(S) \in Nat /\ Cardinality(T) \in Nat
  BY <1>2, FS_CardinalityType
<1> QED
  BY <1>1, <1>2, <1>3

LEMMA CapOfOneMore ==
  ASSUME NEW T, IsFiniteSet(T), NEW x, Cardinality(T) < MaxSessions
  PROVE  Cardinality(T \cup {x}) <= MaxSessions
<1>1. MaxSessions \in Nat
  BY ConstantsAssumption DEF ConstantsAssumption
<1>2. Cardinality(T) \in Nat
  BY FS_CardinalityType
<1>3. Cardinality(T \cup {x}) \in {Cardinality(T), Cardinality(T) + 1}
  BY FS_AddElement
<1> QED
  BY <1>1, <1>2, <1>3

Holders(p) == {w \in WSIDs : slots[w].provider = p}
WithinCap == \A p \in Providers : Cardinality(Holders(p)) <= MaxSessions

LEMMA InitMapped ==
  ASSUME Init
  PROVE  Lifecycle!Init /\ Vacant /\ WithinCap
<1>1. \A w \in WSIDs : LifeOf(slots[w]) = "free" /\ slots[w].provider = ""
  BY DEF Init, EmptySlot, LifeOf
<1>2. \A p \in Providers : Holders(p) = {}
  BY <1>1, ConstantsAssumption DEF Holders, ConstantsAssumption
<1>3. WithinCap
  <2>1. MaxSessions \in Nat
    BY ConstantsAssumption DEF ConstantsAssumption
  <2>2. Cardinality({}) = 0
    BY FS_EmptySet
  <2>3. Cardinality({}) <= MaxSessions
    BY <2>1, <2>2
  <2> QED
    BY <1>2, <2>3 DEF WithinCap
<1>4. Lifecycle!Init
  BY <1>1 DEF Init, Lifecycle!Init
<1> QED
  BY <1>1, <1>3, <1>4 DEF Vacant

(* Where a slot is not committed, its stage is where the mapping puts it. *)
LEMMA VacantIsLife ==
  ASSUME Inv
  PROVE  Vacant <=> \A w \in WSIDs : Life[w] \in {"free", "gone"} => Owner[w] = ""
<1>1. \A w \in WSIDs : slots[w].stage \in {"free", "gone"} <=> Life[w] \in {"free", "gone"}
  <2> TAKE w \in WSIDs
  <2>1. slots[w] \in SlotRecord
    BY DEF Inv, Shape
  <2> QED
    BY <2>1, LifeOfPlace DEF Life, SlotRecord, Stages
<1> QED
  BY <1>1 DEF Vacant, Owner

(* One abstract step: who holds a place afterwards. *)
LEMMA AbstractStep ==
  ASSUME Inv, Inv', Vacant, WithinCap, Simulated
  PROVE  Vacant' /\ WithinCap'
<1>0. /\ \A w \in WSIDs : Life[w] \in {"free", "gone"} => Owner[w] = ""
      /\ Life \in [WSIDs -> Places]
  <2>1. \A w \in WSIDs : slots[w] \in SlotRecord
    BY DEF Inv, Shape
  <2> QED
    BY <2>1, VacantIsLife, LifeOfPlace DEF Life
<1>v. ASSUME \A w \in WSIDs : Life'[w] \in {"free", "gone"} => Owner'[w] = ""
      PROVE  Vacant'
  <2>1. (Vacant <=> \A w \in WSIDs : Life[w] \in {"free", "gone"} => Owner[w] = "")'
    <3>1. \A w \in WSIDs : slots'[w].stage \in {"free", "gone"} <=> Life'[w] \in {"free", "gone"}
      <4> TAKE w \in WSIDs
      <4>1. slots'[w] \in SlotRecord
        BY DEF Inv, Shape
      <4>2. Life'[w] = LifeOf(slots'[w])
        BY DEF Life, LifeOf
      <4> QED
        BY <4>1, <4>2, LifeOfPlace DEF SlotRecord, Stages
    <3> QED
      BY <3>1 DEF Vacant, Owner
  <2> QED
    BY <1>v, <2>1
<1>f. ASSUME NEW p \in Providers
      PROVE  IsFiniteSet(Holders(p)) /\ Cardinality(Holders(p)) <= MaxSessions
  <2>1. Holders(p) \in SUBSET WSIDs /\ IsFiniteSet(WSIDs)
    BY ConstantsAssumption DEF Holders, ConstantsAssumption
  <2> QED
    BY <2>1, FS_Subset DEF WithinCap
<1>c. ASSUME \A p \in Providers : Holders(p)' \subseteq Holders(p)
      PROVE  WithinCap'
  BY <1>c, <1>f, CapOfPart DEF WithinCap
<1>1. ASSUME NEW w \in WSIDs, NEW p \in Providers, NEW to, Lifecycle!Create(w, p, to)
      PROVE  Vacant' /\ WithinCap'
  <2>1. /\ Life' = [Life EXCEPT ![w] = to] /\ to \in {"reserved", "idle"}
        /\ Owner' = [Owner EXCEPT ![w] = p]
    BY <1>1 DEF Lifecycle!Create, Life, Owner
  <2>2. Vacant'
    BY <1>0, <1>v, <2>1 DEF Owner
  <2>3. Holders(p)' = Holders(p) \cup {w}
    BY <2>1 DEF Holders, Owner
  <2>4. \A q \in Providers \ {p} : Holders(q)' \subseteq Holders(q)
    BY <2>1 DEF Holders, Owner
  <2>5. Cardinality(Holders(p)) < MaxSessions
    <3>1. Lifecycle!Place(p) = Holders(p)
      BY DEF Lifecycle!Place, Holders
    <3>2. Lifecycle!Cardinality(Holders(p)) = Cardinality(Holders(p))
      BY DEF Lifecycle!Cardinality, Cardinality
    <3> QED
      BY <1>1, <3>1, <3>2 DEF Lifecycle!Create
  <2>6. Cardinality(Holders(p)') <= MaxSessions
    BY <1>f, <2>3, <2>5, CapOfOneMore
  <2>7. \A q \in Providers \ {p} : Cardinality(Holders(q)') <= MaxSessions
    BY <1>f, <2>4, CapOfPart
  <2> QED
    BY <2>2, <2>6, <2>7 DEF WithinCap
<1>2. ASSUME NEW w \in WSIDs, NEW to, Lifecycle!Move(w, to)
      PROVE  Vacant' /\ WithinCap'
  <2>1. /\ Life' = [Life EXCEPT ![w] = to] /\ Owner' = Owner
        /\ <<Life[w], to>> \in Lifecycle!Arrows
    BY <1>2 DEF Lifecycle!Move, Life, Owner
  <2>2. to \notin {"free", "gone"}
    BY <2>1 DEF Lifecycle!Arrows
  <2>3. Vacant'
    BY <1>0, <1>v, <2>1, <2>2
  <2> QED
    BY <1>c, <2>1, <2>3 DEF Holders, Owner
<1>3. ASSUME NEW w \in WSIDs, Lifecycle!Renew(w)
      PROVE  Vacant' /\ WithinCap'
  <2>1. Life' = [Life EXCEPT ![w] = "idle"] /\ Owner' = Owner
    BY <1>3 DEF Lifecycle!Renew, Life, Owner
  <2>2. Vacant'
    BY <1>0, <1>v, <2>1
  <2> QED
    BY <1>c, <2>1, <2>2 DEF Holders, Owner
<1>4. ASSUME NEW w \in WSIDs, Lifecycle!Release(w)
      PROVE  Vacant' /\ WithinCap'
  <2>1. Life' = [Life EXCEPT ![w] = "gone"] /\ Owner' = [Owner EXCEPT ![w] = ""]
    BY <1>4 DEF Lifecycle!Release, Life, Owner
  <2>2. Vacant'
    BY <1>0, <1>v, <2>1 DEF Owner
  <2> QED
    BY <1>c, <2>1, <2>2, ConstantsAssumption DEF Holders, Owner, ConstantsAssumption
<1>5. CASE Lifecycle!Shut
  <2>1. /\ Owner' = Owner
        /\ Life' = [w \in WSIDs |-> CASE Life[w] = "starting" -> "idle"
                                      [] Life[w] = "sending" -> "active"
                                      [] OTHER -> Life[w]]
    BY <1>5 DEF Lifecycle!Shut, Life, Owner
  <2>2. Vacant'
    BY <1>0, <1>v, <2>1
  <2> QED
    BY <1>c, <2>1, <2>2 DEF Holders, Owner
<1>6. CASE UNCHANGED Lifecycle!vars
  <2>1. Life' = Life /\ Owner' = Owner
    BY <1>6 DEF Lifecycle!vars, Life, Owner
  <2>2. Vacant'
    BY <1>0, <1>v, <2>1
  <2> QED
    BY <1>c, <2>1, <2>2 DEF Holders, Owner
<1> QED
  BY <1>1, <1>2, <1>3, <1>4, <1>5, <1>6 DEF Simulated, Lifecycle!Next, Lifecycle!SessionNext

-----------------------------------------------------------------------------
LEMMA MappedHolds == Spec => [](Inv /\ Vacant /\ WithinCap)
<1>1. Init => Vacant /\ WithinCap
  BY InitMapped
<1>2. Inv /\ Inv' /\ Vacant /\ WithinCap /\ [Next]_vars => (Vacant /\ WithinCap)'
  BY StepSimulated, AbstractStep
<1> QED
  BY <1>1, <1>2, InvHolds, PTL DEF Spec

(* Every behaviour of the manager follows the lifecycle drawn above type     *)
(* Manager, for any number of sessions, providers and places.                *)
THEOREM LifecycleHolds == Spec => LifecycleSpec
<1>1. Init => Lifecycle!Init
  BY InitMapped
<1>2. Inv /\ Vacant /\ [Next]_vars => [Lifecycle!Next]_(Lifecycle!vars)
  BY StepSimulated DEF Simulated
<1> QED
  BY <1>1, <1>2, MappedHolds, PTL DEF Spec, LifecycleSpec, Lifecycle!Spec

(* No interleaving of reservations, restores and commits exceeds the cap. *)
THEOREM SlotCapHolds == Spec => []SlotCap
<1>1. Inv /\ WithinCap => SlotCap
  <2> SUFFICES ASSUME WithinCap, NEW p \in Providers
               PROVE  Cardinality({w \in WSIDs : /\ slots[w].stage \in {"reserved", "committed"}
                                                 /\ slots[w].provider = p}) <= MaxSessions
    BY DEF SlotCap
  <2> DEFINE S == {w \in WSIDs : slots[w].stage \in {"reserved", "committed"} /\ slots[w].provider = p}
  <2>1. Holders(p) \in SUBSET WSIDs /\ IsFiniteSet(WSIDs)
    BY ConstantsAssumption DEF Holders, ConstantsAssumption
  <2>2. IsFiniteSet(Holders(p)) /\ Cardinality(Holders(p)) <= MaxSessions
    BY <2>1, FS_Subset DEF WithinCap
  <2>3. S \in SUBSET Holders(p)
    BY DEF Holders
  <2>4. Cardinality(S) <= MaxSessions
    <3> HIDE DEF S
    <3> QED
      BY <2>2, <2>3, CapOfPart
  <2> QED
    BY <2>4
<1> QED
  BY <1>1, MappedHolds, PTL

-----------------------------------------------------------------------------
(* A call of one slot: a frozen slot gets no submission and stays frozen. *)
Settled(w) ==
  slots[w].frozen => /\ IssuedOf(w, "submit")' = IssuedOf(w, "submit")
                     /\ slots'[w].frozen \/ slots'[w].stage = "gone"

LEMMA FrozenSlot ==
  ASSUME Inv, NEW w \in WSIDs, NEW v \in WSIDs, NEW x, NEW toks, Put(v, x),
         issued' = [issued EXCEPT ![v] = @ \cup toks],
         slots[v].frozen => /\ x.frozen \/ x.stage = "gone"
                            /\ \A t \in toks : t.kind # "submit"
  PROVE  Settled(w)
<1>1. slots \in [WSIDs -> SlotRecord] /\ issued \in [WSIDs -> SUBSET Tokens]
  BY DEF Inv, Shape
<1>2. CASE w = v
  <2>1. slots'[w] = x /\ issued'[w] = issued[w] \cup toks
    BY <1>1, <1>2 DEF Put
  <2>2. CASE slots[w].frozen
    <3>1. \A t \in toks : t.kind # "submit"
      BY <1>2, <2>2
    <3>2. {t \in issued'[w] : t.kind = "submit"} = {t \in issued[w] : t.kind = "submit"}
      BY <2>1, <3>1
    <3> QED
      BY <1>2, <2>1, <2>2, <3>2 DEF Settled, IssuedOf
  <2> QED
    BY <2>2 DEF Settled
<1>3. CASE w # v
  BY <1>1, <1>3 DEF Put, Settled, IssuedOf
<1> QED
  BY <1>2, <1>3

LEMMA FrozenStep ==
  ASSUME Inv, [Next]_vars, NEW w \in WSIDs
  PROVE  Settled(w)
<1>q. ASSUME NEW v \in WSIDs, NEW x, Put(v, x), UNCHANGED issued,
             slots[v].frozen => x.frozen \/ x.stage = "gone"
      PROVE  Settled(w)
  <2>1. issued' = [issued EXCEPT ![v] = @ \cup {}]
    BY <1>q DEF Inv, Shape
  <2> QED
    BY <1>q, <2>1, FrozenSlot
<1>1. ASSUME NEW v \in WSIDs, RegistryStep(v) PROVE Settled(w)
  <2>0. slots[v] \in SlotRecord /\ SlotOwned(slots[v])
    BY DEF Inv, Shape, Ownership
  <2>1. \A st, p : NewSlot(st, p).stage = st
    BY EmptySlotOK DEF NewSlot, SlotRecord
  <2>2. ASSUME NEW p \in Providers, ReserveSession(v, p) \/ RestoreDormant(v, p)
        PROVE  Settled(w)
    BY <1>q, <2>0, <2>2 DEF ReserveSession, RestoreDormant, SlotOwned, Uncommitted
  <2>3. CASE CommitCreate(v)
    BY <1>q, <2>0, <2>3 DEF CommitCreate, SlotOwned, Uncommitted
  <2>4. CASE AbortCreate(v) \/ RemoveSession(v)
    BY <1>q, <2>1, <2>4 DEF AbortCreate, RemoveSession
  <2>5. CASE FreezeTurns(v)
    <3>1. [slots[v] EXCEPT !.frozen = TRUE].frozen
      BY <2>0 DEF SlotRecord
    <3> QED
      BY <1>q, <2>5, <3>1 DEF FreezeTurns
  <2> QED
    BY <1>1, <2>2, <2>3, <2>4, <2>5 DEF RegistryStep
<1>2. ASSUME NEW v \in WSIDs, SubmitStep(v) PROVE Settled(w)
  <2> DEFINE s == slots[v]
  <2>0. s \in SlotRecord
    BY DEF Inv, Shape
  <2>1. CASE NewSession(v)
    <3>1. NextGeneration(s).frozen = s.frozen
      BY <2>0, NextGenerationOK
    <3> QED
      BY <1>q, <2>1, <3>1 DEF NewSession
  <2>2. CASE BeginNewSessionSubmit(v)
    <3>1. ~s.frozen /\ \E x, tok : Put(v, x) /\ Issue(v, tok)
      BY <2>2 DEF BeginNewSessionSubmit
    <3> QED
      BY <3>1, FrozenSlot DEF Issue
  <2>3. CASE BeginSubmit(v)
    <3>1. ~s.frozen /\ \E x, tok : Put(v, x) /\ Issue(v, tok)
      BY <2>3 DEF BeginSubmit
    <3> QED
      BY <3>1, FrozenSlot DEF Issue
  <2>4. ASSUME NEW id, AcceptSubmit(v, id) \/ RejectSubmit(v, id) PROVE Settled(w)
    <3> DEFINE t == [s EXCEPT !.submitting = None, !.fromNew = FALSE, !.buf = <<>>]
    <3>1. ASSUME NEW x \in {t, [t EXCEPT !.phase = "active", !.sessionGen = id.gen],
                            [t EXCEPT !.phase = "idle"]}
          PROVE  x.frozen = s.frozen
      BY <2>0, <3>1 DEF SlotRecord
    <3>2. PICK x \in {t, [t EXCEPT !.phase = "active", !.sessionGen = id.gen],
                       [t EXCEPT !.phase = "idle"]} : Put(v, x) /\ UNCHANGED issued
      BY <2>4 DEF AcceptSubmit, RejectSubmit
    <3> QED
      BY <1>q, <3>1, <3>2
  <2> QED
    BY <1>2, <2>1, <2>2, <2>3, <2>4 DEF SubmitStep
<1>3. ASSUME NEW v \in WSIDs, EndStep(v) PROVE Settled(w)
  <2> DEFINE s == slots[v]
  <2>0. s \in SlotRecord
    BY DEF Inv, Shape
  <2>1. CASE BeginEndSession(v)
    <3> DEFINE tok == [kind |-> "end", gen |-> s.sessionGen, seq |-> s.endSeq + 1]
               u == [s EXCEPT !.phase = "ending", !.endSeq = @ + 1, !.endTok = tok]
    <3>1. u.frozen = s.frozen /\ tok.kind # "submit"
      BY <2>0 DEF SlotRecord
    <3>2. Put(v, u) /\ Issue(v, tok)
      BY <2>1 DEF BeginEndSession
    <3> HIDE DEF u, tok
    <3> QED
      BY <3>1, <3>2, FrozenSlot DEF Issue
  <2>2. ASSUME EnterReset(v) PROVE Settled(w)
    <3> DEFINE tok == [kind |-> "reset", gen |-> s.gen, seq |-> s.resetSeq + 1]
               u == [s EXCEPT !.phase = "resetting", !.endTok = None,
                              !.resetSeq = @ + 1, !.resetTok = tok]
    <3>1. u.frozen = s.frozen /\ tok.kind # "submit"
      BY <2>0 DEF SlotRecord
    <3>2. Put(v, u) /\ Issue(v, tok)
      BY <2>2 DEF EnterReset
    <3> HIDE DEF u, tok
    <3> QED
      BY <3>1, <3>2, FrozenSlot DEF Issue
  <2>3. ASSUME NEW t, BeginReset(v) \/ FinishEndSessionIntoReset(v, t) PROVE Settled(w)
    BY <2>2, <2>3 DEF BeginReset, FinishEndSessionIntoReset
  <2>4. ASSUME NEW x \in {[s EXCEPT !.phase = "active", !.endTok = None],
                          [s EXCEPT !.phase = "idle", !.endTok = None],
                          [s EXCEPT !.phase = "idle", !.resetTok = None]}
        PROVE  x.frozen = s.frozen
    BY <2>0, <2>4 DEF SlotRecord
  <2>5. ASSUME NEW t, CancelEndSession(v, t) \/ FinishEndSession(v, t) \/ FinishReset(v, t)
        PROVE  Settled(w)
    BY <1>q, <2>4, <2>5 DEF CancelEndSession, FinishEndSession, FinishReset
  <2> QED
    BY <1>3, <2>1, <2>3, <2>5 DEF EndStep
<1>4. ASSUME NEW v \in WSIDs, EventStep(v) PROVE Settled(w)
  <2>1. ASSUME NEW k, QueueOrEmit(v, k) PROVE Settled(w)
    <3> DEFINE u == [slots[v] EXCEPT !.buf = Append(@, [kind |-> k, n |-> arrived[v] + 1])]
    <3>1. slots[v] \in SlotRecord
      BY DEF Inv, Shape
    <3>2. u.frozen = slots[v].frozen
      BY <3>1 DEF SlotRecord
    <3>3. UNCHANGED issued /\ (Put(v, u) \/ UNCHANGED slots)
      BY <2>1 DEF QueueOrEmit
    <3>4. CASE UNCHANGED slots
      BY <3>3, <3>4 DEF Settled, IssuedOf
    <3> HIDE DEF u
    <3> QED
      BY <1>q, <3>2, <3>3, <3>4
  <2> QED
    BY <1>4, <2>1 DEF EventStep, Emit, EmitApprovalDecision
<1>5. CASE Close
  <2>1. slots[w] \in SlotRecord
    BY DEF Inv, Shape
  <2>2. /\ slots'[w] = IF Interrupted(slots[w]) THEN AbortedSlot(slots[w]) ELSE slots[w]
        /\ UNCHANGED issued
    BY <1>5 DEF Close
  <2>3. slots'[w].frozen = slots[w].frozen
    BY <2>1, <2>2 DEF AbortedSlot, SlotRecord
  <2> QED
    BY <2>2, <2>3 DEF Settled, IssuedOf
<1>6. CASE UNCHANGED vars
  BY <1>6 DEF vars, Settled, IssuedOf
<1> QED
  BY <1>1, <1>2, <1>3, <1>4, <1>5, <1>6 DEF Next

(* A frozen session never starts another turn, whatever is called on it. *)
THEOREM FreezeIsFinalHolds == Spec => FreezeIsFinal
<1>1. Inv /\ [Next]_vars =>
        [\A w \in WSIDs :
           slots[w].frozen => /\ IssuedOf(w, "submit")' = IssuedOf(w, "submit")
                              /\ slots[w].frozen' \/ slots[w].stage' = "gone"]_vars
  BY FrozenStep DEF Settled
<1> QED
  BY <1>1, InvHolds, PTL DEF Spec, FreezeIsFinal
-----------------------------------------------------------------------------
(* The audit.  The two invariants about it are inductive only together with  *)
(* what ties the rows to the reducer: a user message of the current          *)
(* generation that nothing has closed keeps the reducer in flight, and while *)
(* a submission is pending there is none.                                    *)
Kinds == Events \cup {"decision"}

OpenTurns(rows, g) ==
  {i \in DOMAIN rows : /\ rows[i].what = "user" /\ rows[i].gen = g
                       /\ \A k \in (i + 1)..Len(rows) : rows[k].what \notin Closing}

(* The event rows are numbered 1..n, in order. *)
Ordered(rows, n) ==
  /\ {rows[i].n : i \in EventRows(rows)} = 1..n
  /\ \A i, j \in EventRows(rows) : i < j => rows[i].n < rows[j].n

OneTurn(rows) ==
  \A i, j \in DOMAIN rows :
    /\ i < j
    /\ rows[i].what = "user" /\ rows[j].what = "user"
    /\ rows[i].gen = rows[j].gen
    => \E k \in (i + 1)..(j - 1) : rows[k].what \in Closing

(* The audit of a session in generation g whose reducer says st. *)
Tied(rows, st, g) ==
  /\ \A i \in DOMAIN rows : rows[i].gen <= g
  /\ ~TurnInFlight(st) => OpenTurns(rows, g) = {}

LogOK(rows, st, g, n) ==
  /\ rows \in Seq(LogRow)
  /\ st \in States
  /\ Ordered(rows, n)
  /\ OneTurn(rows)
  /\ Tied(rows, st, g)

(* What the queue holds: the arrivals that the audit does not have yet. *)
Queued(s, n) ==
  /\ Len(s.buf) <= n
  /\ \A k \in DOMAIN s.buf : s.buf[k].n = (n - Len(s.buf)) + k

Audit(s, rows, st, n) ==
  /\ rows \in Seq(LogRow) /\ st \in States
  /\ Ordered(rows, n - Len(s.buf))
  /\ OneTurn(rows)
  /\ Queued(s, n)
  /\ s.stage \in {"free", "reserved"} => rows = <<>> /\ n = 0
  /\ s.stage = "committed" =>
       /\ Tied(rows, st, s.gen)
       /\ s.submitting # None => OpenTurns(rows, s.gen) = {}

AuditInv ==
  /\ log \in [WSIDs -> Seq(LogRow)]
  /\ reducer \in [WSIDs -> States]
  /\ \A w \in WSIDs : Audit(slots[w], log[w], reducer[w], arrived[w])

(* Induction over a bounded range, for a set of indices. *)
LEMMA UpTo ==
  ASSUME NEW n \in Nat, NEW S, 0 \in S,
         \A i \in 0..n : i \in S /\ i < n => i + 1 \in S
  PROVE  0..n \subseteq S
<1> SUFFICES ASSUME (0..n) \ S # {} PROVE FALSE
  OBVIOUS
<1> DEFINE cuts == {0..k : k \in (0..n) \ S}
<1>1. cuts \subseteq FiniteSubsetsOf(Nat) /\ cuts # {}
  <2>1. \A k \in (0..n) \ S : 0..k \in SUBSET Nat /\ IsFiniteSet(0..k)
    BY FS_Interval
  <2> QED
    BY <2>1 DEF FiniteSubsetsOf
<1>2. PICK c \in cuts : \A d \in cuts : <<d, c>> \notin StrictSubsetOrdering(Nat)
  <2> HIDE DEF cuts
  <2> QED
    BY <1>1, FS_StrictSubsetOrderingWellFounded, WFMin
<1>3. PICK x \in (0..n) \ S : c = 0..x
  OBVIOUS
<1>4. x # 0 /\ x - 1 \in 0..n /\ (x - 1) + 1 = x /\ x - 1 < n
  BY <1>3
<1>5. x - 1 \notin S
  BY <1>3, <1>4
<1>6. 0..(x - 1) \in cuts
  BY <1>4, <1>5
<1>7. 0..(x - 1) \subseteq 0..x /\ 0..(x - 1) # 0..x
  <2>1. x \in 0..x /\ x \notin 0..(x - 1)
    BY <1>3
  <2> QED
    BY <1>4, <2>1
<1>8. <<0..(x - 1), c>> \in StrictSubsetOrdering(Nat)
  <2>1. 0..(x - 1) \in SUBSET Nat /\ 0..x \in SUBSET Nat
    BY <1>4
  <2> QED
    BY <1>3, <1>7, <2>1 DEF StrictSubsetOrdering
<1> QED
  BY <1>2, <1>6, <1>8

(* One row more. *)
LEMMA AppendedRow ==
  ASSUME NEW rows \in Seq(LogRow), NEW r \in LogRow
  PROVE  /\ Append(rows, r) \in Seq(LogRow)
         /\ Len(rows) \in Nat /\ DOMAIN rows = 1..Len(rows)
         /\ Len(Append(rows, r)) = Len(rows) + 1
         /\ DOMAIN Append(rows, r) = 1..(Len(rows) + 1)
         /\ \A i \in 1..Len(rows) : Append(rows, r)[i] = rows[i] /\ rows[i] \in LogRow
         /\ Append(rows, r)[Len(rows) + 1] = r
<1>1. Len(rows) \in Nat /\ DOMAIN rows = 1..Len(rows)
  BY LenProperties
<1>2. \A i \in 1..Len(rows) : rows[i] \in LogRow
  BY ElementOfSeq
<1>3. Append(rows, r) \in Seq(LogRow) /\ Len(Append(rows, r)) = Len(rows) + 1
  BY AppendProperties
<1>4. DOMAIN Append(rows, r) = 1..(Len(rows) + 1)
  BY <1>3, LenProperties
<1> QED
  BY <1>1, <1>2, <1>3, <1>4, AppendProperties

(* A row keeps the pairs of user messages apart unless it is a user message, *)
(* and then too if no turn of its generation is open.                        *)
LEMMA RowKeepsOneTurn ==
  ASSUME NEW rows \in Seq(LogRow), NEW r \in LogRow, OneTurn(rows),
         r.what = "user" => OpenTurns(rows, r.gen) = {}
  PROVE  OneTurn(Append(rows, r))
<1> DEFINE m == Len(rows)
           more == Append(rows, r)
<1>1. /\ m \in Nat /\ DOMAIN rows = 1..m /\ DOMAIN more = 1..(m + 1)
      /\ \A i \in 1..m : more[i] = rows[i]
      /\ more[m + 1] = r
  BY AppendedRow
<1> HIDE DEF m, more
<1> SUFFICES ASSUME NEW i \in DOMAIN more, NEW j \in DOMAIN more, i < j,
                    more[i].what = "user", more[j].what = "user",
                    more[i].gen = more[j].gen
             PROVE  \E k \in (i + 1)..(j - 1) : more[k].what \in Closing
  BY DEF OneTurn, more
<1>2. i \in 1..m /\ more[i] = rows[i]
  BY <1>1
<1>3. CASE j \in 1..m
  <2>1. \E k \in (i + 1)..(j - 1) : rows[k].what \in Closing
    BY <1>1, <1>2, <1>3 DEF OneTurn
  <2>2. \A k \in (i + 1)..(j - 1) : k \in 1..m
    BY <1>1, <1>2, <1>3
  <2> QED
    BY <1>1, <2>1, <2>2
<1>4. CASE j = m + 1
  <2>1. i \notin OpenTurns(rows, r.gen)
    BY <1>1, <1>4
  <2>2. \E k \in (i + 1)..m : rows[k].what \in Closing
    BY <1>1, <1>2, <1>4, <2>1 DEF OpenTurns, m
  <2>3. \A k \in (i + 1)..m : k \in 1..m /\ k \in (i + 1)..(j - 1)
    BY <1>1, <1>2, <1>4
  <2> QED
    BY <1>1, <2>2, <2>3
<1> QED
  BY <1>1, <1>3, <1>4

(* No row but a user message of the generation opens a turn of it, and a     *)
(* closing row closes them all.                                              *)
LEMMA RowOpens ==
  ASSUME NEW rows \in Seq(LogRow), NEW r \in LogRow, NEW g,
         r.what # "user" \/ r.gen # g,
         r.what \in Closing \/ OpenTurns(rows, g) = {}
  PROVE  OpenTurns(Append(rows, r), g) = {}
<1> DEFINE m == Len(rows)
           more == Append(rows, r)
<1>1. /\ m \in Nat /\ DOMAIN rows = 1..m /\ DOMAIN more = 1..(m + 1) /\ Len(more) = m + 1
      /\ \A i \in 1..m : more[i] = rows[i]
      /\ more[m + 1] = r
  BY AppendedRow
<1> HIDE DEF more
<1> SUFFICES ASSUME NEW i \in DOMAIN more, more[i].what = "user", more[i].gen = g,
                    \A k \in (i + 1)..Len(more) : more[k].what \notin Closing
             PROVE  FALSE
  BY DEF OpenTurns, more
<1>2. i \in 1..m /\ more[i] = rows[i]
  BY <1>1
<1>3. m + 1 \in (i + 1)..Len(more)
  BY <1>1, <1>2
<1>4. r.what \notin Closing
  BY <1>1, <1>3
<1>5. \A k \in (i + 1)..m : k \in 1..m /\ k \in (i + 1)..Len(more)
  BY <1>1, <1>2
<1>6. i \in OpenTurns(rows, g)
  BY <1>1, <1>2, <1>5 DEF OpenTurns
<1> QED
  BY <1>4, <1>6

(* An event row takes the next number; the other rows have none. *)
LEMMA EventRowOrdered ==
  ASSUME NEW rows \in Seq(LogRow), NEW r \in LogRow, NEW n \in Nat, Ordered(rows, n),
         r.what \notin {"user", "state"}, r.n = n + 1
  PROVE  Ordered(Append(rows, r), n + 1)
<1> DEFINE m == Len(rows)
           more == Append(rows, r)
<1>1. /\ m \in Nat /\ DOMAIN rows = 1..m /\ DOMAIN more = 1..(m + 1)
      /\ \A i \in 1..m : more[i] = rows[i]
      /\ more[m + 1] = r
  BY AppendedRow
<1> HIDE DEF m, more
<1>2. EventRows(more) = EventRows(rows) \cup {m + 1}
  BY <1>1 DEF EventRows
<1>3. \A i \in EventRows(rows) : i \in 1..m /\ more[i] = rows[i] /\ rows[i].n \in 1..n
  BY <1>1 DEF EventRows, Ordered
<1>4. {more[i].n : i \in EventRows(more)} = {rows[i].n : i \in EventRows(rows)} \cup {n + 1}
  BY <1>1, <1>2, <1>3
<1>5. {more[i].n : i \in EventRows(more)} = 1..(n + 1)
  BY <1>4 DEF Ordered
<1>6. ASSUME NEW i \in EventRows(more), NEW j \in EventRows(more), i < j
      PROVE  more[i].n < more[j].n
  <2>1. i \in EventRows(rows)
    BY <1>1, <1>2, <1>3, <1>6
  <2>2. CASE j \in EventRows(rows)
    BY <1>3, <1>6, <2>1, <2>2 DEF Ordered
  <2>3. CASE j = m + 1
    <3>1. more[i].n \in 1..n
      BY <1>3, <2>1
    <3>2. more[j].n = n + 1
      BY <1>1, <2>3
    <3> QED
      BY <3>1, <3>2
  <2> QED
    BY <1>2, <2>2, <2>3
<1> QED
  BY <1>5, <1>6 DEF Ordered, more

LEMMA OtherRowOrdered ==
  ASSUME NEW rows \in Seq(LogRow), NEW r \in LogRow, NEW n, Ordered(rows, n),
         r.what \in {"user", "state"}
  PROVE  Ordered(Append(rows, r), n)
<1> DEFINE m == Len(rows)
           more == Append(rows, r)
<1>1. /\ m \in Nat /\ DOMAIN rows = 1..m /\ DOMAIN more = 1..(m + 1)
      /\ \A i \in 1..m : more[i] = rows[i]
      /\ more[m + 1] = r
  BY AppendedRow
<1> HIDE DEF m, more
<1>2. EventRows(more) = EventRows(rows)
  BY <1>1 DEF EventRows
<1>3. \A i \in EventRows(rows) : more[i] = rows[i]
  BY <1>1 DEF EventRows
<1> QED
  BY <1>2, <1>3 DEF Ordered, more

-----------------------------------------------------------------------------
(* What one entry of the queue adds to the audit. *)
LEMMA ReducerTargets ==
  ASSUME NEW st \in States, NEW k \in Kinds
  PROVE  LET to == IF k = "decision" THEN ResolveApproval(st) ELSE Apply(st, k) IN
         /\ to \in States
         /\ ~TurnInFlight(to) => k \in Closing \/ ~TurnInFlight(st)
<1>1. CASE k = "decision"
  BY <1>1 DEF ResolveApproval, TurnInFlight, States
<1>2. CASE k # "decision" /\ k \notin DOMAIN Target
  BY <1>2 DEF Apply
<1>3. CASE k # "decision" /\ k \in DOMAIN Target
  <2>1. k \in {"user", "assistant", "delta", "tool_use", "approval", "retry", "result",
               "result_error", "stream_error"}
    BY <1>3 DEF Target
  <2>2. /\ Target["user"] = "waiting" /\ Target["assistant"] = "streaming"
        /\ Target["delta"] = "streaming" /\ Target["tool_use"] = "tool_running"
        /\ Target["approval"] = "awaiting_approval" /\ Target["retry"] = "retrying"
        /\ Target["result"] = "done" /\ Target["result_error"] = "failed"
        /\ Target["stream_error"] = "failed"
    BY DEF Target
  <2>3. /\ Target[k] \in States
        /\ Target[k] \in {"done", "failed"} => k \in Closing
        /\ Target[k] # "idle"
    BY <2>1, <2>2 DEF States, Closing
  <2>4. Apply(st, k) = Target[k]
    BY <1>3 DEF Apply
  <2> QED
    BY <1>3, <2>3, <2>4 DEF TurnInFlight
<1> QED
  BY <1>1, <1>2, <1>3

(* The display row that follows when the reducer moved changes nothing else. *)
LEMMA DisplayRow ==
  ASSUME NEW rows, NEW st, NEW g \in Nat, NEW n, LogOK(rows, st, g, n)
  PROVE  LogOK(Append(rows, StateRow(g, st)), st, g, n)
<1> DEFINE r == StateRow(g, st)
<1>1. r \in LogRow /\ r.what = "state" /\ r.gen = g
  BY DEF StateRow, LogRow, LogOK
<1> HIDE DEF r
<1>2. Append(rows, r) \in Seq(LogRow)
  BY <1>1, AppendedRow DEF LogOK
<1>3. Ordered(Append(rows, r), n)
  BY <1>1, OtherRowOrdered DEF LogOK
<1>4. OneTurn(Append(rows, r))
  BY <1>1, RowKeepsOneTurn DEF LogOK
<1>5. ~TurnInFlight(st) => OpenTurns(Append(rows, r), g) = {}
  BY <1>1, RowOpens DEF LogOK, Tied
<1>6. \A i \in DOMAIN Append(rows, r) : Append(rows, r)[i].gen <= g
  BY <1>1, AppendedRow DEF LogOK, Tied
<1>7. LogOK(Append(rows, r), st, g, n)
  BY <1>2, <1>3, <1>4, <1>5, <1>6 DEF LogOK, Tied
<1> QED
  BY <1>7 DEF r

LEMMA ArrivalRow ==
  ASSUME NEW rows, NEW st, NEW g \in Nat, NEW n \in Nat, LogOK(rows, st, g, n),
         NEW e \in Entry, e.n = n + 1, NEW to \in States,
         ~TurnInFlight(to) => e.kind \in Closing \/ ~TurnInFlight(st)
  PROVE  LogOK(Append(rows, Row(g, e)), to, g, n + 1)
<1> DEFINE r == Row(g, e)
<1>1. r \in LogRow /\ r.what = e.kind /\ r.gen = g /\ r.n = n + 1
  BY DEF Row, LogRow, Entry
<1>2. r.what \notin {"user", "state"}
  BY <1>1, ConstantsAssumption DEF Entry
<1> HIDE DEF r
<1>3. Append(rows, r) \in Seq(LogRow)
  BY <1>1, AppendedRow DEF LogOK
<1>4. Ordered(Append(rows, r), n + 1)
  BY <1>1, <1>2, EventRowOrdered DEF LogOK
<1>5. OneTurn(Append(rows, r))
  BY <1>1, <1>2, RowKeepsOneTurn DEF LogOK
<1>6. ~TurnInFlight(to) => OpenTurns(Append(rows, r), g) = {}
  BY <1>1, <1>2, RowOpens DEF LogOK, Tied
<1>7. \A i \in DOMAIN Append(rows, r) : Append(rows, r)[i].gen <= g
  BY <1>1, AppendedRow DEF LogOK, Tied
<1>8. LogOK(Append(rows, r), to, g, n + 1)
  BY <1>3, <1>4, <1>5, <1>6, <1>7 DEF LogOK, Tied
<1> QED
  BY <1>8 DEF r

(* A user message may follow when no turn of its generation is open. *)
LEMMA UserRow ==
  ASSUME NEW rows, NEW st, NEW g \in Nat, NEW n, LogOK(rows, st, g, n),
         NEW e, e.kind = "user", e.n \in Nat, OpenTurns(rows, g) = {}
  PROVE  LogOK(Append(rows, Row(g, e)), "waiting", g, n)
<1> DEFINE r == Row(g, e)
<1>1. r \in LogRow /\ r.what = "user" /\ r.gen = g
  BY DEF Row, LogRow
<1> HIDE DEF r
<1>2. Append(rows, r) \in Seq(LogRow)
  BY <1>1, AppendedRow DEF LogOK
<1>3. Ordered(Append(rows, r), n)
  BY <1>1, OtherRowOrdered DEF LogOK
<1>4. OneTurn(Append(rows, r))
  BY <1>1, RowKeepsOneTurn DEF LogOK
<1>5. \A i \in DOMAIN Append(rows, r) : Append(rows, r)[i].gen <= g
  BY <1>1, AppendedRow DEF LogOK, Tied
<1>6. LogOK(Append(rows, r), "waiting", g, n)
  BY <1>2, <1>3, <1>4, <1>5 DEF LogOK, Tied, TurnInFlight, States
<1> QED
  BY <1>6 DEF r

(* EmitOne, whose rows come behind those that are there already. *)
Moved(acc, e) == IF e.kind = "decision" THEN ResolveApproval(acc.st) ELSE Apply(acc.st, e.kind)

LEMMA EmitOneRows ==
  ASSUME NEW base \in Seq(LogRow), NEW acc, acc.rows \in Seq(LogRow), NEW g \in Nat,
         NEW e, Row(g, e) \in LogRow, Moved(acc, e) \in States
  PROVE  /\ EmitOne(g, acc, e).st = Moved(acc, e)
         /\ EmitOne(g, acc, e).rows \in Seq(LogRow)
         /\ base \o EmitOne(g, acc, e).rows \in
              {Append(base \o acc.rows, Row(g, e)),
               Append(Append(base \o acc.rows, Row(g, e)), StateRow(g, Moved(acc, e)))}
<1> DEFINE r == Row(g, e)
           to == Moved(acc, e)
           s == StateRow(g, to)
           d == EmitOne(g, acc, e)
           tail == IF to # acc.st THEN <<s>> ELSE <<>>
<1>1. s \in LogRow
  BY DEF StateRow, LogRow
<1>2. d.st = to /\ d.rows = Append(acc.rows, r) \o tail
  BY DEF EmitOne, Moved
<1> HIDE DEF r, s, d, to
<1>3. r \in LogRow
  BY DEF r
<1>4. /\ Append(acc.rows, r) \in Seq(LogRow) /\ <<r>> \in Seq(LogRow) /\ <<s>> \in Seq(LogRow)
      /\ Append(acc.rows, r) = acc.rows \o <<r>>
      /\ base \o acc.rows \in Seq(LogRow)
  BY <1>1, <1>3, AppendProperties, AppendIsConcat, ConcatProperties
<1>5. base \o Append(acc.rows, r) = Append(base \o acc.rows, r)
  BY <1>3, <1>4, ConcatAssociative, AppendIsConcat
<1>6. Append(base \o acc.rows, r) \in Seq(LogRow)
  BY <1>3, <1>4, AppendProperties
<1>7. CASE to # acc.st
  <2>1. d.rows = Append(acc.rows, r) \o <<s>>
    BY <1>2, <1>7
  <2>2. base \o d.rows = (base \o Append(acc.rows, r)) \o <<s>>
    <3> DEFINE a == Append(acc.rows, r)
               z == <<s>>
    <3>1. a \in Seq(LogRow) /\ z \in Seq(LogRow)
      BY <1>4
    <3> HIDE DEF a, z
    <3>2. base \o (a \o z) = (base \o a) \o z
      BY <3>1, ConcatAssociative
    <3> QED
      BY <2>1, <3>2 DEF a, z
  <2>3. base \o d.rows = Append(Append(base \o acc.rows, r), s)
    BY <1>1, <1>5, <1>6, <2>2, AppendIsConcat
  <2>4. d.rows \in Seq(LogRow)
    BY <1>4, <2>1, ConcatProperties
  <2> QED
    BY <1>2, <1>7, <2>3, <2>4 DEF d, r, s, to
<1>8. CASE to = acc.st
  <2>1. d.rows = Append(acc.rows, r)
    BY <1>2, <1>4, <1>8, ConcatEmptySeq
  <2> QED
    BY <1>2, <1>4, <1>5, <1>8, <2>1 DEF d, r, s, to
<1> QED
  BY <1>7, <1>8

-----------------------------------------------------------------------------
(* EmitAll is a recursive function: it exists, and its value is that of the  *)
(* last of a sequence of EmitOne steps.                                      *)
IsEmission(f, w, es) ==
  f = [i \in 0..Len(es) |->
         IF i = 0 THEN [st |-> reducer[w], rows |-> <<>>]
         ELSE EmitOne(slots[w].gen, f[i - 1], es[i])]

LEMMA EmissionExists ==
  ASSUME NEW w, NEW es, Len(es) \in Nat
  PROVE  \E f : IsEmission(f, w, es)
<1> DEFINE n == Len(es)
           first == [st |-> reducer[w], rows |-> <<>>]
           then(x, i) == EmitOne(slots[w].gen, x, es[i])
           S == {k \in 0..n : \E f : f = [i \in 0..k |-> IF i = 0 THEN first ELSE then(f[i - 1], i)]}
<1> HIDE DEF n, first, then
<1>0. n \in Nat
  BY DEF n
<1>1. 0 \in S
  <2> DEFINE f == [i \in 0..0 |-> first]
  <2>1. f = [i \in 0..0 |-> IF i = 0 THEN first ELSE then(f[i - 1], i)]
    OBVIOUS
  <2> HIDE DEF f
  <2> QED
    BY <1>0, <2>1
<1>2. ASSUME NEW k \in 0..n, k \in S, k < n PROVE k + 1 \in S
  <2>1. PICK f : f = [i \in 0..k |-> IF i = 0 THEN first ELSE then(f[i - 1], i)]
    BY <1>2
  <2> DEFINE h == [i \in 0..(k + 1) |-> IF i <= k THEN f[i] ELSE then(f[k], k + 1)]
  <2>2. k \in Nat /\ k + 1 \in 0..n
    BY <1>0, <1>2
  <2>3. \A i \in 0..(k + 1) : h[i] = IF i = 0 THEN first ELSE then(h[i - 1], i)
    <3> SUFFICES ASSUME NEW i \in 0..(k + 1)
                 PROVE  h[i] = IF i = 0 THEN first ELSE then(h[i - 1], i)
      OBVIOUS
    <3>1. CASE i = 0
      BY <2>1, <2>2, <3>1
    <3>2. CASE i \in 1..k
      <4>1. h[i] = f[i] /\ h[i - 1] = f[i - 1]
        BY <2>2, <3>2
      <4> QED
        BY <2>1, <2>2, <3>2, <4>1
    <3>3. CASE i = k + 1
      <4>1. h[i] = then(f[k], k + 1) /\ h[i - 1] = f[k] /\ i # 0
        BY <2>2, <3>3
      <4> QED
        BY <3>3, <4>1
    <3> QED
      BY <2>2, <3>1, <3>2, <3>3
  <2>4. h = [i \in 0..(k + 1) |-> h[i]]
    OBVIOUS
  <2> HIDE DEF h
  <2>5. h = [i \in 0..(k + 1) |-> IF i = 0 THEN first ELSE then(h[i - 1], i)]
    BY <2>3, <2>4
  <2> QED
    BY <2>2, <2>5
<1>3. n \in S
  <2> HIDE DEF S
  <2>1. 0..n \subseteq S
    BY <1>0, <1>1, <1>2, UpTo
  <2> QED
    BY <1>0, <2>1
<1>4. PICK f : f = [i \in 0..n |-> IF i = 0 THEN first ELSE then(f[i - 1], i)]
  BY <1>3
<1>5. IsEmission(f, w, es)
  BY <1>4 DEF IsEmission, n, first, then
<1> QED
  BY <1>5

LEMMA EmitAllSteps ==
  ASSUME NEW w, NEW es, Len(es) \in Nat
  PROVE  \E f : /\ EmitAll(w, es) = f[Len(es)]
                /\ f[0] = [st |-> reducer[w], rows |-> <<>>]
                /\ \A i \in 1..Len(es) : f[i] = EmitOne(slots[w].gen, f[i - 1], es[i])
<1> DEFINE f == CHOOSE h : IsEmission(h, w, es)
<1>1. IsEmission(f, w, es)
  BY EmissionExists
<1>2. EmitAll(w, es) = f[Len(es)]
  BY DEF EmitAll, IsEmission
<1> HIDE DEF f
<1>3. f[0] = [st |-> reducer[w], rows |-> <<>>]
  BY <1>1 DEF IsEmission
<1>4. \A i \in 1..Len(es) : f[i] = EmitOne(slots[w].gen, f[i - 1], es[i])
  <2> SUFFICES ASSUME NEW i \in 1..Len(es)
               PROVE  f[i] = EmitOne(slots[w].gen, f[i - 1], es[i])
    OBVIOUS
  <2>1. i \in 0..Len(es) /\ i # 0
    OBVIOUS
  <2> QED
    BY <1>1, <2>1 DEF IsEmission
<1> QED
  BY <1>2, <1>3, <1>4

(* One arrival is one event row, and perhaps a display row. *)
LEMMA ArrivalStep ==
  ASSUME NEW base \in Seq(LogRow), NEW acc, acc.rows \in Seq(LogRow), NEW g \in Nat, NEW n \in Nat,
         LogOK(base \o acc.rows, acc.st, g, n), NEW e \in Entry, e.n = n + 1
  PROVE  /\ EmitOne(g, acc, e).rows \in Seq(LogRow)
         /\ LogOK(base \o EmitOne(g, acc, e).rows, EmitOne(g, acc, e).st, g, n + 1)
<1> DEFINE to == Moved(acc, e)
           d == EmitOne(g, acc, e)
           one == Append(base \o acc.rows, Row(g, e))
<1>1. acc.st \in States /\ e.kind \in Kinds
  BY DEF LogOK, Entry, Kinds
<1>2. to \in States /\ (~TurnInFlight(to) => e.kind \in Closing \/ ~TurnInFlight(acc.st))
  BY <1>1, ReducerTargets DEF Moved
<1>3. Row(g, e) \in LogRow
  BY DEF Row, LogRow, Entry
<1>4. /\ d.st = to
      /\ d.rows \in Seq(LogRow)
      /\ base \o d.rows \in {one, Append(one, StateRow(g, to))}
  BY <1>2, <1>3, EmitOneRows
<1>5. LogOK(one, to, g, n + 1)
  <2> HIDE DEF to
  <2> QED
    BY <1>2, ArrivalRow
<1> HIDE DEF to, one, d
<1>6. LogOK(Append(one, StateRow(g, to)), to, g, n + 1)
  BY <1>5, DisplayRow
<1>7. LogOK(base \o d.rows, d.st, g, n + 1)
  BY <1>4, <1>5, <1>6
<1> QED
  BY <1>4, <1>7 DEF d

(* The user's message comes first of all, when no turn is open. *)
LEMMA UserStep ==
  ASSUME NEW base \in Seq(LogRow), NEW acc, acc.rows \in Seq(LogRow), NEW g \in Nat, NEW n,
         LogOK(base \o acc.rows, acc.st, g, n), OpenTurns(base \o acc.rows, g) = {},
         NEW e, e.kind = "user", e.n \in Nat
  PROVE  /\ EmitOne(g, acc, e).rows \in Seq(LogRow)
         /\ LogOK(base \o EmitOne(g, acc, e).rows, EmitOne(g, acc, e).st, g, n)
<1> DEFINE to == Moved(acc, e)
           d == EmitOne(g, acc, e)
           one == Append(base \o acc.rows, Row(g, e))
<1>1. to = "waiting"
  BY DEF Apply, Target, Moved
<1>2. Row(g, e) \in LogRow /\ to \in States
  BY <1>1 DEF Row, LogRow, States
<1>3. /\ d.st = to
      /\ d.rows \in Seq(LogRow)
      /\ base \o d.rows \in {one, Append(one, StateRow(g, to))}
  BY <1>2, EmitOneRows
<1>4. LogOK(one, to, g, n)
  BY <1>1, UserRow
<1> HIDE DEF to, one, d
<1>5. LogOK(Append(one, StateRow(g, to)), to, g, n)
  BY <1>4, DisplayRow
<1>6. LogOK(base \o d.rows, d.st, g, n)
  BY <1>3, <1>4, <1>5
<1> QED
  BY <1>3, <1>6 DEF d

LEMMA NothingEmitted ==
  ASSUME NEW w, NEW es, Len(es) = 0
  PROVE  EmitAll(w, es) = [st |-> reducer[w], rows |-> <<>>]
<1>1. Len(es) \in Nat
  OBVIOUS
<1>2. PICK f : /\ EmitAll(w, es) = f[Len(es)]
               /\ f[0] = [st |-> reducer[w], rows |-> <<>>]
               /\ \A i \in 1..Len(es) : f[i] = EmitOne(slots[w].gen, f[i - 1], es[i])
  BY <1>1, EmitAllSteps
<1> QED
  BY <1>2

(* EmitAll on the next arrivals, behind a user message (lead = 1) or not. *)
LEMMA EmitAllOK ==
  ASSUME NEW w, NEW es, Len(es) \in Nat, NEW lead \in {0, 1}, lead <= Len(es),
         NEW n \in Nat, slots[w].gen \in Nat,
         LogOK(log[w], reducer[w], slots[w].gen, n),
         lead = 1 => /\ es[1].kind = "user" /\ es[1].n \in Nat
                     /\ OpenTurns(log[w], slots[w].gen) = {},
         \A i \in (lead + 1)..Len(es) : es[i] \in Entry /\ es[i].n = n + (i - lead)
  PROVE  /\ EmitAll(w, es).rows \in Seq(LogRow)
         /\ LogOK(log[w] \o EmitAll(w, es).rows, EmitAll(w, es).st, slots[w].gen,
                  n + (Len(es) - lead))
<1> DEFINE m == Len(es)
           g == slots[w].gen
           base == log[w]
<1>1. PICK f : /\ EmitAll(w, es) = f[m]
               /\ f[0] = [st |-> reducer[w], rows |-> <<>>]
               /\ \A i \in 1..m : f[i] = EmitOne(g, f[i - 1], es[i])
  BY EmitAllSteps
<1>2. base \in Seq(LogRow) /\ m \in Nat /\ g \in Nat
  BY DEF LogOK
<1>3. /\ f[0].st = reducer[w] /\ f[0].rows = <<>> /\ f[0].rows \in Seq(LogRow)
      /\ base \o f[0].rows = base
  BY <1>1, <1>2, EmptySeq, ConcatEmptySeq
<1>h. /\ LogOK(base, reducer[w], g, n)
      /\ lead = 1 => es[1].kind = "user" /\ es[1].n \in Nat /\ OpenTurns(base, g) = {}
      /\ \A i \in (lead + 1)..m : es[i] \in Entry /\ es[i].n = n + (i - lead)
      /\ lead <= m
  OBVIOUS
<1> DEFINE OK(i) == /\ f[i].rows \in Seq(LogRow)
                    /\ lead <= i => LogOK(base \o f[i].rows, f[i].st, g, n + (i - lead))
           S == {i \in 0..m : OK(i)}
<1> HIDE DEF m, g, base
<1>4. 0 \in S
  <2>1. ASSUME lead <= 0 PROVE LogOK(base \o f[0].rows, f[0].st, g, n + (0 - lead))
    <3>1. n + (0 - lead) = n
      BY <2>1
    <3>2. LogOK(base \o f[0].rows, f[0].st, g, n)
      BY <1>3, <1>h
    <3> QED
      BY <3>1, <3>2
  <2>2. OK(0)
    BY <1>3, <2>1
  <2> HIDE DEF OK
  <2> QED
    BY <1>2, <2>2
<1>5. ASSUME NEW i \in 0..m, i \in S, i < m PROVE i + 1 \in S
  <2>1. /\ i + 1 \in 1..m /\ i + 1 \in 0..m /\ (i + 1) - 1 = i /\ i \in Nat
    BY <1>2, <1>5
  <2>2. f[i + 1] = EmitOne(g, f[i], es[i + 1])
    BY <1>1, <2>1
  <2>3. f[i].rows \in Seq(LogRow)
    BY <1>5
  <2>4. CASE lead <= i
    <3>1. i + 1 \in (lead + 1)..m /\ n + (i - lead) \in Nat
      BY <1>2, <1>5, <2>1, <2>4
    <3>2. es[i + 1] \in Entry /\ es[i + 1].n = (n + (i - lead)) + 1
      BY <1>h, <2>1, <3>1
    <3>3. LogOK(base \o f[i].rows, f[i].st, g, n + (i - lead))
      BY <1>5, <2>4
    <3>4. /\ f[i + 1].rows \in Seq(LogRow)
          /\ LogOK(base \o f[i + 1].rows, f[i + 1].st, g, (n + (i - lead)) + 1)
      <4> DEFINE acc == f[i]
                 e == es[i + 1]
                 k == n + (i - lead)
      <4>1. /\ acc.rows \in Seq(LogRow) /\ k \in Nat /\ e \in Entry /\ e.n = k + 1
            /\ LogOK(base \o acc.rows, acc.st, g, k)
        BY <2>3, <3>1, <3>2, <3>3
      <4> HIDE DEF acc, e, k
      <4>2. /\ EmitOne(g, acc, e).rows \in Seq(LogRow)
            /\ LogOK(base \o EmitOne(g, acc, e).rows, EmitOne(g, acc, e).st, g, k + 1)
        BY <1>2, <4>1, ArrivalStep
      <4> QED
        BY <2>2, <4>2 DEF acc, e, k
    <3>5. (n + (i - lead)) + 1 = n + ((i + 1) - lead)
      BY <2>1
    <3> QED
      BY <2>1, <3>4, <3>5
  <2>5. CASE ~(lead <= i)
    <3>1. i = 0 /\ lead = 1
      BY <2>1, <2>5
    <3>2. LogOK(base \o f[0].rows, f[0].st, g, n) /\ OpenTurns(base \o f[0].rows, g) = {}
      BY <1>3, <1>h, <3>1
    <3>3. /\ f[1].rows \in Seq(LogRow)
          /\ LogOK(base \o f[1].rows, f[1].st, g, n)
      <4> DEFINE acc == f[0]
                 e == es[1]
      <4>1. /\ acc.rows \in Seq(LogRow) /\ e.kind = "user" /\ e.n \in Nat
            /\ LogOK(base \o acc.rows, acc.st, g, n) /\ OpenTurns(base \o acc.rows, g) = {}
            /\ f[1] = EmitOne(g, acc, e)
        BY <1>3, <1>h, <2>2, <3>1, <3>2
      <4> HIDE DEF acc, e
      <4> QED
        BY <1>2, <4>1, UserStep
    <3> QED
      BY <2>1, <3>1, <3>3
  <2> QED
    BY <2>4, <2>5
<1>6. m \in S
  <2> HIDE DEF S
  <2>1. 0..m \subseteq S
    BY <1>2, <1>4, <1>5, UpTo
  <2> QED
    BY <1>2, <2>1
<1>7. OK(m)
  BY <1>6
<1> QED
  BY <1>1, <1>7, <1>h DEF m, g, base

-----------------------------------------------------------------------------
(* A call changes one session, of which Audit must hold again. *)
LEMMA AuditOf ==
  ASSUME Inv, AuditInv, NEW w \in WSIDs
  PROVE  /\ slots[w] \in SlotRecord /\ slots[w].gen \in Nat /\ slots[w].stage \in Stages
         /\ slots[w].buf \in Seq(Entry) /\ Len(slots[w].buf) \in Nat
         /\ DOMAIN slots[w].buf = 1..Len(slots[w].buf)
         /\ arrived[w] \in Nat
         /\ SlotOwned(slots[w])
         /\ log[w] \in Seq(LogRow) /\ reducer[w] \in States
         /\ Audit(slots[w], log[w], reducer[w], arrived[w])
<1>1. slots[w] \in SlotRecord /\ arrived[w] \in Nat /\ SlotOwned(slots[w])
  BY DEF Inv, Shape, Ownership
<1>2. slots[w].buf \in Seq(Entry) /\ slots[w].gen \in Nat /\ slots[w].stage \in Stages
  BY <1>1 DEF SlotRecord
<1> QED
  BY <1>1, <1>2, LenProperties DEF AuditInv

LEMMA AuditStep ==
  ASSUME Inv, AuditInv, NEW w \in WSIDs, NEW s, NEW rows, NEW st, NEW n,
         slots' = [slots EXCEPT ![w] = s], reducer' = [reducer EXCEPT ![w] = st],
         log' = [log EXCEPT ![w] = rows], arrived' = [arrived EXCEPT ![w] = n],
         Audit(s, rows, st, n)
  PROVE  AuditInv'
<1>1. rows \in Seq(LogRow) /\ st \in States
  BY DEF Audit
<1>2. log' \in [WSIDs -> Seq(LogRow)] /\ reducer' \in [WSIDs -> States]
  BY <1>1 DEF AuditInv
<1>3. ASSUME NEW v \in WSIDs
      PROVE  Audit(slots'[v], log'[v], reducer'[v], arrived'[v])
  <2>1. CASE v = w
    <3>1. slots'[v] = s /\ log'[v] = rows /\ reducer'[v] = st /\ arrived'[v] = n
      BY <2>1 DEF Inv, Shape, AuditInv
    <3> QED
      BY <3>1
  <2>2. CASE v # w
    <3>1. /\ slots'[v] = slots[v] /\ log'[v] = log[v] /\ reducer'[v] = reducer[v]
          /\ arrived'[v] = arrived[v]
      BY <2>2 DEF Inv, Shape, AuditInv
    <3> QED
      BY <3>1 DEF AuditInv
  <2> QED
    BY <2>1, <2>2
<1> QED
  BY <1>2, <1>3 DEF AuditInv

(* The same for calls that write nothing. *)
LEMMA SilentStep ==
  ASSUME Inv, AuditInv, NEW w \in WSIDs, NEW s,
         Put(w, s), UNCHANGED <<reducer, log, arrived>>,
         Audit(s, log[w], reducer[w], arrived[w])
  PROVE  AuditInv'
<1> DEFINE rows == log[w]
           st == reducer[w]
           n == arrived[w]
<1>1. /\ slots' = [slots EXCEPT ![w] = s]
      /\ reducer' = [reducer EXCEPT ![w] = st]
      /\ log' = [log EXCEPT ![w] = rows]
      /\ arrived' = [arrived EXCEPT ![w] = n]
      /\ Audit(s, rows, st, n)
  BY DEF Inv, Shape, AuditInv, Put
<1> HIDE DEF rows, st, n
<1> QED
  BY <1>1, AuditStep

(* Audit looks at four fields of the slot. *)
LEMMA AuditSame ==
  ASSUME NEW s, NEW t, NEW rows, NEW st, NEW n, Audit(s, rows, st, n),
         t.stage = s.stage, t.gen = s.gen, t.buf = s.buf, t.submitting = s.submitting
  PROVE  Audit(t, rows, st, n)
  BY DEF Audit, Queued

(* A slot with nothing pending only needs its rows in order. *)
LEMMA SettledAudit ==
  ASSUME NEW s, NEW rows, NEW st, NEW n \in Nat, LogOK(rows, st, s.gen, n),
         s.stage = "committed", s.submitting = None, s.buf = <<>>
  PROVE  Audit(s, rows, st, n)
<1>1. Len(s.buf) = 0 /\ DOMAIN s.buf = {} /\ n - 0 = n
  BY EmptySeq
<1>2. Queued(s, n)
  BY <1>1 DEF Queued
<1> QED
  BY <1>1, <1>2 DEF Audit, LogOK

(* No turn is open in a generation that has not begun. *)
LEMMA FreshAudit ==
  ASSUME NEW s, NEW rows, NEW st, NEW n \in Nat, NEW g \in Nat, LogOK(rows, st, g, n),
         s.stage = "committed", s.gen = g + 1, s.buf = <<>>
  PROVE  Audit(s, rows, "idle", n)
<1>1. Len(s.buf) = 0 /\ DOMAIN s.buf = {} /\ n - 0 = n
  BY EmptySeq
<1>2. Queued(s, n)
  BY <1>1 DEF Queued
<1>3. \A i \in DOMAIN rows : rows[i].gen \in Nat /\ rows[i].gen <= g
  <2>1. \A i \in DOMAIN rows : rows[i] \in LogRow
    BY LenProperties, ElementOfSeq DEF LogOK
  <2> QED
    BY <2>1 DEF LogOK, Tied, LogRow
<1>4. OpenTurns(rows, s.gen) = {}
  BY <1>3 DEF OpenTurns
<1>5. Tied(rows, "idle", s.gen)
  BY <1>3, <1>4 DEF Tied
<1> QED
  BY <1>1, <1>2, <1>4, <1>5 DEF Audit, LogOK, States

(* The queue of a committed slot, behind the audit it waits for. *)
LEMMA QueueIsNext ==
  ASSUME Inv, AuditInv, NEW w \in WSIDs, slots[w].stage = "committed"
  PROVE  /\ arrived[w] - Len(slots[w].buf) \in Nat
         /\ LogOK(log[w], reducer[w], slots[w].gen, arrived[w] - Len(slots[w].buf))
         /\ \A i \in 1..Len(slots[w].buf) :
              /\ slots[w].buf[i] \in Entry
              /\ slots[w].buf[i].n = (arrived[w] - Len(slots[w].buf)) + i
<1>1. /\ arrived[w] \in Nat /\ Len(slots[w].buf) \in Nat
      /\ DOMAIN slots[w].buf = 1..Len(slots[w].buf)
      /\ slots[w].buf \in Seq(Entry)
      /\ Audit(slots[w], log[w], reducer[w], arrived[w])
  BY AuditOf
<1>2. \A i \in 1..Len(slots[w].buf) : slots[w].buf[i] \in Entry
  BY <1>1, ElementOfSeq
<1>3. Queued(slots[w], arrived[w])
  BY <1>1 DEF Audit
<1>4. arrived[w] - Len(slots[w].buf) \in Nat
  BY <1>1, <1>3 DEF Queued
<1>5. LogOK(log[w], reducer[w], slots[w].gen, arrived[w] - Len(slots[w].buf))
  BY <1>1 DEF Audit, LogOK
<1> QED
  BY <1>1, <1>2, <1>3, <1>4, <1>5 DEF Queued

LEMMA FlushedOK ==
  ASSUME Inv, AuditInv, NEW w \in WSIDs, slots[w].stage = "committed"
  PROVE  LogOK(log[w] \o Flushed(w).rows, Flushed(w).st, slots[w].gen, arrived[w])
<1> DEFINE b == slots[w].buf
           n == arrived[w] - Len(b)
           g == slots[w].gen
<1>1. /\ n \in Nat /\ LogOK(log[w], reducer[w], g, n)
      /\ \A i \in 1..Len(b) : b[i] \in Entry /\ b[i].n = n + i
  BY QueueIsNext
<1>2. Len(b) \in Nat /\ g \in Nat /\ n + (Len(b) - 0) = arrived[w]
  BY AuditOf
<1> DEFINE lead == 0
<1>3. /\ lead \in {0, 1} /\ lead # 1 /\ lead <= Len(b)
      /\ \A i \in (lead + 1)..Len(b) : b[i] \in Entry /\ b[i].n = n + (i - lead)
  BY <1>1, <1>2
<1> HIDE DEF lead, n
<1>4. LogOK(log[w] \o EmitAll(w, b).rows, EmitAll(w, b).st, g, n + (Len(b) - lead))
  BY <1>1, <1>2, <1>3, EmitAllOK
<1> QED
  BY <1>2, <1>4 DEF Flushed, lead

-----------------------------------------------------------------------------
(* A session without a history has a well-formed audit, and so has a removed *)
(* session that left no queue behind.                                        *)
LEMMA BlankAudit ==
  ASSUME NEW s, s.buf = <<>>, s.submitting = None, NEW st \in States
  PROVE  Audit(s, <<>>, st, 0)
<1>1. <<>> \in Seq(LogRow) /\ Len(<<>>) = 0 /\ DOMAIN <<>> = {}
  BY EmptySeq
<1>2. EventRows(<<>>) = {} /\ \A g : OpenTurns(<<>>, g) = {}
  BY <1>1 DEF EventRows, OpenTurns
<1>3. Ordered(<<>>, 0) /\ OneTurn(<<>>) /\ \A g : Tied(<<>>, st, g)
  BY <1>1, <1>2 DEF Ordered, OneTurn, Tied
<1>4. Queued(s, 0)
  BY <1>1 DEF Queued
<1>5. 0 - Len(s.buf) = 0
  <2>1. ASSUME NEW x, x = 0 PROVE 0 - x = 0
    BY <2>1
  <2> QED
    BY <1>1, <2>1, Zenon
<1> QED
  BY <1>1, <1>2, <1>3, <1>4, <1>5 DEF Audit

LEMMA GoneAudit ==
  ASSUME NEW s, NEW t, NEW rows, NEW st0, NEW st \in States, NEW n, Audit(t, rows, st0, n),
         t.buf = <<>>, s.buf = <<>>, s.stage = "gone"
  PROVE  Audit(s, rows, st, n)
  BY DEF Audit, Queued

LEMMA RegistryAudit ==
  ASSUME Inv, AuditInv, NEW w \in WSIDs, RegistryStep(w)
  PROVE  AuditInv'
<1> DEFINE A(s) == Audit(s, log[w], reducer[w], arrived[w])
<1>0. /\ slots[w] \in SlotRecord /\ SlotOwned(slots[w])
      /\ arrived[w] \in Nat /\ A(slots[w])
      /\ log[w] \in Seq(LogRow) /\ reducer[w] \in States
  BY AuditOf
<1>n. ASSUME NEW f \in {"reserved", "committed", "gone"}, NEW p \in Providers \cup {""}
      PROVE  /\ NewSlot(f, p).buf = <<>> /\ NewSlot(f, p).submitting = None
             /\ NewSlot(f, p).stage = f
  <2>1. f \in Stages
    BY DEF Stages
  <2> QED
    BY <2>1, NewSlotOK
<1>b. slots[w].stage \in {"free", "reserved"} => log[w] = <<>> /\ arrived[w] = 0
  BY <1>0 DEF Audit
<1>1. ASSUME NEW p \in Providers, ReserveSession(w, p) \/ RestoreDormant(w, p) PROVE AuditInv'
  <2>1. PICK f \in {"reserved", "committed"} : Put(w, NewSlot(f, p))
    BY <1>1 DEF ReserveSession, RestoreDormant
  <2>2. slots[w].stage = "free" /\ UNCHANGED <<reducer, log, arrived>>
    BY <1>1 DEF ReserveSession, RestoreDormant
  <2> DEFINE s == NewSlot(f, p)
  <2>3. s.buf = <<>> /\ s.submitting = None
    BY <1>n
  <2> HIDE DEF s
  <2>4. A(s)
    BY <1>0, <1>b, <2>2, <2>3, BlankAudit
  <2>5. Put(w, s)
    BY <2>1 DEF s
  <2> QED
    BY <2>2, <2>4, <2>5, SilentStep
<1>2. ASSUME CommitCreate(w) PROVE AuditInv'
  <2> DEFINE s == [slots[w] EXCEPT !.stage = "committed"]
  <2>1. slots[w].stage = "reserved" /\ Put(w, s) /\ UNCHANGED <<reducer, log, arrived>>
    BY <1>2 DEF CommitCreate
  <2>2. s.buf = slots[w].buf /\ s.submitting = slots[w].submitting
    BY <1>0 DEF SlotRecord
  <2>3. slots[w].buf = <<>> /\ slots[w].submitting = None
    BY <1>0, <2>1 DEF SlotOwned, Uncommitted
  <2> HIDE DEF s
  <2>4. A(s)
    BY <1>0, <1>b, <2>1, <2>2, <2>3, BlankAudit
  <2> QED
    BY <2>1, <2>4, SilentStep
<1>3. ASSUME AbortCreate(w) PROVE AuditInv'
  <2> DEFINE s == NewSlot("gone", "")
  <2>1. slots[w].stage = "reserved" /\ Put(w, s) /\ UNCHANGED <<reducer, log, arrived>>
    BY <1>3 DEF AbortCreate
  <2>2. s.buf = <<>> /\ s.submitting = None
    BY <1>n
  <2> HIDE DEF s
  <2>3. A(s)
    BY <1>0, <1>b, <2>1, <2>2, BlankAudit
  <2> QED
    BY <2>1, <2>3, SilentStep
<1>4. ASSUME RemoveSession(w) PROVE AuditInv'
  <2> DEFINE s == NewSlot("gone", "")
             rows == log[w]
             n == arrived[w]
  <2>1. /\ slots' = [slots EXCEPT ![w] = s]
        /\ reducer' = [reducer EXCEPT ![w] = "idle"]
        /\ log' = [log EXCEPT ![w] = rows]
        /\ arrived' = [arrived EXCEPT ![w] = n]
    BY <1>4 DEF RemoveSession, Put, ReduceTo, Inv, Shape, AuditInv
  <2>2. s.buf = <<>> /\ s.stage = "gone"
    BY <1>n
  <2>3. slots[w].buf = <<>>
    BY <1>0, <1>4 DEF RemoveSession, SlotOwned, SubmissionOwner, QueueOwner
  <2> HIDE DEF s
  <2>4. Audit(s, rows, "idle", n)
    BY <1>0, <2>2, <2>3, GoneAudit DEF States
  <2> HIDE DEF rows, n
  <2> QED
    BY <2>1, <2>4, AuditStep
<1>5. ASSUME FreezeTurns(w) PROVE AuditInv'
  <2> DEFINE s == [slots[w] EXCEPT !.frozen = TRUE]
  <2>1. Put(w, s) /\ UNCHANGED <<reducer, log, arrived>>
    BY <1>5 DEF FreezeTurns
  <2>2. /\ s.stage = slots[w].stage /\ s.gen = slots[w].gen /\ s.buf = slots[w].buf
        /\ s.submitting = slots[w].submitting
    BY <1>0 DEF SlotRecord
  <2> HIDE DEF s
  <2>3. A(s)
    BY <1>0, <2>2, AuditSame
  <2> QED
    BY <2>1, <2>3, SilentStep
<1> QED
  BY <1>1, <1>2, <1>3, <1>4, <1>5 DEF RegistryStep

LEMMA EndAudit ==
  ASSUME Inv, AuditInv, NEW w \in WSIDs, EndStep(w)
  PROVE  AuditInv'
<1>0. slots[w] \in SlotRecord /\ Audit(slots[w], log[w], reducer[w], arrived[w])
  BY AuditOf
<1>q. ASSUME NEW s, Put(w, s), UNCHANGED <<reducer, log, arrived>>,
             s.stage = slots[w].stage, s.gen = slots[w].gen, s.buf = slots[w].buf,
             s.submitting = slots[w].submitting
      PROVE  AuditInv'
  BY <1>0, <1>q, AuditSame, SilentStep
<1>1. ASSUME BeginEndSession(w) PROVE AuditInv'
  <2> DEFINE tok == [kind |-> "end", gen |-> slots[w].sessionGen, seq |-> slots[w].endSeq + 1]
             s == [slots[w] EXCEPT !.phase = "ending", !.endSeq = @ + 1, !.endTok = tok]
  <2>1. Put(w, s) /\ UNCHANGED <<reducer, log, arrived>>
    BY <1>1 DEF BeginEndSession
  <2>2. /\ s.stage = slots[w].stage /\ s.gen = slots[w].gen /\ s.buf = slots[w].buf
        /\ s.submitting = slots[w].submitting
    BY <1>0 DEF SlotRecord
  <2> HIDE DEF s
  <2> QED
    BY <1>q, <2>1, <2>2
<1>2. ASSUME EnterReset(w) PROVE AuditInv'
  <2> DEFINE tok == [kind |-> "reset", gen |-> slots[w].gen, seq |-> slots[w].resetSeq + 1]
             s == [slots[w] EXCEPT !.phase = "resetting", !.endTok = None,
                                   !.resetSeq = @ + 1, !.resetTok = tok]
  <2>1. Put(w, s) /\ UNCHANGED <<reducer, log, arrived>>
    BY <1>2 DEF EnterReset
  <2>2. /\ s.stage = slots[w].stage /\ s.gen = slots[w].gen /\ s.buf = slots[w].buf
        /\ s.submitting = slots[w].submitting
    BY <1>0 DEF SlotRecord
  <2> HIDE DEF s
  <2> QED
    BY <1>q, <2>1, <2>2
<1>3. ASSUME NEW t, CancelEndSession(w, t) \/ FinishEndSession(w, t) \/ FinishReset(w, t)
      PROVE  AuditInv'
  <2>1. PICK s \in {[slots[w] EXCEPT !.phase = "active", !.endTok = None],
                    [slots[w] EXCEPT !.phase = "idle", !.endTok = None],
                    [slots[w] EXCEPT !.phase = "idle", !.resetTok = None]} :
               Put(w, s) /\ UNCHANGED <<reducer, log, arrived>>
    BY <1>3 DEF CancelEndSession, FinishEndSession, FinishReset
  <2>2. /\ s.stage = slots[w].stage /\ s.gen = slots[w].gen /\ s.buf = slots[w].buf
        /\ s.submitting = slots[w].submitting
    BY <1>0 DEF SlotRecord
  <2> QED
    BY <1>q, <2>1, <2>2
<1> QED
  BY <1>1, <1>2, <1>3 DEF EndStep, BeginReset, FinishEndSessionIntoReset

(* A sequence with one entry in front of it. *)
LEMMA InFront ==
  ASSUME NEW S, NEW e \in S, NEW b \in Seq(S)
  PROVE  /\ Len(<<e>> \o b) = Len(b) + 1
         /\ (<<e>> \o b)[1] = e
         /\ \A i \in 2..(Len(b) + 1) : (<<e>> \o b)[i] = b[i - 1]
<1> DEFINE z == <<e>>
<1>1. z \in Seq(S) /\ Len(z) = 1 /\ z[1] = e /\ Len(b) \in Nat
  BY LenProperties
<1> HIDE DEF z
<1>2. /\ Len(z \o b) = Len(z) + Len(b)
      /\ \A i \in 1..(Len(z) + Len(b)) :
           (z \o b)[i] = IF i <= Len(z) THEN z[i] ELSE b[i - Len(z)]
  BY <1>1, ConcatProperties
<1>3. Len(z \o b) = Len(b) + 1
  BY <1>1, <1>2
<1>4. (z \o b)[1] = e
  BY <1>1, <1>2
<1>5. \A i \in 2..(Len(b) + 1) : (z \o b)[i] = b[i - 1]
  BY <1>1, <1>2
<1> QED
  BY <1>3, <1>4, <1>5 DEF z

LEMMA SubmitAudit ==
  ASSUME Inv, AuditInv, NEW w \in WSIDs, SubmitStep(w)
  PROVE  AuditInv'
<1> DEFINE s == slots[w]
           n == arrived[w]
           flushed == log[w] \o Flushed(w).rows
<1>0. /\ slots[w] \in SlotRecord /\ SlotOwned(slots[w])
      /\ s.gen \in Nat /\ n \in Nat
      /\ Audit(s, log[w], reducer[w], n)
      /\ log[w] \in Seq(LogRow) /\ reducer[w] \in States
  BY AuditOf
<1>f. s.stage = "committed" => LogOK(flushed, Flushed(w).st, s.gen, n)
  BY FlushedOK
<1>a. arrived' = arrived => arrived' = [arrived EXCEPT ![w] = n]
  BY DEF Inv, Shape
<1>1. ASSUME NewSession(w) PROVE AuditInv'
  <2> DEFINE t == NextGeneration(s)
  <2>1. t.stage = s.stage /\ t.gen = s.gen + 1 /\ t.buf = <<>>
    BY <1>0, NextGenerationOK
  <2>2. /\ s.stage = "committed"
        /\ slots' = [slots EXCEPT ![w] = t] /\ reducer' = [reducer EXCEPT ![w] = "idle"]
        /\ log' = [log EXCEPT ![w] = flushed] /\ arrived' = [arrived EXCEPT ![w] = n]
    BY <1>1, <1>a DEF NewSession, CommittedSlot, Put, ReduceTo, Log, AuditInv
  <2> HIDE DEF t, flushed
  <2>3. Audit(t, flushed, "idle", n)
    BY <1>0, <1>f, <2>1, <2>2, FreshAudit
  <2> HIDE DEF n
  <2> QED
    BY <2>2, <2>3, AuditStep
<1>2. ASSUME BeginNewSessionSubmit(w) PROVE AuditInv'
  <2> DEFINE id == [kind |-> "submit", gen |-> s.gen + 1, seq |-> s.seq + 1]
             t == [NextGeneration(s) EXCEPT !.seq = @ + 1, !.submitting = id,
                     !.fromNew = TRUE, !.phase = "starting", !.mark = n]
  <2>1. t.stage = s.stage /\ t.gen = s.gen + 1 /\ t.buf = <<>>
    BY <1>0, NextGenerationOK DEF SlotRecord
  <2>2. /\ s.stage = "committed"
        /\ slots' = [slots EXCEPT ![w] = t] /\ reducer' = [reducer EXCEPT ![w] = "idle"]
        /\ log' = [log EXCEPT ![w] = flushed] /\ arrived' = [arrived EXCEPT ![w] = n]
    BY <1>2, <1>a DEF BeginNewSessionSubmit, CommittedSlot, Put, ReduceTo, Log, AuditInv
  <2> HIDE DEF t, flushed
  <2>3. Audit(t, flushed, "idle", n)
    BY <1>0, <1>f, <2>1, <2>2, FreshAudit
  <2> HIDE DEF n
  <2> QED
    BY <2>2, <2>3, AuditStep
<1>3. ASSUME BeginSubmit(w) PROVE AuditInv'
  <2> DEFINE id == [kind |-> "submit", gen |-> s.gen, seq |-> s.seq + 1]
             t == [s EXCEPT !.seq = @ + 1, !.submitting = id, !.mark = n]
  <2>1. /\ s.stage = "committed" /\ ~TurnInFlight(reducer[w])
        /\ Put(w, t) /\ UNCHANGED <<reducer, log, arrived>>
    BY <1>3 DEF BeginSubmit, CommittedSlot
  <2>2. t.stage = s.stage /\ t.gen = s.gen /\ t.buf = s.buf
    BY <1>0 DEF SlotRecord
  <2> HIDE DEF t
  <2>3. Audit(t, log[w], reducer[w], n)
    BY <1>0, <2>1, <2>2 DEF Audit, Queued, Tied
  <2> QED
    BY <2>1, <2>3, SilentStep
<1>4. ASSUME NEW id, AcceptSubmit(w, id) PROVE AuditInv'
  <2> DEFINE b == s.buf
             es == <<[kind |-> "user", n |-> s.mark]>> \o b
             d == EmitAll(w, es)
             u == [s EXCEPT !.submitting = None, !.fromNew = FALSE, !.buf = <<>>]
             q == arrived[w] - Len(b)
             lead == 1
  <2>0. OwnsSubmission(w, id)
    BY <1>4 DEF AcceptSubmit
  <2>1. s.stage = "committed" /\ s.submitting # None /\ id.gen = s.gen
    BY <2>0 DEF OwnsSubmission, CommittedSlot
  <2>2. PICK t \in {u, [u EXCEPT !.phase = "active", !.sessionGen = id.gen]} : Put(w, t)
    BY <1>4 DEF AcceptSubmit
  <2>3. t.stage = s.stage /\ t.gen = s.gen /\ t.buf = <<>> /\ t.submitting = None
    BY <1>0 DEF SlotRecord
  <2>4. /\ q \in Nat /\ LogOK(log[w], reducer[w], s.gen, q)
        /\ \A i \in 1..Len(b) : b[i] \in Entry /\ b[i].n = q + i
    BY <2>1, QueueIsNext
  <2>5. Len(b) \in Nat /\ b \in Seq(Entry) /\ s.mark \in Nat
    BY <1>0, AuditOf DEF SlotRecord
  <2>6. /\ Len(es) = Len(b) + 1
        /\ es[1].kind = "user" /\ es[1].n \in Nat
        /\ \A i \in 2..(Len(b) + 1) : es[i] = b[i - 1]
    <3> DEFINE e == [kind |-> "user", n |-> s.mark]
    <3>1. e.kind = "user" /\ e.n \in Nat
      BY <2>5
    <3> DEFINE Item == Entry \cup {e}
    <3> HIDE DEF e
    <3>2. e \in Item /\ b \in Seq(Item)
      BY <2>5, SeqMonotonic
    <3> HIDE DEF Item, b
    <3>3. /\ Len(<<e>> \o b) = Len(b) + 1 /\ (<<e>> \o b)[1] = e
          /\ \A i \in 2..(Len(b) + 1) : (<<e>> \o b)[i] = b[i - 1]
      BY <3>2, InFront
    <3> QED
      BY <3>1, <3>3 DEF e
  <2>7. /\ lead \in {0, 1} /\ Len(es) \in Nat /\ lead <= Len(es)
        /\ \A i \in (lead + 1)..Len(es) : es[i] \in Entry /\ es[i].n = q + (i - lead)
        /\ q + (Len(es) - lead) = n
    <3>1. ASSUME NEW i \in 2..(Len(b) + 1)
          PROVE  es[i] \in Entry /\ es[i].n = q + (i - 1)
      <4>1. i - 1 \in 1..Len(b) /\ es[i] = b[i - 1]
        BY <2>5, <2>6
      <4> QED
        BY <2>4, <4>1
    <3> HIDE DEF es
    <3>2. Len(es) = Len(b) + 1 /\ Len(b) \in Nat
      BY <2>5, <2>6 DEF es
    <3> QED
      BY <1>0, <3>1, <3>2
  <2>8. OpenTurns(log[w], s.gen) = {}
    BY <1>0, <2>1 DEF Audit
  <2>9. /\ slots' = [slots EXCEPT ![w] = t] /\ reducer' = [reducer EXCEPT ![w] = d.st]
        /\ log' = [log EXCEPT ![w] = log[w] \o d.rows] /\ arrived' = [arrived EXCEPT ![w] = n]
    BY <1>4, <1>a, <2>2 DEF AcceptSubmit, Put, ReduceTo, Log, AuditInv
  <2> HIDE DEF es, q, lead, b
  <2>10. LogOK(log[w] \o EmitAll(w, es).rows, EmitAll(w, es).st, s.gen, q + (Len(es) - lead))
    BY <1>0, <2>4, <2>6, <2>7, <2>8, EmitAllOK
  <2>11. LogOK(log[w] \o d.rows, d.st, s.gen, n)
    BY <2>7, <2>10
  <2> DEFINE rows == log[w] \o d.rows
             st == d.st
  <2> HIDE DEF d, n, rows, st
  <2>12. Audit(t, rows, st, n)
    BY <1>0, <2>1, <2>3, <2>11, SettledAudit DEF rows, st
  <2> QED
    BY <2>9, <2>12, AuditStep DEF rows, st
<1>5. ASSUME NEW id, RejectSubmit(w, id) PROVE AuditInv'
  <2> DEFINE u == [s EXCEPT !.submitting = None, !.fromNew = FALSE, !.buf = <<>>]
             st == Flushed(w).st
  <2>1. s.stage = "committed"
    BY <1>5 DEF RejectSubmit, OwnsSubmission, CommittedSlot
  <2>2. PICK t \in {u, [u EXCEPT !.phase = "idle"]} : Put(w, t)
    BY <1>5 DEF RejectSubmit
  <2>3. t.stage = s.stage /\ t.gen = s.gen /\ t.buf = <<>> /\ t.submitting = None
    BY <1>0 DEF SlotRecord
  <2>4. /\ slots' = [slots EXCEPT ![w] = t] /\ reducer' = [reducer EXCEPT ![w] = st]
        /\ log' = [log EXCEPT ![w] = flushed] /\ arrived' = [arrived EXCEPT ![w] = n]
    BY <1>5, <1>a, <2>2 DEF RejectSubmit, Put, ReduceTo, Log, AuditInv
  <2>5. LogOK(flushed, st, s.gen, n)
    BY <1>f, <2>1
  <2> HIDE DEF flushed, st
  <2>6. Audit(t, flushed, st, n)
    BY <1>0, <2>1, <2>3, <2>5, SettledAudit
  <2> HIDE DEF n
  <2> QED
    BY <2>4, <2>6, AuditStep
<1> QED
  BY <1>1, <1>2, <1>3, <1>4, <1>5 DEF SubmitStep

LEMMA EventAudit ==
  ASSUME Inv, AuditInv, NEW w \in WSIDs, NEW kind \in Kinds, QueueOrEmit(w, kind)
  PROVE  AuditInv'
<1> DEFINE s == slots[w]
           n == arrived[w]
           e == [kind |-> kind, n |-> n + 1]
<1>0. /\ slots[w] \in SlotRecord /\ SlotOwned(slots[w])
      /\ s.gen \in Nat /\ n \in Nat
      /\ Audit(s, log[w], reducer[w], n)
      /\ s.buf \in Seq(Entry) /\ Len(s.buf) \in Nat /\ DOMAIN s.buf = 1..Len(s.buf)
  BY AuditOf
<1>1. s.stage = "committed" /\ arrived' = [arrived EXCEPT ![w] = n + 1]
  BY DEF QueueOrEmit, CommittedSlot
<1>2. e \in Entry /\ e.n = n + 1 /\ e.kind = kind
  BY <1>0 DEF Entry, Kinds
<1>3. CASE s.submitting # None
  <2> DEFINE t == [s EXCEPT !.buf = Append(@, e)]
             rows == log[w]
             st == reducer[w]
  <2>1. /\ slots' = [slots EXCEPT ![w] = t] /\ reducer' = [reducer EXCEPT ![w] = st]
        /\ log' = [log EXCEPT ![w] = rows]
    BY <1>3 DEF QueueOrEmit, Put, AuditInv
  <2>2. t.stage = s.stage /\ t.gen = s.gen /\ t.submitting = s.submitting /\ t.buf = Append(s.buf, e)
    BY <1>0 DEF SlotRecord
  <2>3. /\ Len(t.buf) = Len(s.buf) + 1 /\ DOMAIN t.buf = 1..(Len(s.buf) + 1)
        /\ \A i \in 1..Len(s.buf) : t.buf[i] = s.buf[i]
        /\ t.buf[Len(s.buf) + 1] = e
    <3> DEFINE b == s.buf
    <3>1. b \in Seq(Entry)
      BY <1>0
    <3> HIDE DEF b, e
    <3>2. e \in Entry
      BY <1>2
    <3>3. /\ Append(b, e) \in Seq(Entry) /\ Len(Append(b, e)) = Len(b) + 1
          /\ \A i \in 1..Len(b) : Append(b, e)[i] = b[i]
          /\ Append(b, e)[Len(b) + 1] = e
      BY <3>1, <3>2, AppendProperties
    <3>4. DOMAIN Append(b, e) = 1..(Len(b) + 1)
      BY <3>3, LenProperties
    <3> HIDE DEF t
    <3>5. t.buf = Append(b, e)
      BY <2>2 DEF b
    <3> QED
      BY <3>3, <3>4, <3>5 DEF b
  <2> HIDE DEF t, e
  <2>4. Queued(s, n) /\ Ordered(log[w], n - Len(s.buf))
    BY <1>0 DEF Audit
  <2>5. (n + 1) - Len(t.buf) = n - Len(s.buf) /\ Len(t.buf) <= n + 1
    BY <1>0, <2>3, <2>4 DEF Queued
  <2>6. Queued(t, n + 1)
    <3> SUFFICES ASSUME NEW k \in 1..(Len(s.buf) + 1)
                 PROVE  t.buf[k].n = (n - Len(s.buf)) + k
      BY <2>3, <2>5 DEF Queued
    <3>1. CASE k \in 1..Len(s.buf)
      BY <1>0, <2>3, <2>4, <3>1 DEF Queued
    <3>2. CASE k = Len(s.buf) + 1
      BY <1>0, <1>2, <2>3, <3>2
    <3> QED
      BY <1>0, <3>1, <3>2
  <2>7. Audit(t, log[w], reducer[w], n + 1)
    BY <1>0, <1>1, <2>2, <2>4, <2>5, <2>6 DEF Audit
  <2> DEFINE more == n + 1
  <2>8. Audit(t, rows, st, more) /\ arrived' = [arrived EXCEPT ![w] = more]
    BY <1>1, <2>7
  <2> HIDE DEF rows, st, more
  <2> QED
    BY <2>1, <2>8, AuditStep
<1>4. CASE s.submitting = None
  <2> DEFINE es == <<e>>
             d == EmitAll(w, es)
             lead == 0
             rows == log[w] \o d.rows
             st == d.st
             more == n + 1
  <2>1. /\ UNCHANGED slots /\ reducer' = [reducer EXCEPT ![w] = st]
        /\ log' = [log EXCEPT ![w] = rows] /\ arrived' = [arrived EXCEPT ![w] = more]
    BY <1>1, <1>4 DEF QueueOrEmit, ReduceTo, Log, AuditInv
  <2>2. slots' = [slots EXCEPT ![w] = s]
    BY <2>1 DEF Inv, Shape
  <2>3. s.buf = <<>> /\ Len(s.buf) = 0
    BY <1>0, <1>4, EmptySeq DEF SlotOwned, QueueOwner
  <2>4. LogOK(log[w], reducer[w], s.gen, n)
    <3>1. n - Len(s.buf) = n
      BY <1>0, <2>3
    <3> QED
      BY <1>1, <3>1, QueueIsNext
  <2>5. Len(es) = 1 /\ es[1] = e
    OBVIOUS
  <2>6. /\ lead \in {0, 1} /\ lead # 1 /\ lead <= Len(es) /\ Len(es) \in Nat
        /\ \A i \in (lead + 1)..Len(es) : es[i] \in Entry /\ es[i].n = n + (i - lead)
        /\ n + (Len(es) - lead) = more
    <3> HIDE DEF es, e
    <3> QED
      BY <1>0, <1>2, <2>5
  <2> HIDE DEF es, lead, n, more
  <2>7. LogOK(log[w] \o EmitAll(w, es).rows, EmitAll(w, es).st, s.gen, n + (Len(es) - lead))
    BY <1>0, <2>4, <2>6, EmitAllOK
  <2>8. LogOK(rows, st, s.gen, more)
    BY <2>6, <2>7
  <2> HIDE DEF d, rows, st
  <2>9. more \in Nat
    BY <1>0 DEF more
  <2>10. Audit(s, rows, st, more)
    BY <1>1, <1>4, <2>3, <2>8, <2>9, SettledAudit
  <2> QED
    BY <2>1, <2>2, <2>10, AuditStep
<1> QED
  BY <1>3, <1>4

(* Close flushes every queue; where there is none, nothing changes. *)
LEMMA CloseAudit ==
  ASSUME Inv, AuditInv, Close
  PROVE  AuditInv'
<1>1. ASSUME NEW w \in WSIDs
      PROVE  /\ slots'[w] = IF Interrupted(slots[w]) THEN AbortedSlot(slots[w]) ELSE slots[w]
             /\ reducer'[w] = Flushed(w).st
             /\ log'[w] = log[w] \o Flushed(w).rows
             /\ arrived'[w] = arrived[w]
  BY DEF Close
<1>2. ASSUME NEW w \in WSIDs
      PROVE  Audit(slots'[w], log'[w], reducer'[w], arrived'[w])
  <2>0. /\ slots[w] \in SlotRecord /\ SlotOwned(slots[w]) /\ arrived[w] \in Nat
        /\ Audit(slots[w], log[w], reducer[w], arrived[w])
        /\ log[w] \in Seq(LogRow)
    BY AuditOf
  <2>1. CASE slots[w].stage = "committed"
    <3>1. LogOK(log[w] \o Flushed(w).rows, Flushed(w).st, slots[w].gen, arrived[w])
      BY <2>1, FlushedOK
    <3>2. /\ slots'[w].stage = "committed" /\ slots'[w].gen = slots[w].gen
          /\ slots'[w].submitting = None /\ slots'[w].buf = <<>>
      <4>1. /\ AbortedSlot(slots[w]).stage = slots[w].stage
            /\ AbortedSlot(slots[w]).gen = slots[w].gen
            /\ AbortedSlot(slots[w]).submitting = None
            /\ AbortedSlot(slots[w]).buf = <<>>
        BY <2>0 DEF AbortedSlot, SlotRecord
      <4> QED
        BY <1>1, <2>1, <4>1 DEF Interrupted
    <3> DEFINE s == slots'[w]
               rows == log'[w]
               st == reducer'[w]
               n == arrived'[w]
    <3>3. LogOK(rows, st, s.gen, n) /\ n \in Nat
      BY <1>1, <2>0, <3>1, <3>2
    <3>4. s.stage = "committed" /\ s.submitting = None /\ s.buf = <<>>
      BY <3>2
    <3> HIDE DEF s, rows, st, n
    <3>5. Audit(s, rows, st, n)
      BY <3>3, <3>4, SettledAudit
    <3> QED
      BY <3>5 DEF s, rows, st, n
  <2>2. CASE slots[w].stage # "committed"
    <3>1. slots[w].submitting = None /\ slots[w].buf = <<>>
      BY <2>0, <2>2 DEF SlotOwned, Uncommitted
    <3>2. slots'[w] = slots[w] /\ Len(slots[w].buf) = 0
      BY <1>1, <3>1, EmptySeq DEF Interrupted
    <3>3. Flushed(w).st = reducer[w] /\ Flushed(w).rows = <<>>
      <4> DEFINE b == slots[w].buf
      <4>1. Len(b) = 0
        BY <3>2
      <4> HIDE DEF b
      <4>3. EmitAll(w, b) = [st |-> reducer[w], rows |-> <<>>]
        BY <4>1, NothingEmitted
      <4> QED
        BY <4>3 DEF Flushed, b
    <3>4. reducer'[w] = reducer[w] /\ log'[w] = log[w] /\ arrived'[w] = arrived[w]
      BY <1>1, <2>0, <3>3, ConcatEmptySeq
    <3> QED
      BY <2>0, <3>2, <3>4
  <2> QED
    BY <2>1, <2>2
<1>3. log' \in [WSIDs -> Seq(LogRow)] /\ reducer' \in [WSIDs -> States]
  <2>1. /\ log' = [w \in WSIDs |-> log[w] \o Flushed(w).rows]
        /\ reducer' = [w \in WSIDs |-> Flushed(w).st]
    BY DEF Close
  <2>2. \A w \in WSIDs : log'[w] \in Seq(LogRow) /\ reducer'[w] \in States
    BY <1>2 DEF Audit
  <2> QED
    BY <2>1, <2>2
<1> QED
  BY <1>2, <1>3 DEF AuditInv

(* Together: what is proved of the audit is an invariant. *)
LEMMA AuditNext ==
  ASSUME Inv, AuditInv, [Next]_vars
  PROVE  AuditInv'
<1>1. ASSUME NEW w \in WSIDs, EventStep(w) PROVE AuditInv'
  <2>1. \A k \in Kinds : QueueOrEmit(w, k) => AuditInv'
    BY EventAudit
  <2>2. \E k \in Kinds : QueueOrEmit(w, k)
    BY <1>1 DEF EventStep, Emit, EmitApprovalDecision, Kinds
  <2> QED
    BY <2>1, <2>2
<1>2. CASE UNCHANGED vars
  BY <1>2 DEF vars, AuditInv
<1> QED
  BY <1>1, <1>2, RegistryAudit, SubmitAudit, EndAudit, CloseAudit DEF Next

THEOREM AuditInvHolds == Spec => []AuditInv
<1>1. Init => AuditInv
  <2> SUFFICES ASSUME Init PROVE AuditInv
    OBVIOUS
  <2>1. <<>> \in Seq(LogRow) /\ "idle" \in States
    BY EmptySeq DEF States
  <2>2. log \in [WSIDs -> Seq(LogRow)] /\ reducer \in [WSIDs -> States]
    BY <2>1 DEF Init
  <2>3. EmptySlot.buf = <<>> /\ EmptySlot.submitting = None
    BY DEF EmptySlot
  <2>4. Audit(EmptySlot, <<>>, "idle", 0)
    <3> DEFINE s == EmptySlot
    <3>1. s.buf = <<>> /\ s.submitting = None
      BY <2>3
    <3> HIDE DEF s
    <3>2. Audit(s, <<>>, "idle", 0)
      BY <2>1, <3>1, BlankAudit
    <3> QED
      BY <3>2 DEF s
  <2>5. \A w \in WSIDs : Audit(slots[w], log[w], reducer[w], arrived[w])
    BY <2>4 DEF Init
  <2> QED
    BY <2>2, <2>5 DEF AuditInv
<1>2. Inv /\ AuditInv /\ [Next]_vars => AuditInv'
  BY AuditNext
<1> QED
  BY <1>1, <1>2, InvHolds, PTL DEF Spec

(* However submissions are accepted, rejected, abandoned or closed over: the *)
(* audit and the queue hold every accepted event once, in order of arrival.  *)
THEOREM AuditIsArrivalOrderHolds == Spec => []AuditIsArrivalOrder
<1>1. Inv /\ AuditInv => AuditIsArrivalOrder
  BY DEF AuditInv, Audit, AuditIsArrivalOrder, Audited, Ordered, Queued
<1> QED
  BY <1>1, AuditInvHolds, InvHolds, PTL

(* Two user messages of one generation never meet in the audit without the   *)
(* end of a turn between them.                                               *)
THEOREM OneTurnInFlightHolds == Spec => []OneTurnInFlight
<1>1. AuditInv => OneTurnInFlight
  BY DEF AuditInv, Audit, OneTurnInFlight, OneTurn
<1> QED
  BY <1>1, AuditInvHolds, PTL

(* Every variable keeps its type. *)
THEOREM TypeOKHolds == Spec => []TypeOK
<1>1. Inv /\ AuditInv => TypeOK
  BY DEF Inv, Shape, AuditInv, TypeOK, Tokens
<1> QED
  BY <1>1, AuditInvHolds, InvHolds, PTL
=============================================================================
