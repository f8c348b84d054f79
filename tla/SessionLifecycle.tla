-------------------------- MODULE SessionLifecycle --------------------------
(***************************************************************************)
(* What a workspace session promises its callers, with no tokens, queues,  *)
(* generations or events: each session is in one place of the lifecycle    *)
(* drawn above type Manager in internal/appcore/manager.go, it moves only  *)
(* along the arrows of that drawing, a provider never holds more than      *)
(* MaxSessions places, and once the manager is closed nothing new begins.  *)
(* SessionManager implements this specification.                           *)
(***************************************************************************)
EXTENDS Integers, FiniteSets

CONSTANTS WSIDs, Providers, MaxSessions

VARIABLES
  life,      \* where each session is
  owner,     \* the provider whose place the session holds, "" if none
  open       \* the manager accepts new work

vars == <<life, owner, open>>

Places == {"free", "reserved", "idle", "starting", "active", "sending",
           "ending", "resetting", "gone"}
Holding == Places \ {"free", "gone"}

(* The arrows of the drawing; "sending" is an active session with a         *)
(* submission in progress.                                                  *)
Arrows ==
  {<<"reserved", "idle">>,
   <<"idle", "starting">>, <<"starting", "active">>, <<"starting", "idle">>,
   <<"active", "sending">>, <<"sending", "active">>,
   <<"active", "ending">>, <<"ending", "active">>, <<"ending", "idle">>,
   <<"ending", "resetting">>, <<"idle", "resetting">>, <<"resetting", "idle">>}

(* Arrows along which work begins; they need an open manager. *)
Beginnings ==
  {<<"reserved", "idle">>, <<"idle", "starting">>, <<"active", "sending">>,
   <<"active", "ending">>, <<"idle", "resetting">>}

(* Arrows that settle a submission; Close settles those itself. *)
Settlements ==
  {<<"starting", "active">>, <<"starting", "idle">>, <<"sending", "active">>}

Place(p) == {w \in WSIDs : owner[w] = p}

Init ==
  /\ life = [w \in WSIDs |-> "free"]
  /\ owner = [w \in WSIDs |-> ""]
  /\ open = TRUE

Create(w, p, to) ==
  /\ open
  /\ life[w] = "free"
  /\ to \in {"reserved", "idle"}
  /\ Cardinality(Place(p)) < MaxSessions
  /\ life' = [life EXCEPT ![w] = to]
  /\ owner' = [owner EXCEPT ![w] = p]
  /\ UNCHANGED open

Move(w, to) ==
  /\ <<life[w], to>> \in Arrows
  /\ <<life[w], to>> \in Beginnings \cup Settlements => open
  /\ life' = [life EXCEPT ![w] = to]
  /\ UNCHANGED <<owner, open>>

(* NewSession: a committed session starts over from any place. *)
Renew(w) ==
  /\ life[w] \in Holding \ {"reserved"}
  /\ life' = [life EXCEPT ![w] = "idle"]
  /\ UNCHANGED <<owner, open>>

(* A reservation can always be given back; a session is removed when idle.  *)
Release(w) ==
  /\ life[w] = "reserved" \/ (life[w] = "idle" /\ open)
  /\ life' = [life EXCEPT ![w] = "gone"]
  /\ owner' = [owner EXCEPT ![w] = ""]
  /\ UNCHANGED open

Shut ==
  /\ open
  /\ open' = FALSE
  /\ life' = [w \in WSIDs |-> CASE life[w] = "starting" -> "idle"
                                [] life[w] = "sending" -> "active"
                                [] OTHER -> life[w]]
  /\ UNCHANGED owner

SessionNext(w) ==
  \/ \E p \in Providers, to \in Places : Create(w, p, to)
  \/ \E to \in Places : Move(w, to)
  \/ Renew(w)
  \/ Release(w)

Next == (\E w \in WSIDs : SessionNext(w)) \/ Shut

Spec == Init /\ [][Next]_vars
=============================================================================
