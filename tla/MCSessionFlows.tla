----------------------------- MODULE MCSessionFlows -----------------------------
(***************************************************************************)
(* Who calls what on which session in the runs of SessionFlows.            *)
(***************************************************************************)
EXTENDS SessionFlows

Does(caller, w, ops) == {<<caller, w, op>> : op \in ops}

(* two callers share the Claude session, one of them uses the Codex session    *)
(* too, which the other one may end                                            *)
Both ==
  Does(1, "c", {"start", "send", "end", "new", "remove"})
    \cup Does(2, "c", {"start", "end"})
    \cup Does(2, "x", {"start", "send", "end"})
    \cup Does(1, "x", {"end"})

OneCaller == Does(1, "c", {"start", "end"})
=============================================================================
