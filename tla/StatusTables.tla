---------------------------- MODULE StatusTables ----------------------------
(***************************************************************************)
(* The transition tables of lifecycle.py: for each status, the statuses a  *)
(* row may move on to. transition() also accepts the status a row has. The *)
(* statuses "absent" and "missing" stand for a row not inserted yet.       *)
(***************************************************************************)
RunMoves ==
    [absent |-> {"draft"},
     draft |-> {"queued", "cancelled"},
     queued |-> {"provisioning", "cancelled"},
     provisioning |-> {"running", "failed", "cancelled"},
     running |-> {"aggregating", "failed", "cancelled", "incomplete"},
     aggregating |-> {"complete", "failed", "incomplete"},
     complete |-> {}, failed |-> {},
     cancelled |-> {"queued"},
     incomplete |-> {"queued", "cancelled"}]

CaseMoves ==
    [missing |-> {"queued"},
     queued |-> {"running", "cancelled", "skipped"},
     running |-> {"completed", "failed", "cancelled"},
     completed |-> {}, failed |-> {"queued"}, cancelled |-> {"queued"}, skipped |-> {}]

AttemptMoves ==
    [queued |-> {"running", "cancelled", "orphaned"},
     running |-> {"completed", "timed_out", "budget_exceeded", "cancelled", "orphaned", "errored"},
     completed |-> {}, timed_out |-> {}, budget_exceeded |-> {}, cancelled |-> {},
     orphaned |-> {}, errored |-> {}]

RunStatus == DOMAIN RunMoves
CaseStatus == DOMAIN CaseMoves
AttemptStatus == DOMAIN AttemptMoves
=============================================================================
