------------------------------ MODULE Lifecycle ------------------------------
(***************************************************************************)
(* The rules of an application's life: which status may follow which, and  *)
(* who is entitled to assert it.  Everything here is a table or a filter   *)
(* over a table in application.entity.ts and the transition service; the   *)
(* modules that move applications consult nothing else.                    *)
(***************************************************************************)
EXTENDS Integers, Sequences

Status == {"DRAFT", "SUBMITTED", "SCREENING", "INTERVIEW", "OFFER",
           "NEGOTIATING", "ACCEPTED", "REJECTED", "WITHDRAWN", "ARCHIVED"}

Actor == {"CANDIDATE", "EMPLOYER", "SYSTEM"}

TRANSITIONS ==
  [DRAFT       |-> {"SUBMITTED", "WITHDRAWN"},
   SUBMITTED   |-> {"SCREENING", "REJECTED", "WITHDRAWN"},
   SCREENING   |-> {"INTERVIEW", "OFFER", "REJECTED", "WITHDRAWN"},
   INTERVIEW   |-> {"OFFER", "REJECTED", "WITHDRAWN"},
   OFFER       |-> {"ACCEPTED", "NEGOTIATING", "REJECTED", "WITHDRAWN"},
   NEGOTIATING |-> {"OFFER", "ACCEPTED", "REJECTED", "WITHDRAWN"},
   ACCEPTED    |-> {},
   REJECTED    |-> {"SCREENING"},
   WITHDRAWN   |-> {},
   ARCHIVED    |-> {}]

CANDIDATE_SETTABLE_STATUSES == {"WITHDRAWN", "ACCEPTED", "NEGOTIATING"}
EMPLOYER_SETTABLE_STATUSES  == {"SCREENING", "INTERVIEW", "OFFER", "REJECTED"}

isTransitionAllowed(from, to) == to \in TRANSITIONS[from]

\* SYSTEM skips the entitlement question, and only that one.
isEntitled(actor, to) ==
  \/ actor = "SYSTEM"
  \/ actor = "CANDIDATE" /\ to \in CANDIDATE_SETTABLE_STATUSES
  \/ actor = "EMPLOYER"  /\ to \in EMPLOYER_SETTABLE_STATUSES

\* The two questions the transition service asks before it writes.
mayMove(actor, from, to) == isTransitionAllowed(from, to) /\ isEntitled(actor, to)

WITHDRAWABLE_FROM == {from \in Status : "WITHDRAWN" \in TRANSITIONS[from]}
ACCEPTABLE_FROM   == {from \in Status : "ACCEPTED"  \in TRANSITIONS[from]}

-----------------------------------------------------------------------------
(***************************************************************************)
(* A row of the audit trail.  One row stands for the stage-history row,    *)
(* the timeline row and the counterparty's notification, which one         *)
(* transaction inserts together.                                           *)
(***************************************************************************)
HistoryRow == [from : Status, to : Status, by : Actor]

\* rows lead from status start to status end, each by a legal, entitled move.
isTrail(start, rows, end) ==
  /\ \A i \in DOMAIN rows :
       /\ mayMove(rows[i].by, rows[i].from, rows[i].to)
       /\ rows[i].from = IF i = 1 THEN start ELSE rows[i - 1].to
  /\ end = IF rows = <<>> THEN start ELSE rows[Len(rows)].to
=============================================================================
