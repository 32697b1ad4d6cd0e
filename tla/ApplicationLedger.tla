--------------------------- MODULE ApplicationLedger ---------------------------
(***************************************************************************)
(* What the hiring pipeline promises about applications, with offers,      *)
(* transactions, locks and requests all hidden: a ledger of audit trails   *)
(* that only grow, by legal moves of entitled actors, one application at a *)
(* time.  The one step that touches several is a hire, which withdraws     *)
(* others of the same candidate in the candidate's own name.               *)
(***************************************************************************)
EXTENDS Lifecycle

CONSTANTS Apps, Candidate, Start

VARIABLE ledger   \* each application's status and trail

Unfiled == [status |-> "NONE", trail |-> <<>>]
Filed   == [status |-> "SUBMITTED", trail |-> <<>>]

\* y is x after the actor's move to the status.
MovedTo(x, y, to, actor) ==
  /\ x.status # "NONE"
  /\ mayMove(actor, x.status, to)
  /\ y = [status |-> to,
          trail  |-> Append(x.trail, [from |-> x.status, to |-> to, by |-> actor])]

OthersStay(moved) == \A b \in Apps \ moved : ledger'[b] = ledger[b]

Init == ledger = Start

\* An application is filed once.
File(a) ==
  /\ ledger[a] = Unfiled
  /\ ledger'[a] = Filed
  /\ OthersStay({a})

\* The employer reopens a rejected application and makes an offer on it at once.
Reopened(x) ==
  [status |-> "SCREENING",
   trail  |-> Append(x.trail, [from |-> "REJECTED", to |-> "SCREENING", by |-> "EMPLOYER"])]

Advance(a) ==
  /\ \/ \E to \in Status, actor \in Actor : MovedTo(ledger[a], ledger'[a], to, actor)
     \/ /\ ledger[a].status = "REJECTED"
        /\ MovedTo(Reopened(ledger[a]), ledger'[a], "OFFER", "EMPLOYER")
  /\ OthersStay({a})

\* The candidate accepts a and leaves the applications in closed.
Hire(a, closed) ==
  /\ MovedTo(ledger[a], ledger'[a], "ACCEPTED", "CANDIDATE")
  /\ \A b \in closed : /\ Candidate[b] = Candidate[a]
                       /\ MovedTo(ledger[b], ledger'[b], "WITHDRAWN", "CANDIDATE")
  /\ OthersStay({a} \cup closed)

Next ==
  /\ DOMAIN ledger' = Apps
  /\ \E a \in Apps :
       \/ File(a)
       \/ Advance(a)
       \/ \E closed \in SUBSET (Apps \ {a}) : Hire(a, closed)

Spec == Init /\ [][Next]_ledger
=============================================================================
