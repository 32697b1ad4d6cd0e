-------------------------------- MODULE JobTracker --------------------------------
(***************************************************************************)
(* The tracker board (job-tracker.service.ts): one user's cards, in columns by   *)
(* stage, in an order the user drags.  Two tabs or devices act on it at once.     *)
(*                                                                           *)
(* A move is a transaction of several awaits under READ COMMITTED: it reads the   *)
(* committed rows and its own writes, its writes lock their rows, and the          *)
(* database aborts one of two transactions that wait for each other.             *)
(***************************************************************************)
EXTENDS Integers, Sequences, SequencesExt, FiniteSetsExt

CONSTANTS
  Card,      \* the postings a card can stand for, 1 .. n
  BoardTab,  \* requests in progress on the board
  Stage,     \* TrackedJobStage
  MaxDrags   \* bound on the operations of a behaviour

ASSUME TrackerAssumption == {"SAVED", "APPLIED"} \subseteq Stage /\ 1 .. 2 \subseteq Card /\ MaxDrags \in Nat

VARIABLES
  card,        \* the committed rows of tracked_jobs, or Gone
  tab,         \* each request in progress
  drags,       \* operations begun
  overlapped   \* did two operations ever run at once (history)

trackerVars == <<card, tab, drags, overlapped>>

Gone == [stage |-> "SAVED", position |-> 0, applied |-> 0, archived |-> FALSE, born |-> 0]
Exists(c) == card[c] # Gone

\* A request: what it read, the rows it holds locked and what it wrote to them.
Ready == [phase |-> "idle", of |-> {}, from |-> "SAVED", to |-> "SAVED", index |-> 0, dated |-> FALSE,
          list |-> << >>, wrote |-> << >>]
Busy == {t \in BoardTab : tab[t].phase # "idle"}
RowsOf(t) == DOMAIN tab[t].wrote
RowsLocked(t, rows) == \E u \in BoardTab \ {t} : RowsOf(u) \cap rows # {}
Mine(t) == CHOOSE c \in Card : tab[t].of = {c}
EndTab(t) == tab' = [tab EXCEPT ![t] = Ready]

\* Beginning beside another operation is an overlap.
Begin(t) ==
  /\ tab[t].phase = "idle" /\ drags < MaxDrags
  /\ drags' = drags + 1 /\ overlapped' = (overlapped \/ Busy # {})

-----------------------------------------------------------------------------
(* The order of a column. *)

\* What transaction t sees of a row: its own write, or the committed row.
Sees(t, c) == IF c \in RowsOf(t) THEN tab[t].wrote[c] ELSE card[c]
InColumn(row, stage) == row # Gone /\ row.stage = stage /\ ~row.archived

Column(t, stage, without) ==
  SetToSortSeq({c \in Card \ without : InColumn(Sees(t, c), stage)},
    LAMBDA a, b : \/ Sees(t, a).position < Sees(t, b).position
                  \/ Sees(t, a).position = Sees(t, b).position /\ Sees(t, a).born < Sees(t, b).born)

TopPosition_Zero(stage) == 0   \* mutant: the new card takes the place of the first
\* topPosition: one above the column's top.
TopPosition(stage) ==
  LET positions == {card[c].position : c \in {c \in Card : InColumn(card[c], stage)}}
  IN  (IF positions = {} THEN 0 ELSE Min(positions)) - 1

Renumbered_FromOne(t, list) ==   \* mutant: counts from one
  [c \in ToSet(list) |-> [Sees(t, c) EXCEPT !.position = CHOOSE k \in 1 .. Len(list) : list[k] = c]]
\* 0..n-1 onto the cards of a list.
Renumbered(t, list) == [c \in ToSet(list) |-> [Sees(t, c) EXCEPT !.position = CHOOSE k \in 0 .. Len(list) - 1 : list[k + 1] = c]]

-----------------------------------------------------------------------------
(* add *)

AddRead(t) ==
  /\ Begin(t)
  /\ \E c \in Card, stage \in Stage :
       tab' = [tab EXCEPT ![t] = [Ready EXCEPT !.phase = "insert", !.of = {c}, !.to = stage, !.index = TopPosition(stage)]]
  /\ UNCHANGED card

\* One card per posting: a second insert is a conflict.
AddInsert(t) ==
  /\ tab[t].phase = "insert"
  /\ LET c == Mine(t) IN
     card' = IF Exists(c) THEN card
             ELSE [card EXCEPT ![c] = [stage |-> tab[t].to, position |-> tab[t].index, archived |-> FALSE,
                                       applied |-> IF tab[t].to = "APPLIED" THEN 1 ELSE 0,
                                       born |-> 1 + Max({card[d].born : d \in Card})]]
  /\ EndTab(t) /\ UNCHANGED <<drags, overlapped>>

-----------------------------------------------------------------------------
(* move *)

\* The card is read before the transaction: its stage, and whether it has an applied date.
MoveRead(t) ==
  /\ Begin(t)
  /\ \E c \in Card, to \in Stage, index \in 0 .. 1 :
       /\ Exists(c) /\ ~card[c].archived
       /\ tab' = [tab EXCEPT ![t] = [Ready EXCEPT !.phase = "destination", !.of = {c}, !.from = card[c].stage, !.to = to,
                                                  !.index = index, !.dated = card[c].applied > 0]]
  /\ UNCHANGED card

ReadDestination_Unclamped(t) ==   \* mutant: the card always goes last
  /\ tab[t].phase = "destination"
  /\ tab' = [tab EXCEPT ![t].phase = "write", ![t].list = Append(Column(t, tab[t].to, tab[t].of), Mine(t))]
  /\ UNCHANGED <<card, drags, overlapped>>
\* The destination with the card spliced in, at a clamped index.
ReadDestination(t) ==
  /\ tab[t].phase = "destination"
  /\ LET others == Column(t, tab[t].to, tab[t].of)
         index == Min({tab[t].index, Len(others)})
     IN  tab' = [tab EXCEPT ![t].phase = "write", ![t].list = InsertAt(others, index + 1, Mine(t))]
  /\ UNCHANGED <<card, drags, overlapped>>

Moved_AlwaysDates(t, row) ==   \* mutant: every arrival in APPLIED is dated anew
  [row EXCEPT !.stage = tab[t].to, !.applied = IF tab[t].to = "APPLIED" THEN @ + 1 ELSE @]
Moved(t, row) ==
  [row EXCEPT !.stage = tab[t].to,
              !.applied = IF tab[t].to = "APPLIED" /\ ~tab[t].dated THEN @ + 1 ELSE @]   \* a date, or a newer one

Commit(t, writes) ==
  card' = [c \in Card |-> IF c \in DOMAIN writes THEN writes[c] ELSE card[c]]

\* The card and the destination are written.  A card deleted since fails the transaction.
WriteDestination(t) ==
  LET list == tab[t].list  rows == ToSet(list)  c == Mine(t)
      numbered == Renumbered(t, list)
      writes == [d \in rows |-> IF d = c THEN Moved(t, numbered[d]) ELSE numbered[d]]
  IN  /\ tab[t].phase = "write" /\ ~RowsLocked(t, rows)
      /\ IF \E d \in rows : ~Exists(d) THEN EndTab(t) /\ UNCHANGED card
         ELSE IF tab[t].from = tab[t].to THEN Commit(t, writes) /\ EndTab(t)
         ELSE tab' = [tab EXCEPT ![t].phase = "source", ![t].wrote = writes] /\ UNCHANGED card
      /\ UNCHANGED <<drags, overlapped>>

ReadSource(t) ==
  /\ tab[t].phase = "source"
  /\ tab' = [tab EXCEPT ![t].phase = "close", ![t].list = Column(t, tab[t].from, tab[t].of)]
  /\ UNCHANGED <<card, drags, overlapped>>

WriteSource_LeavesGap(t) ==   \* mutant: the source keeps its gap
  /\ tab[t].phase = "close" /\ Commit(t, tab[t].wrote)
  /\ EndTab(t) /\ UNCHANGED <<drags, overlapped>>
\* The gap the card left is closed, and everything commits.
WriteSource(t) ==
  LET rows == ToSet(tab[t].list)
      writes == [c \in rows \cup RowsOf(t) |-> IF c \in rows THEN Renumbered(t, tab[t].list)[c] ELSE tab[t].wrote[c]]
  IN  /\ tab[t].phase = "close" /\ ~RowsLocked(t, rows)
      /\ IF \E c \in rows : ~Exists(c) THEN UNCHANGED card ELSE Commit(t, writes)
      /\ EndTab(t) /\ UNCHANGED <<drags, overlapped>>

\* Two transactions about to write common rows may lock them in opposite orders: one is aborted.
Wants(t) == RowsOf(t) \cup IF tab[t].phase \in {"write", "close"} THEN ToSet(tab[t].list) ELSE {}
Deadlocked(t) ==
  /\ tab[t].phase \in {"write", "close"}
  /\ \E u \in BoardTab \ {t} : tab[u].phase \in {"write", "close"} /\ Wants(u) \cap Wants(t) # {}
  /\ EndTab(t) /\ UNCHANGED <<card, drags, overlapped>>

-----------------------------------------------------------------------------
(* archive, restore, remove *)

Archive(t) ==
  /\ Begin(t)
  /\ \E c \in Card : Exists(c) /\ ~card[c].archived /\ ~RowsLocked(t, {c}) /\ card' = [card EXCEPT ![c].archived = TRUE]
  /\ UNCHANGED tab

\* The top of the stage the card had when it was read.
RestoreRead(t) ==
  /\ Begin(t)
  /\ \E c \in Card :
       /\ Exists(c) /\ card[c].archived
       /\ tab' = [tab EXCEPT ![t] = [Ready EXCEPT !.phase = "restore", !.of = {c}, !.index = TopPosition(card[c].stage)]]
  /\ UNCHANGED card
RestoreWrite(t) ==
  /\ tab[t].phase = "restore" /\ ~RowsLocked(t, tab[t].of)
  /\ LET c == Mine(t) IN
     card' = IF Exists(c) THEN [card EXCEPT ![c].archived = FALSE, ![c].position = tab[t].index] ELSE card
  /\ EndTab(t) /\ UNCHANGED <<drags, overlapped>>

Delete(t) ==
  /\ Begin(t)
  /\ \E c \in Card : Exists(c) /\ ~RowsLocked(t, {c}) /\ card' = [card EXCEPT ![c] = Gone]
  /\ UNCHANGED tab

\* A board the user has filled from the top and dragged into order, or an empty one.
TrackerInit ==
  /\ \E n \in {0, 2} : card = [c \in Card |-> IF c \in 1 .. n THEN [Gone EXCEPT !.position = c - 1, !.born = n + 1 - c] ELSE Gone]
  /\ tab = [t \in BoardTab |-> Ready] /\ drags = 0 /\ overlapped = FALSE

TrackerNext ==
  \E t \in BoardTab :
    \/ AddRead(t) \/ AddInsert(t)
    \/ MoveRead(t) \/ ReadDestination(t) \/ WriteDestination(t) \/ ReadSource(t) \/ WriteSource(t) \/ Deadlocked(t)
    \/ Archive(t) \/ RestoreRead(t) \/ RestoreWrite(t) \/ Delete(t)

-----------------------------------------------------------------------------
(* Properties. *)

Shown(stage) == {c \in Card : InColumn(card[c], stage)}
Order(stage) == SetToSortSeq(Shown(stage), LAMBDA a, b : card[a].position < card[b].position)

\* Two cards of a column share a position only after two operations ran at once; then the order
\* of the board is theirs no longer.  (move, topPosition)
BoardOrderIsTheUsers ==
  ~overlapped => \A stage \in Stage : \A a, b \in Shown(stage) : a # b => card[a].position # card[b].position

\* A move that nothing overlaps lands as it was dragged: the card at its index in its new column,
\* every other card of both columns in the order it had, and both columns numbered densely from 0.
MovesLandAsDragged ==
  \A t \in BoardTab, stage \in Stage, c \in Card :
    tab[t].phase \in {"write", "close"} /\ tab'[t].phase = "idle" /\ ~overlapped /\ c \in tab[t].of
      /\ stage \in {tab[t].from, tab[t].to} =>
      /\ SelectSeq(Order(stage)', LAMBDA d : d # c) = SelectSeq(Order(stage), LAMBDA d : d # c)
      /\ stage = tab[t].to =>
           c \in ToSet(Order(stage)') /\ Order(stage)'[1 + Min({tab[t].index, Len(Order(stage)') - 1})] = c
      /\ \A k \in 1 .. Len(Order(stage)') : card'[Order(stage)'[k]].position = k - 1

\* The date a job was applied to is the first one, whatever the card's later travels; a second
\* date takes two moves of the card into APPLIED at once.  (move)
AppliedDateIsTheFirst == ~overlapped => \A c \in Card : card[c].applied <= 1
=============================================================================
