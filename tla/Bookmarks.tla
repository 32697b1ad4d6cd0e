--------------------------------- MODULE Bookmarks ---------------------------------
(***************************************************************************)
(* What users keep: bookmarks of the postings of this board, and of postings       *)
(* elsewhere that the browser extension saves.                                     *)
(*                                                                           *)
(* A bookmark copies the posting's title, company and link, and outlives it with     *)
(* no id.  A toggle reads and then writes; saving twice is one bookmark, by the       *)
(* unique index.  An elsewhere posting is one upsert by user, site and its id.        *)
(*                                                                           *)
(* An operator named after another with a suffix, as InsertBookmark_Bare, is a        *)
(* mutated form of it that no action uses.                                          *)
(***************************************************************************)
EXTENDS Naturals, FiniteSets

CONSTANTS
  Keeper,     \* users
  Ad,         \* postings of the board
  Elsewhere,  \* postings of other sites, by site and the site's id
  Mark,       \* slots of bookmark rows
  Tap,        \* requests in progress
  MaxTaps     \* requests at most

NoAd == 0
NoKeeper == 0
ASSUME BookmarksAssumption ==
  MaxTaps \in Nat /\ NoAd \notin Ad /\ NoKeeper \notin Keeper /\ Mark \subseteq Nat

VARIABLES
  wall,      \* each posting: its title (0 is deleted)
  mark,      \* rows of saved_jobs
  clip,      \* rows of saved_external_jobs, by user and posting
  tap,       \* each request: what it is about and what it has read
  taps,      \* requests made
  alone,     \* each user's wish for each posting, as requests one at a time would leave it
  mixedUp    \* users and postings that two requests in progress were about at once

bookmarkVars == <<wall, mark, clip, tap, taps, alone, mixedUp>>

NoMark == [by |-> NoKeeper, ad |-> NoAd, title |-> 0]
NoClip == [held |-> FALSE]
NoTap == [pc |-> "idle"]

Marked(u, a) == \E m \in Mark : mark[m].by = u /\ mark[m].ad = a
Deleted(a) == wall[a] = 0
DropTap(t) == tap' = [tap EXCEPT ![t] = NoTap]

-----------------------------------------------------------------------------
(* Bookmarks. *)

\* save, remove and toggle; the toggle decides on what it reads.
AskBookmark(t, u, a, what) ==
  /\ taps < MaxTaps /\ tap[t] = NoTap
  /\ taps' = taps + 1
  /\ LET does == IF what # "toggle" THEN what ELSE IF Marked(u, a) THEN "remove" ELSE "save" IN
     tap' = [tap EXCEPT ![t] = [pc |-> IF does = "save" THEN "copy" ELSE "remove", by |-> u, ad |-> a, title |-> 0]]
  /\ mixedUp' = IF \E s \in Tap : tap[s] # NoTap /\ tap[s].by = u /\ tap[s].ad = a
                THEN mixedUp \cup {<<u, a>>} ELSE mixedUp
  /\ alone' = [alone EXCEPT ![<<u, a>>] = CASE what = "save" -> ~ Deleted(a) [] what = "remove" -> FALSE [] OTHER -> ~ @ /\ ~ Deleted(a)]
  /\ UNCHANGED <<wall, mark, clip>>

\* add reads what the bookmark copies.
CopyPosting(t) ==
  /\ tap[t].pc = "copy"
  /\ tap' = [tap EXCEPT ![t].pc = "insert", ![t].title = wall[tap[t].ad]]
  /\ UNCHANGED <<wall, mark, clip, taps, alone, mixedUp>>

\* The insert fails on a bookmark there already, which counts as success, and on a posting
\* that is gone, which is refused.
InsertBookmark_Bare(t, m) == [mark EXCEPT ![m] = [by |-> tap[t].by, ad |-> tap[t].ad, title |-> 0]]
InsertBookmark(t, m) == [mark EXCEPT ![m] = [by |-> tap[t].by, ad |-> tap[t].ad, title |-> tap[t].title]]
IndexRefuses_Never(t) == FALSE
IndexRefuses(t) == Marked(tap[t].by, tap[t].ad)

SaveBookmark(t) ==
  /\ tap[t].pc = "insert"
  /\ \/ /\ IndexRefuses(t) \/ Deleted(tap[t].ad)
        /\ UNCHANGED mark
     \/ /\ ~ IndexRefuses(t) /\ ~ Deleted(tap[t].ad)
        /\ \E m \in Mark :
             /\ mark[m] = NoMark /\ \A n \in Mark : n < m => mark[n] # NoMark
             /\ mark' = InsertBookmark(t, m)
  /\ DropTap(t)
  /\ UNCHANGED <<wall, clip, taps, alone, mixedUp>>

RemoveBookmark_OfAnyone(t) ==
  [m \in Mark |-> IF mark[m].ad = tap[t].ad THEN NoMark ELSE mark[m]]
RemoveBookmark(t) ==
  [m \in Mark |-> IF mark[m].by = tap[t].by /\ mark[m].ad = tap[t].ad THEN NoMark ELSE mark[m]]

DeleteBookmark(t) ==
  /\ tap[t].pc = "remove"
  /\ mark' = RemoveBookmark(t)
  /\ DropTap(t)
  /\ UNCHANGED <<wall, clip, taps, alone, mixedUp>>

\* A posting's row goes; its bookmarks lose the link and stay (onDelete: SetNull).
DropPosting(a) ==
  /\ ~ Deleted(a)
  /\ wall' = [wall EXCEPT ![a] = 0]
  /\ mark' = [m \in Mark |-> IF mark[m].ad = a THEN [mark[m] EXCEPT !.ad = NoAd] ELSE mark[m]]
  /\ alone' = [k \in Keeper \X Ad |-> IF k[2] = a THEN FALSE ELSE alone[k]]
  /\ UNCHANGED <<clip, tap, taps, mixedUp>>

\* findJobIdsByUser: the ids a client can fetch; an orphan has none.
FindJobIds(u) == {mark[m].ad : m \in {n \in Mark : mark[n].by = u /\ mark[n].ad # NoAd}}
\* findOrphanedByUser.
Orphans(u) == {m \in Mark : mark[m].by = u /\ mark[m].ad = NoAd}

-----------------------------------------------------------------------------
(* Postings elsewhere. *)

\* A blank field is an absent one.
Clean_NotAtAll(text) == text
Clean(text) == IF text = "blank" THEN "absent" ELSE text

\* Saving again corrects what was typed.
SaveElsewhere(u, x, salary) ==
  /\ taps < MaxTaps /\ taps' = taps + 1
  /\ clip' = [clip EXCEPT ![<<u, x>>] = [held |-> TRUE, salary |-> Clean(salary)]]
  /\ UNCHANGED <<wall, mark, tap, alone, mixedUp>>

\* The deletion names the row and its owner.
RemoveElsewhere(u, x) ==
  /\ clip[<<u, x>>].held
  /\ clip' = [clip EXCEPT ![<<u, x>>] = NoClip]
  /\ UNCHANGED <<wall, mark, tap, taps, alone, mixedUp>>

-----------------------------------------------------------------------------

BookmarksInit ==
  /\ wall = [a \in Ad |-> 1]
  /\ mark = [m \in Mark |-> NoMark]
  /\ clip = [k \in Keeper \X Elsewhere |-> NoClip]
  /\ tap = [t \in Tap |-> NoTap]
  /\ taps = 0
  /\ alone = [k \in Keeper \X Ad |-> FALSE]
  /\ mixedUp = {}

BookmarksNext ==
  \/ \E t \in Tap, u \in Keeper, a \in Ad, w \in {"save", "remove", "toggle"} : AskBookmark(t, u, a, w)
  \/ \E t \in Tap : CopyPosting(t) \/ SaveBookmark(t) \/ DeleteBookmark(t)
  \/ \E a \in Ad : DropPosting(a)
  \/ \E u \in Keeper, x \in Elsewhere :
       RemoveElsewhere(u, x) \/ \E s \in {"blank", "typed"} : SaveElsewhere(u, x, s)

-----------------------------------------------------------------------------
(* Properties. *)

\* One bookmark per user and posting, whatever two toggles read at once.
OneBookmarkEach ==
  \A m, n \in Mark : m # n /\ mark[m].ad # NoAd => <<mark[m].by, mark[m].ad>> # <<mark[n].by, mark[n].ad>>

\* A bookmark whose posting is gone still says which posting it was; no list shows a gone one.
BookmarksOutliveThePosting ==
  /\ \A u \in Keeper, m \in Mark : m \in Orphans(u) => mark[m].title # 0
  /\ \A u \in Keeper : \A a \in FindJobIds(u) : ~ Deleted(a)

\* A user's bookmarks are as that user's requests left them, but where two were in progress at
\* once or the posting went meanwhile: no one else's request changes them.
BookmarksAreTheUsers ==
  \A u \in Keeper, a \in Ad :
    <<u, a>> \notin mixedUp /\ (\A t \in Tap : tap[t] # NoTap => <<tap[t].by, tap[t].ad>> # <<u, a>>) =>
      (a \in FindJobIds(u)) = alone[<<u, a>>]

\* No blank text is stored as if it had been typed.
NothingBlankIsKept == \A k \in Keeper \X Elsewhere : clip[k].held => clip[k].salary # "blank"

BookmarksHold == OneBookmarkEach /\ BookmarksOutliveThePosting /\ BookmarksAreTheUsers /\ NothingBlankIsKept
=============================================================================
