----------------------------- MODULE ApplicationDesk -----------------------------
(***************************************************************************)
(* What surrounds the status of an application: the resume it was sent with, the  *)
(* two flags that hide it, the employer's notes, and the lists both sides read.   *)
(*                                                                           *)
(* HiringPipeline moves the status; none of the operations here does.  Every      *)
(* one of them reads first and writes by id afterwards, and candidates switch      *)
(* and delete their resumes in between.                                         *)
(***************************************************************************)
EXTENDS Integers, FiniteSets

CONSTANTS
  Applicant,    \* candidates
  Recruiter,    \* employers, each with its one company
  Vacancy,      \* published jobs
  RecruiterOf,  \* vacancy -> the employer of its company
  Paper,        \* resumes
  PaperOf,      \* resume -> its owner
  Errand,       \* requests in progress at a time
  MaxErrands,   \* bound on the requests
  PageOfBoard,  \* take: the length of a page of the board
  Deal,         \* transactions open at a time
  MaxDeals      \* bound on the transactions

ASSUME DeskAssumption ==
  /\ RecruiterOf \in [Vacancy -> Recruiter] /\ PaperOf \in [Paper -> Applicant]
  /\ 0 \notin Applicant \cup Recruiter \cup Paper /\ Applicant \cap Recruiter = {}   \* a user has one role
  /\ IsFiniteSet(Applicant) /\ IsFiniteSet(Vacancy) /\ IsFiniteSet(Paper)
  /\ MaxErrands \in Nat /\ PageOfBoard \in Nat \ {0} /\ MaxDeals \in Nat

NoPaper == 0
NoErrand == [pc |-> "idle"]
NoFiling == [sent |-> FALSE]
Unscreened == [covered |-> -1, score |-> -1]

VARIABLES
  paper,    \* resume -> [state, preferred, stored, at]; at orders updatedAt
  filing,   \* <<applicant, vacancy>> -> the row of the application, but for its status
  contacts, \* applications with a contact person
  errand,   \* request -> what it does and where it stands
  errands,
  links,    \* download links handed out
  choosing, \* history: filing -> what either read of the active resume could find in its submission
  deleting  \* history: resumes whose deletion has begun
VARIABLES
  poster,   \* vacancy -> postedByEmployerId, or NoUser
  stage,    \* <<applicant, vacancy>> -> the status of the application
  deal,     \* transaction -> what it is about to commit
  deals,    \* transactions begun
  bell,     \* the notices: [of, to, row, title]
  seen,     \* the notices read
  happened, \* history: the events committed: [of, row, actor, by, title, named]
  ownRead    \* history: the notices read that were read by their own addressee
deskVars == <<paper, filing, contacts, errand, errands, links, choosing, deleting>>

Row == Applicant \X Vacancy
Filed == {f \in Row : filing[f].sent}

-----------------------------------------------------------------------------
(* Resumes. *)

\* Parsed, and not deleted.
Legible(u) == {p \in Paper : PaperOf[p] = u /\ paper[p].state = "parsed"}

Preferred(u) == {p \in Legible(u) : paper[p].preferred}
NewestOf(s) == {p \in s : \A q \in s : paper[q].at <= paper[p].at}

\* The resume that speaks for the user, if any: a readable default, else the newest readable.
Active(u) ==
  IF Preferred(u) # {} THEN Preferred(u) ELSE IF Legible(u) # {} THEN NewestOf(Legible(u)) ELSE {NoPaper}

LatestAt == LET s == {paper[p].at : p \in Paper} IN CHOOSE n \in s : \A m \in s : m <= n
Touched(p) == [paper[p] EXCEPT !.at = 1 + LatestAt]

Findable(u) == Active(u) \cup NewestOf(Legible(u))

\* What any change of the resumes adds to the choices of the submissions in progress.
Seen(chosen) ==
  [f \in Row |-> IF \E e \in Errand : errand[e].pc # "idle" /\ errand[e].does = "apply" /\ errand[e].of = f
                 THEN chosen[f] \cup Findable(f[1])' ELSE chosen[f]]

OneMore == errands < MaxErrands /\ errands' = errands + 1

Begin(e, task) ==
  /\ errand[e] = NoErrand /\ OneMore
  /\ errand' = [errand EXCEPT ![e] = task]
End(e) == errand' = [errand EXCEPT ![e] = NoErrand]

\* The parser reads a resume that was uploaded.
ReadPaper(p) ==
  /\ paper[p].state = "uploaded"
  /\ paper' = [paper EXCEPT ![p] = [Touched(p) EXCEPT !.state = "parsed"]]
  /\ choosing' = Seen(choosing)
  /\ UNCHANGED <<filing, contacts, errand, errands, links, deleting>>

\* A default is switched by two saves.
UnsetDefault(e, p) ==
  LET old == {q \in Paper : PaperOf[q] = PaperOf[p] /\ paper[q].preferred /\ paper[q].state # "deleted"} IN
  /\ paper[p].state # "deleted" /\ p \notin old
  /\ Begin(e, [pc |-> "set", does |-> "switch", paper |-> p])
  /\ paper' = [q \in Paper |-> IF q \in old THEN [Touched(q) EXCEPT !.preferred = FALSE] ELSE paper[q]]
  /\ choosing' = Seen(choosing)
  /\ UNCHANGED <<filing, contacts, links, deleting>>

SetDefault(e) ==
  LET p == errand[e].paper IN
  /\ errand[e].pc = "set"
  /\ paper' = [paper EXCEPT ![p] = [Touched(p) EXCEPT !.preferred = TRUE]]
  /\ End(e)
  /\ choosing' = Seen(choosing)
  /\ UNCHANGED <<filing, contacts, errands, links, deleting>>

\* A resume goes in two steps: its file, then its row.
DeleteFile(e, p) ==
  /\ paper[p].state # "deleted"
  /\ Begin(e, [pc |-> "row", does |-> "delete", paper |-> p])
  /\ paper' = [paper EXCEPT ![p].stored = FALSE]
  /\ deleting' = deleting \cup {p}
  /\ UNCHANGED <<filing, contacts, links, choosing>>

DeleteRow(e) ==
  LET p == errand[e].paper IN
  /\ errand[e].pc = "row"
  /\ paper' = [paper EXCEPT ![p].state = "deleted"]
  /\ End(e)
  /\ choosing' = Seen(choosing)
  /\ UNCHANGED <<filing, contacts, errands, links, deleting>>

-----------------------------------------------------------------------------
(* Submitting: the resume is fixed when the row is written. *)

\* With a resume the candidate named, which must be theirs; or the default, the first of the
\* two reads that find the active one.
SubmitApplication_AnyPaper(e, f, named) ==
  /\ ~ filing[f].sent
  /\ LET found == IF named # NoPaper THEN {named} ELSE Preferred(f[1]) IN
     IF found = {} THEN Begin(e, [pc |-> "newest", does |-> "apply", of |-> f, paper |-> NoPaper])
     ELSE \E p \in found : Begin(e, [pc |-> "insert", does |-> "apply", of |-> f, paper |-> p])
  /\ choosing' = [choosing EXCEPT ![f] = @ \cup IF named # NoPaper THEN {named} ELSE Findable(f[1])]
  /\ UNCHANGED <<paper, filing, contacts, links, deleting>>
SubmitApplication(e, f, named) ==
  /\ ~ filing[f].sent
  /\ named # NoPaper => PaperOf[named] = f[1] /\ paper[named].state # "deleted"
  /\ LET found == IF named # NoPaper THEN {named} ELSE Preferred(f[1]) IN
     IF found = {} THEN Begin(e, [pc |-> "newest", does |-> "apply", of |-> f, paper |-> NoPaper])
     ELSE \E p \in found : Begin(e, [pc |-> "insert", does |-> "apply", of |-> f, paper |-> p])
  /\ choosing' = [choosing EXCEPT ![f] = @ \cup IF named # NoPaper THEN {named} ELSE Findable(f[1])]
  /\ UNCHANGED <<paper, filing, contacts, links, deleting>>

\* The second read, when no readable resume was the default.
FindNewest(e) ==
  LET mine == Legible(errand[e].of[1]) IN
  /\ errand[e].pc = "newest"
  /\ \E p \in IF mine = {} THEN {NoPaper} ELSE NewestOf(mine) :
       errand' = [errand EXCEPT ![e].pc = "insert", ![e].paper = p]
  /\ UNCHANGED <<paper, filing, contacts, errands, links, choosing, deleting>>

InsertRow(e) ==
  LET f == errand[e].of IN
  /\ errand[e].pc = "insert"
  /\ IF filing[f].sent THEN End(e) /\ UNCHANGED filing
     ELSE /\ errand' = [errand EXCEPT ![e].pc = "screen"]
          /\ filing' = [filing EXCEPT ![f] = [sent |-> TRUE, paper |-> errand[e].paper, hidden |-> {}, notes |-> 0,
                                             screened |-> Unscreened, at |-> Cardinality(Filed)]]
  /\ UNCHANGED <<paper, contacts, errands, links, choosing, deleting>>

\* The screening is awaited: it leaves an assessment, or none when it fails.
Screen(e, result) ==
  /\ errand[e].pc = "screen"
  /\ filing' = [filing EXCEPT ![errand[e].of].screened = result]
  /\ End(e)
  /\ UNCHANGED <<paper, contacts, errands, links, choosing, deleting>>

-----------------------------------------------------------------------------
(* Either side's own flag, the notes, the contact person. *)

\* An application is its candidate's, and the employer's of its job.
AssertOwned(who, f) == who = f[1]
RequireOwned(who, f) == who = RecruiterOf[f[2]]

\* Who hides (or restores) an application must own it; the flag is their own column.
ArchivedBy(f, side, hide) ==
  [filing EXCEPT ![f].hidden = IF hide THEN @ \cup {side} ELSE @ \ {side}]
SetArchivedByCandidate_Shared(u, f, hide) ==
  /\ OneMore
  /\ filing[f].sent /\ AssertOwned(u, f)
  /\ filing' = [ArchivedBy(f, "candidate", hide) EXCEPT ![f].hidden = IF hide THEN {"candidate", "employer"} ELSE {}]
  /\ UNCHANGED <<paper, contacts, errand, links, choosing, deleting>>
SetArchivedByCandidate(u, f, hide) ==
  /\ OneMore
  /\ filing[f].sent /\ AssertOwned(u, f)
  /\ filing' = ArchivedBy(f, "candidate", hide)
  /\ UNCHANGED <<paper, contacts, errand, links, choosing, deleting>>
SetArchivedByEmployer(r, f, hide) ==
  /\ OneMore
  /\ filing[f].sent /\ RequireOwned(r, f)
  /\ filing' = ArchivedBy(f, "employer", hide)
  /\ UNCHANGED <<paper, contacts, errand, links, choosing, deleting>>

SetEmployerNotes(r, f) ==
  /\ OneMore
  /\ filing[f].sent /\ RequireOwned(r, f) /\ filing[f].notes = 0
  /\ filing' = [filing EXCEPT ![f].notes = r]
  /\ UNCHANGED <<paper, contacts, errand, links, choosing, deleting>>

\* A second contact person has an id of its own and meets the unique index: refused.
AddContactPerson(u, f) ==
  /\ OneMore
  /\ filing[f].sent /\ AssertOwned(u, f) /\ f \notin contacts
  /\ contacts' = contacts \cup {f}
  /\ UNCHANGED <<paper, filing, errand, links, choosing, deleting>>

-----------------------------------------------------------------------------
(* The employer reads the resume. *)

\* One read finds the application with its job and the resume it was submitted with.
GetResumeDownload_AnyCompany(e, r, f) ==
  LET p == filing[f].paper IN
  /\ filing[f].sent /\ p # NoPaper /\ paper[p].state # "deleted"
  /\ Begin(e, [pc |-> "sign", does |-> "read", of |-> f, by |-> r, paper |-> p])
  /\ UNCHANGED <<paper, filing, contacts, links, choosing, deleting>>
GetResumeDownload_Current(e, r, f) ==
  /\ filing[f].sent /\ RequireOwned(r, f)
  /\ \E p \in Active(f[1]) \ {NoPaper} :
       Begin(e, [pc |-> "sign", does |-> "read", of |-> f, by |-> r, paper |-> p])
  /\ UNCHANGED <<paper, filing, contacts, links, choosing, deleting>>
GetResumeDownload(e, r, f) ==
  LET p == filing[f].paper IN
  /\ filing[f].sent /\ RequireOwned(r, f) /\ p # NoPaper /\ paper[p].state # "deleted"
  /\ Begin(e, [pc |-> "sign", does |-> "read", of |-> f, by |-> r, paper |-> p])
  /\ UNCHANGED <<paper, filing, contacts, links, choosing, deleting>>

\* The path is built from the resume's owner.  Storage may refuse to sign for a file that is gone.
GetSignedUrl(e) ==
  LET x == errand[e]
      gone == ~ paper[x.paper].stored IN
  /\ x.pc = "sign"
  /\ \/ links' = links \cup {[by |-> x.by, of |-> x.of, paper |-> x.paper, dead |-> gone]}
     \/ gone /\ UNCHANGED links
  /\ End(e)
  /\ UNCHANGED <<paper, filing, contacts, errands, choosing, deleting>>

-----------------------------------------------------------------------------
(* The lists. *)

FindByUserId(u) == {f \in Filed : AssertOwned(u, f) /\ "candidate" \notin filing[f].hidden}
FindForCompany(r) == {f \in Filed : RequireOwned(r, f) /\ "employer" \notin filing[f].hidden}

\* Best first: requirements covered, then score, nulls last; then the newest.
Better_NullsFirst(f, g) ==
  LET a == filing[f].screened  b == filing[g].screened IN
  a.covered < 0 /\ b.covered >= 0
Better(f, g) ==
  LET a == filing[f].screened  b == filing[g].screened IN
  \/ a.covered > b.covered
  \/ a.covered = b.covered /\ a.score > b.score
  \/ a = b /\ filing[f].at > filing[g].at

BoardPage(r) ==
  LET s == FindForCompany(r) IN {f \in s : Cardinality({g \in s : Better(g, f)}) < PageOfBoard}

-----------------------------------------------------------------------------
DeskInit ==
  /\ paper \in [Paper -> [state: {"uploaded", "parsed"}, preferred: {FALSE}, stored: {TRUE}, at: {0}]]
  /\ filing = [f \in Row |-> NoFiling] /\ contacts = {} /\ links = {} /\ deleting = {}
  /\ errand = [e \in Errand |-> NoErrand] /\ errands = 0 /\ choosing = [f \in Row |-> {}]

DeskNext ==
  \/ \E p \in Paper : ReadPaper(p) \/ \E e \in Errand : UnsetDefault(e, p) \/ DeleteFile(e, p)
  \/ \E e \in Errand :
       \/ SetDefault(e) \/ DeleteRow(e) \/ FindNewest(e) \/ InsertRow(e) \/ GetSignedUrl(e)
       \/ \E covered \in {-1, 0, 1} : Screen(e, [covered |-> covered, score |-> covered])
  \/ \E f \in Row :
       \/ \E e \in Errand, named \in Paper \cup {NoPaper} : SubmitApplication(e, f, named)
       \/ \E u \in Applicant :
            AddContactPerson(u, f) \/ \E hide \in BOOLEAN : SetArchivedByCandidate(u, f, hide)
       \/ \E r \in Recruiter :
            \/ SetEmployerNotes(r, f)
            \/ \E hide \in BOOLEAN : SetArchivedByEmployer(r, f, hide)
            \/ \E e \in Errand : GetResumeDownload(e, r, f)

-----------------------------------------------------------------------------
(* The bell: what one side is told of the moves and the messages of the other.   *)

bellVars == <<poster, stage, deal, deals, bell, seen, happened, ownRead>>
NoUser == 0
NoDeal == [pc |-> "idle"]

TRANSITIONS_OfApplications ==
  [SUBMITTED |-> {"SCREENING", "REJECTED", "WITHDRAWN"},
   SCREENING |-> {"INTERVIEW", "OFFER", "REJECTED", "WITHDRAWN"},
   INTERVIEW |-> {"OFFER", "REJECTED", "WITHDRAWN"},
   OFFER |-> {"ACCEPTED", "NEGOTIATING", "REJECTED", "WITHDRAWN"},
   NEGOTIATING |-> {"OFFER", "ACCEPTED", "REJECTED", "WITHDRAWN"},
   ACCEPTED |-> {}, REJECTED |-> {"SCREENING"}, WITHDRAWN |-> {}]

\* The system screens, and does nothing else.
SETTABLE_BY_ACTOR_Anything ==
  [CANDIDATE |-> {"WITHDRAWN", "ACCEPTED", "NEGOTIATING", "REJECTED"},
   EMPLOYER |-> {"SCREENING", "INTERVIEW", "OFFER", "REJECTED"}, SYSTEM |-> {"SCREENING"}]
SETTABLE_BY_ACTOR ==
  [CANDIDATE |-> {"WITHDRAWN", "ACCEPTED", "NEGOTIATING"},
   EMPLOYER |-> {"SCREENING", "INTERVIEW", "OFFER", "REJECTED"}, SYSTEM |-> {"SCREENING"}]

\* Whom the wording of each title speaks to: "You have moved to interview", "A candidate withdrew".
NOTIFICATION_TITLES ==
  [SCREENING |-> "candidate", INTERVIEW |-> "candidate", OFFER |-> "candidate", REJECTED |-> "candidate",
   NEGOTIATING |-> "employer", ACCEPTED |-> "employer", WITHDRAWN |-> "employer"]

\* Who acts: the system acts for nobody.
ActorUser(actor, f) == CASE actor = "CANDIDATE" -> f[1] [] actor = "EMPLOYER" -> RecruiterOf[f[2]] [] OTHER -> NoUser

Notice(d, to, title) == IF to \in {NoUser, d.by} THEN {} ELSE {[of |-> <<d.id, title>>, to |-> to, row |-> d.row, title |-> title]}

\* An event of a transaction; named tells whether the posting names someone to tell of it.
Event(d, title) ==
  [of |-> <<d.id, title>>, row |-> d.row, actor |-> d.actor, by |-> d.by, title |-> title, named |-> poster[d.row[2]] # NoUser]

\* A transaction that begins by reading the status, and goes on by pc.
BeginDeal(t, f, actor, to, pc) ==
  /\ deal[t] = NoDeal /\ deals < MaxDeals /\ deals' = deals + 1
  /\ deal' = [deal EXCEPT ![t] =
       [pc |-> pc, id |-> deals + 1, row |-> f, actor |-> actor, by |-> ActorUser(actor, f), from |-> stage[f], to |-> to,
        notices |-> {}, events |-> {}]]
  /\ UNCHANGED <<poster, stage, bell, seen, happened, ownRead>>

BeginMove(t, f, actor, to) ==
  /\ to \in TRANSITIONS_OfApplications[stage[f]] \cap SETTABLE_BY_ACTOR[actor]
  /\ BeginDeal(t, f, actor, to, "swap")

\* A message on an offer, which a candidate writes while it is open; the first one of theirs opens
\* the negotiation as well.
PostMessage(t, f, actor) ==
  /\ stage[f] \in {"OFFER", "NEGOTIATING"} \cup IF actor = "EMPLOYER" THEN {"ACCEPTED"} ELSE {}
  /\ BeginDeal(t, f, actor, IF actor = "CANDIDATE" /\ stage[f] = "OFFER" THEN "NEGOTIATING" ELSE "none", "write")

\* The message and its notice: to whoever posted the job, or to the candidate.
NotifyOfMessage(t) ==
  LET d == deal[t]
      to == IF d.actor = "CANDIDATE" THEN poster[d.row[2]] ELSE d.row[1] IN
  /\ d.pc = "write"
  /\ deal' = [deal EXCEPT ![t] = [d EXCEPT !.pc = IF d.to = "none" THEN "commit" ELSE "swap",
       !.notices = Notice(d, to, "message"), !.events = {Event(d, "message")}]]
  /\ UNCHANGED <<poster, stage, deals, bell, seen, happened, ownRead>>

\* Whoever has swapped the status of a row and not committed holds it.
Locked(f) == \E t \in Deal : deal[t].pc \in {"tell", "commit"} /\ deal[t].row = f /\ deal[t].to # "none"

\* The write asks for the status that was read; if it is gone, so is the transaction.
SwapStatus(t) ==
  LET d == deal[t] IN
  /\ d.pc = "swap" /\ ~ Locked(d.row)
  /\ deal' = [deal EXCEPT ![t] = IF stage[d.row] = d.from THEN [d EXCEPT !.pc = "tell"] ELSE NoDeal]
  /\ UNCHANGED <<poster, stage, deals, bell, seen, happened, ownRead>>

\* A candidate's move is told to whoever posted the job, any other to the candidate; on the same
\* transaction as the move.
Recipient_Actor(d) == IF d.actor = "EMPLOYER" THEN poster[d.row[2]] ELSE d.row[1]
Recipient(d) == IF d.actor = "CANDIDATE" THEN poster[d.row[2]] ELSE d.row[1]

NotifyCounterparty_Outside(t) ==
  LET d == deal[t] IN
  /\ d.pc = "tell"
  /\ bell' = bell \cup Notice(d, Recipient(d), d.to)
  /\ deal' = [deal EXCEPT ![t] = [d EXCEPT !.pc = "commit", !.events = @ \cup {Event(d, d.to)}]]
  /\ UNCHANGED <<poster, stage, deals, seen, happened, ownRead>>
NotifyCounterparty(t) ==
  LET d == deal[t] IN
  /\ d.pc = "tell"
  /\ deal' = [deal EXCEPT ![t] = [d EXCEPT !.pc = "commit", !.events = @ \cup {Event(d, d.to)},
       !.notices = @ \cup Notice(d, Recipient(d), d.to)]]
  /\ UNCHANGED <<poster, stage, deals, bell, seen, happened, ownRead>>

CommitDeal(t) ==
  LET d == deal[t] IN
  /\ d.pc = "commit"
  /\ stage' = IF d.to = "none" THEN stage ELSE [stage EXCEPT ![d.row] = d.to]
  /\ bell' = bell \cup d.notices /\ happened' = happened \cup d.events
  /\ deal' = [deal EXCEPT ![t] = NoDeal]
  /\ UNCHANGED <<poster, deals, seen, ownRead>>

RollBackDeal(t) ==
  /\ deal[t] # NoDeal
  /\ deal' = [deal EXCEPT ![t] = NoDeal]
  /\ UNCHANGED <<poster, stage, deals, bell, seen, happened, ownRead>>

\* The second write of a creation: until it lands, and for ever if it fails, the posting names nobody.
SetPostedBy(v) ==
  /\ poster[v] = NoUser /\ poster' = [poster EXCEPT ![v] = RecruiterOf[v]]
  /\ UNCHANGED <<stage, deal, deals, bell, seen, happened, ownRead>>

\* A user's own feed; its unread ones are what the badge counts.
Feed(u) == {n \in bell : n.to = u}

\* Asked for by id and owner in one statement; another's id is not found.
MarkRead_OfAnyone(u, n) ==
  /\ n \notin seen /\ seen' = seen \cup {n}
  /\ ownRead' = IF n.to = u THEN ownRead \cup {n} ELSE ownRead
  /\ UNCHANGED <<poster, stage, deal, deals, bell, happened>>
MarkRead(u, n) ==
  /\ n \in Feed(u) \ seen /\ seen' = seen \cup {n}
  /\ ownRead' = ownRead \cup {n}
  /\ UNCHANGED <<poster, stage, deal, deals, bell, happened>>

MarkAllRead(u) ==
  /\ ~ Feed(u) \subseteq seen
  /\ seen' = seen \cup Feed(u) /\ ownRead' = ownRead \cup Feed(u)
  /\ UNCHANGED <<poster, stage, deal, deals, bell, happened>>

BellInit ==
  /\ poster = [v \in Vacancy |-> NoUser] /\ stage \in [Row -> {"SUBMITTED", "OFFER"}]
  /\ deal = [t \in Deal |-> NoDeal] /\ deals = 0
  /\ bell = {} /\ seen = {} /\ happened = {} /\ ownRead = {}

BellNext ==
  \/ \E v \in Vacancy : SetPostedBy(v)
  \/ \E t \in Deal :
       \/ NotifyOfMessage(t) \/ SwapStatus(t) \/ NotifyCounterparty(t) \/ CommitDeal(t) \/ RollBackDeal(t)
       \/ \E f \in Row, actor \in {"CANDIDATE", "EMPLOYER"} : PostMessage(t, f, actor)
       \/ \E f \in Row, actor \in DOMAIN SETTABLE_BY_ACTOR, to \in DOMAIN NOTIFICATION_TITLES : BeginMove(t, f, actor, to)
  \/ \E u \in Applicant \cup Recruiter : MarkAllRead(u) \/ \E n \in bell : MarkRead(u, n)

-----------------------------------------------------------------------------
(* Properties. *)

\* An application is sent with the resume its candidate named, or one that was their default or
\* their newest at some time of the submission: never with none while they had one throughout.
SentWithTheirOwn ==
  \A f \in Filed : filing[f].paper \in choosing[f] /\ (filing[f].paper # NoPaper => PaperOf[filing[f].paper] = f[1])

\* A link leads the employer of the job to the very resume the candidate submitted, however they
\* switched defaults since; it is dead only if that resume was being deleted.
LinksLeadToTheSubmitted ==
  \A l \in links :
    /\ RequireOwned(l.by, l.of) /\ l.paper = filing[l.of].paper
    /\ l.dead => l.paper \in deleting

\* The strongest candidates are on the first page: nobody a page leaves out covers more of the
\* requirements than someone on it, and the unassessed come after the assessed.
StrongestComeFirst ==
  \A r \in Recruiter : \A f \in BoardPage(r), g \in FindForCompany(r) \ BoardPage(r) :
    filing[f].screened.covered >= filing[g].screened.covered

DeskIsTrue == SentWithTheirOwn /\ LinksLeadToTheSubmitted /\ StrongestComeFirst

\* Tidying one's own list takes nothing from the other's: no step takes an application from both
\* lists, and the employer's list only loses what an employer of the job took off it.
ListsAreSeparate ==
  \A u \in Applicant, r \in Recruiter :
    \/ FindByUserId(u) \subseteq FindByUserId(u)'
    \/ FindForCompany(r) \subseteq FindForCompany(r)'

\* The bell is as true as the rows: a notice is of a move or a message that was committed, goes
\* to the other side and never to the one who acted, and is worded for whoever reads it; and
\* every event has its notice, but one to an employer of a posting that named nobody then.
BellIsTrue ==
  /\ \A n \in bell : \E h \in happened :
       /\ h.of = n.of /\ h.row = n.row
       /\ n.to # h.by
       /\ n.to = IF h.actor = "CANDIDATE" THEN RecruiterOf[h.row[2]] ELSE h.row[1]
       /\ n.title # "message" => NOTIFICATION_TITLES[n.title] = IF n.to \in Recruiter THEN "employer" ELSE "candidate"
  /\ \A h \in happened : (h.actor = "CANDIDATE" => h.named) => \E n \in bell : n.of = h.of
  /\ \A n, o \in bell : n.of = o.of => n = o
  /\ seen = ownRead
=============================================================================
