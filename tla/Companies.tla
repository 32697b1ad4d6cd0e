--------------------------------- MODULE Companies ---------------------------------
(***************************************************************************)
(* Which rows of the directory are one company.  A name is shown to people and    *)
(* identifies nothing; a domain does.  The two signals share one unique column,    *)
(* the identity key: a strong one from a website or a work address, a weak one      *)
(* from the normalized name, all that a scraped advertisement carries.              *)
(*                                                                           *)
(* An admin's creation looks for the domain and inserts later; ingestion upserts   *)
(* in one statement; an employer's edit writes the website and nothing else.        *)
(*                                                                           *)
(* An operator named after another with a suffix, as BuildIdentityKey_NameFirst,   *)
(* is a mutated form of it that no action uses.                                    *)
(***************************************************************************)
EXTENDS Naturals, FiniteSets

CONSTANTS
  Firm,      \* rows the directory may come to hold
  Names,     \* names as people write them: the words, and how they are punctuated
  Sites,     \* websites as people write them: the host, and what surrounds it
  Contacts,  \* addresses of contacts: the host, and whether anyone may have a box there
  Admin,     \* creations in progress
  MaxResites,\* rows an employer edits at most
  Draft,     \* ids of the postings employers create
  Hirer,     \* employers
  HirerFirm, \* employer -> the company of its profile
  Revision,  \* requests about postings open at a time
  MaxRevised \* bound on those requests

NoOne == 0         \* no row
NoHost == "none"   \* free text, or nothing at all
ASSUME CompaniesAssumption ==
  /\ Firm \subseteq Nat \ {NoOne} /\ MaxResites \in Nat /\ MaxRevised \in Nat
  /\ HirerFirm \in [Hirer -> Firm] /\ NoOne \notin Hirer
  /\ \A n \in Names : {"words", "style"} = DOMAIN n
  /\ \A s \in Sites : {"host", "decor"} = DOMAIN s
  /\ \A c \in Contacts : {"host", "public"} = DOMAIN c

VARIABLES
  directory,  \* the rows
  proposal,   \* each creation: what was looked up for it
  hiredBy,    \* what each name as written was last posted under, and the row it went to
  resited,    \* rows whose website an employer has edited
  draft,      \* the postings: [of, status, text, range, by]
  revising,   \* request -> the posting it has read and changed, not yet saved
  revised,    \* requests begun
  toldOf,     \* history: what the last request that named a part of a posting was answered
  overlapped  \* history: parts of a posting saved over by a request that read it before

companyVars == <<directory, proposal, hiredBy, resited>>

NoFirm == [held |-> FALSE]
NoProposal == [pc |-> "idle"]
Held(f) == directory[f].held

-----------------------------------------------------------------------------
(* Identity. *)

\* Protocol, www, port, path and case go; what is left must have a dot in it.
NormalizeDomain(site) == site.host

\* An address at a consumer provider names a person, not a business.
DomainFromEmail(contact) == IF contact.public THEN NoHost ELSE contact.host

\* The website is the company's own claim about itself, so it comes before the address.
DomainOf(site, contact) ==
  IF NormalizeDomain(site) # NoHost THEN NormalizeDomain(site) ELSE DomainFromEmail(contact)

\* Formatting is normalized, meaning is not.
NormalizeCompanyName(name) == name.words

WeakKey(name) == [strong |-> FALSE, of |-> NormalizeCompanyName(name)]
BuildIdentityKey_NameFirst(name, site, contact) == WeakKey(name)
BuildIdentityKey_IgnoringTheAddress(name, site, contact) ==
  IF NormalizeDomain(site) # NoHost THEN [strong |-> TRUE, of |-> NormalizeDomain(site)] ELSE WeakKey(name)
BuildIdentityKey(name, site, contact) ==
  IF DomainOf(site, contact) # NoHost THEN [strong |-> TRUE, of |-> DomainOf(site, contact)] ELSE WeakKey(name)

CompanyRow(name, site, domain, key) == [held |-> TRUE, name |-> name, site |-> site, domain |-> domain, key |-> key]

\* The unique index on identityKey.
KeyTaken(key) == \E f \in Firm : Held(f) /\ directory[f].key = key

\* A new row takes the next slot.
Free == {f \in Firm : ~ Held(f) /\ \A g \in Firm : g < f => Held(g)}
InsertFirm(r) == \E f \in Free : directory' = [directory EXCEPT ![f] = r]

-----------------------------------------------------------------------------
(* Ingestion. *)

\* One upsert by the weak key, for the name as the advertisement writes it.
UpsertCompany_ByName(name) == {f \in Firm : Held(f) /\ directory[f].name = name}
UpsertCompany(name) == {f \in Firm : Held(f) /\ directory[f].key = WeakKey(name)}

NoSite == [host |-> NoHost, decor |-> NoHost]
IngestAdvert(name) ==
  /\ \/ \E f \in UpsertCompany(name) :
          hiredBy' = [hiredBy EXCEPT ![name] = f] /\ UNCHANGED directory
     \/ /\ UpsertCompany(name) = {}
        /\ \E f \in Free :
             /\ directory' = [directory EXCEPT ![f] = CompanyRow(name, NoSite, NoHost, WeakKey(name))]
             /\ hiredBy' = [hiredBy EXCEPT ![name] = f]
  /\ UNCHANGED <<proposal, resited>>

-----------------------------------------------------------------------------
(* The admin. *)

\* What a creation would collide with: the domain refuses, a shared name only informs.
DomainMatches(domain) == {f \in Firm : Held(f) /\ domain # NoHost /\ directory[f].domain = domain}
Conflict(name, site, contact) ==
  LET m == DomainMatches(DomainOf(site, contact)) IN
  CASE m = {} -> "NONE"
    [] m # {} /\ \E f \in m : NormalizeCompanyName(directory[f].name) = NormalizeCompanyName(name)
         -> "SAME_DOMAIN_SAME_NAME"
    [] OTHER -> "SAME_DOMAIN_DIFFERENT_NAME"

\* create: the domain is looked up; the insert is a statement of its own.
ProposeCompany(a, name, site, contact) ==
  /\ proposal[a] = NoProposal
  /\ Conflict(name, site, contact) = "NONE"
  /\ proposal' = [proposal EXCEPT ![a] = [pc |-> "insert", name |-> name, site |-> site, contact |-> contact]]
  /\ UNCHANGED <<directory, hiredBy, resited>>

\* A key already taken is answered with a conflict (P2002), and nothing is written.
InsertCompany(a) ==
  /\ proposal[a].pc = "insert"
  /\ LET p == proposal[a]
         key == BuildIdentityKey(p.name, p.site, p.contact) IN
     IF KeyTaken(key) THEN UNCHANGED directory
     ELSE InsertFirm(CompanyRow(p.name, p.site, DomainOf(p.site, p.contact), key))
  /\ proposal' = [proposal EXCEPT ![a] = NoProposal]
  /\ UNCHANGED <<hiredBy, resited>>

\* updateProfile writes name and website by id; domain and key stay those of the creation.
UpdateProfile(f, name, site) ==
  /\ Held(f)
  /\ f \notin resited /\ Cardinality(resited) < MaxResites
  /\ directory' = [directory EXCEPT ![f].name = name, ![f].site = site]
  /\ resited' = resited \cup {f}
  /\ UNCHANGED <<proposal, hiredBy>>

-----------------------------------------------------------------------------

CompaniesInit ==
  /\ directory = [f \in Firm |-> NoFirm]
  /\ proposal = [a \in Admin |-> NoProposal]
  /\ hiredBy = [n \in Names |-> NoOne]
  /\ resited = {}

CompaniesNext ==
  \/ \E n \in Names : IngestAdvert(n)
  \/ \E a \in Admin, n \in Names, s \in Sites, c \in Contacts : ProposeCompany(a, n, s, c)
  \/ \E a \in Admin : InsertCompany(a)
  \/ \E f \in Firm, n \in Names, s \in Sites : UpdateProfile(f, n, s)

-----------------------------------------------------------------------------
(* The postings of a company.  Every request loads the posting, changes it, and saves it whole. *)

vacancyVars == <<draft, revising, revised, toldOf, overlapped>>
NoDraft == [of |-> NoOne]
NoRevising == [pc |-> "idle"]
NotSet == 0   \* a text of spaces; no range of salaries
DraftParts == {"status", "text", "range"}

\* The company is the boundary: an employer acts for the one of its profile.
RequireContext(u) == HirerFirm[u]
OwnDrafts(u) == {l \in Draft : draft[l] # NoDraft /\ draft[l].of = RequireContext(u)}

BeginRevision(e, task) ==
  /\ revising[e] = NoRevising /\ revised < MaxRevised /\ revised' = revised + 1
  /\ revising' = [revising EXCEPT ![e] = task]

\* Answers a request that named some parts of posting l, now as row has them.
Answered(l, row, named) == toldOf' = [toldOf EXCEPT ![l] = [p \in DraftParts |-> IF p \in named THEN row[p] ELSE @[p]]]

\* Always a draft, of the employer's company; the poster is stamped by a write of its own.
CreateJob(e, u, l, range) ==
  LET row == [of |-> RequireContext(u), status |-> "DRAFT", text |-> revised + 1, range |-> range, by |-> NoOne] IN
  /\ draft[l] = NoDraft
  /\ BeginRevision(e, [pc |-> "stamp", on |-> l, by |-> u])
  /\ draft' = [draft EXCEPT ![l] = row]
  /\ Answered(l, row, DraftParts)
  /\ UNCHANGED overlapped

StampPoster(e) ==
  /\ revising[e].pc = "stamp"
  /\ draft' = [draft EXCEPT ![revising[e].on].by = revising[e].by]
  /\ revising' = [revising EXCEPT ![e] = NoRevising]
  /\ UNCHANGED <<revised, toldOf, overlapped>>

\* Any request may end before its last write.
GiveUp(e) ==
  /\ revising[e].pc \in {"stamp", "save"}
  /\ revising' = [revising EXCEPT ![e] = NoRevising]
  /\ UNCHANGED <<draft, revised, toldOf, overlapped>>

\* Job.publish, close, update: the changed posting, or none if it is refused.
PublishJob_Unpriced(row) ==
  IF row.status = "DRAFT" /\ row.text # NotSet THEN {[row EXCEPT !.status = "PUBLISHED"]} ELSE {}
PublishJob(row) ==
  IF row.status = "DRAFT" /\ row.text # NotSet /\ row.range # NotSet THEN {[row EXCEPT !.status = "PUBLISHED"]} ELSE {}
CloseJob(row) == IF row.status = "PUBLISHED" THEN {[row EXCEPT !.status = "CLOSED"]} ELSE {}
UpdateJob(row, named, n) ==
  IF row.status # "CLOSED"
  THEN {[row EXCEPT !.text = IF "text" \in named THEN t ELSE @, !.range = IF "range" \in named THEN n ELSE @] : t \in {NotSet, n}}
  ELSE {}

\* The posting is found, its company compared, and the change made on the copy.
LoadDraft_AnyCompany(e, u, l, changed, named) ==
  /\ draft[l] # NoDraft
  /\ BeginRevision(e, [pc |-> "save", on |-> l, by |-> u, row |-> changed, named |-> named, read |-> draft[l]])
  /\ UNCHANGED <<draft, toldOf, overlapped>>
LoadDraft(e, u, l, changed, named) ==
  /\ l \in OwnDrafts(u)
  /\ BeginRevision(e, [pc |-> "save", on |-> l, by |-> u, row |-> changed, named |-> named, read |-> draft[l]])
  /\ UNCHANGED <<draft, toldOf, overlapped>>

AskPublish(e, u, l) == \E row \in PublishJob(draft[l]) : LoadDraft(e, u, l, row, {"status"})
AskClose(e, u, l) == \E row \in CloseJob(draft[l]) : LoadDraft(e, u, l, row, {"status"})
AskChange(e, u, l, named) == \E row \in UpdateJob(draft[l], named, revised + 1) : LoadDraft(e, u, l, row, named)

\* The upsert names every column but the company and the poster.
SaveDraft_WithThePoster(e) ==
  LET r == revising[e] IN
  /\ r.pc = "save"
  /\ draft' = [draft EXCEPT ![r.on] = r.row]
  /\ Answered(r.on, r.row, r.named)
  /\ overlapped' = [overlapped EXCEPT ![r.on] =
       (@ \ r.named) \cup {p \in DraftParts \ r.named : draft[r.on][p] # r.read[p]}]
  /\ revising' = [revising EXCEPT ![e] = NoRevising]
  /\ UNCHANGED revised
SaveDraft(e) ==
  LET r == revising[e] IN
  /\ r.pc = "save"
  /\ draft' = [draft EXCEPT ![r.on] = [r.row EXCEPT !.of = draft[r.on].of, !.by = draft[r.on].by]]
  /\ Answered(r.on, r.row, r.named)
  /\ overlapped' = [overlapped EXCEPT ![r.on] =
       (@ \ r.named) \cup {p \in DraftParts \ r.named : draft[r.on][p] # r.read[p]}]
  /\ revising' = [revising EXCEPT ![e] = NoRevising]
  /\ UNCHANGED revised

\* The public page: a draft is not found, a closed posting still is.
ShownToAll(l) == draft[l] # NoDraft /\ draft[l].status # "DRAFT"

VacanciesInit ==
  /\ draft = [l \in Draft |-> NoDraft] /\ revising = [e \in Revision |-> NoRevising] /\ revised = 0
  /\ toldOf = [l \in Draft |-> [p \in DraftParts |-> NotSet]] /\ overlapped = [l \in Draft |-> {}]

VacanciesNext ==
  \E e \in Revision :
    \/ StampPoster(e) \/ SaveDraft(e) \/ GiveUp(e)
    \/ \E u \in Hirer, l \in Draft :
         \/ \E range \in {NotSet, revised + 1} : CreateJob(e, u, l, range)
         \/ draft[l] # NoDraft /\ (AskPublish(e, u, l) \/ AskClose(e, u, l))
         \/ draft[l] # NoDraft /\ \E named \in SUBSET {"text", "range"} : AskChange(e, u, l, named)

-----------------------------------------------------------------------------
(* Properties. *)

\* Two rows never hold one domain, whatever two admins look up and insert at once: a row that
\* has a domain has the key of that domain, and the key is unique.
DomainIdentifies ==
  /\ \A f, g \in Firm : f # g /\ Held(f) /\ Held(g) => directory[f].key # directory[g].key
  /\ \A f \in Firm : Held(f) =>
       IF directory[f].domain = NoHost THEN ~ directory[f].key.strong
       ELSE directory[f].key = [strong |-> TRUE, of |-> directory[f].domain]

\* Two rows show one website only after an employer edited one of them.
WebsitesAreClaimedOnce ==
  \A f, g \in Firm \ resited :
    f # g /\ Held(f) /\ Held(g) /\ NormalizeDomain(directory[f].site) # NoHost
      => NormalizeDomain(directory[f].site) # NormalizeDomain(directory[g].site)

\* Advertisements that write one name in different ways hang on one row, and that row is never
\* one a website or a work address tells apart from its namesakes.
ScrapedNamesShareARow ==
  \A m, n \in Names :
    /\ hiredBy[m] # NoOne /\ hiredBy[n] # NoOne /\ NormalizeCompanyName(m) = NormalizeCompanyName(n)
         => hiredBy[m] = hiredBy[n]
    /\ hiredBy[m] # NoOne => ~ directory[hiredBy[m]].key.strong

OneRowPerCompany == DomainIdentifies /\ WebsitesAreClaimedOnce /\ ScrapedNamesShareARow

\* A posting is what its employers were last told, part by part, but for a save of a copy read
\* before: so one that was closed stays closed, whoever else edits its text.  Nothing is public
\* without a salary, whatever overlaps, and only its own company changes it.
PostingsAreAsTold ==
  \A l \in Draft : draft[l] # NoDraft =>
    /\ \A p \in DraftParts \ overlapped[l] : draft[l][p] = toldOf[l][p]
    /\ ShownToAll(l) => draft[l].range # NotSet
    /\ \A e \in Revision : revising[e].pc = "save" /\ revising[e].on = l => HirerFirm[revising[e].by] = draft[l].of
    /\ draft[l].by # NoOne => HirerFirm[draft[l].by] = draft[l].of

\* Who posted a posting is written once: no save of another request takes it away, though every one
\* of them holds a copy that may be older than the stamp.
PostersStay == \A l \in Draft : draft[l] # NoDraft /\ draft[l].by # NoOne => draft'[l].by = draft[l].by
=============================================================================
