# Verification of the JobFit backend

TLA+ models of the JobFit backend (NestJS, Prisma on Postgres, Redis/BullMQ, an AI
service), the TLC configurations that check them, and TLAPS proofs about them. Paths below
are relative to `src/src/modules/` unless they start with `common/`, `infra/`, `shared/`,
`scripts/` or `prisma/`.

The backend is one stateless HTTP process (or several) over one database. Almost every
handler has the same shape: read rows, `await` something, decide on what was read, write.
Nothing serialises two handlers but the database, and most handlers are not in a
transaction. So what is hard here is not any single handler but what happens when two of
them, a background worker or a crash come between one's read and its write. That is what
the models are about: every `await` that another actor can overtake is a step of its own.

## 1. Inventory

"Proved" means that every property the runs check about the component is also a theorem,
but for liveness.

| Component | State it keeps | Operations | Hard behaviour | Module; status |
|---|---|---|---|---|
| Hiring pipeline: `application/`, `offer/`, `employer/application/services/employer-application.service.ts`, `matching/application/services/application-screening.service.ts` | Application (status, stage history, timeline), Offer, OfferMessage | apply, screen, board move, candidate move, extend / edit / rescind / read an offer, accept, decline, negotiate, message | transactions at READ COMMITTED that lock rows in both orders, compare-and-swap, reads before the transaction opens | Lifecycle, HiringPipeline, ApplicationLedger; proved |
| Offline queue: `sync/batch.service.ts`, `common/idempotency/`, `common/conflict/` | IdempotencyKey receipts; the rows the actions write | replay up to 50 queued actions, seven action types | crash between action and receipt, lost responses, retries, overlapping flushes, expired receipts | OfflineQueue; proved |
| Employer onboarding: `employer-request/`, `employer/application/services/employer-company.service.ts` | EmployerRequest, the employer's User, EmployerProfile, Company.verified | submit, review, approve, resend a code, activate, claim, verify, edit the website, delete an account | check-then-write by two admins or two employers; an address used again | EmployerOnboarding; proved |
| Recommendations: `matching/` services and listeners, `job/` lifecycle | Recommendation rows (score, staleAt, dismissedAt), embeddings, Job | read with recompute, mark stale, dismiss, edit profile, publish / edit / close / delete a posting | a cache whose invalidation races its recomputation; AI failures; restart between save and event | Recommendations; proved |
| Résumé library: `resume/`, `resume-builder/application/services/resume-export.service.ts`, `infra/queue/` | Resume, ParsedResumeData, files in storage, BullMQ jobs | upload, parse (worker), switch the default, score, delete, export | whole-row saves of stale entities against the worker; an enqueue that times out and lands later | ResumeLibrary; proved |
| User rows, registration, recovery: `auth/application/commands/`, `auth/infrastructure/persistence/`, `admin/infrastructure/repositories/admin-user.repository.ts` | User, cached user | register, verify, Google, reset, suspend, delete; cache-aside read, whole-row save | a fill after an invalidation; a stale row saved over a deletion | Accounts; proved |
| Sessions: `auth/application/commands/` | RefreshToken, a device's cookies | sign in, rotate, log out, purge | two tabs rotating one token; an answer that arrives late or never; theft verdicts | Sessions; proved |
| Lockout and blacklist: `auth/infrastructure/services/` | Redis keys, maps in each process | count a wrong password, block, revoke, look up | Redis going away and coming back between two commands | AccountLockout; proved |
| Profile, sections, skills, entitlements: `user/` | UserProfile, UserExperience, UserEducation, UserSkill | create, versioned edit, remove, endorse | two edits that both pass the version check | ProfileSections; proved |
| Saved jobs: `saved-job/` | SavedJob, SavedExternalJob | save, unsave, toggle | read-then-write against a unique index | Bookmarks; proved |
| Job tracker: `job-tracker/` | TrackedJob, positions in a column | add, move, archive, remove | two drags at READ COMMITTED | JobTracker; model-checked |
| Administration: `admin/`, `shared/services/email-suppression.service.ts` | account status, audit log, barred addresses, incidents | suspend, reopen, delete, suppress, acknowledge | the audit row written last | Administration; proved |
| Delta sync: `sync/sync.service.ts`, `sync/delta.ts` | none on the server; a watermark and a cursor on the client | bootstrap, delta pages with tombstones | a watermark against a write that commits late; pages over equal stamps | DeltaSync; proved |
| HTTP edge: `common/` | idempotency receipts, validators | repeated POST, conditional GET, error filter | a repeat while the first is being served | RequestEdge; proved |
| Match scoring and retrieval: `matching/domain/`, `matching/application/` | none | weighted score, bands, fusion, reranking | arithmetic at boundaries | MatchScoring; model-checked |
| Match reports: `match-report/` | MatchReport | generate, reuse while inputs are unchanged | freshness by stamps while inputs are edited | MatchReports; the freshness proved, the reading model-checked |
| Embedding, scout, gaps: `matching/`, `learning/` | vectors; the poll's last visit | embed one by one and in batches, poll, compare | batches that fail in part; a poll against postings that appear | Discovery; the poll, and that no vector is lost, proved, the rest model-checked |
| Job ingestion and requirement extraction: `ingestion/`, `job/application/services/`, `scripts/` | Job rows of other boards | fetch at a pace, find-then-create, refresh, extract | two runs at once; a board that answers half | Ingestion; proved |
| Companies and postings: `company/`, `employer/`, `job/application/` | Company, Job | create, upsert by name, edit; publish, edit, close | two creations of one company; whole-row saves of a posting | Companies; proved |
| AI client: `infra/ai/` | the outcomes of the last window, one probe | call with retry, probe, health read | a late probe against newer calls | AiAvailability; proved |
| Alerting: `alerting/`, `notification/slack-notifier.service.ts` | Redis keys, incident ledger | deduplicate, count, notify, restart | a claim that outlives its alert | Alerting; proved |
| Résumé builder: `resume-builder/` | ResumeDocument, sections | replace a section, import, copy, export | reads in several queries; overlapping exports | ResumeDocuments; proved |
| Desk and bell: `application/`, `notification/` | flags of an application, read marks | attach a résumé, archive, hide, note, notify | a résumé deleted while it is attached | ApplicationDesk; proved |
| Letters and interview questions: `generation/` | the letter of an application, counters in memory | generate, edit, show; hourly and tier limits | two generations of one letter; limits per instance | Generation; letters and limits proved, the questions model-checked |
| Résumé text, OCR: `resume/application/services/` | one shared OCR worker | read a scan, order a page, split skills | failed starts, shutdown while starting | ResumeText; the worker proved, the text model-checked |
| Locations: `location/` | none (a table in memory) | resolve a text, a profile, typeahead | homonyms | Places; model-checked |
| Evaluation: `matching/evaluation/` | rows of a report | judge pairs with workers, measure rankings | ties; partial failures | Evaluation; model-checked |
| Health, metrics, heartbeat; storage, Redis, Prisma, search clients; salary, payment | – | observation, adapters, lookups | none of their own | not modelled (section 7) |

How they interact: the employer's board, the offer service and screening all move
applications through `ApplicationTransitionService`; a batch calls the same services as the
single endpoints; profile edits, job edits and résumé changes reach the recommendations
as domain events whose listeners run after the save, outside any transaction; a résumé
export writes a Resume row that applications point at; activation of an employer decides
whose postings and whose pipeline an account may touch; suspension and deletion by an
administrator write the same User rows as the handlers of `auth/`.

`PROJECT.json` lists the parts file by file with what of each is left out, and the hazards,
each at its line, with the properties that would catch it. Section 6 describes the
behaviours that the models contain and no run is spent on.

## 2. Modules

    Lifecycle               statuses, legal moves, who may make them (pure)
      ApplicationLedger     what the pipeline promises, abstractly
      HiringPipeline        handlers, transactions, locks, crashes; INSTANCEs ApplicationLedger
        MCHiring            instance for TLC
        HiringProofs
    OfflineQueue            OfflineProofs, MCOffline
    EmployerOnboarding      OnboardingProofs, MCOnboarding
    Recommendations         RecommendationsProofs, MCRecommendations
    ResumeLibrary           ResumeProofs, MCResume
    AccountServices         AccountProofs, MCAccounts
      Accounts, Sessions, AccountLockout, ProfileSections, Bookmarks, JobTracker, Administration
    Services                ServicesProofs <- RecordProofs, MCServices
      DeltaSync, RequestEdge, AiAvailability, Alerting, Ingestion, Companies, Places,
      ResumeDocuments, ResumeText, ApplicationDesk, Generation, Evaluation,
      MatchScoring <- MatchReports <- Discovery

An operator named after another with a suffix (`Expire_Never`, `Save_Undeletes`) is a
mutated form of it, used by no action. Replacing the original by it must make a run fail:
that is how each property is shown to depend on the code it is about.

**AccountServices and Services** put small components side by side. Those components share
no table and none reads what another writes, but for a handler that calls two of them one
after the other. So a behaviour exercises one of them, `part`, and the others rest in the
constant state `Off`; their interleavings would multiply the states and show nothing more.
Each component is a module of its own with its own Init, Next and properties, and the
suite's properties are those of the components, each where its part is exercised. One module
may hold several parts: MatchScoring holds `scoring` and `retrieval`, MatchReports `reports`
and `reading`, RequestEdge `posts` and `gets`, Companies `companies` and `vacancies`,
Ingestion `ingestion` and `extraction`, ApplicationDesk `desk` and `bell`, Generation
`limits` and `letters`, Evaluation `judging` and `ranking`, ResumeText `ocr` and `text`,
ResumeDocuments `documents` and `import`, Discovery `vectors`, `scout` and `gaps`.

### HiringPipeline

One application stands for a (user, job) pair, which the schema keeps unique; its offer and
thread hang from it. `app`, `offer`, `thread` are the committed tables. A request `req[r]`
has a handler and a program counter; the rows its open transaction has written are in
`wapp`, `woffer`, `wmsg`, which are also its row locks: another request that wants to write
the row waits (`AppFree`, `OfferFree`), one that reads it sees the committed row. That is
Postgres at READ COMMITTED, Prisma's default, which the code does not change. What a handler
reads before it opens its transaction decides its statements (`todo`), so a stale read stays
stale. `CheckMove` and `CompareAndSwap` are `ApplicationTransitionService.apply`: read the
status, check the move and the actor, `updateMany` where the status is still the one read.
`CompareAndSwap` re-evaluates its condition on the committed row once the lock is free;
`LoseTheRace` is the conflict it throws. `FindOthers` and `CloseAnother` are accept's sweep.
`Expire` is a transaction timeout or a deadlock's victim, `Die` the process.

### OfflineQueue

`taken` is what a user did on a device, `settled` what the device no longer sends; these
follow `docs/PWA_SYNC_API.md`. A flush is a request that takes the pending actions in order;
each goes through `LookUp` (receipt), its handler's own statements, `FinishHandler`,
`StoreReceipt`. What an edit asks for is `good`, `unfit` (the entity's constructor throws: a 400
of the profile and of education, a plain Error and so FAILED of experience) or `unstorable` (the
database refuses the save: FAILED of all three). `did` is history: the actions whose write committed. Faults are crashes,
lost responses, failing statements, receipts that cannot be stored and expiry.

### EmployerOnboarding

Each handler is a call that reads, then writes in a later step. Tickets, accounts, links,
verification and the domains of websites are the rows; `codes` numbers the activation codes,
`mailed` says which reached an address; a code that is too old is treated as none, as every reader
does. Accounts and addresses are apart: an administrator's deletion keeps the row, its profile and
the tokens it signed in with, and frees the address (`AddressOf`) for another account. An employer
may move the company's website, which `SameDomain` reads as it is at that moment. `Legacy` accounts
were activated before activation linked companies, which the code still handles. `granted` and
`shown` are history: what company an account was approved for, and where a website has been.

### Recommendations

What a score was computed from is kept as versions of profile, vector and job; which jobs
rank, and in what order, is left open. A row is fresh, stale, a tombstone or missing.
`req` holds readers (retrieve, score, write one by one, drop, reread), profile editors
(save, embed, store, mark) and posting editors. `hold` is the cool-down after a failed
recompute, in process memory. `missed` is history: changes whose mark never ran.
An update of a posting that names no field saves without raising an event; it changes
nothing the cache depends on and is not an action.

### ResumeLibrary

One user's library: users share no row. A request holds the entity it loaded and the other
row it is to write; `Save` is the upsert of the whole row, except `deletedAt`. A deleted
row's other columns are read by nothing and are not kept. The worker takes a job, looks once
whether the row is live, and writes the status by id from then on. `stranded` and
`reverted` are history: the résumés whose job or request died, and those whose status a
stale save changed.

### The parts of AccountServices

* **Accounts.** `row` is the table, `entity` and `lookup` the two cache keys. A request is one
  of thirteen handlers: it loads a row (from the cache or the table), awaits, and saves the
  whole row or some columns; the drop of the cache keys is a step after the write. A number
  given on arrival stands for whatever the request makes that is new: its code, its hash. A
  reset arrives for any address: the session it asks for is a cookie with the address encoded
  in it, of which the server keeps no record. `raced`, `unheard`, `closed`, `reopened` are history,
  and so are the passwords a code was mailed with (`paired`), those whose code was redeemed
  (`proven`), and those taken on trust (`onTrust`): set by a reset, or kept on a row that a
  Google sign-in verified.
* **Sessions.** `token` are the rows, in the order they were signed in; `jar` is each
  device's cookie, which its tabs share. A rotation claims the row it spends (and locks it until
  its transaction ends), inserts its successor and answers; answers arrive late or never. The
  grace period and the theft verdict are those of `refresh-token.handler.ts`. `disturbed`
  records the devices whose calls overlapped or whose answer came late.
* **AccountLockout.** Each Redis command is a step that may find Redis away (`up`); the
  process then counts in its own map. The second half is the blacklist: the Redis keys
  (`listed`), the capped `mirror` of each process, and `dead` for tokens past their expiry.
* **ProfileSections.** A row's version is the millisecond of its last write; an edit reads the
  row, compares the version its client named, and later writes the whole row. The profile part
  keeps which part of it (place, salary range, ...) was last answered with what.
* **Bookmarks.** The statements of save, unsave and toggle over the unique index, and the
  upsert of a bookmark from elsewhere.
* **JobTracker.** A drag is a transaction of several awaits: read the card and the column,
  shift, write; its written rows are its locks, and a deadlock aborts one of two.
* **Administration.** A call reads, changes, and writes the audit row last; a mail looks up
  the barred addresses and is then sent. `trail` is the audit log.

### The parts of Services

* **DeltaSync** (`sync`). A write stamps `updatedAt` when its statement is built and is seen when
  it commits. The server reads its clock, queries, answers; the client keeps the two rules of
  `docs/PWA_SYNC_API.md`. `late` is history: rows whose last write committed behind a query.
* **RequestEdge** (`posts`, `gets`). The idempotency interceptor around POST /applications,
  and the validator of GET /jobs/:id against edits of the posting and of its company.
* **AiAvailability** (`ai`). The calls with their retry, the window of their outcomes, the
  probe that replaces them when there are none, and the health reads that share it.
* **Alerting** (`alerts`). One error at a time per handler: deduplicate, count, write the
  incident, post to Slack; Redis goes away, writes fail, the process restarts.
* **Ingestion** (`ingestion`, `extraction`). A run asks the board at its pace, then takes each
  advertisement: find, then create or refresh. `by` numbers the runs, `inserted` says which
  run made each row, `ledgerOf` keeps the summaries. The extraction script asks for pending
  postings and pays the AI service once for each.
* **Companies** (`companies`, `vacancies`). The identity key (domain or normalized name), with
  its unique index, under every writer; a posting's whole-row saves, with the parts each
  request named.
* **ResumeDocuments** (`documents`, `import`). A section is the set of the writes its rows come
  from; a PUT deletes and inserts at READ COMMITTED; a copy or an export reads in several
  queries. The import takes what the profile holds while it is edited.
* **ApplicationDesk** (`desk`, `bell`). The résumé an application is sent with, the two archive
  flags and the notes; whom each move, offer and message notifies and what is read of it.
* **Generation** (`limits`, `letters`). The hourly counter of an account and a route in the memory
  of each instance; a letter composed from what was read before the call and stored after it.
* **MatchScoring** (`scoring`, `retrieval`), **Evaluation** (`judging`, `ranking`), **ResumeText**
  (`text`), **Places** (`places`), and the reading half of **MatchReports** (`reading`) are computation: a
  step picks an input and the properties relate what the operators make of it. The scorers
  are exact in percent with `Math.round` modelled; texts are sequences of words or the facts a
  pattern finds in them.
* **MatchReports** (`reports`). Which versions of its inputs a stored report was made from, and the
  stamps that decide whether it is handed out again.
* **Discovery** (`vectors`, `scout`, `gaps`). A vector is the text it was made of.
* **ResumeText** (`ocr`). The one promise of a worker that all parses share, its failed starts and
  the shutdown.

## 3. Runs

All runs use `SPECIFICATION Spec`, which lets anything stop, except the two that check
liveness (`FairSpec`). Deadlock checking is off: every model can come to a state where
nobody calls.

| Run | Question | Properties |
|---|---|---|
| `hiring_life` | One application from submission, three requests at a time, every handler that moves it | `TypeOK`, `TrailOK`, `AnswersAgree`, `FinishedIsFinal` |
| `hiring_rivals` | Two offers to one candidate under three requests | `HireClosesTheRest`, `DecisionsAreRecorded` |
| `hiring_talks` | Both sides reading and writing two threads while one is accepted | `ThreadOnlyGrows`, `ReadByTheOtherSide`, `ImplementsLedger`, `RequestsEnd` |
| `hiring_reopened` | violation: screening undoes a rejection | `ScreeningOnlyFromSubmitted` |
| `offline_queue` | One device, one action of each kind, an edit that its entity refuses, crashes and lost responses | `SavedFollowsTheQueue`, `EachEditOnce`, `QueueDrains` |
| `offline_everything` | Two devices, overlapping flushes, a shared key, any two faults of five kinds | `SuccessIsTrue`, `SettledActionsLand` |
| `onboarding_portal` | Two tickets, two addresses, three accounts, two companies, two calls at a time, a deletion and an edit of a website | `OneApprovalPerAddress`, `ActivatedMeansLinked`, `LinkedAsApproved`, `VerificationIsEarned` |
| `onboarding_shared` | violation: two employers are linked to one company | `OneEmployerPerCompany` |
| `recs_list` | One user, two postings, two requests, an edit of each kind, a restart at any time | `EditsReachTheList`, `JobEditsReachTheList`, `DismissalsSurvive`, `NothingIsLostToAFailure` |
| `resume_library` | Two résumés, two requests at a time, four in all, one worker, two faults | `SuccessIsReadable`, `PendingMeansScheduled`, `ListedResumesHaveFiles`, `SecondDefaultTakesAnOverlap` |
| `accounts` | The nine parts of AccountServices | `CacheTellsTheTruth`, `AccountsHold`, `SessionsAreSound`, `BarsHold`, `OwnRowsHold`, `AdministrationHolds`, `BoardHolds` |
| `services` | The twenty-seven parts of Services | `ClientsKeepUp`, `MatchesHold`, `ReportsHold`, `DocumentsHold`, `ImportsHold`, `MonitoringHolds` |

**Bounds, and why they are enough.** A stale read is undone by one other writer, so two
requests at a time show every two-party race; `hiring_life` and `hiring_rivals` have three,
because a compare-and-swap can be passed between the others' two steps and because a sweep
that is itself swept needs a third party. `MaxTrail` stops *starting* requests on a row
with that many moves; what runs then may still move it. Two applications of one candidate
are what a sweep needs; two postings with `Limit = 1` are what paging over a longer list
needs. Two faults allow a retry of a retry. `MaxAttempts = 2` (3 in the code) has a first, a
last and no further attempt. Four résumé requests allow two uploads and two operations that
overlap on them. In `onboarding_portal` one address applies, as one ticket and one account of the
other are there already; its first account may be deleted, so that the second ticket can be
approved for a second one (`Deletable`); one company's website may leave the applicant's domain
for the other's (`Edits`); reviews set a ticket to REVIEWING or REJECTED, PENDING_INFO being
like the first. An edit that the database refuses (`unstorable`) is in the proofs
and in no run: what it does to rows and results is what a statement failing at that save does,
which `offline_everything` has.

In `accounts`, every part has two actors at a time (requests, devices, tabs, processes,
edits, taps, drags, administrators). Four requests and three signed tokens give a login, an
overlapping pair and one after it; `Threshold = 2` (5 in the code) tells a first, a last and
a further wrong password apart, with one outage of Redis; four access tokens against
`MirrorCap = 3` (10000) fill the mirror and make it give one up. Three cards in two
columns and three drags show two moves that overlap and one that follows.

In `services`, two runs over two advertisements, two editors of two documents, two errands,
two health reads or two posts of two keys are again every two-party race; clocks run for two
or three ticks, one more than the longest window; pages and caps hold one or two so
that a second page, a full list and an overflow are reached. The scoring part takes
candidates and postings on every rung of each ladder and just beside it, which is where
rounding and thresholds can go wrong. The named bounds of both cfgs (`MaxChanges`, `MaxEdits`,
`LastTick`, ...) stop new events, never one under way. The properties stated in section 5
are proved for every value of these constants, so that for them the bound only limits what
TLC looks at.

Symmetry is declared only over model values no definition distinguishes; no run with a
liveness property has it.

**Fairness.** `hiring_talks` runs under `FairSpec`: the server goes on with the requests it
has taken and ends blocked transactions (Prisma's transaction timeout, Postgres' deadlock
detector), and the one write outside a transaction is not overtaken for ever in the row's
lock queue (strong fairness of `RecordScreening`). `offline_queue` runs under weak fairness of the server's steps, of the answer
when nothing loses it, and of a client that retries while something is pending and nothing
is in flight, as `docs/PWA_SYNC_API.md` asks. Nobody is assumed to call, to crash or not to
crash; faults are bounded by `MaxFaults`, so a queue is only asked to drain once they stop. Nor is it asked to
drain of what cannot pass and is answered with FAILED all the same (`Stuck`): the client keeps those
edits, as the table of codes tells it to, and `QueueDrains` says that everything else leaves the
queue past them, as long as they do not fill a batch.

## 4. What the passing properties say

* **Applications.** The audit trail is a path of legal moves by entitled actors that ends at
  the status the row shows, whichever requests race; an accepted or withdrawn application is
  never moved again. Answers in the offer table and the application table agree, and each
  answer, negotiation and rescission commits with its audit row. After a hire, the same
  candidate's other offers that were open with it cannot be answered.
* **Threads.** Messages are never lost or unread again, and only the other side's reading
  marks one. Requests that wait for each other's rows all end.
* **Refinement.** With locks, transactions and offers hidden, the pipeline implements
  `ApplicationLedger`: trails grow by one legal move, except for a hire, which withdraws
  applications of the same candidate only, and for a rejected application that is reopened
  and offered at once.
* **Offline queue.** A reported success was committed; an action a device stops sending was
  applied or can never be; with one device the bookmarks are what a prefix of the user's
  actions produces; an edit is applied once; a queue drains of all but the edits that are refused
  for good with FAILED, unless those fill a batch.
* **Onboarding.** One ticket behind an account and at most one approved ticket behind an address
  that is in use; no activated account without its company, nobody linked to a company other than
  the approved one; a company is verified by an approval of somebody linked to it, or by the
  address of somebody linked to it, on a domain its website was on: by the directory, or by the
  edit of one of its employers.
* **Recommendations.** A fresh row computed from an old profile, vector or posting always has
  its mark on the way (or a recorded loss of it); dismissals survive; a failure never empties a list.
* **Résumés.** SUCCESS implies parsed data; a live résumé waiting for its parse has a job, or an
  upload about to add one, or its request or job died, or a save put an older status back;
  a listed résumé has its file; a second default needs two requests that overlapped.
* **Accounts.** A cached user differs from its row only where a race or a lost drop is on
  record; a deleted account stays closed through saves of rows loaded before; the password of
  a verified account is the one its redeemed code was mailed with, or one taken on trust by a
  reset or a Google sign-in.
* **Sessions.** However many tabs refresh at once, a device that nothing disturbed keeps a session
  it can refresh; a session that a logout or a reset ended has no live token left, unless a
  refresh overlapped.
* **Bars.** The wrong passwords that can be tried are at most a constant of the processes, the
  threshold and the outages; a revoked token is refused wherever its revocation is known.
* **A user's rows.** Sections, profile, bookmarks and tracker board are as their user was last
  answered, but for the overlaps on record; a card lands where it was dropped.
* **Administration.** The last audited action on an account is the status it reads, and mail
  goes to no address barred before it was looked up.
* **Clients.** A drained delta has every change behind its watermark but those that committed late;
  a repeated POST is answered from its receipt; a valid copy is the posting; the scout's poll
  misses no posting that could be listed.
* **Matches.** Scores stay in their range, grow with what they count, sink under a dealbreaker and
  agree between the pages that show them; a list loses nothing between its retrievers
  and its cut and tells what was done; a posting and a gap page read requirements alike; no candidate's measured list is better than the best
  there could be; a vector is that of its own row;
  pages of a résumé are read in order, more text never scores less, and questions to
  prepare with can be used.
* **Reports.** A report handed out again is as current as its stamps can tell: no input was
  edited after it, but for the edits that overlapped its generation.
* **Documents.** A replaced section is one write's, unless two PUTs overlapped; an export lists one file per document,
  unless two overlapped; an application is sent with a résumé of its own candidate, whose link leads to the
  file submitted, and tidying one side's list takes nothing from the other's; every move and message has
  one notice, to the other side; a letter is the one last shown; paid routes stay within
  their limits on each instance; one OCR worker serves all parses; an import writes what
  the profile held at some moment of the request.
* **Imports.** A run's summary counts the rows it made; silence of a board erases nothing; a domain
  identifies one company, and scraped names share a row; a posting is as its last writer was told, but for overlapped parts; an
  extracted list is read from the text, once.
* **Monitoring.** The verdict on the AI service is drawn from the calls of its window, one probe at a time;
  an error that is silenced is covered by an alert of its window.

The two violation runs are real disagreements between a comment and the code; `PROJECT.json`
quotes the comments under `findings`.

## 5. Proofs

tlapm checks these for every value of the constants that meets the named assumptions of the
module they are about. The runs show each property on a small instance first.

**Hiring pipeline**

| Theorem | Statement | Argument |
|---|---|---|
| `HiringProofs!TypeCorrect` | `Spec => []TypeOK` | inductive with `CasReady`: a request about to swap has a move at the head of its statements that was found legal from the status it read. Without it the row the swap appends need not be a history row. |
| `HiringProofs!TrailIsLegal` | `Spec => []TrailOK` | `TrailInv` adds that every committed row and every row in a write set, which the next commit publishes, has a legal trail. The swap writes only if the row it sees still has the status its move was checked against, so the appended move starts where the trail ends. |
| `HiringProofs!FinishedStays` | `Spec => FinishedIsFinal` | `FinalInv`: two open transactions never hold the same row, and none holds a row whose committed version is finished. No legal move leaves a finished state, and a row one transaction has written is locked. |
| `HiringProofs!ThreadsGrow`, `!OnlyTheReaderStamps` | `Spec => ThreadOnlyGrows`, `Spec => ReadByTheOtherSide` | action properties from the same invariant: a commit publishes a thread that extends the committed one, because the thread's row was locked since it was read for writing. |
| `HiringProofs!TransactionsFit` | `Spec => []TxInv` | what an open transaction has written and what its list still holds fit together: each written row is one legal move (or a reopening with its offer, or the move of a hire) away from the committed one, and each decision on an offer is accompanied or followed by the move that records it. An action property about commits needs this relation between the written rows, the list and the offer; none of the three alone is inductive, since a step moves work from the list to the rows. |
| `HiringProofs!AnswersHold`, `!DecisionsRecorded` | `Spec => []AnswersAgree`, `Spec => DecisionsAreRecorded` | from `TxInv`: what a commit publishes is consistent because the whole transaction is. |
| `HiringProofs!LedgerImplemented` | `Spec => ImplementsLedger` | the refinement, step by step: a commit maps to a filing, a legal move, a reopening with its offer or a hire; every other step is a stutter. |
| `HiringProofs!OneHire` | `NoReopening => (Spec => []HireClosesTheRest)` | `HireInv` says which offers of a candidate can still be answered beside an open or committed hire. The hypothesis excludes new offers and moves back to SCREENING during the race: either makes an application that was rejected answerable again after the hire, which the code allows. `hiring_rivals` meets it. |

**Offline queue**

| Theorem | Statement | Argument |
|---|---|---|
| `OfflineProofs!ReportsAreTrue` | `Spec => []SuccessIsTrue` | `HonestInv`: a result, a receipt and the place a flush has reached in an action all imply that its write committed. |
| `OfflineProofs!NoActionIsLost` | `Spec => []SettledActionsLand` | `LandInv` adds that a device settles only what a result said, and what a final error means. |
| `OfflineProofs!EditsAreAppliedOnce` | `~Overlap => (Spec => []EachEditOnce)` | `OnceInv`: with one flush of a device at a time, the version an edit names is past as soon as it was applied. Two overlapping flushes really can apply one edit twice. |
| `OfflineProofs!BookmarksKeepOrder` | `OneAtATime => (Spec => []SavedFollowsTheQueue)` | `OrderInv` relates the bookmarks to a prefix of the queue at every point of a flush. The hypothesis is one device, no overlap, a key for each action, and crashes and lost answers as the only faults; `offline_queue` meets it. A receipt that could not be stored, or that expired, replays a save after its unsave (section 6). |

**Onboarding, résumés, recommendations**

| Theorem | Statement | Argument |
|---|---|---|
| `OnboardingProofs!ApprovedOnce`, `!LinksAreApproved`, `!VerificationsEarned`, `!ActivationLinks` | the four properties of `onboarding_portal` | `PortalInv`: an approved ticket has an account, and the account of a ticket has its address and was granted its company; no account has two tickets, one that is live and not seeded has one, of the accounts of one address at most one is live, a link is on an account that is there, and a website is on a domain on record in `shown`; `CallsOK` keeps what a call read usable at its write, by a frame saying which rows only move onward. |
| `ResumeProofs!ParsedIsReadable`, `!WaitingIsScheduled`, `!ListedHaveFiles`, `!DefaultsTakeAnOverlap` | the four properties of `resume_library` | `LibraryInv`, one conjunct for each: an entity in a request's hands that says SUCCESS belongs to a parsed résumé; whoever holds a job can still run it or has a death on record; a file is taken only by a deletion about to mark its row; a request alone sees the default it is about to change. |
| `RecommendationsProofs!TypeCorrect` | `Spec => []TypeOK` | `Kinds` and `Requests` say what a request at each program counter carries. |
| `RecommendationsProofs!EditsReach`, `!JobEditsReach` | `Spec => []EditsReachTheList`, `Spec => []JobEditsReachTheList` | inductive with the type invariant; the case that matters is the upsert, which records that its inputs had changed, and the marking step, which ends the pendency only after every row is stale. |
| `RecommendationsProofs!DismissalsStay` | `Spec => DismissalsSurvive` | upserts, drops and marks all skip tombstones; only a posting's removal deletes one. |
| `RecommendationsProofs!NothingIsLost` | `Spec => NothingIsLostToAFailure` | `NearInv`: a recompute that scores or writes has ranked something, so it drops rows only after it could have written others. |

**AccountServices.** Each part has an invariant of its own; a behaviour that exercises another
part satisfies it trivially, as its variables rest.

| Theorem | Statement | Argument |
|---|---|---|
| `AccountProofs!CacheIsTheTable`, `!AccountsAreAccountedFor` | `Spec => []CacheTellsTheTruth`, `Spec => []AccountsHold` | `AccountsInv`: the row a request has read to be cached is the table's until a write on record, every row, in the table, the cache or a request's hands, has a password that is proven or on trust if it is verified, and a code that was mailed with its password (or one on trust) if it is not, rows an administrator closed stay closed, no row vanishes. |
| `AccountProofs!SessionsLastAndEnd` | `Spec => []SessionsAreSound` | `SessionsInv`: a sign-in has one token that is live or about to be (the successor of a claim in progress), each call's place says what it may still insert or delete, and while `disturbed` is empty every device's jar or an answer on its way holds that token. The ending half needs its own frame, since a deletion by user sees only the rows committed when it starts. |
| `AccountProofs!BarsStay` | `Spec => []BarsHold` | `LockoutInv` is a budget: guesses plus what was counted nowhere stay within (processes + outages · processes + 1) thresholds, whichever map or key counts. `BlacklistInv`: tokens die in the order they are numbered, so what the mirror gives up (its first place, found by a pigeonhole and a minimum) is excused. |
| `AccountProofs!RowsAreTheirUsers` | `Spec => []OwnRowsHold` | `SectionInv`, `ProfileInv` (with `RoundTrip`: reading back what was written gives it again), `BookmarkInv`: what an edit in progress read is still the row unless the overlap is on record. |
| `AccountProofs!AdministrationIsAudited` | `Spec => []AdministrationHolds` | `AdminInv`: a task that has written owes its audit row; a mail in progress was looked up before the bar. |

**Services**

| Theorem | Statement | Argument |
|---|---|---|
| `ServicesProofs!ClientsAreServed` | `Spec => []ClientsKeepUp` | `SyncInv`: every row changed behind the query's clock reading is in the page, behind the cursor in the order of stamp and id, or `late`; `PostInv`: a receipt is of the request that holds its key; `GetInv`: a browser's copy is dated by its validator; `ScoutInv`: what a poll owes was computed from the visit before. |
| `ServicesProofs!MonitoringIsTrue` | `Spec => MonitoringHolds` | `AiInv`: the evidence is the notices of the window, one for each call, and one probe is in the air. `AlertInv`: a dedup key is the last claim, a claim covers what it silences, and an alarm was backed from the moment it was judged. |
| `RecordProofs!ReportsAreCurrent` | `Spec => []ReportsHold` | `ReportInv`: each report that no edit has overtaken is about the résumé that would be picked now, or every résumé that would be preferred was stamped since; a request carries what it read, and what it may reuse fits the résumé it picked. The invariant had to speak of every résumé: with three of them a default can be taken away without a stamp on the one that takes over (section 6). |
| `RecordProofs!ImportsAreTrue` | `Spec => ImportsHold` | `IngestInv`: runs are numbered apart, each counts as created the rows it inserted, and a row that was found stays; at most one run asks the host while none crowds it, and one that sleeps wakes an interval after the last request. `ExtractInv`: a posting is paid for by whoever holds it. `CompanyInv`: a domain is in one row and a scraped name under its weak key. `VacancyInv`: a posting is as told but for its overlapped parts; a save changes what it names. |
| `RecordProofs!DocumentsAreTrue` | `Spec => DocumentsHold` | one invariant for each part. `DocumentInv`: a section's rows are one write's or the section is on record as mixed, an insertion has deleted all that was not newer, a link is to an export of that document. `DeskInv`: a link that was handed out is of a sent application, a file goes only by a deletion under way, and what an errand read is still its candidate's. `BellInv`: the notices of a deal under way pair up with its events, and so do all notices with all events. `LimitInv`: what was let through splits into what went through instances before they started anew, at most limit times routes for each restart in any hour, and what went through since, where each meter's live hits number what it let through and a block has the limit's worth behind it; the hour's total is bounded by an injection into routes times 1..limit. `LetterInv`: a letter about to be shown is the stored one unless the application is muddled. `OcrInv`: before the shutdown every worker that is up is the shared promise, after it each is the one being released or late. `FillInv`: what an import has in hand held all that stood throughout and nothing that never stood, in the order asked. |

The assumptions are the `ASSUME`s of the modules (finite sets, bounds that are numbers, model
values that differ from the data, a limit of at least one, the orders that tie-breaks rely on); TLC
evaluates them on every run of those modules.

The proofs of counts rest on lemmas about `Cardinality` under insertion and removal, those of
minima on well-founded induction instantiated on the naturals.

**Model-checked only.** Liveness (`RequestsEnd`, `QueueDrains`) is outside what the prover
does. `BoardHolds` speaks of the order of a column, which `SelectSeq` and `SetToSortSeq`
compute: facts about them need an induction over data that the provers cannot make.
`MatchesHold` is about what scorers, rankings, texts and tables compute, with sums by folds and
sorted sequences, for which the same is true; the alignment of vectors with their rows
(`VectorsAreOwn`) is in it because the batch is a filtered sequence too.

## 6. Behaviours in the models without a run of their own

Each was met while modelling and is reachable in the module named; the properties above
are stated so that they hold in spite of it.

* HiringPipeline: extending again on a stale read puts an answered offer back to EXTENDED
  without moving the application (`offer/offer.service.ts:161-163`); the terms of an offer can be
  edited after a concurrent accept (`:275-283`); a read marks messages that arrived after its
  load (`:328`); a status set directly leaves a live offer row (`application.entity.ts:185` knows
  such rows from the past).
* OfflineQueue: an action that fails once is retried after those behind it
  (`sync/batch.service.ts:154`), an edit of an entry of experience that the entity refuses is retried for
  ever (`user/application/services/experience.service.ts:104`, `experience.entity.ts:42-58`), and so is
  any edit the database refuses; enough of them fill every batch, and nothing behind them is sent; a receipt that was not stored lets a
  save be executed again after its unsave (`common/idempotency/idempotency.service.ts:79`); an edit can
  conflict with its own lost success (`batch.service.ts:138`).
* EmployerOnboarding: a ticket can be decided twice (`employer-request.service.ts:148`), two
  open tickets for one address (`:67`), one code used by two activations
  (`employer-approval.service.ts:240`); an address whose account was deleted has two approved
  tickets once it is approved again, of which activation may read the older
  (`employer-request.repository.ts:38-52`, "at most one per account"); a deleted account's token
  still claims and verifies until it expires; an employer may set the website that the domain of
  the employer's address is then compared with (`employer-company.service.ts:221-234`, against `:101`,
  "the only evidence there is"), and a verification stays when the website moves.
* Recommendations: overlapping recomputes drop each other's rows; a row of a closed posting
  can come back until the next recompute; a stale save of a posting reopens it; a recompute
  clears the mark of an edit it did not see (`recompute-user-matches.use-case.ts:225`, against
  `user-profile-updated.listener.ts:35-38`).
* ResumeLibrary: overlapping switches, uploads or scorings leave two defaults or none; a
  switch puts PENDING back over SUCCESS; two exports of one document both stay listed; a
  FAILED saved after a late job's SUCCESS; a file is deleted before its row, so a failing storage
  call, which the comment calls best-effort, ends the deletion (`resume.service.ts:155-157`).
* Accounts: linking a Google identity verifies a row that was not and keeps the password it was
  registered with (`google-login.handler.ts:93-96`, `user.entity.ts:214-218`); the session of a reset
  is its address encoded (`auth.controller.ts:281-309`, `:525-533`), so a reset proves nothing to the
  server; a save of a row loaded before an activation undoes it; registering a suspended address ends in a
  unique violation; a soft deletion keeps `googleId`; activation drops no cache key; an
  administrator's status racing a deletion reopens the account (`admin-user.repository.ts:137-138`).
* Sessions: a purge misses a token that an open rotation inserts; a logout that races a refresh
  leaves the successor live; a late "not found" clears the cookie of a newer sign-in.
* AccountLockout: an EXPIRE lost after the first INCR leaves a counter without an end; the
  mirror gives up its oldest entry, not the first to expire (`token-blacklist.service.ts:162-165`).
* ProfileSections: of two edits that name one version, both can be applied, the second over the first
  (`profile.service.ts:119`, against `version-conflict.exception.ts:6`); preferences and salary are
  saved without a version; one side of a salary range, or a city without its country, is dropped; a
  removed skill cannot be added again (`skills.service.ts:31-37`).
* Bookmarks, JobTracker: overlapping moves give two cards one position; a stale `appliedAt`
  overwrites the date.
* Administration: an account's deletion is audited when there was nothing to delete; two administrators'
  reviews are not ordered; a bar is lifted by no route.
* DeltaSync: rows stamped before a query and committed after it are missed
  (against `sync.service.ts:303`).
* RequestEdge: edits of a company, and two edits within a millisecond, leave a validator that is
  still accepted (`http-cache.interceptor.ts:15-16`).
* MatchScoring: with R = 100 and P = 25 the weighted score is 48 where a comment says 45 or below; the
  reasons of the job page can contradict the score (`job-match.service.ts:162`); candidates in
  another country score 0 though none stated a preference.
* MatchReports: an input edited while a report is generated leaves a report that is reused; so does a
  default switched away to a résumé that is not read yet; a degraded report is stored and reused;
  scoring against another posting stamps the résumé.
* Ingestion: undescribed postings stay pending and can fill every run of the extraction; a refresh
  never extracts again; two runs of the script pay twice; two ingestion runs break the gap
  between requests; details that come back empty are not counted as skipped
  (`jobnet.source.ts:98-100`); a refresh moves a claimed company's posting to the row of the bare name.
* Companies: the website an employer edits recomputes neither identity key nor domain
  (`company.repository.ts:121`); an edit that overlaps a close reopens the posting
  (`employer-job.controller.ts:88-90`), one that overlaps a publish takes it back to draft.
* AiAvailability, Alerting: an answer with a failing body is noted as a success
  (`ai.client.ts:278`); a claim is made before its incident is written, and one made in the grace
  period keeps Slack silent; the counter's window is fixed, not rolling.
* ResumeDocuments, ApplicationDesk, Generation: two overlapping PUTs leave both sets of rows; two exports two
  files; a posting whose creator was not stamped notifies nobody; two generations of one
  letter overwrite each other; the ten an hour are per route and per instance.
* ResumeText, Discovery, Places, Evaluation: an OCR worker that starts after the shutdown is
  never released; `lastEmbedError` is shared and never reset; the scout filters by creation
  where a comment says publication (`matching.controller.ts:85`); "Atlanta, Georgia" resolves to the
  country; an answer that is cut off rejects its whole run (`generation-eval.service.ts:193-197`).

## 7. Not modelled, and why

Health, metrics and heartbeat only observe. Storage, Redis, Prisma and the search clients
are adapters: where a module depends on one, what it may answer is part of the module. Payment is an
empty module and salary a lookup. Left out everywhere: the wording of texts and mails, dates
beyond their order, currency, the decoding of PDF and DOCX, logging, CORS and the other
throttles, lists and statistics that are reads, and several users at once where they share
no row. The age limit of a recommendation only makes a row stale earlier. The expiry of
recovery codes only makes them refuse earlier. What each component leaves out is in its note
in `PROJECT.json`.

## 8. What could come next

1. **The vectors' half of MatchesHold.** `VectorsAreOwn` and `NoRowIsSkipped`, once facts about a
   sequence with its blank members taken out are to hand.
2. **BoardHolds**, if the order of a column is restated by positions instead of by the sorted
   sequence.
3. **Composition.** DeltaSync over OfflineQueue: what a device flushed is in its next pull.
