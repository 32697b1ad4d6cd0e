---------------------------- MODULE EmployerOnboarding ----------------------------
(***************************************************************************)
(* How an employer gets into the portal: a request (ticket) is submitted,  *)
(* triaged and approved for a company by admins, the account it creates is *)
(* activated with a mailed code, and a profile links it to the company.    *)
(*                                                                         *)
(* Handlers read, decide and then write, with other handlers in between.   *)
(* An administrator's deletion of an account keeps the row and frees its   *)
(* address, which may then be approved again, for another account.         *)
(*                                                                         *)
(* An operator named after another with a suffix, as Claim_Anything, is   *)
(* a mutated form of it that no action uses.                               *)
(***************************************************************************)
EXTENDS Naturals, FiniteSets

CONSTANTS
  Ticket,    \* employer requests that can be made
  Email,     \* addresses
  Applicant, \* those that requests are made for
  Account,   \* accounts there are or can be made
  AddressOf, \* [an account -> the address it has while it is not deleted]
  Seeded,    \* employer accounts that are there from the start
  Company,   \* companies in the directory
  Legacy,    \* <<ticket, account, company>>: may have been activated before activation linked
  Domain,    \* domains of addresses and of websites
  DomainOf,  \* [an address -> its domain]
  Listed,    \* [a company -> the domain of its website in the directory, None without one]
  Call,      \* slots for calls in progress
  MaxCodes,  \* activation codes generated at most
  Reviews,   \* what an admin may set a ticket to, short of approving it
  Deletable, \* accounts an admin may delete
  Edits      \* <<company, domain>>: what an employer may change a website to

VARIABLES
  ticket,   \* rows of EmployerRequest
  account,  \* employer accounts: missing, waiting for activation, or usable once
  deleted,  \* accounts an administrator deleted
  link,     \* rows of EmployerProfile: the company an account manages
  verified, \* how each company was verified
  site,     \* the domain of each company's website
  codes,    \* how many codes were generated
  mailed,   \* codes that reached an address
  call,     \* each call: what it is doing and what it has read
  granted,  \* history: the company that the approval which created an account named
  shown     \* history: the domains each company's website has been on

users  == <<account, deleted, granted>>
sites  == <<site, shown>>
tables == <<ticket, users, link, verified, sites>>
vars   == <<tables, codes, mailed, call>>

None == "none"
\* What was there before: the accounts seeded, and those of legacy tickets.
Before == Seeded \cup {l[2] : l \in Legacy}
ASSUME OnboardingAssumption ==
  /\ Applicant \subseteq Email /\ AddressOf \in [Account -> Email] /\ DomainOf \in [Email -> Domain]
  /\ Listed \in [Company -> Domain \cup {None}]
  /\ Seeded \subseteq Account /\ MaxCodes \in Nat
  /\ Reviews \subseteq {"REVIEWING", "PENDING_INFO", "REJECTED"}
  /\ Deletable \subseteq Account /\ Edits \subseteq Company \X Domain
  /\ Legacy \subseteq Ticket \X Account \X Company
  /\ \A l, m \in Legacy : l[1] = m[1] \/ l[2] = m[2] => l = m
  /\ \A l \in Legacy : l[2] \notin Seeded
  /\ \A a, b \in Before : AddressOf[a] = AddressOf[b] => a = b
  /\ None \notin Email \cup Account \cup Company \cup Ticket \cup Domain

-----------------------------------------------------------------------------
(* Rows. *)

Open    == {"SUBMITTED", "REVIEWING", "PENDING_INFO"}
Decided == {"APPROVED", "REJECTED"}
Code    == 1..MaxCodes
NoCode  == 0

\* user is the account created on approval; code is NoCode once used or too old.
TicketRow == [status : Open \cup Decided \cup {None}, email : Email \cup {None},
              user : Account \cup {None}, company : Company \cup {None},
              code : Code \cup {NoCode}]
NoTicket == [status |-> None, email |-> None, user |-> None, company |-> None, code |-> NoCode]

Live(a) == account[a] # "missing" /\ a \notin deleted
\* A deletion ends no session: an access token is good until it expires.
SignedIn(a) == account[a] = "active"

Pc == {"idle", "create", "review", "approve", "resend", "mail", "activate", "link",
       "commit", "claim", "stamp", "edit"}
CallState == [pc : Pc, ticket : Ticket \cup {None}, email : Email \cup {None},
              account : Account \cup {None}, company : Company \cup {None},
              code : Code \cup {NoCode},
              to : Open \cup Decided \cup Domain \cup {None, "ADMIN_REVIEW", "EMAIL_DOMAIN"}]
Idle == [pc |-> "idle", ticket |-> None, email |-> None, account |-> None, company |-> None,
         code |-> NoCode, to |-> None]

Begin(c, fields) == call[c] = Idle /\ call' = [call EXCEPT ![c] = fields]
Done(c) == call' = [call EXCEPT ![c] = Idle]
Hold(t, pc, code, to) ==
  [Idle EXCEPT !.pc = pc, !.ticket = t, !.email = ticket[t].email, !.code = code, !.to = to]

-----------------------------------------------------------------------------
(* Intake. *)

\* findOpenByEmail finds nothing; the row is created afterwards.  (Room is the bound on tickets.)
Room == Cardinality({t \in Ticket : ticket[t] = NoTicket})
        > Cardinality({d \in Call : call[d].pc = "create"})
Submit(c, e) ==
  /\ Room
  /\ ~ \E t \in Ticket : ticket[t].email = e /\ ticket[t].status \in Open
  /\ Begin(c, [Idle EXCEPT !.pc = "create", !.email = e])
  /\ UNCHANGED <<tables, codes, mailed>>

NewTicket == CHOOSE t \in Ticket : ticket[t] = NoTicket
CreateTicket(c) ==
  /\ call[c].pc = "create"
  /\ \E t \in Ticket : ticket[t] = NoTicket
  /\ ticket' = [ticket EXCEPT ![NewTicket].status = "SUBMITTED", ![NewTicket].email = call[c].email]
  /\ Done(c)
  /\ UNCHANGED <<users, link, verified, sites, codes, mailed>>

-----------------------------------------------------------------------------
(* The admin's decision. *)

assertNotDecided(t) == ticket[t].status \in Open

Review(c, t, to) ==
  /\ assertNotDecided(t)
  /\ to \in Reviews
  /\ Begin(c, Hold(t, "review", NoCode, to))
  /\ UNCHANGED <<tables, codes, mailed>>

\* updateStatus names the row by its id alone.
UpdateStatus(c) ==
  /\ call[c].pc = "review"
  /\ ticket' = [ticket EXCEPT ![call[c].ticket].status = call[c].to]
  /\ Done(c)
  /\ UNCHANGED <<users, link, verified, sites, codes, mailed>>

\* The code is generated before the transaction.
Approve(c, t, company) ==
  /\ assertNotDecided(t)
  /\ codes < MaxCodes
  /\ codes' = codes + 1
  /\ Begin(c, [Hold(t, "approve", codes + 1, None) EXCEPT !.company = company])
  /\ UNCHANGED <<tables, mailed>>

\* One transaction: create the account, or fail on its address; record the approval.  (Fresh is the
\* bound on accounts.)
Taken(e) == \E a \in Account : Live(a) /\ AddressOf[a] = e
Fresh(e) == {a \in Account : account[a] = "missing" /\ AddressOf[a] = e}
New(e) == CHOOSE a \in Account : a \in Fresh(e)
Approved(k, a) ==
  ticket' = [ticket EXCEPT ![k.ticket] = [@ EXCEPT !.status = "APPROVED", !.user = a,
                                                   !.company = k.company, !.code = k.code]]
Created(k, a) ==
  /\ account' = [account EXCEPT ![a] = "unverified"]
  /\ granted' = [granted EXCEPT ![a] = k.company]

CreateAccount_Reusing(c) ==
  LET k == call[c] IN
  /\ k.pc = "approve"
  /\ \/ \E a \in Account : Live(a) /\ AddressOf[a] = k.email /\ Approved(k, a) /\ UNCHANGED <<account, granted>>
     \/ /\ ~Taken(k.email) /\ Fresh(k.email) # {}
        /\ Created(k, New(k.email)) /\ Approved(k, New(k.email))
  /\ call' = [call EXCEPT ![c].pc = "mail"]
  /\ UNCHANGED <<deleted, link, verified, sites, codes, mailed>>
CreateAccount(c) ==
  LET k == call[c] IN
  /\ k.pc = "approve"
  /\ \/ Taken(k.email) /\ UNCHANGED <<account, granted, ticket>> /\ Done(c)
     \/ /\ ~Taken(k.email)
        /\ Fresh(k.email) # {}
        /\ Created(k, New(k.email)) /\ Approved(k, New(k.email))
        /\ call' = [call EXCEPT ![c].pc = "mail"]
  /\ UNCHANGED <<deleted, link, verified, sites, codes, mailed>>

\* DELETE /admin/users/:id: the row stays, its address is free again.  The update waits for an
\* activation that holds the row.
DeleteAccount(a) ==
  /\ a \in Deletable /\ Live(a)
  /\ \A c \in Call : call[c].account = a => call[c].pc \notin {"link", "commit"}
  /\ deleted' = deleted \cup {a}
  /\ UNCHANGED <<ticket, account, granted, link, verified, sites, codes, mailed, call>>

ResendActivation(c, t) ==
  /\ ticket[t].status = "APPROVED"
  /\ codes < MaxCodes
  /\ codes' = codes + 1
  /\ Begin(c, Hold(t, "resend", codes + 1, None))
  /\ UNCHANGED <<tables, mailed>>

SetActivationCode(c) ==
  /\ call[c].pc = "resend"
  /\ ticket' = [ticket EXCEPT ![call[c].ticket].code = call[c].code]
  /\ call' = [call EXCEPT ![c].pc = "mail"]
  /\ UNCHANGED <<users, link, verified, sites, codes, mailed>>

\* After the commit; a bounce is logged and changes nothing.
DeliverActivationCode(c) ==
  LET k == call[c] IN
  /\ k.pc = "mail"
  /\ \/ mailed' = [mailed EXCEPT ![k.email] = @ \cup {k.code}]
     \/ UNCHANGED mailed
  /\ Done(c)
  /\ UNCHANGED <<tables, codes>>

-----------------------------------------------------------------------------
(* Activation. *)

\* The code is checked on the approved ticket as it is read, before the password is hashed.
isCodeValid(t, code) == ticket[t].code # NoCode /\ ticket[t].code = code

Activate(c, e, code) ==
  /\ code \in mailed[e]
  /\ \E t \in Ticket :
       /\ ticket[t].email = e /\ ticket[t].status = "APPROVED" /\ ticket[t].user # None
       /\ isCodeValid(t, code)
       /\ Begin(c, [Hold(t, "activate", code, None) EXCEPT !.account = ticket[t].user,
                                                           !.company = ticket[t].company])
  /\ UNCHANGED <<tables, codes, mailed>>

\* The transaction opens by updating the account: one activation of it at a time.
LockAccount(c) ==
  /\ call[c].pc = "activate"
  /\ \A d \in Call \ {c} : call[d].account = call[c].account => call[d].pc \notin {"link", "commit"}
  /\ call' = [call EXCEPT ![c].pc = "link"]
  /\ UNCHANGED <<tables, codes, mailed>>

Managed(company) == \E a \in Account : link[a] = company

\* linkApprovedCompany reads both conflicts; what it found decides the insert.
ReadLinks(c) ==
  LET k == call[c] IN
  /\ k.pc = "link"
  /\ call' = [call EXCEPT ![c] = [k EXCEPT !.pc = "commit",
                !.company = IF link[k.account] # None \/ Managed(k.company) THEN None ELSE k.company]]
  /\ UNCHANGED <<tables, codes, mailed>>

\* The row is written by its id, deleted or not; only an account that is not deleted can be used.
Usable(a) == account' = IF a \in deleted THEN account ELSE [account EXCEPT ![a] = "active"]

\* The account is usable, its code cleared, and the company linked unless that conflicted.
CommitActivation_Unlinked(c) ==
  LET k == call[c] IN
  /\ k.pc = "commit"
  /\ Usable(k.account)
  /\ ticket' = [ticket EXCEPT ![k.ticket].code = NoCode]
  /\ Done(c)
  /\ UNCHANGED <<deleted, granted, link, verified, sites, codes, mailed>>
CommitActivation(c) ==
  LET k == call[c] IN
  /\ k.pc = "commit"
  /\ k.company # None => link[k.account] = None
  /\ Usable(k.account)
  /\ ticket' = [ticket EXCEPT ![k.ticket].code = NoCode]
  /\ IF k.company = None
     THEN UNCHANGED <<link, verified>>
     ELSE /\ link' = [link EXCEPT ![k.account] = k.company]
          /\ verified' = [verified EXCEPT ![k.company] = IF @ = None THEN "ADMIN_REVIEW" ELSE @]
  /\ Done(c)
  /\ UNCHANGED <<deleted, granted, sites, codes, mailed>>

\* A profile was made meanwhile: the unique index fails the insert and all of it is undone.
AlreadyLinked(c) ==
  /\ call[c].pc = "commit"
  /\ call[c].company # None /\ link[call[c].account] # None
  /\ Done(c)
  /\ UNCHANGED <<tables, codes, mailed>>

-----------------------------------------------------------------------------
(* The self-service path of a signed-in employer. *)

\* The company an admin approved this account for, if one did (findApprovedByUserId).
ApprovedCompany(a) ==
  LET mine == {t \in Ticket : ticket[t].user = a}
  IN  IF mine = {} THEN None ELSE ticket[CHOOSE t \in mine : TRUE].company

Hand(pc, a, company, to) ==
  [Idle EXCEPT !.pc = pc, !.account = a, !.company = company, !.to = to]

Claim_Anything(c, a, company) ==
  /\ SignedIn(a) /\ link[a] = None /\ ~Managed(company)
  /\ Begin(c, Hand("claim", a, company, IF ApprovedCompany(a) = company THEN "ADMIN_REVIEW" ELSE None))
  /\ UNCHANGED <<tables, codes, mailed>>
Claim(c, a, company) ==
  /\ SignedIn(a) /\ link[a] = None /\ ~Managed(company)
  /\ ApprovedCompany(a) \in {None, company}
  /\ Begin(c, Hand("claim", a, company, IF ApprovedCompany(a) = company THEN "ADMIN_REVIEW" ELSE None))
  /\ UNCHANGED <<tables, codes, mailed>>

\* A second profile for the account is refused by its unique index.
CreateProfile(c) ==
  LET k == call[c] IN
  /\ k.pc = "claim"
  /\ IF link[k.account] = None
     THEN /\ link' = [link EXCEPT ![k.account] = k.company]
          /\ IF k.to = None THEN Done(c) ELSE call' = [call EXCEPT ![c].pc = "stamp"]
     ELSE UNCHANGED link /\ Done(c)
  /\ UNCHANGED <<ticket, users, verified, sites, codes, mailed>>

\* The domain of the account's address is that of the company's website, as the row has it now.
SameDomain(a, company) == DomainOf[AddressOf[a]] = site[company]

\* An approval verifies the company; without one the domains have to match.
VerifyEmail_Loose(c, a) ==
  LET company == link[a] IN
  /\ SignedIn(a) /\ company # None
  /\ verified[company] = None
  /\ Begin(c, Hand("stamp", a, company, IF ApprovedCompany(a) = company THEN "ADMIN_REVIEW" ELSE "EMAIL_DOMAIN"))
  /\ UNCHANGED <<tables, codes, mailed>>
VerifyEmail(c, a) ==
  LET company == link[a] IN
  /\ SignedIn(a) /\ company # None
  /\ verified[company] = None
  /\ ApprovedCompany(a) = company \/ SameDomain(a, company)
  /\ Begin(c, Hand("stamp", a, company, IF ApprovedCompany(a) = company THEN "ADMIN_REVIEW" ELSE "EMAIL_DOMAIN"))
  /\ UNCHANGED <<tables, codes, mailed>>

MarkVerified(c) ==
  LET k == call[c] IN
  /\ k.pc = "stamp"
  /\ verified' = [verified EXCEPT ![k.company] = k.to]
  /\ Done(c)
  /\ UNCHANGED <<ticket, users, link, sites, codes, mailed>>

\* PATCH of the company's profile by an employer of it: any website, and the verification stays.
UpdateProfile(c, a, domain) ==
  /\ SignedIn(a) /\ <<link[a], domain>> \in Edits
  /\ Begin(c, Hand("edit", a, link[a], domain))
  /\ UNCHANGED <<tables, codes, mailed>>

WriteSite(c) ==
  LET k == call[c] IN
  /\ k.pc = "edit"
  /\ site' = [site EXCEPT ![k.company] = k.to]
  /\ shown' = [shown EXCEPT ![k.company] = @ \cup {k.to}]
  /\ Done(c)
  /\ UNCHANGED <<ticket, users, link, verified, codes, mailed>>

-----------------------------------------------------------------------------
(* Time, and failures. *)

\* A code past its time to live is refused wherever one that is not there is.
Expire(t) ==
  /\ ticket[t].code # NoCode
  /\ ticket' = [ticket EXCEPT ![t].code = NoCode]
  /\ UNCHANGED <<users, link, verified, sites, codes, mailed, call>>

\* The call ends early; an open transaction is rolled back, what was committed stays.
Die(c) ==
  /\ call[c] # Idle
  /\ Done(c)
  /\ UNCHANGED <<tables, codes, mailed>>

-----------------------------------------------------------------------------
\* The tickets in old were approved and their accounts activated without a company.
Inherited(old) ==
  /\ ticket  = [t \in Ticket |->
                  IF \E l \in old : l[1] = t
                  THEN LET l == CHOOSE l \in old : l[1] = t
                       IN  [status |-> "APPROVED", email |-> AddressOf[l[2]], user |-> l[2],
                            company |-> l[3], code |-> NoCode]
                  ELSE NoTicket]
  /\ account = [a \in Account |-> IF a \in Seeded \/ (\E l \in old : l[2] = a)
                                  THEN "active" ELSE "missing"]
  /\ granted = [a \in Account |-> IF \E l \in old : l[2] = a
                                  THEN (CHOOSE l \in old : l[2] = a)[3] ELSE None]

Init ==
  /\ \E old \in SUBSET Legacy : Inherited(old)
  /\ deleted  = {}
  /\ link     = [a \in Account |-> None]
  /\ verified = [m \in Company |-> None]
  /\ site     = Listed
  /\ shown    = [m \in Company |-> {Listed[m]} \ {None}]
  /\ codes    = 0
  /\ mailed   = [e \in Email |-> {}]
  /\ call     = [c \in Call |-> Idle]

Arrival(c) ==
  \/ \E e \in Applicant : Submit(c, e)
  \/ \E a \in Account : VerifyEmail(c, a)
  \/ \E t \in Ticket, to \in Open \cup Decided : Review(c, t, to)
  \/ \E t \in Ticket, company \in Company : Approve(c, t, company)
  \/ \E t \in Ticket : ResendActivation(c, t)
  \/ \E e \in Email, code \in Code : Activate(c, e, code)
  \/ \E a \in Account, company \in Company : Claim(c, a, company)
  \/ \E a \in Account, domain \in Domain : UpdateProfile(c, a, domain)

Serve(c) ==
  \/ CreateTicket(c)
  \/ UpdateStatus(c)
  \/ CreateAccount(c)
  \/ SetActivationCode(c)
  \/ DeliverActivationCode(c)
  \/ LockAccount(c)
  \/ ReadLinks(c)
  \/ CommitActivation(c)
  \/ AlreadyLinked(c)
  \/ CreateProfile(c)
  \/ MarkVerified(c)
  \/ WriteSite(c)

Next ==
  \/ \E c \in Call : Arrival(c) \/ Serve(c) \/ Die(c)
  \/ \E a \in Account : DeleteAccount(a)
  \/ \E t \in Ticket : Expire(t)

Spec == Init /\ [][Next]_vars
FairSpec == Spec /\ \A c \in Call : WF_vars(Serve(c))

-----------------------------------------------------------------------------
(* Properties. *)

\* However submissions, approvals, reviews and deletions race, an account has at most one ticket
\* behind it, and has one unless it was seeded or is deleted; of the approved tickets of an address,
\* which may be several once its account was deleted, at most one is of an account that is not
\* deleted (employer-request.repository.ts, findApprovedByEmail: "at most one per account").
OneApprovalPerAddress ==
  /\ \A t, u \in Ticket : ticket[t].user # None /\ ticket[t].user = ticket[u].user => t = u
  /\ \A t, u \in Ticket : /\ ticket[t].status = "APPROVED" /\ ticket[u].status = "APPROVED"
                          /\ ticket[t].email = ticket[u].email
                          /\ ticket[t].user \notin deleted /\ ticket[u].user \notin deleted
                          => t = u
  /\ \A a \in Account \ Seeded : Live(a) => \E t \in Ticket : ticket[t].user = a

\* An employer with an approval is never linked to a company other than the one approved,
\* by activation or by claiming (employer-company.service.ts, claim).
LinkedAsApproved ==
  \A a \in Account : link[a] # None => ApprovedCompany(a) \in {None, link[a]}

\* An account that is activated manages its company from that instant, unless an employer
\* does already: the half-onboarded state activation exists to remove is never entered
\* (employer-approval.service.ts, linkApprovedCompany).
ActivatedMeansLinked ==
  [][\A a \in Account : (account[a] # "active" /\ account'[a] = "active") =>
       link'[a] # None \/ \E b \in Account : link'[b] = ApprovedCompany(a)]_vars

\* A company counts as verified by domain only if an account manages it whose domain its website
\* was on, in the directory or as an employer of the company edited it (so by the directory's word
\* alone while nobody did), and by review only if an account manages it that was approved for it,
\* even if that account's ticket was since approved again for another
\* (employer-company.service.ts, verifyEmail and updateProfile).
VerificationIsEarned ==
  \A m \in Company :
    /\ verified[m] = "EMAIL_DOMAIN" => \E a \in Account : link[a] = m /\ DomainOf[AddressOf[a]] \in shown[m]
    /\ verified[m] = "ADMIN_REVIEW" => \E a \in Account : link[a] = m /\ granted[a] = m
    /\ shown[m] \subseteq {Listed[m]} \/ \E a \in Account : link[a] = m

-----------------------------------------------------------------------------
(* What a comment says and the code does not keep. *)

\* Two employers are never handed the same candidate pipeline.
OneEmployerPerCompany ==
  \A a, b \in Account : link[a] # None /\ link[a] = link[b] => a = b
=============================================================================
