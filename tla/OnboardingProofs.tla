---------------------------- MODULE OnboardingProofs ----------------------------
(***************************************************************************)
(* What onboarding promises, for any tickets, addresses, accounts,         *)
(* companies, websites, calls in progress and number of codes: one         *)
(* approval behind an account, a link only to the company that was         *)
(* approved, an activation that links, and a verification that was earned. *)
(***************************************************************************)
EXTENDS EmployerOnboarding, TLAPS

Review3 == {"REVIEWING", "PENDING_INFO", "REJECTED"}
Proof   == {"ADMIN_REVIEW", "EMAIL_DOMAIN"}

TypeOK ==
  /\ ticket \in [Ticket -> TicketRow]
  /\ account \in [Account -> {"missing", "unverified", "active"}] /\ deleted \subseteq Account
  /\ granted \in [Account -> Company \cup {None}]
  /\ link \in [Account -> Company \cup {None}]
  /\ verified \in [Company -> Proof \cup {None}]
  /\ site \in [Company -> Domain \cup {None}] /\ shown \in [Company -> SUBSET Domain]
  /\ codes \in Nat
  /\ mailed \in [Email -> SUBSET Code]
  /\ call \in [Call -> CallState]

\* The account behind a ticket is of the ticket's address, and was created for its company.
TicketOK(t) ==
  /\ ticket[t].status # None => ticket[t].email \in Email
  /\ ticket[t].user # None => /\ ticket[t].user \in Account /\ account[ticket[t].user] # "missing"
                              /\ AddressOf[ticket[t].user] = ticket[t].email
                              /\ ticket[t].company \in Company
                              /\ ticket[t].company = granted[ticket[t].user]
  /\ ticket[t].status = "APPROVED" => ticket[t].user # None
TicketsOK == \A t \in Ticket : TicketOK(t)

OneTicketEach ==
  \A t, u \in Ticket : ticket[t].user # None /\ ticket[t].user = ticket[u].user => t = u
Backed == \A a \in Account \ Seeded : Live(a) => \E t \in Ticket : ticket[t].user = a
OneLive == \A a, b \in Account : Live(a) /\ Live(b) /\ AddressOf[a] = AddressOf[b] => a = b
SeededActive == \A a \in Seeded : account[a] = "active"
LinkedExists == \A a \in Account : link[a] # None => account[a] # "missing"
SiteShown == \A m \in Company : site[m] # None => site[m] \in shown[m]

\* What a call has read still holds when it writes.
ForAccount(k) == /\ k.ticket \in Ticket /\ k.account \in Account /\ account[k.account] # "missing"
                 /\ granted[k.account] \in Company
CallOK(k) ==
  /\ k.pc \in {"create", "mail"} => k.email \in Email
  /\ k.pc \in {"approve", "resend", "mail"} => k.code \in Code
  /\ k.pc = "review" => k.ticket \in Ticket /\ ticket[k.ticket].email \in Email /\ k.to \in Review3
  /\ k.pc = "resend" => k.ticket \in Ticket /\ k.email \in Email
  /\ k.pc = "approve" => /\ k.ticket \in Ticket /\ k.email \in Email
                         /\ ticket[k.ticket].email = k.email /\ k.company \in Company
  /\ k.pc \in {"activate", "link"} => ForAccount(k) /\ k.company = granted[k.account]
  /\ k.pc = "commit" => /\ ForAccount(k)
                        /\ k.company # None => k.company = granted[k.account]
                        /\ k.company = None => link[k.account] # None \/ Managed(granted[k.account])
  /\ k.pc = "claim" => /\ k.account \in Account /\ account[k.account] = "active" /\ k.company \in Company
                       /\ ApprovedCompany(k.account) \in {None, k.company}
                       /\ k.to \in {None, "ADMIN_REVIEW"}
                       /\ k.to # None => granted[k.account] = k.company
  /\ k.pc = "stamp" => /\ k.account \in Account /\ k.company \in Company /\ link[k.account] = k.company
                       /\ k.to \in Proof
                       /\ k.to = "ADMIN_REVIEW" => granted[k.account] = k.company
                       /\ k.to = "EMAIL_DOMAIN" => DomainOf[AddressOf[k.account]] \in shown[k.company]
  /\ k.pc = "edit" => /\ k.account \in Account /\ k.company \in Company /\ link[k.account] = k.company
                      /\ k.to \in Domain
CallsOK == \A c \in Call : CallOK(call[c])

RowsInv == /\ TypeOK /\ TicketsOK /\ OneTicketEach /\ Backed /\ OneLive /\ SeededActive /\ LinkedExists
           /\ SiteShown
PortalInv == RowsInv /\ CallsOK /\ LinkedAsApproved /\ VerificationIsEarned

-----------------------------------------------------------------------------
(* What no step takes back. *)

\* Accounts, their use, their companies and their links stay, and a ticket is only ever given an
\* account that was not there before.
Onward ==
  /\ \A t \in Ticket : ticket[t].email # None => ticket'[t].email = ticket[t].email
  /\ \A t \in Ticket : ticket'[t].user # None =>
       \/ ticket'[t].user = ticket[t].user /\ ticket'[t].company = ticket[t].company
       \/ account[ticket'[t].user] = "missing"
  /\ \A a \in Account : account[a] # "missing" => account'[a] # "missing" /\ granted'[a] = granted[a]
  /\ \A a \in Account : account[a] = "active" => account'[a] = "active"
  /\ \A a \in Account : link[a] # None => link'[a] = link[a]
  /\ \A m \in Company : shown[m] \subseteq shown'[m]

LEMMA ApprovedIs ==
  ASSUME TypeOK, OneTicketEach, NEW t \in Ticket, ticket[t].user # None
  PROVE  ApprovedCompany(ticket[t].user) = ticket[t].company
  <1> DEFINE mine == {u \in Ticket : ticket[u].user = ticket[t].user}
  <1>1. mine = {t}
    BY DEF OneTicketEach
  <1>2. (CHOOSE u \in mine : TRUE) = t
    BY <1>1
  <1> QED BY <1>1, <1>2 DEF ApprovedCompany

\* The ticket behind an account, if there is one still, names the company it was created for.
LEMMA ApprovedOrNone ==
  ASSUME RowsInv, NEW a \in Account
  PROVE  ApprovedCompany(a) \in {None, granted[a]}
  <1> DEFINE mine == {t \in Ticket : ticket[t].user = a}
  <1>1. CASE mine = {}
    BY <1>1 DEF ApprovedCompany
  <1>2. CASE mine # {}
    <2>1. PICK t \in Ticket : ticket[t].user = a
      BY <1>2
    <2>2. a # None
      BY OnboardingAssumption
    <2> QED BY <2>1, <2>2, ApprovedIs DEF RowsInv, TicketsOK, TicketOK
  <1> QED BY <1>1, <1>2

\* An approval behind an account that exists can go away, and never changes.
LEMMA ApprovedNarrows ==
  ASSUME RowsInv, Onward, NEW a \in Account, account[a] # "missing"
  PROVE  ApprovedCompany(a)' \in {None, ApprovedCompany(a)}
  <1> DEFINE later == {t \in Ticket : ticket'[t].user = a}
  <1>1. a # None
    BY OnboardingAssumption
  <1>2. \A t \in later : ticket[t].user = a /\ ticket'[t].company = ticket[t].company
    BY <1>1 DEF Onward
  <1>3. CASE later = {}
    BY <1>3 DEF ApprovedCompany
  <1>4. CASE later # {}
    <2> DEFINE one == CHOOSE t \in later : TRUE
    <2>1. one \in later
      BY <1>4
    <2>2. ApprovedCompany(a)' = ticket'[one].company
      BY <1>4 DEF ApprovedCompany
    <2> HIDE DEF one
    <2>3. one \in Ticket /\ ticket[one].user = a /\ ticket'[one].company = ticket[one].company
      BY <1>2, <2>1
    <2>4. ApprovedCompany(a) = ticket[one].company
      BY <1>1, <2>3, ApprovedIs DEF RowsInv
    <2> QED BY <2>2, <2>3, <2>4
  <1> QED BY <1>3, <1>4

\* What a call has read, another step does not make untrue.
LEMMA CallStays ==
  ASSUME RowsInv, Onward, NEW k \in CallState, CallOK(k)
  PROVE  CallOK(k)'
  <1>1. k.pc \in {"approve", "review"} => k.ticket \in Ticket /\ ticket[k.ticket].email # None
    BY OnboardingAssumption DEF CallOK
  <1>2. k.pc \in {"approve", "review"} => ticket'[k.ticket].email = ticket[k.ticket].email
    BY <1>1 DEF Onward
  <1>3. ForAccount(k) => ForAccount(k)' /\ granted'[k.account] = granted[k.account]
    BY DEF ForAccount, Onward
  <1>4. \A m \in Company : Managed(m) => Managed(m)'
    BY OnboardingAssumption DEF Managed, Onward
  <1>5. k.pc = "commit" /\ k.company = None => link'[k.account] # None \/ Managed(granted[k.account])'
    <2> SUFFICES ASSUME k.pc = "commit", k.company = None
                 PROVE  link'[k.account] # None \/ Managed(granted[k.account])'
      OBVIOUS
    <2>1. k.account \in Account /\ granted[k.account] \in Company /\ granted'[k.account] = granted[k.account]
      BY <1>3 DEF CallOK, ForAccount
    <2>2. link[k.account] # None \/ Managed(granted[k.account])
      BY DEF CallOK
    <2>3. CASE link[k.account] # None
      BY <2>1, <2>3 DEF Onward
    <2>4. CASE Managed(granted[k.account])
      BY <1>4, <2>1, <2>4 DEF Managed
    <2> QED BY <2>2, <2>3, <2>4
  <1>6. k.pc \in {"stamp", "edit"} => /\ link'[k.account] = link[k.account]
                                      /\ account[k.account] # "missing"
                                      /\ granted'[k.account] = granted[k.account]
    BY OnboardingAssumption DEF CallOK, Onward, RowsInv, LinkedExists
  <1>7. k.pc = "claim" => /\ account'[k.account] = "active" /\ granted'[k.account] = granted[k.account]
                          /\ ApprovedCompany(k.account)' \in {None, k.company}
    <2> SUFFICES ASSUME k.pc = "claim"
                 PROVE  /\ account'[k.account] = "active" /\ granted'[k.account] = granted[k.account]
                        /\ ApprovedCompany(k.account)' \in {None, k.company}
      OBVIOUS
    <2>1. k.account \in Account /\ account[k.account] = "active" /\ ApprovedCompany(k.account) \in {None, k.company}
      BY DEF CallOK
    <2> QED BY <2>1, ApprovedNarrows DEF Onward
  <1>8. k.pc = "stamp" => shown[k.company] \subseteq shown'[k.company]
    BY DEF CallOK, Onward
  <1>9. CallOK(k)
    OBVIOUS
  <1> QED BY <1>2, <1>3, <1>5, <1>6, <1>7, <1>8, <1>9 DEF CallOK

\* A link and a verification stay as earned while nobody adds to them.
LEMMA EarnedStays ==
  ASSUME RowsInv, Onward, UNCHANGED <<link, verified, sites>>, LinkedAsApproved, VerificationIsEarned
  PROVE  LinkedAsApproved' /\ VerificationIsEarned'
  <1>1. \A a \in Account : link[a] # None => /\ ApprovedCompany(a)' \in {None, ApprovedCompany(a)}
                                             /\ granted'[a] = granted[a]
    BY ApprovedNarrows DEF RowsInv, LinkedExists, Onward
  <1>2. LinkedAsApproved'
    BY <1>1 DEF LinkedAsApproved
  <1>3. VerificationIsEarned'
    <2>1. \A m \in Company, a \in Account : link[a] = m => granted'[a] = granted[a]
      BY <1>1, OnboardingAssumption
    <2> QED BY <2>1 DEF VerificationIsEarned, sites
  <1> QED BY <1>2, <1>3

-----------------------------------------------------------------------------
(* Beginning a call. *)

CallBecomes(c, k) == call' = [call EXCEPT ![c] = k]

LEMMA RowsStand ==
  ASSUME RowsInv, UNCHANGED tables, codes' \in Nat,
         mailed' \in [Email -> SUBSET Code], call' \in [Call -> CallState]
  PROVE  RowsInv' /\ Onward
  BY DEF RowsInv, TypeOK, TicketsOK, TicketOK, OneTicketEach, Backed, OneLive, Live, SeededActive, LinkedExists,
         SiteShown, Onward, tables, users, sites

\* A step whose own call is left in order, and that takes nothing back, keeps every call in order.
LEMMA OthersStay ==
  ASSUME RowsInv, CallsOK, Onward, NEW c \in Call, NEW k, CallBecomes(c, k), CallOK(k)'
  PROVE  CallsOK'
  <1> SUFFICES ASSUME NEW d \in Call PROVE CallOK(call[d])'
    BY DEF CallsOK
  <1>1. CASE d = c
    <2>1. call'[c] = k
      BY DEF CallBecomes, RowsInv, TypeOK
    <2> QED BY <1>1, <2>1 DEF CallOK, ForAccount
  <1>2. CASE d # c
    <2>1. PICK n \in CallState : n = call[d]
      BY DEF RowsInv, TypeOK
    <2>2. call'[d] = n
      BY <1>2, <2>1 DEF CallBecomes, RowsInv, TypeOK
    <2>3. CallOK(n)
      BY <2>1 DEF CallsOK
    <2>4. CallOK(n)'
      BY <2>3, CallStays
    <2> QED BY <2>2, <2>4 DEF CallOK, ForAccount
  <1> QED BY <1>1, <1>2

LEMMA IdleOK == Idle \in CallState /\ CallOK(Idle)
  BY DEF Idle, CallState, Pc, CallOK

LEMMA HoldTypes ==
  ASSUME RowsInv, NEW t \in Ticket, NEW pc \in Pc, NEW code \in Code \cup {NoCode},
         NEW to \in Open \cup Decided \cup {None}
  PROVE  /\ Hold(t, pc, code, to) \in CallState
         /\ \A m \in Company \cup {None} : [Hold(t, pc, code, to) EXCEPT !.company = m] \in CallState
         /\ \A m \in Company \cup {None}, a \in Account \cup {None} :
              [Hold(t, pc, code, to) EXCEPT !.account = a, !.company = m] \in CallState
  <1>1. ticket[t].email \in Email \cup {None}
    BY DEF RowsInv, TypeOK, TicketRow
  <1>2. Hold(t, pc, code, to) \in CallState
    BY <1>1, IdleOK DEF Hold, CallState
  <1>3. \A k \in CallState, m \in Company \cup {None} : [k EXCEPT !.company = m] \in CallState
    BY DEF CallState
  <1>4. \A k \in CallState, a \in Account \cup {None}, m \in Company \cup {None} :
          [k EXCEPT !.account = a, !.company = m] \in CallState
    BY DEF CallState
  <1> QED BY <1>2, <1>3, <1>4

LEMMA HandTypes ==
  ASSUME NEW a \in Account, NEW m \in Company, NEW pc \in Pc, NEW to \in Proof \cup Domain \cup {None}
  PROVE  /\ Hand(pc, a, m, to) \in CallState /\ Hand(pc, a, m, to).pc = pc
         /\ Hand(pc, a, m, to).account = a /\ Hand(pc, a, m, to).company = m /\ Hand(pc, a, m, to).to = to
  <1>1. a \in Account \cup {None} /\ m \in Company \cup {None} /\ None \in Ticket \cup {None} /\ None \in Email \cup {None}
        /\ NoCode \in Code \cup {NoCode} /\ to \in Open \cup Decided \cup Domain \cup {None, "ADMIN_REVIEW", "EMAIL_DOMAIN"}
    BY DEF Proof
  <1>2. Hand(pc, a, m, to) \in CallState
    BY <1>1, IdleOK DEF Hand, CallState
  <1>3. Hand(pc, a, m, to).pc = pc /\ Hand(pc, a, m, to).account = a /\ Hand(pc, a, m, to).company = m
        /\ Hand(pc, a, m, to).to = to
    BY DEF Hand, Idle
  <1> QED BY <1>2, <1>3

LEMMA ArrivalFits ==
  ASSUME PortalInv, NEW c \in Call, Arrival(c)
  PROVE  /\ UNCHANGED tables /\ codes' \in Nat /\ UNCHANGED mailed
         /\ \E k \in CallState : CallBecomes(c, k) /\ CallOK(k)
  <1> USE DEF PortalInv
  <1>1. CASE \E e \in Applicant : Submit(c, e)
    <2> PICK e \in Applicant : Submit(c, e)
      BY <1>1
    <2> DEFINE k == [Idle EXCEPT !.pc = "create", !.email = e]
    <2>0. e \in Email
      BY OnboardingAssumption
    <2>1. k \in CallState /\ CallOK(k)
      BY <2>0 DEF Idle, CallState, Pc, CallOK
    <2> QED BY <2>1 DEF Submit, Begin, CallBecomes, RowsInv, TypeOK
  <1>2. CASE \E a \in Account : VerifyEmail(c, a)
    <2> PICK a \in Account : VerifyEmail(c, a)
      BY <1>2
    <2>a. PICK to : to = IF ApprovedCompany(a) = link[a] THEN "ADMIN_REVIEW" ELSE "EMAIL_DOMAIN"
      OBVIOUS
    <2>b. PICK k : k = Hand("stamp", a, link[a], to)
      OBVIOUS
    <2>1. link[a] \in Company /\ to \in Proof
      BY <2>a DEF VerifyEmail, RowsInv, TypeOK, Proof
    <2>2. k \in CallState /\ k.pc = "stamp" /\ k.account = a /\ k.company = link[a] /\ k.to = to
      BY <2>1, <2>b, HandTypes DEF Pc
    <2>3. to = "ADMIN_REVIEW" => granted[a] = link[a]
      <3>1. link[a] # None
        BY <2>1, OnboardingAssumption
      <3>2. to = "ADMIN_REVIEW" => ApprovedCompany(a) = link[a]
        BY <2>a
      <3> QED BY <3>1, <3>2, ApprovedOrNone
    <2>4. to = "EMAIL_DOMAIN" => DomainOf[AddressOf[a]] \in shown[link[a]]
      <3>1. to = "EMAIL_DOMAIN" => DomainOf[AddressOf[a]] = site[link[a]]
        BY <2>a DEF VerifyEmail, SameDomain
      <3>2. DomainOf[AddressOf[a]] # None
        BY OnboardingAssumption
      <3> QED BY <2>1, <3>1, <3>2 DEF RowsInv, SiteShown
    <2>5. call' = [call EXCEPT ![c] = k] /\ UNCHANGED <<tables, codes, mailed>>
      BY <2>a, <2>b DEF VerifyEmail, Begin
    <2>6. CallOK(k)
      BY <2>1, <2>2, <2>3, <2>4 DEF CallOK
    <2> QED BY <2>2, <2>5, <2>6 DEF CallBecomes, RowsInv, TypeOK
  <1>3. CASE \E t \in Ticket, to \in Open \cup Decided : Review(c, t, to)
    <2> PICK t \in Ticket, to \in Open \cup Decided : Review(c, t, to)
      BY <1>3
    <2> DEFINE k == Hold(t, "review", NoCode, to)
    <2>1. k \in CallState
      BY HoldTypes DEF Pc
    <2>2. to \in Review3 /\ ticket[t].email \in Email
      BY OnboardingAssumption DEF Review, Review3, assertNotDecided, Open, None, RowsInv, TicketsOK, TicketOK
    <2>3. k.pc = "review" /\ k.ticket = t /\ k.to = to
      BY DEF Hold, Idle
    <2> HIDE DEF k
    <2>4. CallOK(k)
      BY <2>2, <2>3 DEF CallOK
    <2> QED BY <2>1, <2>4 DEF k, Review, Begin, CallBecomes, RowsInv, TypeOK
  <1>4. CASE \E t \in Ticket, company \in Company : Approve(c, t, company)
    <2> PICK t \in Ticket, company \in Company : Approve(c, t, company)
      BY <1>4
    <2> DEFINE k == [Hold(t, "approve", codes + 1, None) EXCEPT !.company = company]
    <2>0. codes + 1 \in Code /\ codes + 1 \in Nat
      BY OnboardingAssumption DEF Approve, Code, RowsInv, TypeOK
    <2>1. k \in CallState
      BY <2>0, HoldTypes DEF Pc
    <2>2. ticket[t].email \in Email
      BY DEF Approve, assertNotDecided, Open, None, RowsInv, TicketsOK, TicketOK
    <2>3. /\ k.pc = "approve" /\ k.ticket = t /\ k.email = ticket[t].email /\ k.code = codes + 1
          /\ k.company = company
      BY DEF Hold, Idle
    <2>4. CallBecomes(c, k) /\ UNCHANGED <<tables, mailed>> /\ codes' = codes + 1
      BY DEF Approve, Begin, CallBecomes
    <2> HIDE DEF k
    <2>5. CallOK(k)
      BY <2>0, <2>2, <2>3 DEF CallOK
    <2> QED BY <2>0, <2>1, <2>4, <2>5
  <1>5. CASE \E t \in Ticket : ResendActivation(c, t)
    <2> PICK t \in Ticket : ResendActivation(c, t)
      BY <1>5
    <2> DEFINE k == Hold(t, "resend", codes + 1, None)
    <2>0. codes + 1 \in Code /\ codes + 1 \in Nat
      BY OnboardingAssumption DEF ResendActivation, Code, RowsInv, TypeOK
    <2>1. k \in CallState
      BY <2>0, HoldTypes DEF Pc
    <2>2. ticket[t].email \in Email
      BY DEF ResendActivation, None, RowsInv, TicketsOK, TicketOK
    <2>3. k.pc = "resend" /\ k.ticket = t /\ k.email = ticket[t].email /\ k.code = codes + 1
      BY DEF Hold, Idle
    <2>4. CallBecomes(c, k) /\ UNCHANGED <<tables, mailed>> /\ codes' = codes + 1
      BY DEF ResendActivation, Begin, CallBecomes
    <2> HIDE DEF k
    <2>5. CallOK(k)
      BY <2>0, <2>2, <2>3 DEF CallOK
    <2> QED BY <2>0, <2>1, <2>4, <2>5
  <1>6. CASE \E e \in Email, code \in Code : Activate(c, e, code)
    <2> PICK e \in Email, code \in Code, t \in Ticket :
          /\ ticket[t].user # None
          /\ Begin(c, [Hold(t, "activate", code, None) EXCEPT !.account = ticket[t].user,
                                                              !.company = ticket[t].company])
          /\ UNCHANGED <<tables, codes, mailed>>
      BY <1>6 DEF Activate
    <2> DEFINE k == [Hold(t, "activate", code, None) EXCEPT !.account = ticket[t].user,
                                                            !.company = ticket[t].company]
    <2>0. /\ ticket[t].user \in Account /\ account[ticket[t].user] # "missing" /\ ticket[t].company \in Company
          /\ ticket[t].company = granted[ticket[t].user]
      BY DEF RowsInv, TicketsOK, TicketOK
    <2>1. k \in CallState
      BY <2>0, HoldTypes DEF Pc
    <2>2. k.pc = "activate" /\ k.ticket = t /\ k.account = ticket[t].user /\ k.company = ticket[t].company
      BY DEF Hold, Idle
    <2>3. CallBecomes(c, k) /\ UNCHANGED <<tables, codes, mailed>>
      BY DEF Begin, CallBecomes
    <2> HIDE DEF k
    <2>4. CallOK(k)
      BY <2>0, <2>2 DEF CallOK, ForAccount
    <2> QED BY <2>1, <2>3, <2>4 DEF RowsInv, TypeOK
  <1>7. CASE \E a \in Account, company \in Company : Claim(c, a, company)
    <2> PICK a \in Account, company \in Company : Claim(c, a, company)
      BY <1>7
    <2>a. PICK to : to = IF ApprovedCompany(a) = company THEN "ADMIN_REVIEW" ELSE None
      OBVIOUS
    <2>b. PICK k : k = Hand("claim", a, company, to)
      OBVIOUS
    <2>1. ApprovedCompany(a) \in {None, company} /\ account[a] = "active"
      BY DEF Claim, SignedIn
    <2>2. to \in {None, "ADMIN_REVIEW"} /\ (to # None => ApprovedCompany(a) = company)
      BY <2>a
    <2>3. to # None => granted[a] = company
      <3>1. company # None
        BY OnboardingAssumption
      <3> QED BY <2>2, <3>1, ApprovedOrNone
    <2>4. call' = [call EXCEPT ![c] = k] /\ UNCHANGED <<tables, codes, mailed>>
      BY <2>a, <2>b DEF Claim, Begin
    <2>5. k \in CallState /\ k.pc = "claim" /\ k.account = a /\ k.company = company /\ k.to = to
      <3>1. "claim" \in Pc /\ to \in Proof \cup Domain \cup {None}
        BY <2>2 DEF Pc, Proof
      <3> QED BY <2>b, <3>1, HandTypes
    <2>6. CallOK(k)
      BY <2>1, <2>2, <2>3, <2>5 DEF CallOK
    <2> QED BY <2>4, <2>5, <2>6 DEF CallBecomes, RowsInv, TypeOK
  <1>8. CASE \E a \in Account, domain \in Domain : UpdateProfile(c, a, domain)
    <2> PICK a \in Account, domain \in Domain : UpdateProfile(c, a, domain)
      BY <1>8
    <2> DEFINE k == Hand("edit", a, link[a], domain)
    <2>1. link[a] \in Company
      BY OnboardingAssumption DEF UpdateProfile
    <2>2. k \in CallState /\ k.pc = "edit" /\ k.account = a /\ k.company = link[a] /\ k.to = domain
      BY <2>1, HandTypes DEF Pc
    <2>3. CallBecomes(c, k) /\ UNCHANGED <<tables, codes, mailed>>
      BY DEF UpdateProfile, Begin, CallBecomes
    <2> HIDE DEF k
    <2>4. CallOK(k)
      BY <2>1, <2>2 DEF CallOK
    <2> QED BY <2>2, <2>3, <2>4 DEF RowsInv, TypeOK
  <1> QED BY <1>1, <1>2, <1>3, <1>4, <1>5, <1>6, <1>7, <1>8 DEF Arrival

-----------------------------------------------------------------------------
(* Serving a call: each step keeps the rows and takes nothing back, and leaves its call in order. *)

\* What a step has to do for the invariant to survive it, and one of call c.
Keeps == RowsInv' /\ Onward /\ LinkedAsApproved' /\ VerificationIsEarned'
Fits(c) == Keeps /\ \E k \in CallState : CallBecomes(c, k) /\ CallOK(k)'

LEMMA DoneFits ==
  ASSUME PortalInv, NEW c \in Call, Done(c)
  PROVE  /\ call' \in [Call -> CallState]
         /\ \E k \in CallState : CallBecomes(c, k) /\ CallOK(k)'
  <1>1. CallOK(Idle)'
    BY DEF Idle, CallOK
  <1> QED BY <1>1, IdleOK DEF Done, CallBecomes, PortalInv, RowsInv, TypeOK

\* A step that changes no row fits when its call does.
LEMMA NoRowFits ==
  ASSUME PortalInv, NEW c \in Call, UNCHANGED tables, codes' \in Nat,
         mailed' \in [Email -> SUBSET Code], NEW k \in CallState, CallBecomes(c, k), CallOK(k)'
  PROVE  Fits(c)
  <1>1. call' \in [Call -> CallState]
    BY DEF CallBecomes, PortalInv, RowsInv, TypeOK
  <1>2. RowsInv' /\ Onward
    BY <1>1, RowsStand DEF PortalInv
  <1>3. UNCHANGED <<link, verified, sites>>
    BY DEF tables
  <1> QED BY <1>2, <1>3, EarnedStays DEF Fits, Keeps, PortalInv

LEMMA ArrivalKeeps ==
  ASSUME PortalInv, NEW c \in Call, Arrival(c)
  PROVE  Fits(c)
  <1>1. PICK k \in CallState : CallBecomes(c, k) /\ CallOK(k)
    BY ArrivalFits
  <1>2. UNCHANGED tables /\ codes' \in Nat /\ mailed' \in [Email -> SUBSET Code]
    BY ArrivalFits DEF PortalInv, RowsInv, TypeOK
  <1>3. Onward
    BY <1>2 DEF tables, users, sites, Onward
  <1>4. CallOK(k)'
    BY <1>1, <1>3, CallStays DEF PortalInv
  <1> QED BY <1>1, <1>2, <1>4, NoRowFits

\* The steps that write no row.
LEMMA ReadingKeeps ==
  ASSUME PortalInv, NEW c \in Call,
         DeliverActivationCode(c) \/ LockAccount(c) \/ ReadLinks(c) \/ AlreadyLinked(c) \/ Die(c)
  PROVE  Fits(c)
  <1> DEFINE k == call[c]
  <1>0. k \in CallState /\ CallOK(k)
    BY DEF PortalInv, RowsInv, TypeOK, CallsOK
  <1>1. CASE AlreadyLinked(c) \/ Die(c)
    BY <1>1, DoneFits, NoRowFits DEF AlreadyLinked, Die, PortalInv, RowsInv, TypeOK
  <1>2. CASE DeliverActivationCode(c)
    <2>1. mailed' \in [Email -> SUBSET Code]
      <3>1. k.email \in Email
        BY <1>0, <1>2 DEF DeliverActivationCode, CallOK
      <3>2. CASE UNCHANGED mailed
        BY <3>2 DEF PortalInv, RowsInv, TypeOK
      <3>3. CASE mailed' = [mailed EXCEPT ![k.email] = @ \cup {k.code}]
        <4>1. k.code \in Code
          BY <1>0, <1>2 DEF DeliverActivationCode, CallOK, CallState
        <4> QED BY <3>1, <3>3, <4>1 DEF PortalInv, RowsInv, TypeOK
      <3> QED BY <1>2, <3>2, <3>3 DEF DeliverActivationCode
    <2> QED BY <1>2, <2>1, DoneFits, NoRowFits DEF DeliverActivationCode, PortalInv, RowsInv, TypeOK
  <1>3. CASE LockAccount(c)
    <2> DEFINE m == [k EXCEPT !.pc = "link"]
    <2>1. m \in CallState
      BY <1>0 DEF CallState, Pc
    <2>2. CallBecomes(c, m) /\ UNCHANGED <<tables, codes, mailed>>
      BY <1>3 DEF LockAccount, CallBecomes
    <2>3. k.pc = "activate"
      BY <1>3 DEF LockAccount
    <2>4. CallOK(m)
      BY <1>0, <2>3 DEF CallOK, ForAccount, CallState
    <2>5. PICK n \in CallState : n = m
      BY <2>1
    <2>6. CallOK(n)'
      BY <2>2, <2>4, <2>5, CallStays DEF Onward, tables, users, sites, PortalInv
    <2> QED BY <2>2, <2>5, <2>6, NoRowFits DEF PortalInv, RowsInv, TypeOK
  <1>4. CASE ReadLinks(c)
    <2>a. PICK found : found = IF link[k.account] # None \/ Managed(k.company) THEN None ELSE k.company
      OBVIOUS
    <2> DEFINE m == [k EXCEPT !.pc = "commit", !.company = found]
    <2>b. found \in Company \cup {None}
      BY <1>0, <2>a DEF CallState
    <2>1. m \in CallState
      BY <1>0, <2>b DEF CallState, Pc
    <2>2. CallBecomes(c, m) /\ UNCHANGED <<tables, codes, mailed>>
      BY <1>4, <2>a DEF ReadLinks, CallBecomes
    <2>3. ForAccount(k) /\ k.company = granted[k.account]
      BY <1>0, <1>4 DEF ReadLinks, CallOK
    <2>4. CallOK(m)
      <3>1. m.pc = "commit" /\ m.ticket = k.ticket /\ m.account = k.account /\ m.company = found
        BY <1>0 DEF CallState
      <3>2. ForAccount(m)
        BY <2>3, <3>1 DEF ForAccount
      <3>3. found # None => found = granted[m.account]
        BY <2>a, <2>3, <3>1
      <3>4. found = None => link[m.account] # None \/ Managed(granted[m.account])
        BY <2>a, <2>3, <3>1, OnboardingAssumption DEF ForAccount
      <3> HIDE DEF m
      <3> QED BY <3>1, <3>2, <3>3, <3>4 DEF CallOK
    <2>5. PICK n \in CallState : n = m
      BY <2>1
    <2>6. CallOK(n)'
      BY <2>2, <2>4, <2>5, CallStays DEF Onward, tables, users, sites, PortalInv
    <2> QED BY <2>2, <2>5, <2>6, NoRowFits DEF PortalInv, RowsInv, TypeOK
  <1> QED BY <1>1, <1>2, <1>3, <1>4

\* Steps on a ticket that leave its approval as it is.
SameApproval ==
  /\ \A t \in Ticket : /\ ticket'[t].user = ticket[t].user /\ ticket'[t].company = ticket[t].company
                       /\ ticket[t].email # None => ticket'[t].email = ticket[t].email
                       /\ ticket'[t].status # None => ticket'[t].email \in Email
                       /\ ticket'[t].status = "APPROVED" => ticket[t].status = "APPROVED"
  /\ ticket' \in [Ticket -> TicketRow]
  /\ UNCHANGED <<users, link, verified, sites, codes, mailed>>

LEMMA SameApprovalKeeps ==
  ASSUME PortalInv, SameApproval, call' \in [Call -> CallState]
  PROVE  Keeps
  <1>1. Onward
    BY DEF SameApproval, Onward, users, sites
  <1>2. TicketsOK'
    <2> SUFFICES ASSUME NEW t \in Ticket PROVE TicketOK(t)'
      BY DEF TicketsOK
    <2>1. TicketOK(t)
      BY DEF PortalInv, RowsInv, TicketsOK
    <2>2. ticket[t].user # None => ticket[t].email # None
      BY <2>1, OnboardingAssumption DEF TicketOK
    <2> QED BY <2>1, <2>2 DEF SameApproval, TicketOK, users
  <1>3. RowsInv'
    BY <1>2 DEF SameApproval, PortalInv, RowsInv, TypeOK, OneTicketEach, Backed, OneLive, Live, SeededActive,
                LinkedExists, SiteShown, users, sites
  <1> QED BY <1>1, <1>3, EarnedStays DEF Keeps, SameApproval, PortalInv

LEMMA TicketKeeps ==
  ASSUME PortalInv, NEW c \in Call, CreateTicket(c) \/ UpdateStatus(c) \/ SetActivationCode(c)
  PROVE  Fits(c)
  <1> DEFINE k == call[c]
  <1>0. k \in CallState /\ CallOK(k)
    BY DEF PortalInv, RowsInv, TypeOK, CallsOK
  <1>1. CASE CreateTicket(c)
    <2> PICK t \in Ticket :
          /\ ticket[t] = NoTicket
          /\ ticket' = [ticket EXCEPT ![t].status = "SUBMITTED", ![t].email = k.email]
      BY <1>1 DEF CreateTicket, NewTicket
    <2>1. k.email \in Email
      BY <1>0, <1>1 DEF CreateTicket, CallOK
    <2>2. SameApproval
      BY <1>1, <2>1 DEF CreateTicket, SameApproval, NoTicket, PortalInv, RowsInv, TypeOK, TicketRow,
                        TicketsOK, TicketOK, Open
    <2> QED BY <1>1, <2>2, DoneFits, SameApprovalKeeps DEF CreateTicket, Fits
  <1>2. CASE UpdateStatus(c)
    <2>1. k.ticket \in Ticket /\ k.to \in Review3
      BY <1>0, <1>2 DEF UpdateStatus, CallOK
    <2>2. SameApproval
      <3>1. ticket' = [ticket EXCEPT ![k.ticket].status = k.to] /\ UNCHANGED <<users, link, verified, sites, codes, mailed>>
        BY <1>2 DEF UpdateStatus
      <3>2. k.to \in Open \cup Decided /\ k.to # "APPROVED"
        BY <2>1 DEF Review3, Open, Decided
      <3>3. ticket[k.ticket].email \in Email
        BY <1>0, <1>2 DEF UpdateStatus, CallOK
      <3> QED BY <2>1, <3>1, <3>2, <3>3 DEF SameApproval, PortalInv, RowsInv, TypeOK, TicketRow, TicketsOK, TicketOK
    <2> QED BY <1>2, <2>2, DoneFits, SameApprovalKeeps DEF UpdateStatus, Fits
  <1>3. CASE SetActivationCode(c)
    <2> DEFINE m == [k EXCEPT !.pc = "mail"]
    <2>1. k.ticket \in Ticket /\ k.email \in Email
      BY <1>0, <1>3 DEF SetActivationCode, CallOK
    <2>2. SameApproval
      <3>1. ticket' = [ticket EXCEPT ![k.ticket].code = k.code] /\ UNCHANGED <<users, link, verified, sites, codes, mailed>>
        BY <1>3 DEF SetActivationCode
      <3> QED BY <1>0, <2>1, <3>1 DEF SameApproval, PortalInv, RowsInv, TypeOK, TicketRow, CallState, TicketsOK, TicketOK
    <2>3. m \in CallState /\ m.pc = "mail" /\ m.email = k.email
      BY <1>0 DEF CallState, Pc
    <2>4. CallBecomes(c, m) /\ call' \in [Call -> CallState]
      BY <1>3, <2>3 DEF SetActivationCode, CallBecomes, PortalInv, RowsInv, TypeOK
    <2>5. PICK n \in CallState : n = m
      BY <2>3
    <2>6. CallOK(n)'
      <3>1. m.code = k.code /\ k.code \in Code
        BY <1>0, <1>3 DEF SetActivationCode, CallOK, CallState
      <3> QED BY <2>1, <2>3, <2>5, <3>1 DEF CallOK
    <2> QED BY <2>2, <2>4, <2>5, <2>6, SameApprovalKeeps DEF Fits
  <1> QED BY <1>1, <1>2, <1>3

\* The account created for an approval is of the ticket's address, and none was live with that.
LEMMA ApprovalKeeps ==
  ASSUME PortalInv, NEW c \in Call, CreateAccount(c)
  PROVE  Fits(c)
  <1> PICK k \in CallState : k = call[c] /\ CallOK(k)
    BY DEF PortalInv, RowsInv, TypeOK, CallsOK
  <1>0. k.pc = "approve"
    BY DEF CreateAccount
  <1>1. /\ k.ticket \in Ticket /\ k.email \in Email /\ ticket[k.ticket].email = k.email
        /\ k.company \in Company /\ k.code \in Code
    BY <1>0 DEF CallOK
  <1>2. CASE Taken(k.email)
    <2>1. UNCHANGED tables /\ UNCHANGED <<codes, mailed>> /\ Done(c)
      BY <1>2 DEF CreateAccount, tables, users
    <2> QED BY <2>1, DoneFits, NoRowFits DEF PortalInv, RowsInv, TypeOK
  <1>3. CASE ~Taken(k.email)
    <2>0. PICK a \in Account : a = New(k.email) /\ account[a] = "missing" /\ AddressOf[a] = k.email
      BY <1>3 DEF CreateAccount, New, Fresh
    <2> DEFINE m == [k EXCEPT !.pc = "mail"]
    <2>1. /\ account' = [account EXCEPT ![a] = "unverified"] /\ granted' = [granted EXCEPT ![a] = k.company]
          /\ ticket' = [ticket EXCEPT ![k.ticket] =
                [@ EXCEPT !.status = "APPROVED", !.user = a, !.company = k.company, !.code = k.code]]
          /\ CallBecomes(c, m) /\ UNCHANGED <<deleted, link, verified, sites, codes, mailed>>
      BY <1>3, <2>0 DEF CreateAccount, Created, Approved, CallBecomes
    <2>2. m \in CallState /\ m.pc = "mail" /\ m.email = k.email /\ m.code = k.code
      BY DEF CallState, Pc
    <2>3. /\ ticket'[k.ticket].status = "APPROVED" /\ ticket'[k.ticket].email = k.email
          /\ ticket'[k.ticket].user = a /\ ticket'[k.ticket].company = k.company
          /\ \A t \in Ticket : t # k.ticket => ticket'[t] = ticket[t]
          /\ ticket' \in [Ticket -> TicketRow]
      <3> PICK row \in TicketRow : row = ticket[k.ticket]
        BY <1>1 DEF PortalInv, RowsInv, TypeOK
      <3> DEFINE new == [row EXCEPT !.status = "APPROVED", !.user = a, !.company = k.company, !.code = k.code]
      <3>1. new \in TicketRow
        BY <1>1 DEF TicketRow, Decided
      <3>2. new.status = "APPROVED" /\ new.email = row.email /\ new.user = a /\ new.company = k.company
        BY DEF TicketRow
      <3>3. ticket' = [ticket EXCEPT ![k.ticket] = new]
        BY <2>1
      <3> HIDE DEF new
      <3> QED BY <1>1, <3>1, <3>2, <3>3 DEF PortalInv, RowsInv, TypeOK
    <2>4. \A t \in Ticket : ticket[t].user # a
      BY <2>0, OnboardingAssumption DEF PortalInv, RowsInv, TicketsOK, TicketOK
    <2>6. /\ account'[a] = "unverified" /\ granted'[a] = k.company
          /\ \A b \in Account : b # a => account'[b] = account[b] /\ granted'[b] = granted[b]
      BY <2>1 DEF PortalInv, RowsInv, TypeOK
    <2>7. Onward
      <3>1. \A t \in Ticket : ticket[t].email # None => ticket'[t].email = ticket[t].email
        BY <1>1, <2>3
      <3>2. \A t \in Ticket : ticket'[t].user # None =>
               \/ ticket'[t].user = ticket[t].user /\ ticket'[t].company = ticket[t].company
               \/ account[ticket'[t].user] = "missing"
        BY <2>0, <2>3
      <3> QED BY <2>0, <2>1, <2>6, <3>1, <3>2 DEF Onward, sites
    <2>8. TypeOK'
      BY <1>1, <2>1, <2>2, <2>3 DEF CallBecomes, PortalInv, RowsInv, TypeOK, sites
    <2>9. TicketsOK'
      <3> SUFFICES ASSUME NEW t \in Ticket PROVE TicketOK(t)'
        BY DEF TicketsOK
      <3>1. CASE t = k.ticket
        BY <1>1, <2>0, <2>3, <2>6, <3>1, OnboardingAssumption DEF TicketOK
      <3>2. CASE t # k.ticket
        <4>1. ticket'[t] = ticket[t] /\ TicketOK(t) /\ ticket[t].user # a
          BY <2>3, <2>4, <3>2 DEF PortalInv, RowsInv, TicketsOK
        <4> QED BY <2>6, <4>1 DEF TicketOK
      <3> QED BY <3>1, <3>2
    <2>10. OneTicketEach'
      BY <2>3, <2>4 DEF OneTicketEach, PortalInv, RowsInv
    <2>11. Backed' /\ OneLive'
      <3>0. \A b \in Account : b # a => (Live(b)' <=> Live(b))
        BY <2>1, <2>6 DEF Live
      <3>1. Backed'
        <4> SUFFICES ASSUME NEW b \in Account \ Seeded, Live(b)' PROVE \E t \in Ticket : ticket'[t].user = b
          BY DEF Backed
        <4>1. CASE b = a
          BY <1>1, <2>3, <4>1
        <4>2. CASE b # a
          <5>1. PICK t \in Ticket : ticket[t].user = b
            BY <3>0, <4>2 DEF Backed, PortalInv, RowsInv
          <5>2. t # k.ticket
            <6>1. b # None /\ Live(b) /\ AddressOf[b] = ticket[t].email
              BY <3>0, <4>2, <5>1, OnboardingAssumption DEF PortalInv, RowsInv, TicketsOK, TicketOK
            <6> QED BY <1>1, <1>3, <6>1 DEF Taken
          <5> QED BY <2>3, <5>1, <5>2
        <4> QED BY <4>1, <4>2
      <3>2. OneLive'
        <4>1. \A b \in Account : Live(b) => AddressOf[b] # AddressOf[a]
          BY <1>3, <2>0 DEF Taken
        <4> QED BY <3>0, <4>1 DEF OneLive, PortalInv, RowsInv
      <3> QED BY <3>1, <3>2
    <2>12. LinkedExists' /\ SeededActive' /\ SiteShown'
      <3>1. LinkedExists'
        BY <2>1, <2>6 DEF LinkedExists, PortalInv, RowsInv
      <3>2. SeededActive'
        BY <2>0, <2>6, OnboardingAssumption DEF SeededActive, PortalInv, RowsInv
      <3> QED BY <2>1, <3>1, <3>2 DEF SiteShown, PortalInv, RowsInv, sites
    <2>13. CallOK(m)'
      BY <1>1, <2>2 DEF CallOK
    <2>14. LinkedAsApproved' /\ VerificationIsEarned'
      BY <2>1, <2>7, EarnedStays DEF PortalInv
    <2> QED BY <2>1, <2>2, <2>7, <2>8, <2>9, <2>10, <2>11, <2>12, <2>13, <2>14 DEF Fits, Keeps, RowsInv
  <1> QED BY <1>2, <1>3

\* What stays of the rows when an account is linked to the company it was approved for.
OneLinked(a, m) ==
  /\ ApprovedCompany(a) \in {None, m} /\ account[a] # "missing" /\ link[a] = None
  /\ account' \in [Account -> {"missing", "unverified", "active"}]
  /\ account'[a] # "missing" /\ (account[a] = "active" => account'[a] = "active")
  /\ link' = [link EXCEPT ![a] = m]
  /\ \A b \in Account : b # a => account'[b] = account[b]
  /\ \A t \in Ticket : /\ ticket'[t].user = ticket[t].user /\ ticket'[t].company = ticket[t].company
                       /\ ticket'[t].email = ticket[t].email /\ ticket'[t].status = ticket[t].status
  /\ UNCHANGED <<deleted, granted, sites>>

\* An account that may only be of company m is linked to it.
LEMMA LinkKeeps ==
  ASSUME PortalInv, NEW a \in Account, NEW m \in Company, OneLinked(a, m), TypeOK',
         \/ UNCHANGED verified
         \/ granted[a] = m /\ verified' = [verified EXCEPT ![m] = "ADMIN_REVIEW"]
  PROVE  Keeps
  <1> USE DEF OneLinked
  <1>1. link'[a] = m /\ \A b \in Account : b # a => link'[b] = link[b]
    BY DEF PortalInv, RowsInv, TypeOK
  <1>0. \A b \in Account : (account'[b] # "missing" <=> account[b] # "missing")
    OBVIOUS
  <1>2. Onward
    BY <1>1 DEF Onward, sites
  <1>3. TicketsOK'
    <2> SUFFICES ASSUME NEW t \in Ticket PROVE TicketOK(t)'
      BY DEF TicketsOK
    <2>1. TicketOK(t)
      BY DEF PortalInv, RowsInv, TicketsOK
    <2> QED BY <1>0, <2>1 DEF TicketOK
  <1>4. OneTicketEach'
    BY DEF OneTicketEach, PortalInv, RowsInv
  <1>5. Backed' /\ OneLive'
    <2>1. \A b \in Account : Live(b)' <=> Live(b)
      BY <1>0 DEF Live
    <2> QED BY <2>1 DEF Backed, OneLive, PortalInv, RowsInv
  <1>6. LinkedExists' /\ SeededActive' /\ SiteShown'
    <2>1. LinkedExists'
      BY <1>0, <1>1 DEF LinkedExists, PortalInv, RowsInv
    <2>2. SeededActive'
      BY OnboardingAssumption DEF SeededActive, PortalInv, RowsInv
    <2> QED BY <2>1, <2>2 DEF SiteShown, PortalInv, RowsInv, sites
  <1>7. \A b \in Account : account[b] # "missing" => ApprovedCompany(b)' \in {None, ApprovedCompany(b)}
    BY <1>2, ApprovedNarrows DEF PortalInv
  <1>8. LinkedAsApproved'
    BY <1>1, <1>7 DEF LinkedAsApproved, LinkedExists, PortalInv, RowsInv
  <1>9. VerificationIsEarned'
    <2> SUFFICES ASSUME NEW n \in Company
                 PROVE  /\ verified'[n] = "EMAIL_DOMAIN" =>
                             \E b \in Account : link'[b] = n /\ DomainOf[AddressOf[b]] \in shown'[n]
                        /\ verified'[n] = "ADMIN_REVIEW" => \E b \in Account : link'[b] = n /\ granted'[b] = n
                        /\ shown'[n] \subseteq {Listed[n]} \/ \E b \in Account : link'[b] = n
      BY DEF VerificationIsEarned
    <2>0. \A b \in Account : link[b] = n => link'[b] = n
      BY <1>1, OnboardingAssumption
    <2>1. shown'[n] \subseteq {Listed[n]} \/ \E b \in Account : link'[b] = n
      BY <2>0 DEF PortalInv, VerificationIsEarned, sites
    <2>2. CASE verified'[n] = verified[n]
      BY <2>0, <2>1, <2>2 DEF PortalInv, VerificationIsEarned, sites
    <2>3. CASE verified'[n] # verified[n]
      <3>1. n = m /\ verified'[n] = "ADMIN_REVIEW" /\ granted[a] = m
        BY <2>3 DEF PortalInv, RowsInv, TypeOK
      <3> QED BY <1>1, <2>1, <3>1
    <2> QED BY <2>2, <2>3
  <1> QED BY <1>2, <1>3, <1>4, <1>5, <1>6, <1>8, <1>9 DEF Keeps, RowsInv

\* A code is cleared and nothing else of its ticket changes.
LEMMA CodeCleared ==
  ASSUME PortalInv, NEW t \in Ticket, ticket' = [ticket EXCEPT ![t].code = NoCode]
  PROVE  /\ ticket' \in [Ticket -> TicketRow]
         /\ \A u \in Ticket : /\ ticket'[u].user = ticket[u].user /\ ticket'[u].company = ticket[u].company
                              /\ ticket'[u].email = ticket[u].email /\ ticket'[u].status = ticket[u].status
  BY DEF PortalInv, RowsInv, TypeOK, TicketRow

LEMMA ActivationKeeps ==
  ASSUME PortalInv, NEW c \in Call, CommitActivation(c)
  PROVE  Fits(c)
  <1> PICK k \in CallState : k = call[c] /\ CallOK(k)
    BY DEF PortalInv, RowsInv, TypeOK, CallsOK
  <1>0. k.pc = "commit"
    BY DEF CommitActivation
  <1>1. ForAccount(k) /\ (k.company # None => k.company = granted[k.account])
    BY <1>0 DEF CallOK
  <1>2. k.ticket \in Ticket /\ k.account \in Account /\ account[k.account] # "missing"
    BY <1>1 DEF ForAccount
  <1>3. /\ Usable(k.account)
        /\ ticket' = [ticket EXCEPT ![k.ticket].code = NoCode]
        /\ Done(c) /\ UNCHANGED <<deleted, granted, sites, codes, mailed>>
    BY DEF CommitActivation
  <1>4. /\ account' \in [Account -> {"missing", "unverified", "active"}]
        /\ account'[k.account] # "missing" /\ (account[k.account] = "active" => account'[k.account] = "active")
        /\ \A b \in Account : b # k.account => account'[b] = account[b]
    <2>1. CASE k.account \in deleted
      BY <1>2, <1>3, <2>1 DEF Usable, PortalInv, RowsInv, TypeOK
    <2>2. CASE k.account \notin deleted
      BY <1>2, <1>3, <2>2 DEF Usable, PortalInv, RowsInv, TypeOK
    <2> QED BY <2>1, <2>2
  <1>5. \A b \in Account : /\ account'[b] # "missing" <=> account[b] # "missing"
                           /\ account[b] = "active" => account'[b] = "active"
    BY <1>2, <1>4
  <1>t. /\ ticket' \in [Ticket -> TicketRow]
        /\ \A u \in Ticket : /\ ticket'[u].user = ticket[u].user /\ ticket'[u].company = ticket[u].company
                             /\ ticket'[u].email = ticket[u].email /\ ticket'[u].status = ticket[u].status
    BY <1>2, <1>3, CodeCleared
  <1>6. CASE k.company = None
    <2>1. UNCHANGED <<link, verified>>
      BY <1>6 DEF CommitActivation
    <2>2. TypeOK'
      BY <1>3, <1>4, <1>t, <2>1, DoneFits DEF PortalInv, RowsInv, TypeOK, sites
    <2>3. Onward
      BY <1>3, <1>5, <1>t, <2>1 DEF Onward, sites
    <2>4. TicketsOK'
      <3> SUFFICES ASSUME NEW t \in Ticket PROVE TicketOK(t)'
        BY DEF TicketsOK
      <3>1. TicketOK(t)
        BY DEF PortalInv, RowsInv, TicketsOK
      <3> QED BY <1>3, <1>5, <1>t, <3>1 DEF TicketOK
    <2>5. OneTicketEach'
      BY <1>t DEF OneTicketEach, PortalInv, RowsInv
    <2>6. Backed' /\ OneLive'
      <3>1. \A b \in Account : Live(b)' <=> Live(b)
        BY <1>3, <1>5 DEF Live
      <3> QED BY <1>t, <3>1 DEF Backed, OneLive, PortalInv, RowsInv
    <2>7. LinkedExists' /\ SeededActive' /\ SiteShown'
      <3>1. SeededActive'
        BY <1>5, OnboardingAssumption DEF SeededActive, PortalInv, RowsInv
      <3> QED BY <1>3, <1>5, <2>1, <3>1 DEF LinkedExists, SiteShown, PortalInv, RowsInv, sites
    <2>8. RowsInv'
      BY <2>2, <2>4, <2>5, <2>6, <2>7 DEF RowsInv
    <2> QED BY <1>3, <2>1, <2>3, <2>8, DoneFits, EarnedStays DEF Fits, Keeps, PortalInv
  <1>7. CASE k.company # None
    <2>1. link[k.account] = None
      BY <1>7 DEF CommitActivation
    <2>2. link' = [link EXCEPT ![k.account] = k.company]
      BY <1>7 DEF CommitActivation
    <2>3. verified' = [verified EXCEPT ![k.company] = IF @ = None THEN "ADMIN_REVIEW" ELSE @]
      BY <1>7 DEF CommitActivation
    <2>4. k.company \in Company /\ k.company = granted[k.account]
      BY <1>1, <1>7 DEF CallState
    <2>5. TypeOK'
      BY <1>2, <1>3, <1>4, <1>t, <2>2, <2>3, <2>4, DoneFits DEF PortalInv, RowsInv, TypeOK, Proof, sites
    <2>6. \/ UNCHANGED verified
          \/ granted[k.account] = k.company /\ verified' = [verified EXCEPT ![k.company] = "ADMIN_REVIEW"]
      BY <2>3, <2>4 DEF PortalInv, RowsInv, TypeOK
    <2>7. ApprovedCompany(k.account) \in {None, k.company}
      BY <1>2, <2>4, ApprovedOrNone DEF PortalInv
    <2>8. OneLinked(k.account, k.company)
      BY <1>2, <1>3, <1>4, <1>t, <2>1, <2>2, <2>7 DEF OneLinked
    <2>9. Keeps
      BY <1>2, <2>4, <2>5, <2>6, <2>8, LinkKeeps
    <2> QED BY <1>3, <2>9, DoneFits DEF Fits
  <1> QED BY <1>6, <1>7

LEMMA ClaimKeeps ==
  ASSUME PortalInv, NEW c \in Call, CreateProfile(c)
  PROVE  Fits(c)
  <1> PICK k \in CallState : k = call[c] /\ CallOK(k)
    BY DEF PortalInv, RowsInv, TypeOK, CallsOK
  <1>0. /\ k.account \in Account /\ account[k.account] = "active" /\ k.company \in Company
        /\ ApprovedCompany(k.account) \in {None, k.company} /\ k.to \in {None, "ADMIN_REVIEW"}
        /\ k.to # None => granted[k.account] = k.company
    BY DEF CreateProfile, CallOK
  <1>1. UNCHANGED <<ticket, users, verified, sites, codes, mailed>>
    BY DEF CreateProfile
  <1>2. CASE link[k.account] # None
    <2>1. UNCHANGED tables /\ Done(c)
      BY <1>1, <1>2 DEF CreateProfile, tables
    <2> QED BY <1>1, <2>1, DoneFits, NoRowFits DEF PortalInv, RowsInv, TypeOK
  <1>3. CASE link[k.account] = None
    <2>1. link' = [link EXCEPT ![k.account] = k.company]
      BY <1>3 DEF CreateProfile
    <2>2. PICK m \in CallState : CallBecomes(c, m) /\ (m = Idle \/ (k.to # None /\ m = [k EXCEPT !.pc = "stamp"]))
      <3>1. CASE k.to = None
        BY <1>3, <3>1, IdleOK DEF CreateProfile, CallBecomes, Done
      <3>2. CASE k.to # None
        <4>1. [k EXCEPT !.pc = "stamp"] \in CallState
          BY DEF CallState, Pc
        <4> QED BY <1>3, <3>2, <4>1 DEF CreateProfile, CallBecomes
      <3> QED BY <3>1, <3>2
    <2>3. TypeOK'
      BY <1>0, <1>1, <2>1, <2>2 DEF CallBecomes, PortalInv, RowsInv, TypeOK, users, sites
    <2>4. OneLinked(k.account, k.company)
      BY <1>0, <1>1, <1>3, <2>1 DEF OneLinked, users, PortalInv, RowsInv, TypeOK
    <2>5. Keeps
      BY <1>0, <1>1, <2>3, <2>4, LinkKeeps
    <2>6. CallOK(m)'
      <3>1. CASE m = Idle
        BY <3>1 DEF CallOK, Idle
      <3>2. CASE k.to # None /\ m = [k EXCEPT !.pc = "stamp"]
        <4>1. m.pc = "stamp" /\ m.account = k.account /\ m.company = k.company /\ m.to = "ADMIN_REVIEW"
          BY <1>0, <3>2 DEF CallState
        <4>2. link'[k.account] = k.company
          BY <1>0, <2>1 DEF PortalInv, RowsInv, TypeOK
        <4>3. granted'[k.account] = k.company
          BY <1>0, <1>1, <3>2 DEF users
        <4> QED BY <1>0, <4>1, <4>2, <4>3 DEF CallOK, Proof
      <3> QED BY <2>2, <3>1, <3>2
    <2> QED BY <2>2, <2>5, <2>6 DEF Fits
  <1> QED BY <1>2, <1>3

\* Steps on a company alone.
SameRows == UNCHANGED <<ticket, users, link, codes, mailed>>
LEMMA SameRowsFits ==
  ASSUME PortalInv, SameRows, verified' \in [Company -> Proof \cup {None}], SiteShown',
         site' \in [Company -> Domain \cup {None}], shown' \in [Company -> SUBSET Domain],
         \A m \in Company : shown[m] \subseteq shown'[m], call' \in [Call -> CallState]
  PROVE  RowsInv' /\ Onward /\ LinkedAsApproved'
  <1>1. RowsInv' /\ Onward
    BY DEF SameRows, users, PortalInv, RowsInv, TypeOK, TicketsOK, TicketOK, OneTicketEach, Backed, OneLive, Live,
           SeededActive, LinkedExists, Onward
  <1>2. \A a \in Account : ApprovedCompany(a)' = ApprovedCompany(a)
    BY DEF ApprovedCompany, SameRows
  <1> QED BY <1>1, <1>2 DEF LinkedAsApproved, PortalInv, SameRows

LEMMA VerificationKeeps ==
  ASSUME PortalInv, NEW c \in Call, MarkVerified(c)
  PROVE  Fits(c)
  <1> PICK k \in CallState : k = call[c] /\ CallOK(k)
    BY DEF PortalInv, RowsInv, TypeOK, CallsOK
  <1>0. /\ k.account \in Account /\ k.company \in Company /\ link[k.account] = k.company /\ k.to \in Proof
        /\ k.to = "ADMIN_REVIEW" => granted[k.account] = k.company
        /\ k.to = "EMAIL_DOMAIN" => DomainOf[AddressOf[k.account]] \in shown[k.company]
    BY DEF MarkVerified, CallOK
  <1>1. verified' = [verified EXCEPT ![k.company] = k.to] /\ Done(c) /\ SameRows /\ UNCHANGED <<site, shown>>
    BY DEF MarkVerified, SameRows, sites
  <1>2. verified' \in [Company -> Proof \cup {None}]
    BY <1>0, <1>1 DEF PortalInv, RowsInv, TypeOK
  <1>3. RowsInv' /\ Onward /\ LinkedAsApproved'
    BY <1>1, <1>2, DoneFits, SameRowsFits DEF PortalInv, RowsInv, TypeOK, SiteShown
  <1>4. VerificationIsEarned'
    <2> SUFFICES ASSUME NEW n \in Company
                 PROVE  /\ verified'[n] = "EMAIL_DOMAIN" =>
                             \E b \in Account : link[b] = n /\ DomainOf[AddressOf[b]] \in shown[n]
                        /\ verified'[n] = "ADMIN_REVIEW" => \E b \in Account : link[b] = n /\ granted[b] = n
                        /\ shown[n] \subseteq {Listed[n]} \/ \E b \in Account : link[b] = n
      BY <1>1 DEF VerificationIsEarned, SameRows, users
    <2>1. CASE n = k.company
      BY <1>0, <1>1, <2>1 DEF PortalInv, RowsInv, TypeOK
    <2>2. CASE n # k.company
      BY <1>1, <2>2 DEF PortalInv, RowsInv, TypeOK, VerificationIsEarned
    <2> QED BY <2>1, <2>2
  <1> QED BY <1>1, <1>3, <1>4, DoneFits DEF Fits, Keeps

LEMMA WebsiteKeeps ==
  ASSUME PortalInv, NEW c \in Call, WriteSite(c)
  PROVE  Fits(c)
  <1> PICK k \in CallState : k = call[c] /\ CallOK(k)
    BY DEF PortalInv, RowsInv, TypeOK, CallsOK
  <1>0. k.account \in Account /\ k.company \in Company /\ link[k.account] = k.company /\ k.to \in Domain
    BY DEF WriteSite, CallOK
  <1>1. /\ site' = [site EXCEPT ![k.company] = k.to] /\ shown' = [shown EXCEPT ![k.company] = @ \cup {k.to}]
        /\ Done(c) /\ SameRows /\ UNCHANGED verified
    BY DEF WriteSite, SameRows
  <1>2. site' \in [Company -> Domain \cup {None}] /\ shown' \in [Company -> SUBSET Domain]
    BY <1>0, <1>1 DEF PortalInv, RowsInv, TypeOK
  <1>3. \A m \in Company : /\ shown[m] \subseteq shown'[m]
                           /\ m # k.company => site'[m] = site[m] /\ shown'[m] = shown[m]
    BY <1>0, <1>1 DEF PortalInv, RowsInv, TypeOK
  <1>4. site'[k.company] = k.to /\ k.to \in shown'[k.company]
    BY <1>0, <1>1 DEF PortalInv, RowsInv, TypeOK
  <1>5. SiteShown'
    BY <1>3, <1>4 DEF SiteShown, PortalInv, RowsInv
  <1>6. RowsInv' /\ Onward /\ LinkedAsApproved'
    BY <1>1, <1>2, <1>3, <1>5, DoneFits, SameRowsFits DEF PortalInv, RowsInv, TypeOK
  <1>7. VerificationIsEarned'
    BY <1>0, <1>1, <1>3 DEF VerificationIsEarned, SameRows, users, PortalInv
  <1> QED BY <1>1, <1>6, <1>7, DoneFits DEF Fits, Keeps

\* An address is free again, and nothing else.
LEMMA DeletionKeeps ==
  ASSUME PortalInv, NEW a \in Account, DeleteAccount(a)
  PROVE  Keeps /\ UNCHANGED call
  <1>1. deleted' = deleted \cup {a} /\ UNCHANGED <<ticket, account, granted, link, verified, sites, codes, mailed, call>>
    BY DEF DeleteAccount
  <1>2. \A b \in Account : Live(b)' => Live(b)
    BY <1>1 DEF Live
  <1>3. RowsInv'
    BY <1>1, <1>2 DEF PortalInv, RowsInv, TypeOK, TicketsOK, TicketOK, OneTicketEach, Backed, OneLive,
                      SeededActive, LinkedExists, SiteShown, sites
  <1>4. Onward
    BY <1>1 DEF Onward, sites
  <1> QED BY <1>1, <1>3, <1>4, EarnedStays DEF Keeps, PortalInv

LEMMA ExpiryKeeps ==
  ASSUME PortalInv, NEW t \in Ticket, Expire(t)
  PROVE  Keeps /\ UNCHANGED call
  <1>1. ticket' = [ticket EXCEPT ![t].code = NoCode] /\ UNCHANGED <<users, link, verified, sites, codes, mailed, call>>
    BY DEF Expire
  <1>2. SameApproval
    BY <1>1, CodeCleared DEF SameApproval, PortalInv, RowsInv, TicketsOK, TicketOK
  <1> QED BY <1>1, <1>2, SameApprovalKeeps DEF PortalInv, RowsInv, TypeOK

-----------------------------------------------------------------------------
(* The theorems. *)

LEMMA StepFits ==
  ASSUME PortalInv, NEW c \in Call, Arrival(c) \/ Serve(c) \/ Die(c)
  PROVE  Fits(c)
  BY ArrivalKeeps, ReadingKeeps, TicketKeeps, ApprovalKeeps, ActivationKeeps, ClaimKeeps, VerificationKeeps,
     WebsiteKeeps DEF Serve

LEMMA FitsKeeps == ASSUME PortalInv, NEW c \in Call, Fits(c) PROVE PortalInv'
  <1> PICK k \in CallState : CallBecomes(c, k) /\ CallOK(k)'
    BY DEF Fits
  <1>1. CallsOK'
    BY OthersStay DEF Fits, Keeps, PortalInv
  <1> QED BY <1>1 DEF Fits, Keeps, PortalInv

LEMMA QuietKeeps == ASSUME PortalInv, Keeps, UNCHANGED call PROVE PortalInv'
  <1>1. CallsOK'
    <2> SUFFICES ASSUME NEW c \in Call PROVE CallOK(call[c])'
      BY DEF CallsOK
    <2> PICK k \in CallState : k = call[c]
      BY DEF PortalInv, RowsInv, TypeOK
    <2>1. CallOK(k)'
      BY CallStays DEF Keeps, PortalInv, CallsOK
    <2> QED BY <2>1 DEF CallOK, ForAccount
  <1> QED BY <1>1 DEF Keeps, PortalInv

LEMMA PortalStart == Init => PortalInv
  <1> SUFFICES ASSUME Init PROVE PortalInv
    OBVIOUS
  <1>1. PICK old \in SUBSET Legacy : Inherited(old)
    BY DEF Init
  <1> DEFINE from(t) == CHOOSE l \in old : l[1] = t
             row(t)  == [status |-> "APPROVED", email |-> AddressOf[from(t)[2]], user |-> from(t)[2],
                         company |-> from(t)[3], code |-> NoCode]
             whose(a) == CHOOSE l \in old : l[2] = a
             Old     == {t \in Ticket : \E l \in old : l[1] = t}
             Known   == {a \in Account : \E l \in old : l[2] = a}
  <1>2. \A t \in Old : from(t) \in old /\ from(t)[1] = t /\ from(t)[2] \in Account \ Seeded /\ from(t)[3] \in Company
    BY OnboardingAssumption
  <1>w. \A a \in Known : whose(a) \in old /\ whose(a)[2] = a /\ whose(a)[3] \in Company
    BY OnboardingAssumption
  <1>3. (\A t \in Old : ticket[t] = row(t)) /\ (\A t \in Ticket \ Old : ticket[t] = NoTicket)
    BY <1>1 DEF Inherited
  <1>g. \A a \in Account : granted[a] = IF a \in Known THEN whose(a)[3] ELSE None
    BY <1>1 DEF Inherited
  <1>4. \A a \in Account : account[a] = IF a \in Seeded \/ a \in Known THEN "active" ELSE "missing"
    BY <1>1 DEF Inherited
  <1> HIDE DEF from, whose
  <1>old. Old \subseteq Ticket /\ Known \subseteq Account /\ \A l \in old : l[1] \in Old /\ l[2] \in Known
    BY OnboardingAssumption
  <1>d. deleted = {} /\ link = [a \in Account |-> None] /\ verified = [m \in Company |-> None]
        /\ site = Listed /\ shown = [m \in Company |-> {Listed[m]} \ {None}]
    BY DEF Init
  <1> HIDE DEF Old
  <1>k. \A t \in Old : from(t)[2] \in Known /\ whose(from(t)[2]) = from(t)
    BY <1>2, <1>w, <1>old, OnboardingAssumption
  <1>r. \A a \in Known : \E l \in old : l[2] = a
    OBVIOUS
  <1>s. \A a \in Known : a \in Before
    BY DEF Before
  <1>t. \A a \in Seeded : a \in Before
    BY DEF Before
  <1> HIDE DEF Known
  <1>5. TypeOK
    <2>0. (\A t \in Old : row(t) \in TicketRow) /\ NoTicket \in TicketRow
      BY <1>2, OnboardingAssumption DEF TicketRow, NoTicket, Decided
    <2>1. \A t \in Ticket : ticket[t] \in TicketRow
      BY <1>3, <2>0
    <2>2. ticket \in [Ticket -> TicketRow] /\ account \in [Account -> {"missing", "unverified", "active"}]
      BY <1>1, <2>1, <1>4 DEF Inherited
    <2>3. granted \in [Account -> Company \cup {None}]
      <3>1. \A a \in Account : granted[a] \in Company \cup {None}
        BY <1>g, <1>w
      <3> QED BY <1>1, <3>1 DEF Inherited
    <2>4. site \in [Company -> Domain \cup {None}] /\ shown \in [Company -> SUBSET Domain]
      BY <1>d, OnboardingAssumption
    <2> QED BY <1>d, <2>2, <2>3, <2>4, IdleOK DEF Init, TypeOK
  <1>6. \A t \in Old : /\ ticket[t].user = from(t)[2] /\ ticket[t].email = AddressOf[from(t)[2]]
                       /\ ticket[t].company = from(t)[3]
    <2> SUFFICES ASSUME NEW t \in Old
                 PROVE  /\ ticket[t].user = from(t)[2] /\ ticket[t].email = AddressOf[from(t)[2]]
                        /\ ticket[t].company = from(t)[3]
      OBVIOUS
    <2>1. ticket[t] = row(t)
      BY <1>3
    <2> QED BY <2>1
  <1>7. \A t \in Ticket \ Old : ticket[t].user = None /\ ticket[t].status = None
    BY <1>3 DEF NoTicket
  <1>8. TicketsOK
    <2> SUFFICES ASSUME NEW t \in Ticket PROVE TicketOK(t)
      BY DEF TicketsOK
    <2>1. CASE t \in Old
      <3>1. from(t)[2] \in Account /\ from(t)[3] \in Company /\ from(t)[2] # None
        BY <1>2, <2>1, OnboardingAssumption
      <3>2. account[from(t)[2]] = "active" /\ granted[from(t)[2]] = from(t)[3]
        BY <1>4, <1>g, <1>k, <2>1, <3>1
      <3>3. AddressOf[from(t)[2]] \in Email
        BY <3>1, OnboardingAssumption
      <3> QED BY <1>6, <2>1, <3>1, <3>2, <3>3 DEF TicketOK
    <2>2. CASE t \notin Old
      BY <1>7, <2>2 DEF TicketOK, None
    <2> QED BY <2>1, <2>2
  <1>9. OneTicketEach
    <2> SUFFICES ASSUME NEW t \in Ticket, NEW u \in Ticket, ticket[t].user # None, ticket[t].user = ticket[u].user
                 PROVE  t = u
      BY DEF OneTicketEach
    <2>1. t \in Old /\ u \in Old
      BY <1>7
    <2>2. from(t)[2] = from(u)[2]
      BY <1>6, <2>1
    <2>3. from(t) = from(u)
      BY <1>k, <2>1, <2>2
    <2> QED BY <1>2, <2>1, <2>3
  <1>10. Backed
    <2> SUFFICES ASSUME NEW a \in Account \ Seeded, Live(a) PROVE \E t \in Ticket : ticket[t].user = a
      BY DEF Backed
    <2>0. a \in Known
      BY <1>4 DEF Live
    <2>1. PICK l \in old : l[2] = a
      BY <1>r, <2>0
    <2>2. l[1] \in Old
      BY <1>old, <2>1
    <2>3. from(l[1]) = l
      BY <1>2, <2>1, <2>2, OnboardingAssumption
    <2> QED BY <1>old, <1>6, <2>1, <2>2, <2>3
  <1>11. OneLive
    <2>1. \A a \in Account : Live(a) => a \in Before
      BY <1>4, <1>s, <1>t DEF Live
    <2> QED BY <2>1, OnboardingAssumption DEF OneLive
  <1>12. SeededActive /\ LinkedExists /\ SiteShown
    BY <1>4, <1>d, OnboardingAssumption DEF SeededActive, LinkedExists, SiteShown
  <1>13. LinkedAsApproved /\ VerificationIsEarned
    BY <1>d DEF LinkedAsApproved, VerificationIsEarned, None
  <1>14. CallsOK
    BY IdleOK DEF Init, CallsOK
  <1> QED BY <1>5, <1>8, <1>9, <1>10, <1>11, <1>12, <1>13, <1>14 DEF PortalInv, RowsInv

LEMMA PortalNext == PortalInv /\ [Next]_vars => PortalInv'
  <1> SUFFICES ASSUME PortalInv, [Next]_vars PROVE PortalInv'
    OBVIOUS
  <1>1. CASE \E c \in Call : Arrival(c) \/ Serve(c) \/ Die(c)
    BY <1>1, StepFits, FitsKeeps
  <1>2. CASE (\E a \in Account : DeleteAccount(a)) \/ (\E t \in Ticket : Expire(t))
    BY <1>2, DeletionKeeps, ExpiryKeeps, QuietKeeps
  <1>3. CASE UNCHANGED vars
    <2>1. UNCHANGED <<tables, codes, mailed, call>>
      BY <1>3 DEF vars
    <2>2. RowsInv' /\ Onward
      BY <2>1, RowsStand DEF PortalInv, RowsInv, TypeOK
    <2>3. Keeps
      BY <2>1, <2>2, EarnedStays DEF Keeps, PortalInv, tables
    <2> QED BY <2>1, <2>3, QuietKeeps
  <1> QED BY <1>1, <1>2, <1>3 DEF Next

LEMMA PortalHolds == Spec => []PortalInv
  BY PortalStart, PortalNext, PTL DEF Spec

\* However submissions, approvals, reviews and deletions race, an account has at most one ticket
\* behind it, every account that is not deleted and was not there before has one, and two approved
\* tickets of one address are of accounts one of which is deleted (OneApprovalPerAddress).
THEOREM ApprovedOnce == Spec => []OneApprovalPerAddress
  <1>1. ASSUME PortalInv PROVE OneApprovalPerAddress
    <2>1. ASSUME NEW t \in Ticket, NEW u \in Ticket, ticket[t].status = "APPROVED", ticket[u].status = "APPROVED",
                 ticket[t].email = ticket[u].email, ticket[t].user \notin deleted, ticket[u].user \notin deleted
          PROVE  t = u
      <3>1. /\ ticket[t].user # None /\ ticket[t].user \in Account /\ Live(ticket[t].user)
            /\ ticket[u].user # None /\ ticket[u].user \in Account /\ Live(ticket[u].user)
            /\ AddressOf[ticket[t].user] = AddressOf[ticket[u].user]
        BY <1>1, <2>1 DEF PortalInv, RowsInv, TicketsOK, TicketOK, Live
      <3>2. ticket[t].user = ticket[u].user
        BY <1>1, <3>1 DEF PortalInv, RowsInv, OneLive
      <3> QED BY <1>1, <3>1, <3>2 DEF PortalInv, RowsInv, OneTicketEach
    <2>2. /\ \A t, u \in Ticket : ticket[t].user # None /\ ticket[t].user = ticket[u].user => t = u
          /\ \A a \in Account \ Seeded : Live(a) => \E t \in Ticket : ticket[t].user = a
      BY <1>1 DEF PortalInv, RowsInv, OneTicketEach, Backed
    <2> QED BY <2>1, <2>2 DEF OneApprovalPerAddress
  <1> QED BY <1>1, PortalHolds, PTL

\* No employer an admin approved is linked to another company (LinkedAsApproved).
THEOREM LinksAreApproved == Spec => []LinkedAsApproved
  <1>1. PortalInv => LinkedAsApproved
    BY DEF PortalInv
  <1> QED BY <1>1, PortalHolds, PTL

\* Every verification was earned: by an account that manages the company and was approved for it, or
\* whose domain the company's website was on, as listed or as an employer of it edited it
\* (VerificationIsEarned).
THEOREM VerificationsEarned == Spec => []VerificationIsEarned
  <1>1. PortalInv => VerificationIsEarned
    BY DEF PortalInv
  <1> QED BY <1>1, PortalHolds, PTL

\* An account becomes usable only together with its company, unless somebody manages that already
\* (ActivatedMeansLinked).
THEOREM ActivationLinks == Spec => ActivatedMeansLinked
  <1>1. ASSUME PortalInv, [Next]_vars, NEW a \in Account, account[a] # "active", account'[a] = "active"
        PROVE  link'[a] # None \/ \E b \in Account : link'[b] = ApprovedCompany(a)
    <2>1. PICK c \in Call : CommitActivation(c)
      <3>1. ASSUME NEW c \in Call, CreateAccount(c) PROVE FALSE
        <4>1. \/ account' = account
              \/ account' = [account EXCEPT ![New(call[c].email)] = "unverified"]
          BY <3>1 DEF CreateAccount, Created
        <4> QED BY <1>1, <4>1 DEF PortalInv, RowsInv, TypeOK
      <3> QED BY <1>1, <3>1 DEF Next, Arrival, Submit, VerifyEmail, Review, Approve, ResendActivation, Activate,
                  Claim, UpdateProfile, Serve, CreateTicket, UpdateStatus, SetActivationCode,
                  DeliverActivationCode, LockAccount, ReadLinks, AlreadyLinked, CreateProfile, MarkVerified,
                  WriteSite, Die, DeleteAccount, Expire, vars, tables, users
    <2> PICK k \in CallState : k = call[c] /\ CallOK(k)
      BY <1>1 DEF PortalInv, RowsInv, TypeOK, CallsOK
    <2>2. k.pc = "commit" /\ Usable(k.account)
      BY <2>1 DEF CommitActivation
    <2>3. a = k.account /\ a \notin deleted
      BY <1>1, <2>2 DEF Usable, PortalInv, RowsInv, TypeOK
    <2>4. ApprovedCompany(a) = granted[a]
      <3>1. a \notin Seeded /\ Live(a)
        BY <1>1, <2>2, <2>3 DEF Live, CallOK, ForAccount, PortalInv, RowsInv, SeededActive
      <3>2. PICK t \in Ticket : ticket[t].user = a
        BY <1>1, <3>1 DEF Backed, PortalInv, RowsInv
      <3>3. a # None
        BY OnboardingAssumption
      <3>4. ApprovedCompany(a) = ticket[t].company
        BY <1>1, <3>2, <3>3, ApprovedIs DEF PortalInv, RowsInv
      <3> QED BY <1>1, <3>2, <3>3, <3>4 DEF PortalInv, RowsInv, TicketsOK, TicketOK
    <2>5. CASE k.company = None
      <3>1. link' = link
        BY <2>1, <2>5 DEF CommitActivation
      <3> QED BY <2>2, <2>3, <2>4, <2>5, <3>1 DEF CallOK, Managed
    <2>6. CASE k.company # None
      <3>1. link' = [link EXCEPT ![k.account] = k.company]
        BY <2>1, <2>6 DEF CommitActivation
      <3> QED BY <1>1, <2>3, <2>6, <3>1 DEF PortalInv, RowsInv, TypeOK
    <2> QED BY <2>5, <2>6
  <1>2. PortalInv /\ [Next]_vars =>
          [\A a \in Account : (account[a] # "active" /\ account'[a] = "active") =>
             link'[a] # None \/ \E b \in Account : link'[b] = ApprovedCompany(a)]_vars
    BY <1>1
  <1> QED BY <1>2, PortalHolds, PTL DEF Spec, ActivatedMeansLinked
=============================================================================
