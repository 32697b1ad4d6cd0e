-------------------------------- MODULE Accounts --------------------------------
(***************************************************************************)
(* The rows of User and the two things that keep them from being one truth:  *)
(* a cache beside the table, and handlers that load a row, await (a lookup,  *)
(* a bcrypt hash) and then save the WHOLE row they loaded.  The auth module  *)
(* writes rows that way; the admin module and employer activation write some *)
(* columns of them directly.                                                 *)
(*                                                                           *)
(* A request is numbered when it arrives, and its number stands for whatever *)
(* it makes that is new: the code it mails, the hash of the password it sets.*)
(***************************************************************************)
EXTENDS Naturals, FiniteSets

CONSTANTS
  Account,      \* ids of rows
  Address,      \* e-mail addresses
  Subject,      \* Google identities
  Request,      \* slots for requests in progress
  MaxRequests,  \* how many requests arrive, the first before the start
  Kinds,        \* the kinds of request that arrive
  Approved      \* rows that an approval may have created for an employer, at the start

Kind == {"register", "resend", "verify", "login", "google", "askReset", "checkReset",
         "resetPassword", "me", "suspend", "reopen", "softDelete", "activate"}

Nobody   == "nobody"
Released == "released"   \* tombstoneEmail(id), an address no two rows share
Unlinked == "unlinked"

ASSUME AccountsAssumption ==
  /\ MaxRequests \in Nat \ {0} /\ Kinds \subseteq Kind /\ Approved \subseteq Account
  /\ Nobody \notin Address

VARIABLES
  row,       \* the table: each id's row, or NoRow
  entity,    \* cache:auth:user:entity: each id's row as cached, or NoRow
  lookup,    \* cache:auth:user:lookup: each address's id, or Nobody
  request,   \* requests in progress
  number,    \* how many requests have arrived
  raced,     \* history: rows written while another request held them
  unheard,   \* history: rows written with no cache key dropped
  paired,    \* history: <<code, password>>: a code, and the password of the row it was mailed for
  proven,    \* history: passwords whose own code was redeemed
  onTrust,   \* history: passwords of rows that were reset, or that Google verified
  closed,    \* history: rows an admin deleted
  reopened   \* history: rows an admin set ACTIVE after that

accountHistory == <<raced, unheard, paired, proven, onTrust, closed, reopened>>
accountVars == <<row, entity, lookup, request, number, accountHistory>>

Number == 0..MaxRequests

\* pw, code and reset are 0 when empty.
Row == [address : Address \cup {Released}, role : {"JOB_SEEKER", "EMPLOYER"}, pw : Number,
        verified : BOOLEAN, code : Number, reset : Number,
        status : {"ACTIVE", "SUSPENDED", "DEACTIVATED"}, deleted : BOOLEAN,
        google : Subject \cup {Unlinked}]
NewRow(a) == [address |-> a, role |-> "JOB_SEEKER", pw |-> 0, verified |-> FALSE, code |-> 0,
              reset |-> 0, status |-> "ACTIVE", deleted |-> FALSE, google |-> Unlinked]
NoRow == NewRow(Nobody)
ApprovedRow(a) == [NewRow(a) EXCEPT !.role = "EMPLOYER"]

\* A job seeker who registered, as request 1, and verified the address.
VerifiedRow(a) == [NewRow(a) EXCEPT !.pw = 1, !.verified = TRUE]

\* id and held: the entity the handler works on; fill: the rows it will write to the cache.
Nothing == [u \in {} |-> NoRow]
Idle == [kind |-> "none", pc |-> "idle"]
Arrived(k, a, u, g, s) ==
  [kind |-> k, pc |-> "find", n |-> number + 1, address |-> a, id |-> u, given |-> g, sub |-> s,
   held |-> NoRow, fill |-> Nothing, keyed |-> Nobody]

-----------------------------------------------------------------------------
(* Reading a user. *)

\* A deleted, suspended or deactivated account is not an account.
LiveOnly(r) == r # NoRow /\ ~r.deleted /\ r.status = "ACTIVE"

Holder(a) == {u \in Account : row[u].address = a}
Linked(s) == {u \in Account : row[u] # NoRow /\ row[u].google = s}

\* What a reader comes away with: the id and row (Nobody when it found none), the ids whose
\* rows it is about to cache, and the id it is about to cache under the address.
Found(u, r, fill, keyed) ==
  IF LiveOnly(r) THEN [id |-> u, held |-> r, fill |-> fill, keyed |-> keyed]
                 ELSE [id |-> Nobody, held |-> NoRow, fill |-> fill, keyed |-> keyed]
NotFound == Found(Nobody, NoRow, {}, Nobody)

\* findById: from the cache (when Redis answers), else from the table, to be cached.
ById(u, hit) ==
  IF hit /\ entity[u] # NoRow THEN Found(u, entity[u], {}, Nobody)
  ELSE IF row[u] = NoRow THEN NotFound
  ELSE Found(u, row[u], {u}, Nobody)

\* findByEmail: through the cached id; when that leads nowhere, by the address itself.
ByEmail(a, hitKey, hit) ==
  LET first == IF hitKey /\ lookup[a] # Nobody THEN ById(lookup[a], hit) ELSE NotFound
  IN IF first.id # Nobody \/ Holder(a) = {} THEN first
     ELSE LET u == CHOOSE h \in Holder(a) : TRUE
          IN Found(u, row[u], {u} \cup first.fill, u)

\* Google: by the identity first, from the table alone, then by the address.
ByGoogle(s, a, hitKey, hit) ==
  LET linked == {u \in Linked(s) : LiveOnly(row[u])}
  IN IF linked = {} THEN ByEmail(a, hitKey, hit)
     ELSE LET u == CHOOSE x \in linked : TRUE IN Found(u, row[u], {}, Nobody)

-----------------------------------------------------------------------------
(* The handlers: what each saves for the entity e it found, or would create, as  *)
(* request c; Refused when it saves nothing.                                    *)

Refused == NoRow

\* An unverified job seeker registers again under the same id; another row is taken.
Register_Again(c, e, found) ==
  IF found /\ e.role # "JOB_SEEKER" THEN Refused ELSE [e EXCEPT !.pw = c.n, !.code = c.n]
Register(c, e, found) ==
  IF found /\ (e.verified \/ e.role # "JOB_SEEKER") THEN Refused
  ELSE [e EXCEPT !.pw = c.n, !.code = c.n]

ResendVerification(c, e, found) ==
  IF ~found \/ e.verified THEN Refused ELSE [e EXCEPT !.code = c.n]

VerifyEmail(c, e, found) ==
  IF ~found \/ e.verified \/ e.code = 0 \/ e.code # c.given THEN Refused
  ELSE [e EXCEPT !.verified = TRUE, !.code = 0]

\* recordLogin and the save of the whole row.
Login(c, e, found) == IF ~found \/ e.pw # c.given \/ ~e.verified THEN Refused ELSE e

\* A row found by its address is linked and so verified, unless it is an employer's under review;
\* the password that somebody registered it with stays.
GoogleLogin(c, e, found) ==
  IF found /\ e.google = c.sub THEN e
  ELSE IF found /\ e.role = "EMPLOYER" /\ ~e.verified THEN Refused
  ELSE [e EXCEPT !.google = c.sub, !.verified = TRUE, !.code = IF e.verified THEN @ ELSE 0]

AskReset(c, e, found) == IF ~found THEN Refused ELSE [e EXCEPT !.reset = c.n]

\* What it answers with, and the reset then arrives with, is a cookie that says the address and no
\* more: the server keeps no record of who passed this check.
CheckReset(c, e, found) ==
  IF ~found \/ e.reset # c.given THEN Refused ELSE [e EXCEPT !.reset = 0]

ResetPassword(c, e, found) ==
  IF ~found THEN Refused ELSE [e EXCEPT !.pw = c.n, !.reset = 0]

\* The controller's dispatch; GET me saves nothing.
Outcome(c, e, found) ==
  CASE c.kind = "register"      -> Register(c, e, found)
    [] c.kind = "resend"        -> ResendVerification(c, e, found)
    [] c.kind = "verify"        -> VerifyEmail(c, e, found)
    [] c.kind = "login"         -> Login(c, e, found)
    [] c.kind = "google"        -> GoogleLogin(c, e, found)
    [] c.kind = "askReset"      -> AskReset(c, e, found)
    [] c.kind = "checkReset"    -> CheckReset(c, e, found)
    [] c.kind = "resetPassword" -> ResetPassword(c, e, found)
    [] OTHER                    -> Refused

\* The columns save() writes are all but status: an insertion takes the default.
Saved_Status(u, e) == e
Saved(u, e) == IF row[u] = NoRow THEN e ELSE [e EXCEPT !.status = row[u].status]

\* The unique indexes on email and googleId.
Unique(u, e) ==
  \A w \in Account \ {u} : row[w] # NoRow =>
    /\ row[w].address = e.address => e.address = Released
    /\ row[w].google = e.google => e.google = Unlinked

\* The code a request mails, with the password of the row it is mailed for.
Mails(c, e) ==
  CASE c.kind = "register" -> {<<c.n, c.n>>}
    [] c.kind = "resend"   -> {<<c.n, e.pw>>}
    [] OTHER               -> {}

\* The password that the code given belongs to.
Proves(c) == IF c.kind = "verify" THEN {p \in Number : <<c.given, p>> \in paired} ELSE {}

\* The password a row gets, or keeps, when a request is taken at its word.
Trusts(c, e) ==
  CASE c.kind = "google" /\ ~e.verified -> {e.pw}
    [] c.kind = "resetPassword"         -> {c.n}
    [] OTHER                            -> {}

-----------------------------------------------------------------------------
(* Steps of a request: find, fill the cache, save, drop the cache keys. *)

At(c, pc) == request[c].pc = pc
Ends(c)   == request' = [request EXCEPT ![c] = Idle]

\* Another request has read u and will act on what it read.
Holds(d, u) ==
  request[d].pc \in {"fill", "save"} /\ (request[d].id = u \/ u \in DOMAIN request[d].fill)
Notes(c, u) == raced' = IF \E d \in Request \ {c} : Holds(d, u) THEN raced \cup {u} ELSE raced

Arrive(c, k, a, u, g, s) ==
  /\ request[c] = Idle /\ number < MaxRequests /\ k \in Kinds
  /\ k \in {"suspend", "reopen", "softDelete", "activate", "me"} => row[u] # NoRow
  /\ request' = [request EXCEPT ![c] = Arrived(k, a, u, g, s)]
  /\ number' = number + 1
  /\ UNCHANGED <<row, entity, lookup, accountHistory>>

\* The administrator's and the activation's requests name a row; the others look for one.
ByRow == {"suspend", "reopen", "softDelete", "activate"}

Find(c, hitKey, hit) ==
  LET q == request[c]
      f == CASE q.kind = "me"     -> ById(q.id, hit)
             [] q.kind = "google" -> ByGoogle(q.sub, q.address, hitKey, hit)
             [] OTHER             -> ByEmail(q.address, hitKey, hit)
  IN /\ At(c, "find") /\ q.kind \notin ByRow
     /\ request' = [request EXCEPT
          ![c] = [q EXCEPT !.pc = IF f.fill = {} THEN "save" ELSE "fill", !.id = f.id, !.held = f.held,
                           !.fill = [u \in f.fill |-> row[u]], !.keyed = f.keyed]]
     /\ UNCHANGED <<row, entity, lookup, number, accountHistory>>

\* populateCache, and the lookup key when the row was found by its address.
Fill(c) ==
  LET q == request[c] IN
  /\ At(c, "fill")
  /\ entity' = [u \in Account |-> IF u \in DOMAIN q.fill THEN q.fill[u] ELSE entity[u]]
  /\ lookup' = IF q.keyed = Nobody THEN lookup ELSE [lookup EXCEPT ![q.address] = q.keyed]
  /\ request' = [request EXCEPT ![c] = [q EXCEPT !.pc = "save", !.fill = Nothing, !.keyed = Nobody]]
  /\ UNCHANGED <<row, number, accountHistory>>

Entity(q) == IF q.id # Nobody THEN q.held ELSE NewRow(q.address)

Answer(c) ==
  LET q == request[c] IN
  /\ At(c, "save")
  /\ Outcome(q, Entity(q), q.id # Nobody) = Refused
  /\ Ends(c)
  /\ UNCHANGED <<row, entity, lookup, number, accountHistory>>

\* save: one upsert of the entity, under the id it was found by or a new one.
Save(c, u) ==
  LET q == request[c]
      edited == Outcome(q, Entity(q), q.id # Nobody)
  IN /\ At(c, "save") /\ edited # Refused
     /\ IF q.id # Nobody THEN u = q.id ELSE row[u] = NoRow
     /\ IF Unique(u, edited)
        THEN /\ row' = [row EXCEPT ![u] = Saved(u, edited)]
             /\ request' = [request EXCEPT ![c] = [q EXCEPT !.pc = "drop", !.id = u, !.held = edited]]
             /\ Notes(c, u)
             /\ proven' = proven \cup Proves(q)
             /\ paired' = paired \cup Mails(q, Entity(q))
             /\ onTrust' = onTrust \cup Trusts(q, Entity(q))
        ELSE Ends(c) /\ UNCHANGED <<row, raced, paired, proven, onTrust>>
     /\ UNCHANGED <<entity, lookup, number, unheard, closed, reopened>>

\* invalidate: the entity, and the lookup key of the address the entity has.
Drop(c) ==
  LET q == request[c]
      a == IF q.kind \in ByRow THEN q.address ELSE q.held.address
  IN /\ At(c, "drop")
     /\ entity' = [entity EXCEPT ![q.id] = NoRow]
     /\ lookup' = IF a \in Address THEN [lookup EXCEPT ![a] = Nobody] ELSE lookup
     /\ Ends(c)
     /\ UNCHANGED <<row, number, accountHistory>>

-----------------------------------------------------------------------------
(* The administrator, and activation: columns of the row itself. *)

\* Both of the administrator's writes first read the address of a row not deleted.
ReadForAdmin(c) ==
  LET q == request[c] IN
  /\ At(c, "find") /\ q.kind \in ByRow \ {"activate"}
  /\ IF row[q.id].deleted THEN Ends(c)
     ELSE request' = [request EXCEPT ![c].pc = "write", ![c].address = row[q.id].address]
  /\ UNCHANGED <<row, entity, lookup, number, accountHistory>>

SetStatus_Then(c, next) ==
  LET q == request[c]
      u == q.id
      s == IF q.kind = "reopen" THEN "ACTIVE" ELSE "SUSPENDED"
  IN /\ At(c, "write") /\ q.kind \in {"suspend", "reopen"}
     /\ row' = [row EXCEPT ![u].status = s]
     /\ request' = [request EXCEPT ![c] = next]
     /\ Notes(c, u)
     /\ reopened' = IF s = "ACTIVE" /\ u \in closed THEN reopened \cup {u} ELSE reopened
     /\ UNCHANGED <<entity, lookup, number, unheard, paired, proven, onTrust, closed>>
SetStatus_Quietly(c) == SetStatus_Then(c, Idle)
SetStatus(c) == SetStatus_Then(c, [request[c] EXCEPT !.pc = "drop"])

SoftDelete(c) ==
  LET u == request[c].id IN
  /\ At(c, "write") /\ request[c].kind = "softDelete"
  /\ IF row[u].deleted THEN Ends(c) /\ UNCHANGED <<row, raced, closed>>
     ELSE /\ row' = [row EXCEPT ![u].deleted = TRUE, ![u].status = "DEACTIVATED",
                                ![u].address = Released]
          /\ closed' = closed \cup {u}
          /\ request' = [request EXCEPT ![c].pc = "drop"]
          /\ Notes(c, u)
  /\ UNCHANGED <<entity, lookup, number, unheard, paired, proven, onTrust, reopened>>

\* An approved employer redeems the code of the approval; nothing drops the cache.
Activate(c) ==
  LET q == request[c]
      u == q.id
  IN /\ At(c, "find") /\ q.kind = "activate" /\ u \in Approved
     /\ row' = [row EXCEPT ![u].pw = q.n, ![u].verified = TRUE]
     /\ Ends(c)
     /\ Notes(c, u)
     /\ unheard' = unheard \cup {u}
     /\ proven' = proven \cup {q.n}
     /\ UNCHANGED <<entity, lookup, number, paired, onTrust, closed, reopened>>

-----------------------------------------------------------------------------
(* Redis: an entry expires; a deletion of keys is refused and only logged. *)

Expire(u) ==
  /\ entity[u] # NoRow
  /\ entity' = [entity EXCEPT ![u] = NoRow]
  /\ UNCHANGED <<row, lookup, request, number, accountHistory>>

DropFails(c) ==
  LET q == request[c] IN
  /\ At(c, "drop")
  /\ unheard' = unheard \cup {q.id}
  /\ Ends(c)
  /\ UNCHANGED <<row, entity, lookup, number, raced, paired, proven, onTrust, closed, reopened>>

-----------------------------------------------------------------------------
AccountsInit ==
  /\ row \in [Account -> {NoRow} \cup {ApprovedRow(a) : a \in Address} \cup {VerifiedRow(a) : a \in Address}]
  /\ \A u \in Account : row[u] # NoRow =>
       Unique(u, row[u]) /\ (row[u].role = "EMPLOYER" <=> u \in Approved)
  /\ entity = [u \in Account |-> NoRow] /\ lookup = [a \in Address |-> Nobody]
  /\ request = [c \in Request |-> Idle] /\ number = 1
  /\ raced = {} /\ unheard = {} /\ paired = {} /\ proven = {1} /\ onTrust = {} /\ closed = {} /\ reopened = {}

AccountsNext ==
  \/ \E c \in Request, a \in Address :
       \/ \E k \in {"register", "resend", "askReset", "resetPassword"} : Arrive(c, k, a, Nobody, 0, Unlinked)
       \/ \E k \in {"verify", "login", "checkReset"}, g \in 1..number : Arrive(c, k, a, Nobody, g, Unlinked)
       \/ \E s \in Subject : Arrive(c, "google", a, Nobody, 0, s)
  \/ \E c \in Request, u \in Account, k \in ByRow \cup {"me"} : Arrive(c, k, Nobody, u, 0, Unlinked)
  \/ \E c \in Request : \/ \E hitKey, hit \in BOOLEAN : Find(c, hitKey, hit)
                        \/ Fill(c) \/ Answer(c) \/ Drop(c) \/ DropFails(c)
                        \/ ReadForAdmin(c) \/ SetStatus(c) \/ SoftDelete(c) \/ Activate(c)
                        \/ \E u \in Account : Save(c, u)
  \/ \E u \in Account : Expire(u)

AccountsSpec == AccountsInit /\ [][AccountsNext]_accountVars

-----------------------------------------------------------------------------
(* Properties. *)

\* The cache beside the table tells the truth: a cached row differs from the table's only
\* while the write that changed it is about to drop it, or when the row was written while
\* another request held what it had read, or no drop was heard (Redis refused it, or the
\* writer was employer activation, which drops nothing).  Four writers in three modules
\* have to keep this up; none of their tests shares a cache with another.
CacheIsCurrentUnlessRaced ==
  \A u \in Account \ (raced \cup unheard) :
    \/ entity[u] \in {NoRow, row[u]}
    \/ \E c \in Request : request[c].pc = "drop" /\ request[c].id = u

\* A deleted account stays out of use, although any request that loaded it before the
\* deletion writes its old row back, address and all: the one column such a save leaves
\* alone, status, keeps it closed until an administrator opens it again.
DeletedStaysClosed == \A u \in closed \ reopened : ~LiveOnly(row[u])

\* The password of a verified row is the one that the redeemed code was mailed with, unless it was
\* taken on trust: set by a reset, which asks for no more than a cookie naming the address, or kept
\* when Google verified the row.  A registration repeated by another person replaces password and
\* code together, and whichever of two overlapping saves comes last leaves a pair that belongs
\* together, so no other password is ever verified in passing.
VerifiedWithItsPassword ==
  \A u \in Account : row[u] # NoRow /\ row[u].verified => row[u].pw \in proven \cup onTrust \cup {0}
=============================================================================
