----------------------------- MODULE AccountLockout -----------------------------
(***************************************************************************)
(* The count of failed passwords that locks one account: in Redis, and in    *)
(* each process while Redis does not answer.                                  *)
(*                                                                           *)
(* Each Redis command is a step and may find Redis down.  The second count,   *)
(* by address of the caller, works the same way and is left out, as is the    *)
(* cap of the in-process map (10000 entries, far above one account).          *)
(*                                                                           *)
(* And the access tokens a logout revoked: in Redis, and in a mirror each     *)
(* process keeps of the revocations it made itself, in the order it made      *)
(* them.  The mirror is capped: a full one gives an entry up for each one it  *)
(* takes.  Tokens are numbered in the order they expire.                      *)
(***************************************************************************)
EXTENDS Naturals, FiniteSets

CONSTANTS
  Process,      \* server processes
  Threshold,    \* ACCOUNT_MAX_ATTEMPTS
  MaxGuesses,   \* how many attempts are made
  MaxOutages    \* how often Redis goes down

ASSUME LockoutAssumption ==
  /\ IsFiniteSet(Process) /\ Threshold \in Nat \ {0}
  /\ MaxGuesses \in Nat /\ MaxOutages \in Nat

VARIABLES
  up,        \* whether Redis answers
  count,     \* lockout:account:attempts in Redis
  timed,     \* whether that counter has its time to live
  blocked,   \* lockout:account:blocked in Redis
  fallback,  \* each process: its own counter and lock
  attempt,   \* each process: the login it is handling
  outages,   \* outages so far
  guesses,   \* history: wrong passwords tried since a counter was last given up
  tries      \* history: all of them

counters == <<count, timed, blocked, fallback, attempt, guesses, tries>>
lockoutVars == <<up, outages, counters>>

Clear == [attempts |-> 0, locked |-> FALSE]

-----------------------------------------------------------------------------
(* One login at a time in each process: isLocked, the password check, then    *)
(* recordFailedAttempt (INCR, then SET when the threshold is reached) or       *)
(* clearAttempts.                                                             *)

Step(p, s) == attempt' = [attempt EXCEPT ![p] = s]

IsLocked_OnlyRedis(p) == up /\ blocked
IsLocked(p) == (up /\ blocked) \/ fallback[p].locked

CheckLock(p) ==
  /\ attempt[p] = "idle" /\ tries < MaxGuesses
  /\ ~IsLocked(p)
  /\ Step(p, "checked")
  /\ UNCHANGED <<up, outages, count, timed, blocked, fallback, guesses, tries>>

Guess(p) == tries' = tries + 1 /\ guesses' = guesses + 1

\* A failure nobody counts would be a free guess.
FallbackBump_Dropped(p) == fallback' = fallback
FallbackBump(p) ==
  fallback' = [fallback EXCEPT ![p] =
    [attempts |-> @.attempts + 1, locked |-> @.locked \/ @.attempts + 1 >= Threshold]]

WrongPassword(p) ==
  /\ attempt[p] = "checked"
  /\ Guess(p)
  /\ IF up THEN /\ count' = count + 1
                /\ Step(p, CASE count = 0 -> "expire"
                             [] count # 0 /\ count + 1 >= Threshold -> "block"
                             [] OTHER -> "idle")
                /\ UNCHANGED fallback
           ELSE /\ FallbackBump(p)
                /\ Step(p, "idle")
                /\ UNCHANGED count
  /\ UNCHANGED <<up, outages, timed, blocked>>

\* The first failure starts the window; without this EXPIRE the counter never lapses.
StartWindow(p) ==
  /\ attempt[p] = "expire"
  /\ IF up THEN timed' = (count # 0) /\ UNCHANGED fallback ELSE FallbackBump(p) /\ UNCHANGED timed
  /\ Step(p, IF up /\ Threshold = 1 THEN "block" ELSE "idle")
  /\ UNCHANGED <<up, outages, count, blocked, guesses, tries>>

Block(p) ==
  /\ attempt[p] = "block"
  /\ IF up THEN blocked' = TRUE /\ UNCHANGED fallback ELSE FallbackBump(p) /\ UNCHANGED blocked
  /\ Step(p, "idle")
  /\ UNCHANGED <<up, outages, count, timed, guesses, tries>>

\* Redis may fall between the two DELs; the other processes keep their counters.
RightPassword(p) ==
  /\ attempt[p] = "checked"
  /\ fallback' = [fallback EXCEPT ![p] = Clear]
  /\ IF up THEN count' = 0 /\ timed' = FALSE /\ blocked' \in {FALSE, blocked}
           ELSE UNCHANGED <<count, timed, blocked>>
  /\ guesses' = 0
  /\ Step(p, "idle")
  /\ UNCHANGED <<up, outages, tries>>

\* A window or a lock lapses, in Redis or in a process.
RedisLapses ==
  /\ \/ timed /\ count' = 0 /\ timed' = FALSE /\ UNCHANGED blocked
     \/ blocked /\ blocked' = FALSE /\ UNCHANGED <<count, timed>>
  /\ guesses' = 0
  /\ UNCHANGED <<up, outages, fallback, attempt, tries>>
FallbackLapses(p) ==
  /\ \/ fallback[p].attempts # 0 /\ fallback' = [fallback EXCEPT ![p].attempts = 0]
     \/ fallback[p].locked /\ fallback' = [fallback EXCEPT ![p].locked = FALSE]
  /\ guesses' = 0
  /\ UNCHANGED <<up, outages, count, timed, blocked, attempt, tries>>

-----------------------------------------------------------------------------
(* The environment. *)

RedisFalls ==
  /\ up /\ outages < MaxOutages
  /\ up' = FALSE /\ outages' = outages + 1
  /\ UNCHANGED counters
RedisReturns == ~up /\ up' = TRUE /\ UNCHANGED <<outages, counters>>

\* What a process counted is gone, and the login it was handling with it.
ProcessRestarts(p) ==
  /\ fallback' = [fallback EXCEPT ![p] = Clear]
  /\ attempt' = [attempt EXCEPT ![p] = "idle"]
  /\ guesses' = 0
  /\ UNCHANGED <<up, outages, count, timed, blocked, tries>>

LockoutInit ==
  /\ up = TRUE /\ outages = 0
  /\ count = 0 /\ timed = FALSE /\ blocked = FALSE /\ fallback = [p \in Process |-> Clear]
  /\ attempt = [p \in Process |-> "idle"] /\ guesses = 0 /\ tries = 0

LockoutNext ==
  \/ \E p \in Process : \/ CheckLock(p) \/ WrongPassword(p) \/ StartWindow(p) \/ Block(p) \/ RightPassword(p)
                        \/ FallbackLapses(p) \/ ProcessRestarts(p)
  \/ RedisLapses \/ RedisFalls \/ RedisReturns

LockoutSpec == LockoutInit /\ [][LockoutNext]_lockoutVars

-----------------------------------------------------------------------------
(* Property. *)

\* What the fallback is for: through any outages and returns of Redis, and any way the
\* processes share the attempts, the wrong passwords tried before a counter lapses, is
\* cleared or is lost to a restart stay within a constant: the threshold once for Redis and
\* once for each process, and one more for each login already past its check when a lock is
\* set or Redis comes back.
GuessesAreBounded ==
  guesses < (Cardinality(Process) + 1) * Threshold + Cardinality(Process) * (outages + 1)

-----------------------------------------------------------------------------
(* Revoked access tokens. *)

CONSTANTS
  Instance,   \* server processes
  Jti,        \* access tokens, in the order they expire
  MirrorCap,  \* MIRROR_MAX_ENTRIES
  ScanLimit   \* EVICTION_SCAN_LIMIT

Restarted == "restarted"   \* who revoked a token, once that process has restarted

ASSUME BlacklistAssumption ==
  /\ Jti \subseteq Nat \ {0} /\ IsFiniteSet(Jti) /\ Restarted \notin Instance
  /\ MirrorCap \in Nat \ {0} /\ ScanLimit \in Nat \ {0}

VARIABLES
  reachable, \* whether Redis answers
  listed,    \* blacklist: keys in Redis
  mirror,    \* each process: the revocations it made itself, oldest first
  dead,      \* tokens that have expired
  revoking,  \* each process: the logout it is handling
  revoked,   \* history: who revoked each token
  refused,   \* history: revocations that Redis refused
  pressed    \* history: processes whose mirror could not keep every live entry

blacklistVars == <<reachable, listed, mirror, dead, revoking, revoked, refused, pressed>>

NoJti == 0
NoEntry == [k \in {} |-> 0]

-----------------------------------------------------------------------------
(* Revocation: into the mirror first, then into Redis. *)

Mirrored(p) == DOMAIN mirror[p]
Alive(k) == k \notin dead

\* The map iterates over its keys in the order they were inserted: each has its place, from 1.
Keep(m, keys) == [k \in keys |-> Cardinality({l \in keys : m[l] <= m[k]})]
Without(m, j) == Keep(m, DOMAIN m \ {j})

\* Among the oldest entries, the first that lapsed; if none did, the one that expires soonest.
EvictOne_Oldest(m) == Keep(m, {k \in DOMAIN m : m[k] # 1})
EvictOne(m) ==
  LET scanned == {k \in DOMAIN m : m[k] <= ScanLimit}
      lapsed  == scanned \cap dead
      goes    == IF lapsed # {} THEN CHOOSE k \in lapsed : \A l \in lapsed : m[k] <= m[l]
                 ELSE CHOOSE k \in scanned : \A l \in scanned : k <= l
  IN  Without(m, goes)

\* Lapsed entries go first, when a sweep is due.
Swept(m, due) == IF due THEN Keep(m, DOMAIN m \ dead) ELSE m
Inserted(m, j) == [k \in DOMAIN m \cup {j} |-> IF k = j THEN Cardinality(DOMAIN m) + 1 ELSE m[k]]
MirrorRevocation(m, j) == Inserted(IF Cardinality(DOMAIN m) >= MirrorCap THEN EvictOne(m) ELSE m, j)

\* As many live entries as the mirror holds; or an entry that expires before an older one, and
\* none that lapsed within the scan of a full mirror.
Presses(m) ==
  /\ Cardinality(DOMAIN m) >= MirrorCap
  /\ \/ \A k \in DOMAIN m : Alive(k)
     \/ /\ \E k, l \in DOMAIN m : m[k] < m[l] /\ l < k
        /\ \A k \in DOMAIN m : m[k] <= ScanLimit => Alive(k)

Revoke(p, j) ==
  /\ revoking[p] = NoJti /\ revoked[j] = {} /\ Alive(j)
  /\ revoking' = [revoking EXCEPT ![p] = j]
  /\ revoked' = [revoked EXCEPT ![j] = @ \cup {p}]
  /\ \E due \in BOOLEAN :
       LET m == Swept(mirror[p], due) IN
       /\ mirror' = [mirror EXCEPT ![p] = MirrorRevocation(m, j)]
       /\ pressed' = IF Presses(m) THEN pressed \cup {p} ELSE pressed
  /\ UNCHANGED <<reachable, listed, dead, refused>>

List(p) ==
  LET j == revoking[p] IN
  /\ j # NoJti
  /\ IF reachable THEN listed' = listed \cup {j} /\ UNCHANGED refused
           ELSE refused' = refused \cup {j} /\ UNCHANGED listed
  /\ revoking' = [revoking EXCEPT ![p] = NoJti]
  /\ UNCHANGED <<reachable, mirror, dead, revoked, pressed>>

\* isBlacklisted: what this process revoked, then what Redis knows.
Accepts_OneOrTheOther(p, j) == IF reachable THEN j \notin listed ELSE j \notin Mirrored(p)
Accepts(p, j) == ~(j \in Mirrored(p) /\ Alive(j)) /\ ~(reachable /\ j \in listed)

\* A request with a token that lapsed drops its entry.
DropLapsed(p, j) ==
  /\ j \in Mirrored(p) /\ ~Alive(j)
  /\ mirror' = [mirror EXCEPT ![p] = Without(@, j)]
  /\ UNCHANGED <<reachable, listed, dead, revoking, revoked, refused, pressed>>

\* The token expires, and Redis forgets it; a mirror keeps the entry until something removes it.
TokenExpires(j) ==
  /\ Alive(j) /\ (\A k \in Jti : k < j => k \in dead) /\ \A p \in Instance : revoking[p] # j
  /\ dead' = dead \cup {j} /\ listed' = listed \ {j}
  /\ revoked' = [revoked EXCEPT ![j] = {}] /\ refused' = refused \ {j}
  /\ UNCHANGED <<reachable, mirror, revoking, pressed>>

-----------------------------------------------------------------------------
(* The environment of the revocations. *)

RedisToggles ==
  /\ reachable' = ~reachable
  /\ UNCHANGED <<listed, mirror, dead, revoking, revoked, refused, pressed>>

\* Its mirror is gone, and the logout it was handling.
InstanceRestarts(p) ==
  /\ mirror' = [mirror EXCEPT ![p] = NoEntry] /\ pressed' = pressed \ {p}
  /\ refused' = IF revoking[p] = NoJti THEN refused ELSE refused \cup {revoking[p]}
  /\ revoking' = [revoking EXCEPT ![p] = NoJti]
  /\ revoked' = [j \in Jti |-> IF p \in revoked[j] THEN (revoked[j] \ {p}) \cup {Restarted}
                                                  ELSE revoked[j]]
  /\ UNCHANGED <<reachable, listed, dead>>

BlacklistInit ==
  /\ reachable = TRUE /\ listed = {} /\ mirror = [p \in Instance |-> NoEntry] /\ dead = {}
  /\ revoking = [p \in Instance |-> NoJti] /\ revoked = [j \in Jti |-> {}] /\ refused = {}
  /\ pressed = {}

BlacklistNext ==
  \/ \E p \in Instance : List(p) \/ InstanceRestarts(p) \/ \E j \in Jti : Revoke(p, j) \/ DropLapsed(p, j)
  \/ \E j \in Jti : TokenExpires(j)
  \/ RedisToggles

BlacklistSpec == BlacklistInit /\ [][BlacklistNext]_blacklistVars

-----------------------------------------------------------------------------
(* Property. *)

\* A process honours every revocation it made itself until it restarts, Redis or no Redis,
\* unless its mirror held nothing but live revocations when it needed room, or they were not
\* made in the order they expire (evictOne: "close enough ... roughly expiry order"); and
\* while Redis answers every process honours every revocation Redis took.
RevokedStaysRevoked ==
  \A p \in Instance, j \in Jti :
    revoked[j] # {} /\ Accepts(p, j) =>
      /\ p \notin revoked[j] \/ p \in pressed
      /\ ~reachable \/ j \in refused \/ \E r \in Instance : revoking[r] = j
=============================================================================
