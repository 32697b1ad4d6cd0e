----------------------------- MODULE AccountServices -----------------------------
(***************************************************************************)
(* What a user has with the backend, side by side: the account with its cache,   *)
(* sessions, lockout and revoked access tokens; what the user keeps there, the      *)
(* sections of the profile, the bookmarks and the tracker board; and what            *)
(* administrators do about it.                                                  *)
(*                                                                           *)
(* They share no state: none reads what another writes, but for a handler that   *)
(* calls two of them one after the other.  So a behaviour exercises one, the      *)
(* part it starts with, and the others rest; their interleavings would multiply   *)
(* the states and show nothing more.                                            *)
(***************************************************************************)
EXTENDS Accounts, Sessions, AccountLockout, ProfileSections, Bookmarks,
        JobTracker, Administration

CONSTANT Parts   \* the parts exercised

VARIABLE part    \* the one this behaviour exercises

Off == 0   \* the state of a part that rests

AccountsRests ==
  /\ row = Off /\ entity = Off /\ lookup = Off /\ request = Off /\ number = Off
  /\ raced = Off /\ unheard = Off /\ paired = Off /\ proven = Off /\ onTrust = Off /\ closed = Off /\ reopened = Off
SessionsRests ==
  /\ token = Off /\ jar = Off /\ call = Off /\ signed = Off /\ signedIn = Off /\ ended = Off
  /\ disturbed = Off
LockoutRests ==
  /\ up = Off /\ count = Off /\ timed = Off /\ blocked = Off /\ fallback = Off /\ attempt = Off
  /\ outages = Off /\ guesses = Off /\ tries = Off
BlacklistRests ==
  /\ reachable = Off /\ listed = Off /\ mirror = Off /\ dead = Off /\ revoking = Off
  /\ revoked = Off /\ refused = Off /\ pressed = Off
SectionsRest ==
  /\ moment = Off /\ piece = Off /\ skillRow = Off /\ subscriber = Off /\ editing = Off /\ writings = Off
  /\ removedRows = Off /\ endorsed = Off /\ blind = Off /\ tangledRows = Off /\ restored = Off
ProfileRests == facts = Off /\ revision = Off /\ answered = Off /\ crossed = Off
BookmarksRest ==
  /\ wall = Off /\ mark = Off /\ clip = Off /\ tap = Off /\ taps = Off /\ alone = Off /\ mixedUp = Off
TrackerRests == card = Off /\ tab = Off /\ drags = Off /\ overlapped = Off
AdminRests ==
  /\ suppression = Off /\ mailing = Off /\ member = Off /\ task = Off /\ trail = Off /\ notices = Off
  /\ page = Off /\ tasks = Off /\ tangled = Off /\ firsts = Off

Init ==
  /\ part \in Parts
  /\ IF part = "accounts" THEN AccountsInit ELSE AccountsRests
  /\ IF part = "sessions" THEN SessionsInit ELSE SessionsRests
  /\ IF part = "lockout" THEN LockoutInit ELSE LockoutRests
  /\ IF part = "blacklist" THEN BlacklistInit ELSE BlacklistRests
  /\ IF part = "sections" THEN SectionsInit ELSE SectionsRest
  /\ IF part = "profile" THEN ProfileInit ELSE ProfileRests
  /\ IF part = "bookmarks" THEN BookmarksInit ELSE BookmarksRest
  /\ IF part = "tracker" THEN TrackerInit ELSE TrackerRests
  /\ IF part = "admin" THEN AdminInit ELSE AdminRests

\* The part exercised takes a step, the others none.
Next ==
  /\ part' = part
  /\ IF part = "accounts" THEN AccountsNext ELSE UNCHANGED accountVars
  /\ IF part = "sessions" THEN SessionsNext ELSE UNCHANGED sessionVars
  /\ IF part = "lockout" THEN LockoutNext ELSE UNCHANGED lockoutVars
  /\ IF part = "blacklist" THEN BlacklistNext ELSE UNCHANGED blacklistVars
  /\ IF part = "sections" THEN SectionsNext ELSE UNCHANGED sectionVars
  /\ IF part = "profile" THEN ProfileNext ELSE UNCHANGED profileVars
  /\ IF part = "bookmarks" THEN BookmarksNext ELSE UNCHANGED bookmarkVars
  /\ IF part = "tracker" THEN TrackerNext ELSE UNCHANGED trackerVars
  /\ IF part = "admin" THEN AdminNext ELSE UNCHANGED adminVars

vars == <<part, accountVars, sessionVars, lockoutVars, blacklistVars, sectionVars, profileVars, bookmarkVars,
          trackerVars, adminVars>>
Spec == Init /\ [][Next]_vars

-----------------------------------------------------------------------------
(* Properties: those of the parts, each where its part is exercised. *)

\* The cache of user rows differs from the table only where a race or a lost drop explains it.
CacheTellsTheTruth == part = "accounts" => CacheIsCurrentUnlessRaced

\* A deleted account stays closed through the whole-row saves of requests that loaded it before,
\* and a verified row's password is the one its code was mailed with, or was taken on trust by
\* a reset or a Google sign-in.
AccountsHold == part = "accounts" => DeletedStaysClosed /\ VerifiedWithItsPassword

\* A device's session lasts through tabs that refresh at once, and what a logout or a
\* password reset ended stays ended.
SessionsAreSound == part = "sessions" => HonestSessionsLast /\ EndedSessionsStayEnded

\* The wrong passwords that can be tried stay bounded through any outage of Redis, and a revoked
\* access token stays revoked wherever its revocation is known.
BarsHold ==
  /\ part = "lockout" => GuessesAreBounded
  /\ part = "blacklist" => RevokedStaysRevoked

\* A profile, its rows and the bookmarks are as their user left them, through edits that overlap.
OwnRowsHold ==
  /\ part = "sections" => SectionsAreKept
  /\ part = "profile" => ProfileIsAsAnswered
  /\ part = "bookmarks" => BookmarksHold

\* The board is in the order the user dragged it into, and a move lands where it was dropped.
BoardHolds ==
  /\ [](part = "tracker" => BoardOrderIsTheUsers /\ AppliedDateIsTheFirst)
  /\ [][part = "tracker" => MovesLandAsDragged]_vars

\* What administrators do is done as it is audited, and barred mail stays unsent.
AdministrationHolds == part = "admin" => AdministrationIsTrue
=============================================================================
