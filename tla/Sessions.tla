-------------------------------- MODULE Sessions --------------------------------
(***************************************************************************)
(* The refresh tokens of one user: signing in, single-use rotation with its  *)
(* theft detection, logging out, and the purge of a password reset.  Several  *)
(* devices, several tabs of one device sharing its cookie jar.                *)
(*                                                                           *)
(* Every statement is a step, at READ COMMITTED: a rotation's claim locks the *)
(* row it spends until its transaction ends, a deletion by user sees the rows *)
(* committed when it starts and waits for the locked ones.  An answer reaches *)
(* the jar when it does, or never.  Tokens do not reach their natural expiry. *)
(***************************************************************************)
EXTENDS Naturals, FiniteSets

CONSTANTS
  Device,     \* the user's devices, each a cookie jar
  Tab,        \* slots for calls in progress
  MaxTokens   \* how many tokens are ever signed

ASSUME TokensAssumption == MaxTokens \in Nat /\ "none" \notin Device

VARIABLES
  token,      \* rows of RefreshToken, by the order they were signed in
  jar,        \* each device: the token its refresh_token cookie holds, or NoToken
  call,       \* calls in progress
  signed,     \* how many tokens have been signed
  signedIn,   \* history: devices with a session
  ended,      \* history: sign-ins whose session was ended
  disturbed   \* history: devices that had calls overlap, or an answer come late

sessionHistory == <<signedIn, ended, disturbed>>
sessionVars == <<token, jar, call, signed, sessionHistory>>

NoToken == 0
Token   == 1..MaxTokens
\* "old": spent longer ago than REFRESH_ROTATION_GRACE_SECONDS.  root: the sign-in it comes from.
TokenState == {"absent", "live", "spent", "old", "deleted"}
Absent == [state |-> "absent", device |-> "none", root |-> NoToken]

NoCall == [kind |-> "none", pc |-> "idle"]
NewCall(kind, pc, d, old, new) ==
  [kind |-> kind, pc |-> pc, device |-> d, old |-> old, new |-> new, outcome |-> "none",
   targets |-> {}]

Running == {c \in Tab : call[c] # NoCall}
OfKind(k) == {c \in Running : call[c].kind = k}
On(d) == {c \in Running : call[c].device = d}

AtStep(c, pc) == call[c].pc = pc
To(c, pc) == call' = [call EXCEPT ![c].pc = pc]
AnswerWith(c, outcome) == call' = [call EXCEPT ![c].pc = "answer", ![c].outcome = outcome]

\* The rows another call's open transaction has claimed.
Locked(t) == \E c \in OfKind("refresh") : AtStep(c, "commit") /\ call[c].old = t
Live == {t \in Token : token[t].state = "live"}
Rows == {t \in Token : token[t].state \in {"live", "spent", "old"}}

-----------------------------------------------------------------------------
(* A call arrives.  Of the calls of one device only refreshes may overlap, and *)
(* nothing a password reset, without disturbing it.  None arrives once every   *)
(* device is disturbed (a bound).                                             *)

Disturbs(kind, d) ==
  disturbed' = disturbed \cup
    IF kind = "reset" THEN {call[c].device : c \in Running} \cap Device
    ELSE IF \/ OfKind("reset") # {}
            \/ \E c \in On(d) : kind # "refresh" \/ call[c].kind # "refresh"
         THEN {d} ELSE {}

Begins(c, kind, pc, d, old, new) ==
  /\ call[c] = NoCall /\ disturbed # Device
  /\ call' = [call EXCEPT ![c] = NewCall(kind, pc, d, old, new)]
  /\ Disturbs(kind, d)

\* Signing in: a row, and an answer on its way.
SignIn(c, d) ==
  LET t == signed + 1 IN
  /\ t \in Token
  /\ call[c] = NoCall /\ disturbed # Device
  /\ call' = [call EXCEPT ![c] = [NewCall("signIn", "answer", d, NoToken, t) EXCEPT !.outcome = "rotated"]]
  /\ Disturbs("signIn", d)
  /\ signed' = t
  /\ token' = [token EXCEPT ![t] = [state |-> "live", device |-> d, root |-> t]]
  /\ UNCHANGED <<jar, signedIn, ended>>

\* The replacement is signed before it is known whether the rotation will happen.
StartRefresh(c, d) ==
  /\ jar[d] # NoToken /\ signed + 1 \in Token
  /\ Begins(c, "refresh", "claim", d, jar[d], signed + 1)
  /\ signed' = signed + 1
  /\ UNCHANGED <<token, jar, signedIn, ended>>

StartLogout(c, d) ==
  /\ jar[d] # NoToken
  /\ Begins(c, "logout", "find", d, jar[d], NoToken)
  /\ UNCHANGED <<token, jar, signed, signedIn, ended>>

StartReset(c) ==
  /\ Begins(c, "reset", "purge", "none", NoToken, NoToken)
  /\ UNCHANGED <<token, jar, signed, signedIn, ended>>

-----------------------------------------------------------------------------
(* rotate: claim, then either create and commit, or judge the miss. *)

\* The update's own condition is what makes a token single-use.
Claim_ById(c) ==
  /\ AtStep(c, "claim")
  /\ IF token[call[c].old].state = "live" THEN To(c, "commit") ELSE To(c, "judge")
  /\ UNCHANGED <<token, jar, signed, sessionHistory>>
Claim(c) ==
  /\ AtStep(c, "claim") /\ ~Locked(call[c].old)
  /\ IF token[call[c].old].state = "live" THEN To(c, "commit") ELSE To(c, "judge")
  /\ UNCHANGED <<token, jar, signed, sessionHistory>>

CommitRotation(c) ==
  LET q == call[c] IN
  /\ AtStep(c, "commit")
  /\ token' = [token EXCEPT ![q.old].state = "spent",
                            ![q.new] = [state |-> "live", device |-> q.device, root |-> token[q.old].root]]
  /\ AnswerWith(c, "rotated")
  /\ UNCHANGED <<jar, signed, sessionHistory>>

\* The spent row, and how long ago it was spent.
Judge_NoGrace(c) ==
  /\ AtStep(c, "judge")
  /\ IF token[call[c].old].state = "deleted" THEN AnswerWith(c, "not_found")
     ELSE call' = [call EXCEPT ![c].pc = "purge", ![c].outcome = "reuse"]
  /\ UNCHANGED <<token, jar, signed, sessionHistory>>
Judge(c) ==
  /\ AtStep(c, "judge")
  /\ CASE token[call[c].old].state = "spent" -> To(c, "successor")
       [] token[call[c].old].state = "old"   -> call' = [call EXCEPT ![c].pc = "purge", ![c].outcome = "reuse"]
       [] OTHER                              -> AnswerWith(c, "not_found")
  /\ UNCHANGED <<token, jar, signed, sessionHistory>>

\* A live token of the user, of whichever session, proves that a rotation won.
FindSuccessor(c) ==
  /\ AtStep(c, "successor")
  /\ IF Live # {} THEN AnswerWith(c, "raced")
     ELSE call' = [call EXCEPT ![c].pc = "purge", ![c].outcome = "reuse"]
  /\ UNCHANGED <<token, jar, signed, sessionHistory>>

-----------------------------------------------------------------------------
(* deleteAllForUser: one DELETE, of the rows it sees when it starts. *)

PurgeStart(c) ==
  /\ AtStep(c, "purge")
  /\ call' = [call EXCEPT ![c].pc = "purging", ![c].targets = Rows]
  /\ UNCHANGED <<token, jar, signed, sessionHistory>>

Purge(c) ==
  LET gone == call[c].targets
      reset == call[c].kind = "reset"
  IN /\ AtStep(c, "purging") /\ \A t \in gone : ~Locked(t)
     /\ token' = [t \in Token |-> IF t \in gone THEN [token[t] EXCEPT !.state = "deleted"] ELSE token[t]]
     /\ call' = [call EXCEPT ![c].pc = "answer", ![c].targets = {},
                             ![c].outcome = IF reset THEN "none" ELSE @]
     /\ ended' = IF reset THEN ended \cup {token[t].root : t \in gone} ELSE ended
     /\ signedIn' = IF reset THEN {d \in signedIn : jar[d] \notin gone} ELSE signedIn
     /\ UNCHANGED <<jar, signed, disturbed>>

-----------------------------------------------------------------------------
(* logout: find the live row, delete it by id. *)

FindLive(c) ==
  /\ AtStep(c, "find")
  /\ IF call[c].old \in Live THEN To(c, "delete") /\ UNCHANGED <<signedIn, ended>>
     ELSE /\ AnswerWith(c, "out")
          /\ signedIn' = signedIn \ {call[c].device}
          /\ ended' = ended \cup {token[call[c].old].root}
  /\ UNCHANGED <<token, jar, signed, disturbed>>

DeleteById(c) ==
  LET q == call[c] IN
  /\ AtStep(c, "delete") /\ ~Locked(q.old)
  /\ token' = [token EXCEPT ![q.old].state = "deleted"]
  /\ AnswerWith(c, "out")
  /\ signedIn' = signedIn \ {q.device}
  /\ ended' = ended \cup {token[q.old].root}
  /\ UNCHANGED <<jar, signed, disturbed>>

-----------------------------------------------------------------------------
(* Answers, losses and time. *)

\* A lost race leaves the cookie alone; every other failure clears it.
Cookie_Cleared(c) ==
  CASE call[c].outcome = "rotated" -> call[c].new
    [] call[c].outcome = "none"    -> jar[call[c].device]
    [] OTHER                       -> NoToken
Cookie(c) ==
  CASE call[c].outcome = "rotated"             -> call[c].new
    [] call[c].outcome \in {"raced", "none"}   -> jar[call[c].device]
    [] call[c].outcome \in {"reuse", "not_found", "out"} -> NoToken

ReceiveAnswer(c) ==
  LET d == call[c].device IN
  /\ AtStep(c, "answer")
  /\ jar' = IF d \in Device THEN [jar EXCEPT ![d] = Cookie(c)] ELSE jar
  /\ signedIn' = IF call[c].kind = "signIn" THEN signedIn \cup {d} ELSE signedIn
  /\ call' = [call EXCEPT ![c] = NoCall]
  /\ UNCHANGED <<token, signed, ended, disturbed>>

\* The process dies or the client goes away: an open transaction is rolled back, an answer lost.
Lose(c) ==
  /\ call[c] # NoCall
  /\ call' = [call EXCEPT ![c] = NoCall]
  /\ disturbed' = IF AtStep(c, "answer") /\ call[c].kind = "refresh"
                  THEN disturbed \cup {call[c].device} ELSE disturbed
  /\ UNCHANGED <<token, jar, signed, signedIn, ended>>

\* The grace period of a spent token ends; late, when a call that presented it still runs.
GraceEnds(t) ==
  /\ token[t].state = "spent"
  /\ token' = [token EXCEPT ![t].state = "old"]
  /\ disturbed' = disturbed \cup {call[c].device : c \in {x \in Running : call[x].old = t}}
  /\ UNCHANGED <<jar, call, signed, signedIn, ended>>

-----------------------------------------------------------------------------
SessionsInit ==
  /\ token = [t \in Token |-> Absent] /\ jar = [d \in Device |-> NoToken]
  /\ call = [c \in Tab |-> NoCall] /\ signed = 0
  /\ signedIn = {} /\ ended = {} /\ disturbed = {}

SessionsNext ==
  \/ \E c \in Tab, d \in Device : SignIn(c, d) \/ StartRefresh(c, d) \/ StartLogout(c, d)
  \/ \E c \in Tab : \/ StartReset(c)
                    \/ Claim(c) \/ CommitRotation(c) \/ Judge(c) \/ FindSuccessor(c)
                    \/ PurgeStart(c) \/ Purge(c) \/ FindLive(c) \/ DeleteById(c)
                    \/ ReceiveAnswer(c) \/ Lose(c)
  \/ \E t \in Token : GraceEnds(t)

SessionsSpec == SessionsInit /\ [][SessionsNext]_sessionVars

-----------------------------------------------------------------------------
(* Properties. *)

\* The answer that carries a device's next token is on its way.
Coming(d) == \E c \in On(d) : call[c].outcome = "rotated" /\ call[c].new \in Live

\* However many tabs of a device refresh at once, and whatever the other devices do, its
\* session lasts: the cookie jar, or an answer on its way to it, holds a live token.  What
\* excuses a session that is lost is a refresh answer that never arrived, one that took
\* longer than the grace period, or a sign-in, logout or password reset that overlapped
\* another call of the device.  (A reuse verdict on one device ends the sessions of all.)
HonestSessionsLast ==
  disturbed = {} => \A d \in signedIn : jar[d] \in Live \/ Coming(d)

\* A session that a logout or a password reset ended has no live token left, unless a
\* refresh overlapped: rotation leaves exactly one token of a sign-in alive, the one the
\* cookie presents, so that deleting it is enough.
EndedSessionsStayEnded ==
  \A t \in Live : token[t].root \in ended => token[t].device \in disturbed
=============================================================================
