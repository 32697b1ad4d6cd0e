--------------------------------- MODULE Alerting ---------------------------------
(***************************************************************************)
(* Server errors turned into alerts (alerting.service.ts): the deduplication     *)
(* and the error counter in Redis, the row of the incident ledger, the Slack      *)
(* message (slack-notifier.service.ts).                                        *)
(*                                                                           *)
(* Each error is handled beside the others, one await at a time; Redis can be      *)
(* away, a write to the ledger can fail and the process can restart at any step.   *)
(***************************************************************************)
EXTENDS Integers, FiniteSets

CONSTANTS
  ServerError,     \* the 5xx answers of a behaviour
  DatabaseErrors,  \* those isDbError recognises
  Cause,           \* error -> its fingerprint
  DedupSpan,       \* DEDUP_WINDOW_S
  RateSpan,        \* ERROR_RATE_WINDOW_S
  RateThreshold,   \* ERROR_RATE_THRESHOLD
  GraceSpan,       \* STARTUP_GRACE_MS
  LastAlertTick, MaxAlertFaults   \* bounds: the clock, outages of Redis and restarts

ASSUME AlertAssumption ==
  /\ DatabaseErrors \subseteq ServerError /\ IsFiniteSet(ServerError)
  /\ \A e \in ServerError : Cause[e] # "error-rate-high"   \* sixteen hexadecimal digits
  /\ \A n \in {DedupSpan, RateSpan, RateThreshold, GraceSpan} : n \in Nat \ {0}
  /\ LastAlertTick \in Nat

VARIABLES
  alertClock, bootedAt,
  redisUp, muted,   \* is Redis there; is the alert:suppressed key set
  dedupUntil,       \* alert:dedup:<fingerprint> -> when it expires
  errorCount,       \* alert:errrate:count and when it expires
  handling,         \* each error's place in onServerError
  incidents,        \* the rows of system_events
  slacked,          \* the messages posted
  alertFaults,
  claims, silenced, counted, excused   \* history: claims, duplicates, counts; what a fault explains

alertWorld == <<alertClock, bootedAt, redisUp, muted, alertFaults>>
alertBooks == <<incidents, slacked>>
alertVars == <<alertWorld, alertBooks, dedupUntil, errorCount, handling, claims, silenced, counted, excused>>

RateAlarm == "error-rate-high"   \* the fingerprint of the burst
Prints == {Cause[e] : e \in ServerError} \cup {RateAlarm}
Never == 0
NoTtl == LastAlertTick + 1   \* a key whose EXPIRE was lost never goes

At(phase, print) == [phase |-> phase, print |-> print]
Phase(e) == handling[e].phase
Go(e, phase) == handling' = [handling EXCEPT ![e].phase = phase]

-----------------------------------------------------------------------------
(* onServerError. *)

\* A database error alerts by itself; every error counts towards the rate.
OnServerError(e) ==
  /\ Phase(e) = "new"
  /\ handling' = [handling EXCEPT ![e] = IF e \in DatabaseErrors THEN At("look", Cause[e]) ELSE At("count", RateAlarm)]
  /\ UNCHANGED <<alertWorld, alertBooks, dedupUntil, errorCount, claims, silenced, counted, excused>>

\* After an alert: the count is still to come, unless the alert was the rate's.
AfterAlert(e) == IF handling[e].print = RateAlarm THEN At("done", RateAlarm) ELSE At("count", RateAlarm)

\* claimFirstOccurrence, first half: a key that exists silences the error.  Without Redis: alert.
LookUp(e) ==
  /\ Phase(e) = "look"
  /\ LET print == handling[e].print IN
     IF ~redisUp THEN Go(e, "record") /\ excused' = excused \cup {<<e, print>>} /\ UNCHANGED silenced
     ELSE IF dedupUntil[print] > alertClock
     THEN /\ handling' = [handling EXCEPT ![e] = AfterAlert(e)]
          /\ silenced' = silenced \cup {[by |-> e, print |-> print, at |-> alertClock]} /\ UNCHANGED excused
     ELSE Go(e, "claim") /\ UNCHANGED <<silenced, excused>>
  /\ UNCHANGED <<alertWorld, alertBooks, dedupUntil, errorCount, claims, counted>>

\* Second half: the key is set.  Two errors that both found none both alert.
Claim_NoExpiry(e) ==   \* mutant: the key is set without its time to live
  /\ Phase(e) = "claim" /\ redisUp
  /\ Go(e, "record") /\ dedupUntil' = [dedupUntil EXCEPT ![handling[e].print] = NoTtl]
  /\ claims' = claims \cup {[by |-> e, print |-> handling[e].print, at |-> alertClock]}
  /\ UNCHANGED <<alertWorld, alertBooks, errorCount, silenced, counted, excused>>
Claim(e) ==
  /\ Phase(e) = "claim"
  /\ LET print == handling[e].print
         beside == {<<f, print>> : f \in {f \in ServerError \ {e} : Phase(f) = "claim" /\ handling[f].print = print}} IN
     IF redisUp
     THEN /\ dedupUntil' = [dedupUntil EXCEPT ![print] = alertClock + DedupSpan]
          /\ claims' = claims \cup {[by |-> e, print |-> print, at |-> alertClock]}
          /\ excused' = excused \cup beside
     ELSE /\ excused' = excused \cup {<<e, print>>} /\ UNCHANGED <<dedupUntil, claims>>
  /\ Go(e, "record")
  /\ UNCHANGED <<alertWorld, alertBooks, errorCount, silenced, counted>>

\* The row of the ledger.  A write that fails is logged; the key is already claimed.
Record(e) ==
  /\ Phase(e) = "record"
  /\ Go(e, "post")
  /\ LET print == handling[e].print IN
     \/ /\ incidents' = incidents \cup {[by |-> e, print |-> print, at |-> alertClock]}
        /\ UNCHANGED excused
     \/ /\ excused' = excused \cup {<<e, print>>} /\ UNCHANGED incidents
  /\ UNCHANGED <<alertWorld, slacked, dedupUntil, errorCount, claims, silenced, counted>>

\* isSuppressed: the grace after a start, or the manual key.
Suppressed == alertClock - bootedAt < GraceSpan \/ (redisUp /\ muted)

\* Slack, unless muted.  A post that fails changes nothing.
Post(e) ==
  /\ Phase(e) = "post"
  /\ handling' = [handling EXCEPT ![e] = AfterAlert(e)]
  /\ \/ ~Suppressed /\ slacked' = slacked \cup {[by |-> e, print |-> handling[e].print, at |-> alertClock]}
     \/ UNCHANGED slacked
  /\ UNCHANGED <<alertWorld, incidents, dedupUntil, errorCount, claims, silenced, counted, excused>>

-----------------------------------------------------------------------------
(* trackErrorRate: INCR, and EXPIRE for the first of a window. *)

Standing == IF errorCount.until > alertClock THEN errorCount ELSE [n |-> 0, until |-> NoTtl]

Judge_Early(e, n) ==   \* mutant: one error short of the threshold
  handling' = [handling EXCEPT ![e] = IF n >= RateThreshold - 1 THEN At("look", RateAlarm) ELSE At("done", RateAlarm)]
Judge(e, n) == handling' = [handling EXCEPT ![e] = IF n >= RateThreshold THEN At("look", RateAlarm) ELSE At("done", RateAlarm)]

CountError(e) ==
  /\ Phase(e) = "count"
  /\ IF ~redisUp THEN Go(e, "done") /\ UNCHANGED <<errorCount, counted>>
     ELSE /\ errorCount' = [Standing EXCEPT !.n = @ + 1]
          /\ counted' = counted \cup {[by |-> e, at |-> alertClock, reached |-> errorCount'.n]}
          /\ IF errorCount'.n = 1 THEN Go(e, "expire") ELSE Judge(e, errorCount'.n)
  /\ UNCHANGED <<alertWorld, alertBooks, dedupUntil, claims, silenced, excused>>

\* A lost EXPIRE ends the handling; the counter then stands for ever.
Expire(e) ==
  /\ Phase(e) = "expire"
  /\ IF redisUp
     THEN /\ errorCount' = [errorCount EXCEPT !.until = IF @ > alertClock THEN alertClock + RateSpan ELSE @]
          /\ Judge(e, 1) /\ UNCHANGED excused
     ELSE Go(e, "done") /\ excused' = excused \cup {<<"expire", RateAlarm>>} /\ UNCHANGED errorCount
  /\ UNCHANGED <<alertWorld, alertBooks, dedupUntil, claims, silenced, counted>>

-----------------------------------------------------------------------------
(* The world: Redis, restarts, time. *)

RedisTurns ==
  /\ IF redisUp THEN alertFaults < MaxAlertFaults /\ alertFaults' = alertFaults + 1 ELSE UNCHANGED alertFaults
  /\ redisUp' = ~redisUp
  /\ UNCHANGED <<alertClock, bootedAt, muted, alertBooks, dedupUntil, errorCount, handling, claims,
                 silenced, counted, excused>>

\* The process restarts: what was being handled is lost, its claimed key is not.
Restart ==
  /\ alertFaults < MaxAlertFaults /\ alertFaults' = alertFaults + 1
  /\ bootedAt' = alertClock
  /\ handling' = [e \in ServerError |-> IF Phase(e) = "new" THEN handling[e] ELSE At("done", RateAlarm)]
  /\ excused' = excused \cup {<<e, handling[e].print>> : e \in {e \in ServerError : Phase(e) = "record"}}
                       \cup {<<"expire", RateAlarm>> : e \in {e \in ServerError : Phase(e) = "expire"}}
  /\ UNCHANGED <<alertClock, redisUp, muted, alertBooks, dedupUntil, errorCount, claims, silenced, counted>>

\* EXPIRE follows its INCR at once on the scale of the windows.
AlertTick ==
  /\ alertClock < LastAlertTick /\ \A e \in ServerError : Phase(e) # "expire"
  /\ alertClock' = alertClock + 1
  /\ UNCHANGED <<bootedAt, redisUp, muted, alertFaults, alertBooks, dedupUntil, errorCount, handling,
                 claims, silenced, counted, excused>>

AlertInit ==
  /\ alertClock = 0 /\ bootedAt = 0 /\ redisUp = TRUE /\ muted \in BOOLEAN /\ alertFaults = 0
  /\ dedupUntil = [p \in Prints |-> Never] /\ errorCount = [n |-> 0, until |-> Never]
  /\ handling = [e \in ServerError |-> At("new", RateAlarm)]
  /\ incidents = {} /\ slacked = {}
  /\ claims = {} /\ silenced = {} /\ counted = {} /\ excused = {}

AlertNext ==
  \/ \E e \in ServerError : OnServerError(e) \/ LookUp(e) \/ Claim(e) \/ Record(e) \/ Post(e) \/ CountError(e) \/ Expire(e)
  \/ RedisTurns \/ Restart \/ AlertTick

-----------------------------------------------------------------------------
(* Properties. *)

\* One fingerprint alerts once per window, on the ledger or on Slack.  Two errors that alert inside one
\* window both looked for the key before either set it, or one was raised without Redis.  (claimFirstOccurrence)
OneAlertPerWindow ==
  \A a, b \in incidents \cup slacked :
    a.by # b.by /\ a.print = b.print /\ {<<a.by, a.print>>, <<b.by, b.print>>} \cap excused = {} =>
      \A c, d \in claims : c.by = a.by /\ d.by = b.by /\ c.print = a.print /\ d.print = a.print =>
        c.at >= d.at + DedupSpan \/ d.at >= c.at + DedupSpan

\* An error that is silenced is covered: the error it repeats claimed the key less than a window
\* ago and is on the ledger or on its way there.  The exception is a claimant whose write failed
\* or whose process died, which silences the cause for a window with no trace.  (raise)
SilenceIsCovered ==
  \A s \in silenced : \E c \in claims :
    /\ c.print = s.print /\ c.at <= s.at /\ s.at < c.at + DedupSpan
    /\ \/ \E row \in incidents : row.by = c.by /\ row.print = c.print
       \/ handling[c.by] = At("record", c.print)
       \/ <<c.by, c.print>> \in excused

\* An alarm of a high error rate has its threshold of errors behind it, counted inside the one
\* window the counter lives, unless the EXPIRE of a window's first error was lost and the counter
\* stands for ever.  (trackErrorRate)
RateAlarmsAreReal ==
  <<"expire", RateAlarm>> \notin excused =>
    \A row \in incidents : row.print = RateAlarm =>
      \E c \in counted : c.by = row.by
        /\ Cardinality({d \in counted : d.at > c.at - RateSpan /\ d.at <= c.at}) >= RateThreshold
=============================================================================
