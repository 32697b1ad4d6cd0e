------------------------------ MODULE AiAvailability ------------------------------
(***************************************************************************)
(* What the backend says of the AI service: the client that calls it           *)
(* (ai.client.ts), the evidence kept of those calls, the probe that replaces     *)
(* it when there is none (ai-availability.service.ts) and the health read        *)
(* that reports the verdict (ai.health-indicator.ts).                          *)
(*                                                                           *)
(* Every attempt of a call, the probe and the health reads run at once.  An      *)
(* answer is what the service does; its wording is left out.                    *)
(***************************************************************************)
EXTENDS Integers, FiniteSets

CONSTANTS
  AiCall,       \* logical requests to the AI service
  HealthRead,   \* reads of the readiness endpoint
  EvidenceSpan, \* WINDOW_MS: how long the outcome of a call is evidence
  Cooldown,     \* PROBE_COOLDOWN_MS
  LastAiTick    \* bound on the clock

ASSUME AiAssumption == /\ EvidenceSpan \in Nat \ {0} /\ Cooldown \in Nat /\ LastAiTick \in Nat

VARIABLES
  aiClock,    \* Date.now()
  aiCall,     \* each request: "idle", "sent" (at its attempt), or what its caller got
  outcomes,   \* the calls kept as evidence: when each ended, and how
  probe,      \* the last answer of /ready, or NoProbe
  probing,    \* is a probe awaited
  flights,    \* probes in the air
  health,     \* each health read: "idle", "waiting", or the verdict it reported
  heard       \* every notice the listener ever got (history)

aiVars == <<aiClock, aiCall, outcomes, probe, probing, flights, health, heard>>

MaxRetries == 1
NoProbe == [at |-> -1, ready |-> FALSE]
Verdicts == {"up", "down", "degraded", "unknown"}

\* What the transport can answer: a body, a 2xx whose body never arrives, a 4xx, a 5xx, a
\* timeout or a network failure.
Answers == {"body", "cut", "refused", "broken", "lost"}

-----------------------------------------------------------------------------
(* The evidence. *)

\* The calls are pushed as they end: if the first has not lapsed, none has.
Pruned_ByCount(outs) == {o \in outs : \A p \in outs : p.at <= o.at}   \* mutant: the last alone counts
Pruned(outs) == {o \in outs : o.at >= aiClock - EvidenceSpan}

\* snapshot(): real calls first; the probe speaks only when they say nothing.
Verdict_ProbeFirst(outs, last) ==   \* mutant: a ready probe outvotes failing calls
  IF last.ready THEN "up" ELSE IF \E o \in outs : ~o.ok THEN "down" ELSE "unknown"
Verdict(outs, last) ==
  LET good == \E o \in outs : o.ok
      bad == \E o \in outs : ~o.ok
  IN  IF good /\ bad THEN "degraded" ELSE IF good THEN "up" ELSE IF bad THEN "down"
      ELSE IF last = NoProbe THEN "unknown" ELSE IF last.ready THEN "up" ELSE "down"

Notify(c, ok) ==
  /\ outcomes' = Pruned(outcomes \cup {[at |-> aiClock, ok |-> ok]})
  /\ heard' = heard \cup {[call |-> c, attempt |-> aiCall[c].attempt, at |-> aiClock, ok |-> ok]}

-----------------------------------------------------------------------------
(* A call: AiClient.send. *)

Send(c) ==
  /\ aiCall[c].phase = "idle"
  /\ aiCall' = [aiCall EXCEPT ![c] = [phase |-> "sent", attempt |-> 0]]
  /\ UNCHANGED <<aiClock, outcomes, probe, probing, flights, health, heard>>

Retryable(answer) == answer \in {"broken", "lost"}   \* a 4xx is deterministic

\* One answer.  The listener hears of the request once, on its last attempt; a 2xx counts as a
\* success before its body is read, and a body that never comes throws past AiServiceError.
Receive_TellsEveryAttempt(c) ==   \* mutant: a retried attempt is reported too
  /\ aiCall[c].phase = "sent"
  /\ \E answer \in Answers :
       /\ aiCall' = [aiCall EXCEPT ![c] =
            IF Retryable(answer) /\ @.attempt < MaxRetries THEN [@ EXCEPT !.attempt = @ + 1]
            ELSE [@ EXCEPT !.phase = CASE answer = "body" -> "value" [] answer = "cut" -> "raw" [] OTHER -> "error"]]
       /\ Notify(c, answer \in {"body", "cut"})
  /\ UNCHANGED <<aiClock, probe, probing, flights, health>>
Receive(c) ==
  /\ aiCall[c].phase = "sent"
  /\ \E answer \in Answers :
       IF Retryable(answer) /\ aiCall[c].attempt < MaxRetries
       THEN aiCall' = [aiCall EXCEPT ![c].attempt = @ + 1] /\ UNCHANGED <<outcomes, heard>>
       ELSE /\ aiCall' = [aiCall EXCEPT ![c].phase =
                 CASE answer = "body" -> "value" [] answer = "cut" -> "raw" [] OTHER -> "error"]
            /\ Notify(c, answer \in {"body", "cut"})
  /\ UNCHANGED <<aiClock, probe, probing, flights, health>>

-----------------------------------------------------------------------------
(* A health read: AiHealthIndicator.isHealthy. *)

ShouldProbe ==
  Pruned(outcomes) = {} /\ (probe = NoProbe \/ aiClock - probe.at > Cooldown)

ReadHealth_OwnProbe(h) ==   \* mutant: every reader sends its own
  /\ health[h].phase = "idle"
  /\ outcomes' = Pruned(outcomes)
  /\ IF ShouldProbe
     THEN /\ health' = [health EXCEPT ![h] = [phase |-> "waiting", verdict |-> "unknown"]]
          /\ probing' = TRUE /\ flights' = flights + 1
     ELSE /\ health' = [health EXCEPT ![h] = [phase |-> "told", verdict |-> Verdict(outcomes', probe)]]
          /\ UNCHANGED <<probing, flights>>
  /\ UNCHANGED <<aiClock, aiCall, probe, heard>>
\* refresh(): readers that need a probe share the one in the air.
ReadHealth(h) ==
  /\ health[h].phase = "idle"
  /\ outcomes' = Pruned(outcomes)
  /\ IF ShouldProbe
     THEN /\ health' = [health EXCEPT ![h] = [phase |-> "waiting", verdict |-> "unknown"]]
          /\ probing' = TRUE /\ flights' = IF probing THEN flights ELSE flights + 1
     ELSE /\ health' = [health EXCEPT ![h] = [phase |-> "told", verdict |-> Verdict(outcomes', probe)]]
          /\ UNCHANGED <<probing, flights>>
  /\ UNCHANGED <<aiClock, aiCall, probe, heard>>

\* /ready: 200 and 503 carry the verdict, everything else is a "not ready" too.
ReadyStatus == {TRUE, FALSE}

\* runProbe ends, and with it the wait of every reader that shared it.
ProbeAnswers ==
  /\ flights > 0
  /\ \E ready \in ReadyStatus : probe' = [at |-> aiClock, ready |-> ready]
  /\ flights' = flights - 1 /\ probing' = FALSE
  /\ outcomes' = Pruned(outcomes)
  /\ health' = [h \in HealthRead |->
       IF health[h].phase = "waiting" THEN [phase |-> "told", verdict |-> Verdict(outcomes', probe')] ELSE health[h]]
  /\ UNCHANGED <<aiClock, aiCall, heard>>

\* The caller is done with the answer, and asks again later.
ReadAgain(h) ==
  /\ health[h].phase = "told"
  /\ health' = [health EXCEPT ![h] = [phase |-> "idle", verdict |-> "unknown"]]
  /\ UNCHANGED <<aiClock, aiCall, outcomes, probe, probing, flights, heard>>

AiTick ==
  /\ aiClock < LastAiTick
  /\ aiClock' = aiClock + 1
  /\ UNCHANGED <<aiCall, outcomes, probe, probing, flights, health, heard>>

AiInit ==
  /\ aiClock = 0 /\ outcomes = {} /\ probe = NoProbe /\ probing = FALSE /\ flights = 0 /\ heard = {}
  /\ aiCall = [c \in AiCall |-> [phase |-> "idle", attempt |-> 0]]
  /\ health = [h \in HealthRead |-> [phase |-> "idle", verdict |-> "unknown"]]

AiNext ==
  \/ \E c \in AiCall : Send(c) \/ Receive(c)
  \/ \E h \in HealthRead : ReadHealth(h) \/ ReadAgain(h)
  \/ ProbeAnswers \/ AiTick

-----------------------------------------------------------------------------
(* Properties. *)

\* What a health read reports is what every call of the last EvidenceSpan said, none forgotten
\* early and none kept late; only when there was no call does the probe speak, and it is then
\* at most Cooldown old.  (snapshot, prune, shouldProbe)
VerdictsAreEarned ==
  \A h \in HealthRead :
    health[h].phase # "told" /\ health'[h].phase = "told" =>
      LET recent == {n \in heard : n.at >= aiClock - EvidenceSpan}
          good == \E n \in recent : n.ok
          bad == \E n \in recent : ~n.ok
      IN  CASE good /\ bad -> health'[h].verdict = "degraded"
            [] good /\ ~bad -> health'[h].verdict = "up"
            [] ~good /\ bad -> health'[h].verdict = "down"
            [] OTHER -> /\ probe' # NoProbe /\ aiClock - probe'.at <= Cooldown
                        /\ health'[h].verdict = (IF probe'.ready THEN "up" ELSE "down")

\* However many readers wait and however the probes end, one probe is in the air at a time, and
\* the flag that says so is true exactly while it is.  (probing ??=)
OneProbeAtATime ==
  /\ flights <= 1
  /\ probing <=> flights = 1

\* A request is one piece of evidence, whatever its attempts, and it says what the caller got:
\* an error only when the request failed, a value only when it was a success.  (notify)
CallsCountOnce ==
  \A c \in AiCall :
    LET notices == {n \in heard : n.call = c}
    IN  /\ Cardinality(notices) = IF aiCall[c].phase \in {"idle", "sent"} THEN 0 ELSE 1
        /\ \A n \in notices : n.ok <=> aiCall[c].phase \in {"value", "raw"}
=============================================================================
