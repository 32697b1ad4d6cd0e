------------------------------- MODULE Generation -------------------------------
(***************************************************************************)
(* Cover letters and interview preparation: routes that cost an AI call each,    *)
(* behind a limit per account and, two of the four, a paid plan.                 *)
(*                                                                           *)
(* A letter for an application is composed from what was read before the call,     *)
(* and written to the application's row after it; two requests for one             *)
(* application overlap freely.  The limits live in the memory of the instance       *)
(* that serves the request, one count for each route and account.                  *)
(***************************************************************************)
EXTENDS Integers, FiniteSets, Sequences

CONSTANTS
  Writer,       \* accounts
  Address,      \* the addresses they come from
  Letter,       \* applications
  LetterOf,     \* application -> its candidate
  Server,       \* instances of the backend
  Request,      \* requests in progress at a time
  Metered,      \* the routes that count against aiGenerate
  HourlyLimit,  \* aiGenerate: requests allowed ...
  Hour,         \* ... within this time
  LastHalfHour, \* bound on the time that passes
  Generated,    \* what the AI may answer about an interview: [questions, feedback]
  MaxRestarts   \* bound on the instances that start anew

ASSUME GenerationAssumption ==
  /\ LetterOf \in [Letter -> Writer] /\ IsFiniteSet(Server) /\ IsFiniteSet(Metered)
  /\ HourlyLimit \in Nat \ {0} /\ Hour \in Nat \ {0} /\ LastHalfHour \in Nat /\ MaxRestarts \in Nat

NoRequest == [pc |-> "idle"]
NoLetter == [owner |-> 0]
Unseen == [hits |-> {}, until |-> 0]

VARIABLES
  \* the limit
  hour,     \* the clock
  meter,    \* server, route, tracker -> the times counted, and the end of a block
  restarts,
  made,     \* history: <<account, time, n>> of the requests let through; n tells those of one time apart
  refused,  \* history: <<account, route>> last answered 429, or Nobody
  \* the letters
  tier,     \* account -> "free" or "paid"
  readable, \* which resumes have a parsed summary: the application's, the active one
  letter,   \* application -> the letter on its row
  asking,   \* request -> what it is about and where it stands
  told,     \* history: application -> the letter last answered
  muddled   \* history: applications with two requests at once, or an answer that was lost
limitVars == <<hour, meter, restarts, made, refused>>
letterVars == <<tier, readable, letter, asking, told, muddled>>

Nobody == <<0, 0>>
-----------------------------------------------------------------------------
(* The limit. *)

\* The key that counts: the account, where the stock guard has the address.
GetTracker_Address(w, a) == <<"ip", a>>
GetTracker(w, a) == <<"user", w>>

\* The stock storage: a hit counts for an hour; one over the limit blocks for as long, and the
\* end of a block starts the count anew.
Live(t) == IF t.until # 0 /\ t.until <= hour THEN {} ELSE {h \in t.hits : h[1] + Hour > hour}
Blocked(t) == t.until > hour
Increment(t) ==
  LET hits == Live(t) \cup {<<hour, Cardinality(Live(t))>>} IN
  [hits |-> hits, until |-> IF Cardinality(hits) > HourlyLimit THEN hour + Hour ELSE 0]

\* The guard counts a request and lets it go on to cost an AI call, or answers 429; a blocked
\* account is not counted.  The key holds the route's class and method beside the tracker.
HandleRequest(s, r, w, a) ==
  LET k == GetTracker(w, a)
      t == meter[<<s, r, k>>] IN
  /\ meter' = IF Blocked(t) THEN meter ELSE [meter EXCEPT ![<<s, r, k>>] = Increment(t)]
  /\ IF Blocked(t) \/ Increment(t).until # 0
     THEN refused' = <<w, r>> /\ made' = made
     ELSE /\ refused' = Nobody
          /\ made' = made \cup {<<w, hour, Cardinality({c \in made : c[1] = w /\ c[2] = hour}), r, s>>}
  /\ UNCHANGED <<hour, restarts>>

\* An instance starts anew: its counts are gone.
StartAnew(s) ==
  /\ restarts < MaxRestarts /\ restarts' = restarts + 1
  /\ meter' = [t \in DOMAIN meter |-> IF t[1] = s THEN Unseen ELSE meter[t]]
  /\ refused' = Nobody
  /\ UNCHANGED <<hour, made>>

HalfAnHour ==
  /\ hour < LastHalfHour /\ hour' = hour + 1 /\ refused' = Nobody
  /\ UNCHANGED <<meter, restarts, made>>

LimitsInit ==
  /\ hour = 1 /\ restarts = 0 /\ made = {} /\ refused = Nobody
  /\ meter = [t \in Server \X Metered \X (({"user"} \X Writer) \cup ({"ip"} \X Address)) |-> Unseen]

LimitsNext ==
  \/ \E s \in Server, r \in Metered, w \in Writer, a \in Address : HandleRequest(s, r, w, a)
  \/ \E s \in Server : StartAnew(s)
  \/ HalfAnHour

-----------------------------------------------------------------------------
(* The letter of an application. *)

\* A missing account is on no plan.
HasPaidPlan(w) == tier[w] = "paid"

Others(l) == {x \in Request : asking[x].pc # "idle" /\ asking[x].about = l}

\* What a letter draws on: the resume it was sent with, or else the active one.
ResumeSummary == IF readable.own THEN "own" ELSE IF readable.active THEN "active" ELSE "none"

\* The letter of an application is its candidate's to ask for, on a paid plan.
CoverLetter_Anyones(x, w, l) ==
  /\ asking[x] = NoRequest /\ HasPaidPlan(w)
  /\ asking' = [asking EXCEPT ![x] = [pc |-> "call", by |-> w, about |-> l, from |-> ResumeSummary]]
  /\ muddled' = IF Others(l) = {} THEN muddled ELSE muddled \cup {l}
  /\ UNCHANGED <<tier, readable, letter, told>>
CoverLetter(x, w, l) ==
  /\ asking[x] = NoRequest /\ HasPaidPlan(w)
  /\ LetterOf[l] = w
  /\ asking' = [asking EXCEPT ![x] = [pc |-> "call", by |-> w, about |-> l, from |-> ResumeSummary]]
  /\ muddled' = IF Others(l) = {} THEN muddled ELSE muddled \cup {l}
  /\ UNCHANGED <<tier, readable, letter, told>>

\* The AI answers, or fails and a template answers in its place.
Generate(x, by) ==
  /\ asking[x].pc = "call"
  /\ asking' = [asking EXCEPT ![x] = [pc |-> "write", about |-> asking[x].about,
                   text |-> [by |-> by, owner |-> asking[x].by, from |-> asking[x].from, of |-> x]]]
  /\ UNCHANGED <<tier, readable, letter, told, muddled>>

\* The letter goes to the row by its id, over whatever is there.
PersistLetter_Never(x) ==
  /\ asking[x].pc = "write"
  /\ asking' = [asking EXCEPT ![x].pc = "answer"]
  /\ UNCHANGED <<tier, readable, letter, told, muddled>>
PersistLetter(x) ==
  /\ asking[x].pc = "write"
  /\ letter' = [letter EXCEPT ![asking[x].about] = asking[x].text]
  /\ asking' = [asking EXCEPT ![x].pc = "answer"]
  /\ UNCHANGED <<tier, readable, told, muddled>>

AnswerLetter(x) ==
  /\ asking[x].pc = "answer"
  /\ told' = [told EXCEPT ![asking[x].about] = asking[x].text]
  /\ asking' = [asking EXCEPT ![x] = NoRequest]
  /\ UNCHANGED <<tier, readable, letter, muddled>>

\* The instance that serves a request goes down with it.
LoseRequest(x) ==
  /\ asking[x] # NoRequest
  /\ asking' = [asking EXCEPT ![x] = NoRequest]
  /\ muddled' = muddled \cup {asking[x].about}
  /\ UNCHANGED <<tier, readable, letter, told>>

\* An administrator grants a plan or takes it back.
SetTier(w) ==
  /\ tier' = [tier EXCEPT ![w] = IF @ = "free" THEN "paid" ELSE "free"]
  /\ UNCHANGED <<readable, letter, asking, told, muddled>>

\* A resume is parsed, or deleted.
Reparse(which) ==
  /\ readable' = [readable EXCEPT ![which] = ~ @]
  /\ UNCHANGED <<tier, letter, asking, told, muddled>>

LettersInit ==
  /\ tier = [w \in Writer |-> "free"] /\ letter = [l \in Letter |-> NoLetter]
  /\ readable = [own |-> TRUE, active |-> FALSE]
  /\ asking = [x \in Request |-> NoRequest] /\ muddled = {} /\ told = [l \in Letter |-> NoLetter]

LettersNext ==
  \/ \E x \in Request :
       \/ \E w \in Writer, l \in Letter : CoverLetter(x, w, l)
       \/ \E by \in {"ai", "template"} : Generate(x, by)
       \/ PersistLetter(x) \/ AnswerLetter(x) \/ LoseRequest(x)
  \/ \E w \in Writer : SetTier(w)
  \/ \E which \in {"own", "active"} : Reparse(which)

-----------------------------------------------------------------------------
(* The routes that keep nothing: one step each, and of what they read only its being there    *)
(* matters.  An outage of the AI is answered by a template or static questions, never refused. *)

Outage == [questions |-> <<>>, feedback |-> FALSE, failed |-> TRUE]

\* An external posting has no application: what is read is the active resume, and its text is not.
CoverLetterForExternalJob(active, company, failed) ==
  [by |-> IF failed THEN "template" ELSE "ai", from |-> IF active THEN "active" ELSE "none",
   company |-> IF company = "" THEN "the company" ELSE company, description |-> ""]

\* The questions' categories.
StaticQuestions == <<"experience", "behavioral", "behavioral">>

InterviewForExternalJob(ai) ==
  IF ai.failed THEN [questions |-> StaticQuestions, feedback |-> FALSE, by |-> "static"]
  ELSE [questions |-> ai.questions, feedback |-> ai.feedback, by |-> "ai"]
Interview_Questions(kind, ai) == InterviewForExternalJob(ai)
Interview(kind, ai) ==
  IF ai.failed /\ kind = "feedback" THEN [questions |-> <<>>, feedback |-> TRUE, by |-> "static"]
  ELSE InterviewForExternalJob(ai)

\* The share of each kind of question, in whole percents.
ExtensionInterview(result) ==
  LET total == IF result.questions = <<>> THEN 1 ELSE Len(result.questions)
      count(c) == Cardinality({k \in DOMAIN result.questions : result.questions[k] = c})
  IN [questionTypes |-> [c \in {result.questions[k] : k \in DOMAIN result.questions} |->
                           (200 * count(c) + total) \div (2 * total)],
      topQuestions |-> result.questions, model |-> result.by]

-----------------------------------------------------------------------------
(* Properties. *)

\* What one account can cost in an hour is bounded, from however many addresses it comes: the
\* limit, once for each route and each instance it can reach.
CostIsBounded ==
  \A w \in Writer, t \in 1 .. LastHalfHour :
    Cardinality({c \in made : c[1] = w /\ c[2] \in t .. t + Hour - 1})
      <= HourlyLimit * Cardinality(Metered) * (Cardinality(Server) + restarts)

\* An account is refused for what it sent itself, never for its neighbours behind one address:
\* within two hours it was let through the limit's worth of times on that route.  (Two: a request
\* over the limit blocks for an hour, during which the first ones expire.)
RefusalsAreEarned ==
  refused # Nobody =>
    Cardinality({c \in made : c[1] = refused[1] /\ c[4] = refused[2] /\ c[2] + 2 * Hour > hour}) >= HourlyLimit

\* The letter on an application was asked for by its candidate, and it is the one they were
\* last shown unless two of their requests overlapped or an answer was lost.
LettersAreAsShown ==
  \A l \in Letter :
    /\ letter[l] # NoLetter => letter[l].owner = LetterOf[l]
    /\ l \in muddled \/ letter[l] = told[l]
       \/ \E x \in Request : asking[x].pc = "answer" /\ asking[x].about = l /\ asking[x].text = letter[l]

\* Whether the AI answers or not, whoever asks about an interview gets what they asked for: questions
\* from an outage of the AI when they asked for questions, a word about their answer when they asked
\* for that; a text is the AI's only if it wrote it; and the shares of the kinds of questions make
\* up a whole, up to half a percent for each kind.
PreparationIsUsable ==
  \A ai \in Generated \cup {Outage}, kind \in {"questions", "feedback"} :
    LET r == Interview(kind, ai)
        x == ExtensionInterview(InterviewForExternalJob(ai))
        shares == x.questionTypes
        SumOf[S \in SUBSET DOMAIN shares] ==
          IF S = {} THEN 0 ELSE LET c == CHOOSE c \in S : TRUE IN shares[c] + SumOf[S \ {c}]
        off == SumOf[DOMAIN shares] - 100
    IN /\ (r.by = "ai") = ~ai.failed /\ (x.model = "ai") = ~ai.failed
       /\ ai.failed => (r.questions # <<>>) = (kind = "questions") /\ r.feedback = (kind = "feedback")
       /\ ai.failed => x.topQuestions # <<>>
       /\ x.topQuestions # <<>> => 2 * (IF off < 0 THEN 0 - off ELSE off) <= Cardinality(DOMAIN shares)
       /\ \A active \in BOOLEAN : CoverLetterForExternalJob(active, "", ai.failed).from = "active" => active
=============================================================================
