------------------------------- MODULE RequestEdge -------------------------------
(***************************************************************************)
(* The edge of the HTTP server: the guards, the interceptor that answers a       *)
(* repeated POST from the receipt of the first, the one that answers a GET by     *)
(* 304, and the filter that turns what was thrown into a status.                *)
(*                                                                           *)
(* POST /applications stands for the idempotent routes: a user sends an          *)
(* application under a key, loses the answer and sends it again.  GET /jobs/:id    *)
(* stands for the cacheable ones: its body is a posting and the company behind    *)
(* it, its validator the posting's updatedAt.  OfflineQueue has the same receipts  *)
(* behind POST /sync/batch.                                                    *)
(***************************************************************************)
EXTENDS Integers, FiniteSets

CONSTANTS
  Caller,        \* users
  Call,          \* requests in progress at a time
  Opening,       \* jobs one can apply to
  IdemKey,       \* keys the callers attach
  LastEdgeMs,    \* bound on the milliseconds that pass
  MaxPosts,      \* bound on the POSTs
  MaxEdgeFaults, \* bound on deaths, lost receipts and expiries
  MaxTexts       \* bound on the edits of the posting and of its company

NoCall == [pc |-> "idle"]
NoneKept == [state |-> "none"]
NoCopy == [tag |-> <<>>, body |-> <<>>]

VARIABLES
  filed,       \* [by, opening, key]: the rows of applications, and the key each came under
  kept,        \* key -> its receipt
  post,        \* call -> the POST being served
  posts, edgeFaults,
  excusedKeys, \* keys whose calls overlapped, or whose receipt was lost, expired or cut off
  answers,     \* [by, opening, key, status, about] given so far
  edgeClock,   \* milliseconds
  opened,          \* the posting
  firmText,    \* the row of its company
  browser      \* the copy a browser keeps, with its validator
postVars == <<filed, kept, post, posts, edgeFaults, excusedKeys, answers>>
getVars == <<edgeClock, opened, firmText, browser>>

\* Is there an application of the user to the opening?
Applied(p) == \E f \in filed : f.by = p.by /\ f.opening = p.opening

-----------------------------------------------------------------------------
(* Guards.  JwtAuthGuard before everything; what is public passes. *)

\* A token that is missing, does not verify, has expired or is known to be revoked: 401.  A
\* blacklist that fails in a way nobody foresaw lets the request pass.
CanActivate(token, verdict) == token = "valid" /\ verdict # "revoked"

-----------------------------------------------------------------------------
(* The filter. *)

\* An HttpException keeps its status; anything else is a 500 that says nothing and is reported.
StatusOf(thrown) ==
  CASE thrown = "already applied" -> 400
    [] thrown = "key used differently" -> 409
    [] thrown = "unauthorized" -> 401
    [] OTHER -> 500

Answer(c, status, about) ==
  /\ answers' = answers \cup {[by |-> post[c].by, opening |-> post[c].opening, key |-> post[c].key,
                               status |-> status, about |-> about]}
  /\ post' = [post EXCEPT ![c] = NoCall]

Catch(c, thrown) == Answer(c, StatusOf(thrown), <<>>)

Proceed(c, pc) == post' = [post EXCEPT ![c].pc = pc] /\ UNCHANGED answers

-----------------------------------------------------------------------------
(* POST under a key. *)

\* A user sends an application, the first time or again.  Two calls that file the same
\* application at a time excuse their keys.
SendPost(c, u, o, k) ==
  LET rivals == {d \in Call : post[d] # NoCall /\ post[d].by = u /\ post[d].opening = o} IN
  /\ posts < MaxPosts /\ post[c] = NoCall
  /\ post' = [post EXCEPT ![c] = [pc |-> "guard", by |-> u, opening |-> o, key |-> k]]
  /\ posts' = posts + 1
  /\ excusedKeys' = IF rivals = {} THEN excusedKeys
                    ELSE excusedKeys \cup {k} \cup {post[d].key : d \in rivals}
  /\ UNCHANGED <<filed, kept, edgeFaults, answers>>

Guard(c, token, verdict) ==
  /\ post[c].pc = "guard"
  /\ IF CanActivate(token, verdict) THEN Proceed(c, "find") ELSE Catch(c, "unauthorized")
  /\ UNCHANGED <<filed, kept, posts, edgeFaults, excusedKeys>>

\* The receipt of the key is this caller's, of this route and of this body.
IsReplay_OfAnyone(r, p) == r.opening = p.opening
IsReplay_OfAnyBody(r, p) == r.by = p.by
IsReplay(r, p) == r.by = p.by /\ r.opening = p.opening

\* An expired receipt is absent; a live one answers, or refuses the key.
FindReceipt(c) ==
  LET r == kept[post[c].key] IN
  /\ post[c].pc = "find"
  /\ CASE r.state # "live" -> Proceed(c, "handle")
       [] r.state = "live" /\ IsReplay(r, post[c]) -> Answer(c, 201, r.about)
       [] OTHER -> Catch(c, "key used differently")
  /\ UNCHANGED <<filed, kept, posts, edgeFaults, excusedKeys>>

\* The handler finds an application of the caller to the opening, or goes on to insert one.
FindApplication(c) ==
  /\ post[c].pc = "handle"
  /\ IF Applied(post[c]) THEN Catch(c, "already applied") ELSE Proceed(c, "insert")
  /\ UNCHANGED <<filed, kept, posts, edgeFaults, excusedKeys>>

\* The unique index has the last word, and its refusal is no HttpException.
InsertFiled(c) ==
  /\ post[c].pc = "insert"
  /\ IF Applied(post[c]) THEN Catch(c, "P2002") /\ UNCHANGED filed
     ELSE /\ filed' = filed \cup {[by |-> post[c].by, opening |-> post[c].opening, key |-> post[c].key]}
          /\ Proceed(c, "store")
  /\ UNCHANGED <<kept, posts, edgeFaults, excusedKeys>>

\* The receipt is awaited before the answer goes out; a key that has a row, live or expired,
\* keeps it, and the answer goes out all the same.
StoreAnswer_Never(c) ==
  /\ post[c].pc = "store"
  /\ Answer(c, 201, <<post[c].by, post[c].opening>>)
  /\ UNCHANGED <<filed, kept, posts, edgeFaults, excusedKeys>>
StoreAnswer(c) ==
  LET k == post[c].key
      about == <<post[c].by, post[c].opening>> IN
  /\ post[c].pc = "store"
  /\ kept' = IF kept[k] # NoneKept THEN kept
             ELSE [kept EXCEPT ![k] = [state |-> "live", by |-> post[c].by, opening |-> post[c].opening,
                                       about |-> about]]
  /\ Answer(c, 201, about)
  /\ UNCHANGED <<filed, posts, edgeFaults, excusedKeys>>

\* The insert of the receipt fails: logged, and the answer goes out without one.
StoreFails(c) ==
  /\ edgeFaults < MaxEdgeFaults /\ post[c].pc = "store"
  /\ edgeFaults' = edgeFaults + 1
  /\ excusedKeys' = excusedKeys \cup {post[c].key}
  /\ Answer(c, 201, <<post[c].by, post[c].opening>>)
  /\ UNCHANGED <<filed, kept, posts>>

\* The process dies before it answers.
CutOff(c) ==
  /\ edgeFaults < MaxEdgeFaults /\ post[c] # NoCall
  /\ edgeFaults' = edgeFaults + 1
  /\ excusedKeys' = excusedKeys \cup {post[c].key}
  /\ post' = [post EXCEPT ![c] = NoCall]
  /\ UNCHANGED <<filed, kept, posts, answers>>

\* A day passes over a receipt.
ReceiptExpires(k) ==
  /\ edgeFaults < MaxEdgeFaults /\ kept[k].state = "live"
  /\ edgeFaults' = edgeFaults + 1
  /\ excusedKeys' = excusedKeys \cup {k}
  /\ kept' = [kept EXCEPT ![k].state = "expired"]
  /\ UNCHANGED <<filed, post, posts, answers>>

\* The sweep of the receipts takes it.
DeleteExpired(k) ==
  /\ kept[k].state = "expired"
  /\ kept' = [kept EXCEPT ![k] = NoneKept]
  /\ UNCHANGED <<filed, post, posts, edgeFaults, excusedKeys, answers>>

-----------------------------------------------------------------------------
(* GET with a validator. *)

\* The employer edits the posting, or publishes the draft: updatedAt is the millisecond.
EditAd(draft) ==
  /\ opened.text < MaxTexts /\ (draft => opened.draft)
  /\ opened' = [text |-> opened.text + 1, at |-> edgeClock, twice |-> (opened.at = edgeClock), draft |-> draft]
  /\ UNCHANGED <<edgeClock, firmText, browser>>

\* The company has a row, and an updatedAt, of its own.
EditFirm ==
  /\ firmText < MaxTexts
  /\ firmText' = firmText + 1
  /\ UNCHANGED <<edgeClock, opened, browser>>

EdgeTick ==
  /\ edgeClock < LastEdgeMs
  /\ edgeClock' = edgeClock + 1
  /\ UNCHANGED <<opened, firmText, browser>>

\* The posting with the name and the profile of its company.
WithCompanyName == [opened |-> opened.text, firm |-> firmText]

\* A record with an updatedAt is tagged by it, anything else by its content.
BuildEtag_Constant == <<"W">>
BuildEtag == <<"W", opened.at>>

\* A tag is only ever compared with another of its route, so weak comparison is equality.
IsNoneMatch(sent, tag) == sent # <<>> /\ sent = tag

\* A draft is not found.  When the tag still matches the answer is 304 without a body, and the
\* browser keeps what it has; else it gets body and tag.
Fetch ==
  /\ ~ opened.draft
  /\ browser' = IF IsNoneMatch(browser.tag, BuildEtag) THEN browser
                ELSE [tag |-> BuildEtag, body |-> WithCompanyName]
  /\ UNCHANGED <<edgeClock, opened, firmText>>

-----------------------------------------------------------------------------
PostsInit ==
  /\ filed = {} /\ kept = [k \in IdemKey |-> NoneKept] /\ post = [c \in Call |-> NoCall]
  /\ posts = 0 /\ edgeFaults = 0 /\ excusedKeys = {} /\ answers = {}

PostsNext ==
  \/ \E c \in Call :
       \/ \E u \in Caller, o \in Opening, k \in IdemKey : SendPost(c, u, o, k)
       \/ \E token \in {"valid", "bad"}, verdict \in {"clear", "revoked"} : Guard(c, token, verdict)
       \/ FindReceipt(c) \/ FindApplication(c) \/ InsertFiled(c)
       \/ StoreAnswer(c) \/ StoreFails(c) \/ CutOff(c)
  \/ \E k \in IdemKey : ReceiptExpires(k) \/ DeleteExpired(k)

GetsInit ==
  /\ edgeClock = 0 /\ opened = [text |-> 0, at |-> 0, twice |-> FALSE, draft |-> TRUE]
  /\ firmText = 0 /\ browser = NoCopy

GetsNext == (\E draft \in BOOLEAN : EditAd(draft)) \/ EditFirm \/ EdgeTick \/ Fetch

-----------------------------------------------------------------------------
(* Properties. *)

\* A caller is told an application was filed only of one that is, and theirs: the answer of a
\* receipt is never another's, nor about another opening, whichever keys clients mix up.
AnswersAreTheCallers ==
  \A a \in answers : a.status = 201 => a.about = <<a.by, a.opening>> /\ Applied(a)

\* Under one key a retry is the first answer again: "already applied", a server error or a
\* refusal of the key comes only of calls that overlapped, a receipt that was lost, or a key
\* that also served for something else.
RetriesAreQuiet ==
  \A a \in answers :
    /\ a.status = 400 => a.key \in excusedKeys
                         \/ \E f \in filed : f.by = a.by /\ f.opening = a.opening /\ f.key # a.key
    /\ a.status = 409 => a.key \in excusedKeys \/ ~ IsReplay(kept[a.key], a)
    /\ a.status = 500 => a.key \in excusedKeys

\* What a browser is told to keep is the posting as it is: only edits within one millisecond,
\* or of the company, go unseen behind a validator that still matches.
CopiesFollowThePosting ==
  IsNoneMatch(browser.tag, BuildEtag) =>
    /\ browser # NoCopy
    /\ opened.twice \/ browser.body.opened = opened.text
=============================================================================
