------------------------------ MODULE Administration ------------------------------
(***************************************************************************)
(* What administrators do and the trail it leaves: addresses put on the            *)
(* suppression list (and the mail that must then stay unsent), accounts suspended,  *)
(* reopened or deleted, alerts acknowledged, the health page.                       *)
(*                                                                           *)
(* A call is a row of steps, other calls in between: the decision is read, the      *)
(* change written, the audit row written last; the process may die between them,     *)
(* and an audit row that cannot be written is given up.  AdminUserRepository's       *)
(* cache drop is in Accounts.                                                       *)
(*                                                                           *)
(* An operator named after another with a suffix, as Suppress_Latest, is a mutated   *)
(* form of it that no action uses.                                                  *)
(***************************************************************************)
EXTENDS Naturals, Sequences, FiniteSets

CONSTANTS
  Administrator,  \* accounts with the admin panel, the only ones administered here
  Mailbox,        \* mailboxes
  Writing,        \* ways to write one address: its case and the space around it
  Task,           \* calls in progress
  Mailing,        \* mails being sent
  Notice,         \* rows of system_events
  MaxTasks        \* calls at most

AdminStatus == {"ACTIVE", "SUSPENDED", "DEACTIVATED"}
NoAdmin == 0
ASSUME AdministrationAssumption ==
  /\ MaxTasks \in Nat /\ Administrator \subseteq Nat \ {NoAdmin} /\ Notice \subseteq Nat
  /\ \E w \in Writing : TRUE

VARIABLES
  suppression, \* rows of suppressed_emails
  mailing,     \* each mail: where its sending stands, and whether its address was barred at the call
  member,      \* rows of users
  task,        \* calls in progress
  trail,       \* admin_audit_logs, oldest first
  notices,     \* rows of system_events
  page,        \* the health page last shown, and the critical alerts open then
  tasks,       \* calls begun
  tangled,     \* accounts changed by calls that overlapped, or whose audit row was lost
  firsts       \* what suppressed each mailbox first

adminVars == <<suppression, mailing, member, task, trail, notices, page, tasks, tangled, firsts>>

Unlisted == [by |-> 0]
SuppressedEmail == [by : Administrator]
NoTask == [pc |-> "idle"]
NoMail == [pc |-> "none"]
NoPage == [status |-> "ok", alarms |-> {}]

\* Both writer and reader lower the case and trim, so one mailbox has one row.
NormaliseEmail_AsWritten(box, writing) == <<box, writing>>
NormaliseEmail(box, writing) == <<box>>

Addresses == {NormaliseEmail(b, w) : b \in Mailbox, w \in Writing}
Suppressed(box, writing) == suppression[NormaliseEmail(box, writing)] # Unlisted

\* What is audited: one action for each status, so that nobody has to guess which.
StatusAuditAction ==
  [s \in AdminStatus |-> CASE s = "ACTIVE" -> "USER_REACTIVATED" [] s = "SUSPENDED" -> "USER_SUSPENDED"
                           [] s = "DEACTIVATED" -> "USER_DEACTIVATED"]
AuditActionType == {"EMAIL_SUPPRESSED", "USER_ACCOUNT_DELETED"} \cup {StatusAuditAction[s] : s \in AdminStatus}

\* A row of audit_logs names an account, or an address as the list writes it.
AuditLog ==
  [adminId : Administrator, actionType : AuditActionType, resourceType : {"USER"}, resourceId : Administrator]
  \cup [adminId : Administrator, actionType : {"EMAIL_SUPPRESSED"}, resourceType : {"EMAIL"}, resourceId : Addresses]

\* A row of system_events: its severity, once raised, and who acknowledged it.
SystemEventSeverity == {"INFO", "WARNING", "CRITICAL"}
SystemEvent == [severity : SystemEventSeverity \cup {"none"}, by : {{}} \cup {{a} : a \in Administrator}]

-----------------------------------------------------------------------------
(* The suppression list and the mails. *)

\* The gate comes before the transport is looked at.
CallSend(m, box, writing) ==
  /\ mailing[m] = NoMail
  /\ mailing' = [mailing EXCEPT ![m] =
                   [pc |-> "gate", box |-> box, writing |-> writing,
                    barred |-> \E w \in Writing : Suppressed(box, w)]]
  /\ UNCHANGED <<suppression, member, task, trail, notices, page, tasks, tangled, firsts>>

\* A suppressed address is skipped without an error; a lookup that fails sends nothing.
AssertSendable_FailOpen(m) == {"transmit"} \cup
  IF Suppressed(mailing[m].box, mailing[m].writing) THEN {"skipped"} ELSE {}
AssertSendable(m) == {"refused"} \cup
  IF Suppressed(mailing[m].box, mailing[m].writing) THEN {"skipped"} ELSE {"transmit"}

PassGate(m) ==
  /\ mailing[m].pc = "gate"
  /\ \E verdict \in AssertSendable(m) : mailing' = [mailing EXCEPT ![m].pc = verdict]
  /\ UNCHANGED <<suppression, member, task, trail, notices, page, tasks, tangled, firsts>>

\* The transport delivers or throws, and the caller hears which.
SendMail(m) ==
  /\ mailing[m].pc = "transmit"
  /\ \E outcome \in {"sent", "failed"} : mailing' = [mailing EXCEPT ![m].pc = outcome]
  /\ UNCHANGED <<suppression, member, task, trail, notices, page, tasks, tangled, firsts>>

-----------------------------------------------------------------------------
(* The admins' calls. *)

\* The guard of the panel: the account is live and its status ACTIVE.
MayAdminister(a) == member[a].status = "ACTIVE" /\ ~ member[a].deleted

BeginTask(t, record) ==
  /\ tasks < MaxTasks /\ task[t] = NoTask /\ MayAdminister(record.by)
  /\ task' = [task EXCEPT ![t] = record]
  /\ tasks' = tasks + 1

\* Another call in progress changes the same account.
Overlapped(record) ==
  \E u \in Task : task[u] # NoTask /\ task[u].on = record.on

\* Suppress first, then audit.
AskSuppression(t, a, box, writing) ==
  /\ BeginTask(t, [pc |-> "write", what |-> "suppress", by |-> a, on |-> NoAdmin, box |-> NormaliseEmail(box, writing)])
  /\ UNCHANGED <<suppression, mailing, member, trail, notices, page, tangled, firsts>>

\* setStatus: not one's own, and not a deleted account's.
AskStatus(t, a, b, status) ==
  LET r == [pc |-> "write", what |-> status, by |-> a, on |-> b, box |-> <<>>] IN
  /\ a # b /\ ~ member[b].deleted
  /\ BeginTask(t, r)
  /\ tangled' = IF Overlapped(r) THEN tangled \cup {b} ELSE tangled
  /\ UNCHANGED <<suppression, mailing, member, trail, notices, page, firsts>>

\* deleteAccount: any account that exists, one's own and a deleted one included.
AskDeletion(t, a, b) ==
  LET r == [pc |-> "write", what |-> "delete", by |-> a, on |-> b, box |-> <<>>] IN
  /\ BeginTask(t, r)
  /\ tangled' = IF Overlapped(r) THEN tangled \cup {b} ELSE tangled
  /\ UNCHANGED <<suppression, mailing, member, trail, notices, page, firsts>>

\* The upsert keeps the first record: its reason and its admin are the ones that count.
Suppress_Latest(t) ==
  [suppression EXCEPT ![task[t].box] = [by |-> task[t].by]]
Suppress(t) ==
  [suppression EXCEPT ![task[t].box] = IF @ = Unlisted THEN [by |-> task[t].by] ELSE @]

WriteSuppression(t) ==
  /\ task[t].pc = "write" /\ task[t].what = "suppress"
  /\ suppression' = Suppress(t)
  /\ firsts' = [firsts EXCEPT ![task[t].box] = IF @ = Unlisted THEN [by |-> task[t].by] ELSE @]
  /\ task' = [task EXCEPT ![t].pc = "audit"]
  /\ UNCHANGED <<mailing, member, trail, notices, page, tasks, tangled>>

\* setStatus writes by id; softDelete only a row that is not deleted, and closes its status too.
SoftDeleteMember_KeepingStatus(t) == [member EXCEPT ![task[t].on].deleted = TRUE]
SoftDeleteMember(t) ==
  [member EXCEPT ![task[t].on] = IF @.deleted THEN @ ELSE [deleted |-> TRUE, status |-> "DEACTIVATED"]]
WriteStatus(t) == [member EXCEPT ![task[t].on].status = task[t].what]

WriteMember(t) ==
  /\ task[t].pc = "write" /\ task[t].what # "suppress"
  /\ member' = IF task[t].what = "delete" THEN SoftDeleteMember(t) ELSE WriteStatus(t)
  /\ task' = [task EXCEPT ![t].pc = "audit"]
  /\ UNCHANGED <<suppression, mailing, trail, notices, page, tasks, tangled, firsts>>

\* What each call leaves behind.
AuditRow(call) ==
  IF call.what = "suppress" THEN [adminId |-> call.by, actionType |-> "EMAIL_SUPPRESSED", resourceType |-> "EMAIL", resourceId |-> call.box]
  ELSE [adminId |-> call.by, resourceType |-> "USER", resourceId |-> call.on,
        actionType |-> IF call.what = "delete" THEN "USER_ACCOUNT_DELETED" ELSE StatusAuditAction[call.what]]

\* The write of a call fails, or the process dies: nothing is audited.
FailTask_Audited(t) ==
  /\ task[t].pc \in {"write", "audit"}
  /\ trail' = Append(trail, AuditRow(task[t]))
  /\ task' = [task EXCEPT ![t] = NoTask]
  /\ tangled' = tangled \cup {task[t].on}
  /\ UNCHANGED <<suppression, mailing, member, notices, page, tasks, firsts>>
FailTask(t) ==
  /\ task[t].pc \in {"write", "audit"}
  /\ task' = [task EXCEPT ![t] = NoTask]
  /\ tangled' = IF task[t].pc = "audit" THEN tangled \cup {task[t].on} ELSE tangled
  /\ UNCHANGED <<suppression, mailing, member, trail, notices, page, tasks, firsts>>

\* AuditLogService.record; a failure is FailTask's second case, for it is swallowed.
RecordAudit(t) ==
  /\ task[t].pc = "audit"
  /\ trail' = Append(trail, AuditRow(task[t]))
  /\ task' = [task EXCEPT ![t] = NoTask]
  /\ UNCHANGED <<suppression, mailing, member, notices, page, tasks, tangled, firsts>>

-----------------------------------------------------------------------------
(* Alerts and the health page. *)

RaiseNotice(n, severity) ==
  /\ notices[n].severity = "none"
  /\ notices' = [notices EXCEPT ![n].severity = severity]
  /\ UNCHANGED <<suppression, mailing, member, task, trail, page, tasks, tangled, firsts>>

\* One conditional update: a second acknowledgement changes nothing and is shown the first.
Acknowledge(n, a) ==
  /\ notices[n].severity # "none" /\ MayAdminister(a)
  /\ notices' = [notices EXCEPT ![n].by = IF @ = {} THEN {a} ELSE @]
  /\ UNCHANGED <<suppression, mailing, member, task, trail, page, tasks, tangled, firsts>>

OpenNotices(severity) == {n \in Notice : notices[n].severity = severity /\ notices[n].by = {}}

DeriveStatus(critical, warning) ==
  IF critical # {} THEN "down" ELSE IF warning # {} THEN "degraded" ELSE "ok"

\* The database is probed, and counted only if it answered.  A count that fails takes the page
\* with it, but for the queue's; the counts of one page are taken at one point.
ShowPage(up) ==
  /\ page' = [status |-> IF up THEN DeriveStatus(OpenNotices("CRITICAL"), OpenNotices("WARNING")) ELSE "down",
              alarms |-> OpenNotices("CRITICAL")]
  /\ UNCHANGED <<suppression, mailing, member, task, trail, notices, tasks, tangled, firsts>>

-----------------------------------------------------------------------------

AdminInit ==
  /\ suppression = [x \in Addresses |-> Unlisted]
  /\ mailing = [m \in Mailing |-> NoMail]
  /\ member = [a \in Administrator |-> [status |-> "ACTIVE", deleted |-> FALSE]]
  /\ task = [t \in Task |-> NoTask]
  /\ trail = <<>>
  /\ notices = [n \in Notice |-> [severity |-> "none", by |-> {}]]
  /\ page = NoPage
  /\ tasks = 0 /\ tangled = {}
  /\ firsts = [x \in Addresses |-> Unlisted]

AdminNext ==
  \/ \E m \in Mailing, b \in Mailbox, w \in Writing : CallSend(m, b, w)
  \/ \E m \in Mailing : PassGate(m) \/ SendMail(m)
  \/ \E t \in Task, a \in Administrator, b \in Mailbox, w \in Writing : AskSuppression(t, a, b, w)
  \/ \E t \in Task, a, b \in Administrator, s \in AdminStatus : AskStatus(t, a, b, s)
  \/ \E t \in Task, a, b \in Administrator : AskDeletion(t, a, b)
  \/ \E t \in Task : WriteSuppression(t) \/ WriteMember(t) \/ FailTask(t) \/ RecordAudit(t)
  \/ \E n \in Notice, s \in {"CRITICAL", "WARNING"} : RaiseNotice(n, s)
  \/ \E n \in Notice, a \in Administrator : Acknowledge(n, a)
  \/ \E up \in BOOLEAN : ShowPage(up)

-----------------------------------------------------------------------------
(* Properties. *)

\* A mail asked for after its mailbox was suppressed, however its address is written, never
\* goes out, and not being able to ask is not a permission.
BarredMailStaysUnsent == \A m \in Mailing : mailing[m].pc = "sent" => ~ mailing[m].barred

\* The suppression on record is the first one, whatever admins repeat at once.
FirstSuppressionStands == suppression = firsts

AdministrationTypeOK ==
  /\ suppression \in [Addresses -> {Unlisted} \cup SuppressedEmail] /\ trail \in Seq(AuditLog)
  /\ notices \in [Notice -> SystemEvent]
  /\ member \in [Administrator -> [status : AdminStatus, deleted : BOOLEAN]]

\* Nothing is audited that did not happen: the address is listed, the account deleted; and the
\* last status audited is the account's, but where calls on it overlapped or an audit was lost.
AuditIsTrue ==
  /\ \A i \in 1..Len(trail) :
       /\ trail[i].actionType = "EMAIL_SUPPRESSED" => suppression[trail[i].resourceId] # Unlisted
       /\ trail[i].actionType = "USER_ACCOUNT_DELETED" => member[trail[i].resourceId].deleted
  /\ \A a \in Administrator \ tangled :
       LET rows == {i \in 1..Len(trail) : trail[i].resourceType = "USER" /\ trail[i].resourceId = a}
           settled == \A t \in Task : task[t] # NoTask => task[t].on # a IN
       rows # {} /\ settled =>
         LET last == trail[CHOOSE i \in rows : \A j \in rows : j <= i] IN
         IF last.actionType = "USER_ACCOUNT_DELETED" THEN member[a].status = "DEACTIVATED"
         ELSE last.actionType = StatusAuditAction[member[a].status]

\* The page never calls a system with an open critical alert well, whoever acknowledged what else.
PageSeesTheAlarm == page.status # "down" => page.alarms = {}

AdministrationIsTrue ==
  AdministrationTypeOK /\ BarredMailStaysUnsent /\ FirstSuppressionStands /\ AuditIsTrue /\ PageSeesTheAlarm
=============================================================================
