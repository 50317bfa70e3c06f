----------------------------- MODULE OrgRequests -----------------------------
(***************************************************************************)
(* How the requests of organizations are handled: by the portal's views    *)
(* (N6Lib/n6lib/pyramid_commons/_pyramid_commons.py) and the Admin Panel   *)
(* (N6AdminPanel/n6adminpanel/app.py and org_request_helpers.py), each     *)
(* HTTP request by one handler, in one transaction on the Auth DB and in   *)
(* what follows its commit: users get mails.  For a new request a ticket   *)
(* is opened in an RT system, which knows nothing of transactions.         *)
(*                                                                         *)
(* Transactions are serializable: what one has read no other may write     *)
(* until the end of the former.                                            *)
(***************************************************************************)
EXTENDS OrgRegister

CONSTANTS
  Handlers,  (* Threads of the web servers.                                 *)
  Ticketed   (* The requests of the kinds for which tickets are configured. *)

ASSUME OrgRequestsAssumption == Ticketed \subseteq Registrations \cup Updates

VARIABLES
  jobs,      (* What each handler is doing.                                 *)
  tickets,   (* The requests for which a ticket exists in the RT system.    *)
  lost,      (* The requests not stored although a ticket was there: a
                history variable, like                                      *)
  rejected   (* whether a constraint of the database had to reject a
                pending request.                                            *)

history == <<lost, rejected>>
vars == <<db, jobs, tickets, history>>

-----------------------------------------------------------------------------
(* Transactions.  A handler that has checked what it is going to do has read
   some rows; one that has inserted its request has written them.  `rows` are
   the requests and organizations concerned; the organization stands for its
   users and for its config update requests, too. *)

Idle == [step |-> "idle"]

RowsOf(r, c) == IF r \in Updates THEN {c.org} ELSE {r, c.org}

Reads(h, row) == jobs[h].step = "checked" /\ row \in jobs[h].rows
Writes(h, row) == jobs[h].step \in {"inserted", "ticketed"} /\ row \in jobs[h].rows

MayRead(h, rows) == \A g \in Handlers \ {h}, row \in rows : ~Writes(g, row)
MayWriteWhatIsRead(h, rows) == \A g \in Handlers \ {h}, row \in rows : ~Writes(g, row)
MayWrite(h, rows) ==
  \A g \in Handlers \ {h}, row \in rows : ~Reads(g, row) /\ ~Writes(g, row)

Start(h, step, r, c, target, rows) ==
  jobs' = [jobs EXCEPT ![h] = [step |-> step, req |-> r, content |-> c, target |-> target,
                               rows |-> rows, to |-> {}]]
Proceed(h, step, to) == jobs' = [jobs EXCEPT ![h] = [@ EXCEPT !.step = step, !.to = to]]
Finish(h) == jobs' = [jobs EXCEPT ![h] = Idle]
StartMailing(h, to) == IF to = {} THEN Finish(h) ELSE Proceed(h, "mailing", to)

(* A request of the portal gets a new id. *)
Unused(r) ==
  /\ r \notin DOMAIN requests /\ r \notin tickets
  /\ \A h \in Handlers : jobs[h] # Idle => jobs[h].req # r

-----------------------------------------------------------------------------
(* The portal. *)

(* N6OrgConfigView: a POST of a non-blocked user.  If there is a pending
   request, it is shown to the user and nothing else happens. *)
PostUpdate(h) ==
  /\ jobs[h] = Idle
  /\ \E r \in Updates : \E c \in Wanted[r] :
       /\ Unused(r)
       /\ c.org \in DOMAIN orgs /\ NonBlocked(c.org) # {}
       /\ MayRead(h, {c.org})
       /\ PendingUpdates(c.org) = {}
       /\ Start(h, "checked", r, c, "new", {c.org})
  /\ UNCHANGED <<db, tickets, history>>

(* N6RegistrationView.  Nothing is checked in the database: anyone may ask
   for anything. *)
PostRegistration(h) ==
  /\ jobs[h] = Idle
  /\ \E r \in Registrations : \E c \in Wanted[r] :
       Unused(r) /\ Start(h, "inserted", r, [c EXCEPT !.grouped = FALSE], "new", {})
  /\ UNCHANGED <<db, tickets, history>>

(* The request is inserted, and those to be told are looked up.  Two pending
   requests of an organization violate UniqueConstraint('org_id',
   'pending_marker'). *)
Insert(h) ==
  /\ jobs[h].step = "checked" /\ jobs[h].target = "new"
  /\ MayWrite(h, jobs[h].rows)
  /\ LET o == jobs[h].content.org
     IN  IF PendingUpdates(o) # {}
           THEN Finish(h) /\ rejected' = TRUE
           ELSE Proceed(h, "inserted", NonBlocked(o)) /\ UNCHANGED rejected
  /\ UNCHANGED <<db, tickets, lost>>

(* RTClientAPI.new_ticket(). *)
CreateTicket(h) ==
  /\ jobs[h].step = "inserted" /\ jobs[h].req \in Ticketed
  /\ tickets' = tickets \cup {jobs[h].req}
  /\ Proceed(h, "ticketed", jobs[h].to)
  /\ UNCHANGED <<db, history>>

(* The id of the ticket is set, and the transaction is committed. *)
StoreRequest(h) ==
  /\ jobs[h].step \in {"inserted", "ticketed"}
  /\ jobs[h].step = "inserted" => jobs[h].req \notin Ticketed
  /\ Store(jobs[h].req, jobs[h].content, jobs[h].step = "ticketed")
  /\ StartMailing(h, jobs[h].to)
  /\ UNCHANGED <<orgs, users, tickets, lost, rejected>>

-----------------------------------------------------------------------------
(* The Admin Panel. *)

(* A form is submitted: the fields of the request are set, and one of the
   buttons (or just "save": target "keep") may lead to another status.  What
   is not allowed ends in an error message. *)
Submit(h) ==
  /\ jobs[h] = Idle
  /\ \E r \in DOMAIN requests : \E c \in Wanted[r], target \in Targets :
       /\ r \in Updates => c.org = requests[r].content.org
       /\ MayRead(h, RowsOf(r, c))
       /\ target # "keep" => MayBecome(r, c, target)
       /\ Start(h, "checked", r, c, target, RowsOf(r, c))
  /\ UNCHANGED <<db, tickets, history>>

IsAnnounced(r, target) == target = "accepted" \/ (target = "discarded" /\ r \in Updates)

(* Whether the database rejects what a handler writes: a second pending request
   of an organization, an organization or a login that exists. *)
IsSecondPending(r, c, target) ==
  r \in Updates /\ MarkerFor(StatusAfter(r, target)) /\ OthersPending(r, c) # {}
IsTaken(r, c, target) ==
  r \in Registrations /\ target = "accepted"
    /\ (c.org \in DOMAIN orgs \/ c.email \in DOMAIN users)

(* The rows are written and the transaction is committed. *)
Commit(h) ==
  /\ jobs[h].step = "checked" /\ jobs[h].target # "new"
  /\ MayWrite(h, jobs[h].rows)
  /\ LET r == jobs[h].req
         c == jobs[h].content
         target == jobs[h].target
     IN  /\ ~IsSecondPending(r, c, target) /\ ~IsTaken(r, c, target)
         /\ Decide(r, c, target)
         /\ IF IsAnnounced(r, target) THEN Proceed(h, "committed", {}) ELSE Finish(h)
  /\ UNCHANGED <<tickets, lost, rejected>>

(* The database rejects it.  That a login is taken is noticed only here. *)
Reject(h) ==
  /\ jobs[h].step = "checked" /\ jobs[h].target # "new"
  /\ MayWrite(h, jobs[h].rows)
  /\ LET r == jobs[h].req
         c == jobs[h].content
         target == jobs[h].target
     IN  /\ IsSecondPending(r, c, target) \/ IsTaken(r, c, target)
         /\ rejected' = (rejected \/ IsSecondPending(r, c, target))
  /\ Finish(h)
  /\ UNCHANGED <<db, tickets, lost>>

(* just_after_commit(): get_notice_recipients(), in a transaction of its own.
   Whom to tell of a new organization is read again from the request. *)
Recipients(r, c) ==
  IF r \in Updates
    THEN NonBlocked(c.org)
    ELSE {u \in {requests[r].content.email} \cap DOMAIN users : ~users[u].blocked}

LookUpRecipientsBeforeCommit(h) ==
  /\ jobs[h].step = "checked" /\ IsAnnounced(jobs[h].req, jobs[h].target)
  /\ StartMailing(h, Recipients(jobs[h].req, jobs[h].content))
  /\ UNCHANGED <<db, tickets, history>>

LookUpRecipients(h) ==
  /\ jobs[h].step = "committed"
  /\ MayRead(h, jobs[h].rows)
  /\ StartMailing(h, Recipients(jobs[h].req, jobs[h].content))
  /\ UNCHANGED <<db, tickets, history>>

(* The mails are sent one by one.  SMTP errors are logged only. *)
SendMail(h) ==
  /\ jobs[h].step = "mailing"
  /\ \E u \in jobs[h].to : StartMailing(h, jobs[h].to \ {u})
  /\ UNCHANGED <<db, tickets, history>>

-----------------------------------------------------------------------------
(* What else happens. *)

(* Any exception, a deadlock that the database resolves, a failure of the
   commit, a killed process: before its commit the transaction is rolled back,
   later the rest of the mails is not sent. *)
Break(h) ==
  /\ jobs[h] # Idle
  /\ lost' = IF jobs[h].step = "ticketed" THEN lost \cup {jobs[h].req} ELSE lost
  /\ Finish(h)
  /\ UNCHANGED <<db, tickets, rejected>>

NobodyHas(o) == \A h \in Handlers : ~Reads(h, o) /\ ~Writes(h, o)

OtherTransaction ==
  /\ \/ \E u \in Logins, o \in Orgs : NobodyHas(o) /\ CreateUser(u, o)
     \/ \E u \in DOMAIN users : NobodyHas(users[u].org) /\ ToggleBlocked(u)
  /\ UNCHANGED <<jobs, tickets, history>>

Init ==
  /\ RegisterInit
  /\ jobs = [h \in Handlers |-> Idle]
  /\ tickets = {} /\ lost = {} /\ rejected = FALSE

Handle(h) ==
  \/ PostUpdate(h) \/ PostRegistration(h) \/ Insert(h) \/ CreateTicket(h) \/ StoreRequest(h)
  \/ Submit(h) \/ Commit(h) \/ Reject(h) \/ LookUpRecipients(h) \/ SendMail(h)

Next == (\E h \in Handlers : Handle(h) \/ Break(h)) \/ OtherTransaction

Spec == Init /\ [][Next]_vars

-----------------------------------------------------------------------------
(* Properties. *)

(* The transactions of the handlers are as if they came one after another:
   what has been checked when a form or a POST arrived still holds when its
   transaction is committed (org_request_helpers.py, just_before_commit();
   auth_db/config.py, isolation_level). *)
ImplementsRegister == RegisterSpec

(* That an organization has at most one pending request is seen to by the code
   (pending_config_update_request and the checks based on it); the constraint
   in the database, whose error would tell the user nothing, never has to. *)
ConstraintIsNotNeeded == ~rejected

(* An accepted update has the effect it announces, whatever became of its users
   since it was posted: who is to be deactivated is blocked, also if to be
   activated too, the others to be activated are there and not blocked, and no
   user of another organization changes. *)
UpdateTakesEffect ==
  [][\A r \in Updates :
       r \in DOMAIN requests /\ requests[r].status # "accepted" /\ requests'[r].status = "accepted" =>
         LET c == requests'[r].content
         IN  /\ \A u \in c.remove \cap DOMAIN users' :
                  users'[u].org = c.org => users'[u].blocked
             /\ \A u \in c.add \ c.remove :
                  /\ u \in DOMAIN users'
                  /\ users'[u].org = c.org => ~users'[u].blocked
             /\ \A u \in DOMAIN users : users[u].org # c.org => users'[u] = users[u]]_vars

(* What leaves the system is true.  No mail tells of what has not been committed;
   those about an update go to users of its organization.  And a ticket has its
   request, which knows it -- or is about to, with nothing in the way of the
   commit but a failure of the database or of the process ("the intent is to
   minimize the likelihood", _pyramid_commons.py:1537). *)
MailsAreTrue ==
  \A h \in Handlers : jobs[h].step = "mailing" =>
    LET r == jobs[h].req
    IN  /\ r \in DOMAIN requests
        /\ jobs[h].target = "accepted" => requests[r].status = "accepted"
        /\ jobs[h].target = "discarded" => requests[r].status # "new"
        /\ r \in Updates => \A u \in jobs[h].to : users[u].org = requests[r].content.org

TicketsAreBacked ==
  \A r \in tickets :
    \/ r \in lost
    \/ r \in DOMAIN requests /\ requests[r].ticket
    \/ \E h \in Handlers :
         /\ jobs[h].step = "ticketed" /\ jobs[h].req = r
         /\ r \in Updates => PendingUpdates(jobs[h].content.org) = {}
         /\ MayWrite(h, jobs[h].rows)

MailsAndTicketsAreTrue == MailsAreTrue /\ TicketsAreBacked
=============================================================================
