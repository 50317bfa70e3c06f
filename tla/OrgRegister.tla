----------------------------- MODULE OrgRegister -----------------------------
(***************************************************************************)
(* What the portal and the Admin Panel promise about organizations, their  *)
(* users and their requests, as if everything happened one step at a time. *)
(* The rules are those of AuthManageAPI (N6Lib/n6lib/auth_db/api.py), of   *)
(* its model classes (models.py) and of the handler kits of the Admin      *)
(* Panel (N6AdminPanel/n6adminpanel/org_request_helpers.py).               *)
(*                                                                         *)
(* Somebody asks for an organization to be registered, or a user of an     *)
(* organization asks for its configuration to be updated; administrators   *)
(* mark the request as being processed, discard it, or accept it, which    *)
(* creates or updates the organization and its users.  What an             *)
(* administrator submits comes from a form that may be of any age, hence   *)
(* it may be anything.                                                     *)
(***************************************************************************)
EXTENDS Naturals, FiniteSets

CONSTANTS
  Orgs,          (* Identifiers that organizations may have.                *)
  Logins,        (* Logins that users may have.                             *)
  Fields,        (* The fields of an organization's configuration...        *)
  Values,        (* ...and what they may be.                                *)
  Registrations, (* Identifiers of registration requests...                 *)
  Updates,       (* ...and of config update requests.                       *)
  Wanted,        (* Wanted[r]: the contents that request r may have.        *)
  FirstOrgs,     (* The organizations at the beginning...                   *)
  FirstUsers     (* ...and the organization of each of their users.         *)

ASSUME OrgRegisterAssumption ==
  /\ Registrations \cap Updates = {}
  /\ FirstOrgs \subseteq Orgs
  /\ DOMAIN FirstUsers \subseteq Logins
  /\ \A u \in DOMAIN FirstUsers : FirstUsers[u] \in FirstOrgs
  /\ \A r \in Registrations :
       Wanted[r] \subseteq [org : Orgs, email : Logins, grouped : BOOLEAN]
  /\ \A r \in Updates : \A c \in Wanted[r] :
       /\ DOMAIN c = {"org", "set", "add", "remove"}
       /\ c.org \in Orgs
       /\ DOMAIN c.set \subseteq Fields /\ \A f \in DOMAIN c.set : c.set[f] \in Values
       /\ c.add \subseteq Logins /\ c.remove \subseteq Logins

VARIABLES
  orgs,      (* The organizations: their configurations.                    *)
  users,     (* The users: [org, blocked].                                  *)
  requests   (* The requests: [status, pending, content, ticket].           *)

db == <<orgs, users, requests>>

-----------------------------------------------------------------------------
(* Requests. *)

PendingStatuses == {"new", "being_processed"}

(* The listener on_org_config_update_request_status_change(). *)
MarkerFor(status) == status \in PendingStatuses

(* Org.pending_config_update_request, before it makes sure that there is only
   one. *)
PendingUpdates(o) ==
  {r \in DOMAIN requests \cap Updates : requests[r].content.org = o /\ requests[r].pending}

OthersPending(r, c) == PendingUpdates(c.org) \ {r}

(* From which statuses the buttons lead to a given one. *)
LegalOldStatuses(status) ==
  CASE status = "being_processed" -> {"new", "discarded"}
    [] status = "discarded" -> {"new", "being_processed"}
    [] status = "accepted" -> {"new", "being_processed"}

Targets == {"keep", "being_processed", "discarded", "accepted"}

MayBecomeUnverified(r, c, target) ==
  /\ requests[r].status \in LegalOldStatuses(target)
  /\ r \in Registrations /\ target = "accepted" => c.grouped /\ c.org \notin DOMAIN orgs

(* _before_status_transition_to_*(). *)
MayBecome(r, c, target) ==
  /\ requests[r].status \in LegalOldStatuses(target)
  /\ CASE r \in Registrations /\ target = "accepted" ->
            c.grouped /\ c.org \notin DOMAIN orgs
       [] r \in Updates /\ target = "being_processed" -> OthersPending(r, c) = {}
       [] r \in Updates /\ target \in {"discarded", "accepted"} -> PendingUpdates(c.org) = {r}
       [] OTHER -> TRUE

NonBlocked(o) == {u \in DOMAIN users : users[u].org = o /\ ~users[u].blocked}

-----------------------------------------------------------------------------
(* What happens to the data. *)

(* create_org_config_update_request() or create_registration_request(). *)
Store(r, c, ticket) ==
  requests' = [q \in DOMAIN requests \cup {r} |->
                IF q = r THEN [status |-> "new", pending |-> MarkerFor("new"), content |-> c,
                               ticket |-> ticket]
                ELSE requests[q]]

(* _add_or_activate_user() and _deactivate_user(). *)
Activated(us, o, logins) ==
  [u \in DOMAIN us \cup logins |->
    IF u \notin DOMAIN us THEN [org |-> o, blocked |-> FALSE]
    ELSE IF u \in logins /\ us[u].org = o THEN [us[u] EXCEPT !.blocked = FALSE]
    ELSE us[u]]

Deactivated(us, o, logins) ==
  [u \in DOMAIN us |->
    IF u \in logins /\ us[u].org = o THEN [us[u] EXCEPT !.blocked = TRUE] ELSE us[u]]

UpdatedUsersReversed(o, c) == Activated(Deactivated(users, o, c.remove), o, c.add)

(* update_org_according_to_org_config_update_request() and
   update_org_users_according_to_org_config_update_request(). *)
UpdatedConfig(o, c) == [f \in Fields |-> IF f \in DOMAIN c.set THEN c.set[f] ELSE orgs[o][f]]
UpdatedUsers(o, c) == Deactivated(Activated(users, o, c.add), o, c.remove)

UpdateOrg(c) ==
  /\ orgs' = [orgs EXCEPT ![c.org] = UpdatedConfig(c.org, c)]
  /\ users' = UpdatedUsers(c.org, c)

(* create_org_and_user_according_to_registration_request(). *)
NewConfig == CHOOSE config \in [Fields -> Values] : TRUE

AddUser(u, o) ==
  users' = [v \in DOMAIN users \cup {u} |->
             IF v = u THEN [org |-> o, blocked |-> FALSE] ELSE users[v]]

CreateOrg(c) ==
  /\ orgs' = [o \in DOMAIN orgs \cup {c.org} |-> IF o = c.org THEN NewConfig ELSE orgs[o]]
  /\ AddUser(c.email, c.org)

(* The status that the request gets.  In any case it is set, and so the
   listener sets the marker. *)
StatusAfter(r, target) == IF target = "keep" THEN requests[r].status ELSE target

(* just_before_commit(). *)
Decide(r, c, target) ==
  /\ requests' = [requests EXCEPT ![r] =
                   [@ EXCEPT !.status = StatusAfter(r, target),
                             !.pending = MarkerFor(StatusAfter(r, target)), !.content = c]]
  /\ CASE target # "accepted" -> UNCHANGED <<orgs, users>>
       [] target = "accepted" /\ r \in Updates -> UpdateOrg(c)
       [] target = "accepted" /\ r \in Registrations -> CreateOrg(c)

(* Without a user the organization would not be created: a login that is taken
   violates a constraint. *)
IsCreatable(r, c, target) ==
  r \in Registrations /\ target = "accepted" => c.email \notin DOMAIN users

-----------------------------------------------------------------------------
(* One step at a time. *)

RegisterInit ==
  /\ orgs = [o \in FirstOrgs |-> NewConfig]
  /\ users = [u \in DOMAIN FirstUsers |-> [org |-> FirstUsers[u], blocked |-> FALSE]]
  /\ requests = << >>

AskForUpdate ==
  \E r \in Updates \ DOMAIN requests : \E c \in Wanted[r], ticket \in BOOLEAN :
    /\ c.org \in DOMAIN orgs /\ PendingUpdates(c.org) = {}
    /\ Store(r, c, ticket)
    /\ UNCHANGED <<orgs, users>>

AskForRegistration ==
  \E r \in Registrations \ DOMAIN requests : \E c \in Wanted[r], ticket \in BOOLEAN :
    /\ Store(r, [c EXCEPT !.grouped = FALSE], ticket)
    /\ UNCHANGED <<orgs, users>>

Consider ==
  \E r \in DOMAIN requests : \E c \in Wanted[r], target \in Targets :
    /\ r \in Updates => c.org = requests[r].content.org
    /\ target # "keep" => MayBecome(r, c, target) /\ IsCreatable(r, c, target)
    /\ Decide(r, c, target)

(* N6LoginOIDCView: who comes from an external identity provider gets an
   account in an organization that exists. *)
CreateUser(u, o) ==
  /\ u \notin DOMAIN users /\ o \in DOMAIN orgs
  /\ AddUser(u, o)
  /\ UNCHANGED <<orgs, requests>>

(* UserView of the Admin Panel. *)
ToggleBlocked(u) ==
  /\ u \in DOMAIN users
  /\ users' = [users EXCEPT ![u].blocked = ~@]
  /\ UNCHANGED <<orgs, requests>>

RegisterNext ==
  \/ AskForUpdate \/ AskForRegistration \/ Consider
  \/ \E u \in Logins, o \in Orgs : CreateUser(u, o)
  \/ \E u \in Logins : ToggleBlocked(u)

RegisterSpec == RegisterInit /\ [][RegisterNext]_db
=============================================================================
