---------------------------- MODULE PortalLogin ----------------------------
(***************************************************************************)
(* Logging in to the portal, the configuration of multi-factor             *)
(* authentication (MFA) and the resetting of forgotten passwords           *)
(* (N6Lib/n6lib/pyramid_commons/_pyramid_commons.py: the subclasses of     *)
(* _AbstractPortalAuthRelatedView; N6Lib/n6lib/auth_db/api.py:             *)
(* AuthManageAPI; mfa_helpers.py).                                         *)
(*                                                                         *)
(* Each of these takes two requests or more, tied together by a web token: *)
(* a row of the Auth DB that the client refers to.  A request is one       *)
(* serializable transaction, so it is one step here; the deletion of the   *)
(* token after a failure is another one.  A transaction that fails changes *)
(* nothing.                                                                *)
(*                                                                         *)
(* Tokens are known by their numbers, in the order of their creation.  A   *)
(* provisional MFA configuration belongs to the token it has been created  *)
(* with and is deleted with it: the number of the token stands for its     *)
(* key.  A password is right or wrong; a wrong one gets a pseudo-token,    *)
(* which nothing accepts.  Notices without a token are left out.           *)
(***************************************************************************)
EXTENDS Integers, Sequences

CONSTANTS
  User,
  Window,      (* TIME_STEP_WINDOW_IN_SECONDS.                              *)
  Drift,       (* ACCEPTABLE_DRIFT_IN_TIME_STEP_WINDOWS.                    *)
  Margin,      (* What DELAY_TO_BE_SURE_THAT_MFA_CODE_EXPIRES adds to the
                  longest validity of a code.                               *)
  MaxAge,      (* MaxAge[t]: the token_max_age of tokens of the type t.     *)
  Turbulence,  (* How far the system clock may go back.                     *)
  MaxTokens,   (* How many tokens are created.  Bounds the model.           *)
  Instant,     (* The times at which something happens.  Bounds the model.  *)
  TimeStep,    (* The time steps of which codes are given.  Bounds it, too. *)
  MaxActs      (* What administrators do.  Bounds the model.                *)

TokenType == {"login", "mfa_config", "password_reset"}

ASSUME LoginAssumption ==
  /\ Window \in Nat \ {0} /\ Drift \in Nat /\ Margin \in Nat
  /\ MaxAge \in [TokenType -> Nat]
  /\ Turbulence \in Nat /\ Turbulence <= Margin
  /\ MaxTokens \in Nat /\ MaxActs \in Nat
  /\ Instant \subseteq Nat /\ TimeStep \subseteq Int

VARIABLES
  issued,    (* What is known of the tokens created so far: the type, the owner
                and the time of the creation.                               *)
  live,      (* The tokens that are in the database.                        *)
  spent,     (* The table of spent MFA codes.                               *)
  password,  (* The users who have a password.                              *)
  mfaKey,    (* mfaKey[u]: the actual MFA key of u, or NoKey.               *)
  blocked,   (* The users who are blocked.                                  *)
  loggedIn,  (* The users of whom some client has the cookie.               *)
  acts,      (* How many times administrators have changed a user.          *)
  wallClock, (* The system clock...                                         *)
  latest,    (* ...and the latest time it has shown.                        *)
  uses       (* What tokens have been used for with success: the token, the
                MFA code and the last token issued by then.  A history
                variable.                                                   *)

accounts == <<password, mfaKey, blocked>>
time == <<wallClock, latest>>
loginVars == <<issued, live, spent, accounts, acts, loggedIn, time, uses>>

Token == 1 .. Len(issued)
NoKey == 0
Key == Nat
Code == [key : Key, step : TimeStep]
NoCode == [key |-> NoKey]

Owner(k) == issued[k].owner
Type(k) == issued[k].type

LoginTypeOK ==
  /\ issued \in Seq([type : TokenType, owner : User, on : Nat])
  /\ live \subseteq Token
  /\ spent \subseteq [user : User, code : Code, on : Nat]
  /\ password \subseteq User /\ blocked \subseteq User /\ loggedIn \subseteq User
  /\ mfaKey \in [User -> {NoKey} \cup Token]
  /\ wallClock \in Nat /\ latest \in Nat /\ acts \in 0 .. MaxActs
  /\ uses \in Seq([token : Nat, code : Code \cup {NoCode}, upto : Nat])

LoginInit ==
  /\ issued = <<>> /\ live = {} /\ spent = {}
  /\ password \in SUBSET User /\ mfaKey = [u \in User |-> NoKey]
  /\ blocked = {} /\ acts = 0 /\ loggedIn = {}
  /\ wallClock \in Instant /\ latest = wallClock
  /\ uses = <<>>

-----------------------------------------------------------------------------
(* Web tokens *)

Issue(type, u) ==
  /\ u \notin blocked
  /\ Len(issued) < MaxTokens
  /\ issued' = Append(issued, [type |-> type, owner |-> u, on |-> wallClock])
  /\ live' = live \cup {Len(issued) + 1}

(* The token comes with a signature and with its time, which are verified
   before anything else. *)
Presented(k) == issued[k].on + MaxAge[Type(k)] >= wallClock

Outdated(type) == {k \in live : Type(k) = type /\ issued[k].on < wallClock - MaxAge[type]}

OfOwner(type, u) == {k \in live : Type(k) = type /\ Owner(k) = u}

IsLegit(k, type) ==
  /\ k \in live \ Outdated(type)
  /\ Type(k) = type
  /\ Owner(k) \notin blocked

(* Mutant: only those that are outdated are deleted, not the others. *)
DeleteOnly(type, u) == live' = live \ Outdated(type)

(* The token has served its purpose: no token of this type and owner is left. *)
DeleteAll(type, u) == live' = live \ (Outdated(type) \cup OfOwner(type, u))

Used(k, code) ==
  uses' = Append(uses, [token |-> k, code |-> code, upto |-> Len(issued)])

-----------------------------------------------------------------------------
(* MFA codes *)

FirstInstant(step) == Window * (step - Drift)
EndInstant(step) == Window * (step + Drift + 1)

(* The verification of a code of the given time step, by the pyotp library. *)
MatchesNow(step) == FirstInstant(step) <= wallClock /\ wallClock < EndInstant(step)

CodeValidity == Window * (2 * Drift + 1)
(* Mutant: the delay without its margin. *)
DelayWithoutMargin == CodeValidity

Delay == CodeValidity + Margin

StillSpent == {s \in spent : ~(s.on < wallClock - Delay)}

IsSpent(u, code) == \E s \in StillSpent : s.user = u /\ s.code = code

(* The code matches, has not been spent, and is spent now. *)
Authenticate(u, code) ==
  /\ MatchesNow(code.step)
  /\ ~IsSpent(u, code)
  /\ spent' = StillSpent \cup {[user |-> u, code |-> code, on |-> wallClock]}

CodeOf(key, step) == [key |-> key, step |-> step]

AuthenticateWithActual(u, step) ==
  /\ mfaKey[u] # NoKey
  /\ Authenticate(u, CodeOf(mfaKey[u], step))

TurnIntoActual(k, step, overwriting) ==
  LET u == Owner(k)
  IN /\ IsLegit(k, "mfa_config")
     /\ mfaKey[u] = NoKey \/ overwriting
     /\ Authenticate(u, CodeOf(k, step))
     /\ mfaKey' = [mfaKey EXCEPT ![u] = k]

-----------------------------------------------------------------------------
(* Logging in *)

(* N6LoginView, with the right password: the token is for the second step, or
   for a new MFA configuration when there is none. *)
LogIn(u) ==
  /\ u \in password
  /\ Issue(IF mfaKey[u] = NoKey THEN "mfa_config" ELSE "login", u)
  /\ UNCHANGED <<spent, accounts, acts, loggedIn, time, uses>>

(* N6LoginMFAView *)
LogInWithCode(k, step) ==
  LET u == Owner(k)
  IN /\ Presented(k) /\ IsLegit(k, "login")
     /\ AuthenticateWithActual(u, step)
     /\ DeleteAll("login", u)
     /\ Used(k, CodeOf(mfaKey[u], step))
     /\ loggedIn' = loggedIn \cup {u}
     /\ UNCHANGED <<issued, accounts, acts, time>>

(* N6LoginMFAConfigConfirmView *)
ConfirmFirstConfig(k, step) ==
  LET u == Owner(k)
  IN /\ Presented(k)
     /\ TurnIntoActual(k, step, FALSE)
     /\ DeleteAll("mfa_config", u)
     /\ Used(k, CodeOf(k, step))
     /\ loggedIn' = loggedIn \cup {u}
     /\ UNCHANGED <<issued, password, blocked, acts, time>>

(* ensure_deleting_token_on_exception(): either of these views has failed, for
   a wrong code or for another reason, and what its transaction has done is
   undone; the token is deleted in another one, unless the process is killed
   before that, or that fails as well, or unless only the code for a legitimate
   first configuration was wrong. *)
DeleteAfterFailure(k) ==
  /\ k \in live /\ Type(k) \in {"login", "mfa_config"}
  /\ live' = live \ {k}
  /\ UNCHANGED <<issued, spent, accounts, acts, loggedIn, time, uses>>

-----------------------------------------------------------------------------
(* A new MFA configuration of a user who is logged in *)

(* N6MFAConfigView *)
RequestConfig(u) ==
  /\ u \in loggedIn
  /\ Issue("mfa_config", u)
  /\ UNCHANGED <<spent, accounts, acts, loggedIn, time, uses>>

(* N6MFAConfigConfirmView; the token must be of the user who is logged in. *)
ConfirmConfig(u, k, step) ==
  /\ u \in loggedIn
  /\ Presented(k)
  /\ TurnIntoActual(k, step, TRUE)
  /\ Owner(k) = u
  /\ DeleteAll("mfa_config", u)
  /\ Used(k, CodeOf(k, step))
  /\ UNCHANGED <<issued, password, blocked, acts, loggedIn, time>>

-----------------------------------------------------------------------------
(* Forgotten passwords *)

(* N6PasswordForgottenView; the mail with the token may come at any time, or
   never, and so may its use. *)
ForgetPassword(u) ==
  /\ Issue("password_reset", u)
  /\ UNCHANGED <<spent, accounts, acts, loggedIn, time, uses>>

(* N6PasswordResetView *)
ResetPassword(k) ==
  LET u == Owner(k)
  IN /\ Presented(k) /\ IsLegit(k, "password_reset")
     /\ password' = password \cup {u}
     /\ DeleteAll("password_reset", u)
     /\ Used(k, NoCode)
     /\ UNCHANGED <<issued, spent, mfaKey, blocked, acts, loggedIn, time>>

-----------------------------------------------------------------------------
(* The form of a user in the Admin Panel *)

Act == acts < MaxActs /\ acts' = acts + 1

BlockOrUnblock(u) ==
  /\ Act
  /\ blocked' = IF u \in blocked THEN blocked \ {u} ELSE blocked \cup {u}
  /\ UNCHANGED <<issued, live, spent, password, mfaKey, loggedIn, time, uses>>

EraseConfig(u) ==
  /\ Act
  /\ mfaKey[u] # NoKey
  /\ mfaKey' = [mfaKey EXCEPT ![u] = NoKey]
  /\ UNCHANGED <<issued, live, spent, password, blocked, loggedIn, time, uses>>

SetPassword(u) ==
  /\ Act
  /\ password' = IF u \in password THEN password \ {u} ELSE password \cup {u}
  /\ UNCHANGED <<issued, live, spent, mfaKey, blocked, loggedIn, time, uses>>

-----------------------------------------------------------------------------
(* "Let us be resistant to some system clock turbulence": time goes on, and the
   clock may be put back. *)
ClockTurns ==
  /\ wallClock' \in Instant
  /\ latest - Turbulence <= wallClock'
  /\ latest' = IF wallClock' > latest THEN wallClock' ELSE latest
  /\ UNCHANGED <<issued, live, spent, accounts, acts, loggedIn, uses>>

LoginNext ==
  \/ \E u \in User : \/ LogIn(u) \/ RequestConfig(u) \/ ForgetPassword(u)
                     \/ BlockOrUnblock(u) \/ EraseConfig(u) \/ SetPassword(u)
  \/ \E k \in Token : \/ DeleteAfterFailure(k) \/ ResetPassword(k)
  \/ \E k \in Token, step \in TimeStep : \/ LogInWithCode(k, step)
                                     \/ ConfirmFirstConfig(k, step)
                                     \/ \E u \in User : ConfirmConfig(u, k, step)
  \/ ClockTurns

LoginSpec == LoginInit /\ [][LoginNext]_loginVars

-----------------------------------------------------------------------------
(* Properties *)

UserOf(use) == Owner(use.token)
TypeOf(use) == Type(use.token)

(* An MFA code lets its user in, or confirms a configuration, at most once;
   even if the clock goes back, by no more than the margin, after the code has
   been removed from the table of spent ones. *)
CodesAreUsedOnce ==
  \A i, j \in DOMAIN uses :
    i < j /\ UserOf(uses[i]) = UserOf(uses[j]) /\ uses[i].code = uses[j].code
      => uses[i].code = NoCode

(* A token that has been used makes itself, and all that have been issued to
   its owner before for the same purpose, useless: a login goes on from the
   right password once, a newer reset of the password is not undone through an
   older mail, a new MFA configuration not by an older offer. *)
EarlierAreVoid ==
  \A i, j \in DOMAIN uses :
    i < j /\ UserOf(uses[i]) = UserOf(uses[j]) /\ TypeOf(uses[i]) = TypeOf(uses[j])
      => uses[j].token > uses[i].upto

=============================================================================
