-------------------------------- MODULE Auth --------------------------------
(***************************************************************************)
(* The account of one user: its row in the table users, the one-time codes *)
(* in Redis, the tokens of the sessions and the cash a new user receives   *)
(* (api/routers/auth and services/jwt).                                    *)
(*                                                                         *)
(* The API serves several requests at a time.  A request runs without      *)
(* interruption between two awaits and other requests run at each of them; *)
(* steps whose order nobody can observe are merged.  What a request writes *)
(* to the row is visible when it commits, what it writes to Redis at once. *)
(* A request may fail at any await: the row is rolled back, Redis is not.  *)
(***************************************************************************)
EXTENDS Integers, Sequences, FiniteSets

CONSTANTS Reqs,         \* the requests that can be served at a time
          Actions,      \* the values of VerifyAction.action in use
          MaxAttempts,  \* MAX_EMAIL_VERIFICATION_ATTEMPTS
          MaxCodes,     \* bound: the number of codes ever generated
          MaxTokens     \* bound: the number of tokens ever generated

ASSUME AuthAssumption ==
    /\ IsFiniteSet(Reqs)
    /\ Actions \subseteq {"change_username", "change_email", "change_password"}
    /\ MaxAttempts \in Nat
    /\ MaxCodes \in Nat
    /\ MaxTokens \in Nat

VARIABLES
    account,  \* the row: whether it exists, is verified, and its jwt
    issued,   \* by token: its claim `authenticated`
    mail,     \* the value at the user's key for the e-mail verification
    codes,    \* the number of codes generated
    pending,  \* the keys of the changes that wait for their code
    credits,  \* by code: how often it credited the cash of a new user
    job,      \* what each request is doing
    reply     \* the answer to the last verify-action

authVars == <<account, issued, mail, codes, pending, credits, job, reply>>

NoToken == 0

NoMail == [code |-> 0, attempts |-> 0]

Idle == [step |-> "idle", code |-> 0, seen |-> 0, claim |-> FALSE, action |-> "none"]

Steps == {"idle", "verify_read", "verify_delete", "verify_credit", "verify_commit",
          "request_read", "request_delete", "request_set", "login_commit",
          "logout_commit", "change_delete", "change_set", "action_read", "action_delete"}

Answers == {"none", "changed", "invalid_code", "error"}

-----------------------------------------------------------------------------
(***************************************************************************)
(* Tokens: JWTService.                                                     *)
(***************************************************************************)

\* validate_jwt: a row without a stored token takes every token of the user.
Validated(token, authenticated) ==
    /\ account.exists
    /\ authenticated => issued[token]
    /\ account.jwt \in {NoToken, token}

\* set_persistant_jwt_cookie: a new token with the claim, stored in the row
\* with the rest of what the request commits.
IssueToken(claim, verified) ==
    /\ Len(issued) < MaxTokens
    /\ issued' = Append(issued, claim)
    /\ account' = [account EXCEPT !.jwt = Len(issued'), !.verified = verified]

\* A request with a token that validate_jwt accepts.
Begin(r, step, authenticated) ==
    /\ job[r] = Idle
    /\ \E token \in DOMAIN issued : Validated(token, authenticated)
    /\ job' = [job EXCEPT ![r].step = step]
    /\ UNCHANGED <<account, issued, mail, codes, pending, credits, reply>>

At(r, step) == job[r].step = step

GoTo(r, step) == job' = [job EXCEPT ![r].step = step]

\* A request goes on with what it has read.
Carry(r, j) == job' = [job EXCEPT ![r] = j]

Done(r) == Carry(r, Idle)

NewCode ==
    /\ codes < MaxCodes
    /\ codes' = codes + 1

-----------------------------------------------------------------------------
(***************************************************************************)
(* register, login, logout.                                                *)
(***************************************************************************)

\* Nobody else knows the new user before the commit.
Register ==
    /\ ~account.exists
    /\ NewCode
    /\ mail' = [code |-> codes', attempts |-> 0]
    /\ issued' = <<FALSE>>
    /\ account' = [exists |-> TRUE, verified |-> FALSE, jwt |-> 1]
    /\ UNCHANGED <<pending, credits, job, reply>>

\* login reads the row ...
LoginRead(r) ==
    /\ job[r] = Idle
    /\ account.exists
    /\ Carry(r, [Idle EXCEPT !.step = "login_commit", !.claim = account.verified])
    /\ UNCHANGED <<account, issued, mail, codes, pending, credits, reply>>

\* Variant of LoginCommit: the claim is not what the row said.
LoginClaimsVerified(r) ==
    /\ At(r, "login_commit")
    /\ IssueToken(TRUE, account.verified)
    /\ Done(r)
    /\ UNCHANGED <<mail, codes, pending, credits, reply>>

\* ... and stores a token with what it read.
LoginCommit(r) ==
    /\ At(r, "login_commit")
    /\ IssueToken(job[r].claim, account.verified)
    /\ Done(r)
    /\ UNCHANGED <<mail, codes, pending, credits, reply>>

LogoutCommit(r) ==
    /\ At(r, "logout_commit")
    /\ account' = [account EXCEPT !.jwt = NoToken]
    /\ Done(r)
    /\ UNCHANGED <<issued, mail, codes, pending, credits, reply>>

-----------------------------------------------------------------------------
(***************************************************************************)
(* request_email_verification.                                             *)
(***************************************************************************)

RequestRead(r) ==
    /\ At(r, "request_read")
    /\ IF mail.attempts + 1 > MaxAttempts
       THEN Done(r)
       ELSE Carry(r, [Idle EXCEPT !.step = "request_delete", !.seen = mail.attempts])
    /\ UNCHANGED <<account, issued, mail, codes, pending, credits, reply>>

RequestDelete(r) ==
    /\ At(r, "request_delete")
    /\ mail' = NoMail
    /\ GoTo(r, "request_set")
    /\ UNCHANGED <<account, issued, codes, pending, credits, reply>>

RequestSet(r) ==
    /\ At(r, "request_set")
    /\ NewCode
    /\ mail' = [code |-> codes', attempts |-> job[r].seen + 1]
    /\ Done(r)
    /\ UNCHANGED <<account, issued, pending, credits, reply>>

\* The key expires.
MailExpires ==
    /\ mail # NoMail
    /\ mail' = NoMail
    /\ UNCHANGED <<account, issued, codes, pending, credits, job, reply>>

-----------------------------------------------------------------------------
(***************************************************************************)
(* verify_email.                                                           *)
(***************************************************************************)

\* The key is read and its code compared with the code of the request.
VerifyRead(r, code) ==
    /\ At(r, "verify_read")
    /\ IF mail # NoMail /\ mail.code = code
       THEN Carry(r, [Idle EXCEPT !.step = "verify_delete", !.code = code])
       ELSE Done(r)
    /\ UNCHANGED <<account, issued, mail, codes, pending, credits, reply>>

\* Variant of VerifyDelete: the code stays until it expires.
VerifyKeepsCode(r) ==
    /\ At(r, "verify_delete")
    /\ GoTo(r, "verify_credit")
    /\ UNCHANGED <<account, issued, mail, codes, pending, credits, reply>>

VerifyDelete(r) ==
    /\ At(r, "verify_delete")
    /\ mail' = NoMail
    /\ GoTo(r, "verify_credit")
    /\ UNCHANGED <<account, issued, codes, pending, credits, reply>>

\* Variant of VerifyCredit: the cash is left for later.
VerifyWithoutCredit(r) ==
    /\ At(r, "verify_credit")
    /\ GoTo(r, "verify_commit")
    /\ UNCHANGED <<account, issued, mail, codes, pending, credits, reply>>

\* increase_cash_balance_async, with an event of its own.
VerifyCredit(r) ==
    /\ At(r, "verify_credit")
    /\ credits' = [credits EXCEPT ![job[r].code] = @ + 1]
    /\ GoTo(r, "verify_commit")
    /\ UNCHANGED <<account, issued, mail, codes, pending, reply>>

VerifyCommit(r) ==
    /\ At(r, "verify_commit")
    /\ IssueToken(TRUE, TRUE)
    /\ Done(r)
    /\ UNCHANGED <<mail, codes, pending, credits, reply>>

-----------------------------------------------------------------------------
(***************************************************************************)
(* change_username, change_email, change_password and verify_action.       *)
(***************************************************************************)

\* The keys of the user's earlier requests for the same change are deleted.
ChangeDelete(r) ==
    /\ At(r, "change_delete")
    /\ \E a \in Actions :
         /\ pending' = {k \in pending : k.action # a}
         /\ Carry(r, [Idle EXCEPT !.step = "change_set", !.action = a])
    /\ UNCHANGED <<account, issued, mail, codes, credits, reply>>

ChangeSet(r) ==
    /\ At(r, "change_set")
    /\ NewCode
    /\ pending' = pending \cup {[action |-> job[r].action, code |-> codes']}
    /\ Done(r)
    /\ UNCHANGED <<account, issued, mail, credits, reply>>

\* The key of change_password is written without the colon that
\* verify_action reads.
KeyIsRead(action) == action # "change_password"

\* The payloads of the other two changes are dumped to JSON twice: what
\* verify_action loads is a string and not a dictionary.
PayloadIsRead(action) == action = "change_password"

\* verify_action with the code of a pending change.
ActionRead(r) ==
    /\ At(r, "action_read")
    /\ \E k \in pending :
         IF KeyIsRead(k.action)
         THEN /\ Carry(r, [Idle EXCEPT !.step = "action_delete", !.code = k.code,
                                       !.action = k.action])
              /\ UNCHANGED reply
         ELSE /\ Done(r)
              /\ reply' = "invalid_code"
    /\ UNCHANGED <<account, issued, mail, codes, pending, credits>>

\* The key is deleted, then the payload is read.
ActionDelete(r) ==
    /\ At(r, "action_delete")
    /\ pending' = {k \in pending : k.code # job[r].code}
    /\ reply' = IF PayloadIsRead(job[r].action) THEN "changed" ELSE "error"
    /\ Done(r)
    /\ UNCHANGED <<account, issued, mail, codes, credits>>

\* The key of a change expires.
ChangeExpires(k) ==
    /\ pending' = pending \ {k}
    /\ UNCHANGED <<account, issued, mail, codes, credits, job, reply>>

-----------------------------------------------------------------------------
\* The client goes away or a call raises.
RequestFails(r) ==
    /\ job[r] # Idle
    /\ Done(r)
    /\ UNCHANGED <<account, issued, mail, codes, pending, credits, reply>>

Init ==
    /\ account = [exists |-> FALSE, verified |-> FALSE, jwt |-> NoToken]
    /\ issued = << >>
    /\ mail = NoMail
    /\ codes = 0
    /\ pending = {}
    /\ credits = [code \in 1 .. MaxCodes |-> 0]
    /\ job = [r \in Reqs |-> Idle]
    /\ reply = "none"

Arrive(r) ==
    \/ Begin(r, "verify_read", FALSE)
    \/ Begin(r, "request_read", FALSE)
    \/ Begin(r, "logout_commit", TRUE)
    \/ Begin(r, "change_delete", TRUE)
    \/ Begin(r, "action_read", TRUE)
    \/ LoginRead(r)

Serve(r) ==
    \/ LoginCommit(r)
    \/ LogoutCommit(r)
    \/ RequestRead(r)
    \/ RequestDelete(r)
    \/ RequestSet(r)
    \/ \E code \in 1 .. MaxCodes : VerifyRead(r, code)
    \/ VerifyDelete(r)
    \/ VerifyCredit(r)
    \/ VerifyCommit(r)
    \/ ChangeDelete(r)
    \/ ChangeSet(r)
    \/ ActionRead(r)
    \/ ActionDelete(r)
    \/ RequestFails(r)

Next ==
    \/ Register
    \/ MailExpires
    \/ \E k \in pending : ChangeExpires(k)
    \/ \E r \in Reqs : Arrive(r) \/ Serve(r)

Spec == Init /\ [][Next]_authVars

-----------------------------------------------------------------------------
(***************************************************************************)
(* Correctness.                                                            *)
(***************************************************************************)

\* Every variable has its type.
TypeOK ==
    /\ account \in [exists : BOOLEAN, verified : BOOLEAN, jwt : Nat]
    /\ issued \in Seq(BOOLEAN)
    /\ account.jwt <= Len(issued)
    /\ mail \in [code : Nat, attempts : Nat]
    /\ codes \in Nat
    /\ pending \subseteq [action : Actions, code : Nat]
    /\ credits \in [1 .. MaxCodes -> Nat]
    /\ job \in [Reqs -> [step : Steps, code : Nat, seen : Nat, claim : BOOLEAN,
                         action : Actions \cup {"none"}]]
    /\ reply \in Answers

\* verify_email reads the code at one await and deletes it at the next: the
\* requests that are served at the same time can all be credited for it, and
\* no others.  No code is credited again after it was deleted, or by a request
\* that comes back, or because another request failed or wrote a new code.
CreditsPerCode ==
    \A code \in 1 .. MaxCodes : credits[code] <= Cardinality(Reqs)

\* Some code was credited.
Credited == \E code \in 1 .. MaxCodes : credits[code] > 0

\* Nobody is verified without the cash of a new user, wherever the request
\* that verifies fails.
CreditedIfVerified == account.verified => Credited

\* A token says that its user is verified only if the row says so too.
ClaimsNotAhead ==
    \A token \in DOMAIN issued : issued[token] => account.verified

=============================================================================
