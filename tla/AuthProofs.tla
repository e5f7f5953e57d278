----------------------------- MODULE AuthProofs -----------------------------
(***************************************************************************)
(* The invariants of Auth for any number of requests served at a time, any *)
(* limit of attempts and any number of codes and tokens.                   *)
(*                                                                         *)
(* What makes them inductive is what a request knows from before its last  *)
(* await: the credit it made is still there when it commits, the row it    *)
(* read as verified is verified for good, and the code it read was not     *)
(* credited before it was read.                                            *)
(***************************************************************************)
EXTENDS Auth, FiniteSetTheorems, TLAPS

\* What a request carries across an await is still true when it is used.
JobsSound ==
    /\ account.verified => account.exists
    /\ \A r \in Reqs :
         /\ job[r].step # "idle" => account.exists
         /\ job[r].step \in {"verify_delete", "verify_credit"} => job[r].code \in 1 .. MaxCodes
         /\ job[r].step = "verify_commit" => Credited
         /\ job[r].claim => account.verified
         /\ job[r].step = "change_set" => job[r].action \in Actions

AuthInv ==
    /\ TypeOK
    /\ CreditedIfVerified
    /\ ClaimsNotAhead
    /\ JobsSound

-----------------------------------------------------------------------------

\* What was credited stays credited.
LEMMA CreditsStay == UNCHANGED credits => (Credited <=> Credited')
  BY DEF Credited

\* A fresh database satisfies the invariant.
LEMMA AuthInitInv == Init => AuthInv
<1> SUFFICES ASSUME Init PROVE AuthInv
    OBVIOUS
<1> USE AuthAssumption
<1>1. Idle \in [step : Steps, code : Nat, seen : Nat, claim : BOOLEAN,
                action : Actions \cup {"none"}]
  BY DEF Idle, Steps
<1>2. TypeOK
  BY <1>1 DEF Init, TypeOK, NoToken, NoMail, Answers
<1>3. CreditedIfVerified /\ ClaimsNotAhead
  BY DEF Init, CreditedIfVerified, ClaimsNotAhead, NoMail
<1>4. JobsSound
  BY DEF Init, JobsSound, Idle
<1>5. QED
  BY <1>2, <1>3, <1>4 DEF AuthInv

-----------------------------------------------------------------------------
(***************************************************************************)
(* Steps of a request that change the table of requests only.              *)
(***************************************************************************)

Jobs == [step : Steps, code : Nat, seen : Nat, claim : BOOLEAN,
         action : Actions \cup {"none"}]

\* Changing one request keeps the table well typed.
LEMMA JobUpdate ==
    ASSUME TypeOK, NEW r \in Reqs, NEW j \in Jobs, job' = [job EXCEPT ![r] = j]
    PROVE  job' \in [Reqs -> Jobs] /\ job'[r] = j /\ \A q \in Reqs \ {r} : job'[q] = job[q]
  BY DEF TypeOK, Jobs

\* An idle request is sound whatever the rest of the state.
LEMMA IdleJob == Idle \in Jobs /\ Idle.step = "idle" /\ Idle.claim = FALSE
  BY DEF Idle, Jobs, Steps

\* A request that moves on or ends keeps the invariant when its new record is
\* sound and the row, the tokens, the keys and the credits stay sound with it.
LEMMA JobStep ==
    ASSUME AuthInv, NEW r \in Reqs, NEW j \in Jobs, job' = [job EXCEPT ![r] = j],
           j.step # "idle" => account'.exists,
           account.exists => account'.exists,
           j.step \in {"verify_delete", "verify_credit"} => j.code \in 1 .. MaxCodes,
           j.step = "verify_commit" => Credited',
           j.claim => account'.verified,
           j.step = "change_set" => j.action \in Actions,
           account' \in [exists : BOOLEAN, verified : BOOLEAN, jwt : Nat],
           issued' \in Seq(BOOLEAN),
           account'.jwt <= Len(issued'),
           account'.verified => account'.exists /\ Credited',
           account.verified => account'.verified,
           \A token \in DOMAIN issued' : issued'[token] => account'.verified,
           mail' \in [code : Nat, attempts : Nat],
           codes' \in Nat,
           pending' \subseteq [action : Actions, code : Nat],
           credits' \in [1 .. MaxCodes -> Nat],
           Credited => Credited',
           reply' \in Answers
    PROVE  AuthInv'
<1> USE DEF AuthInv
<1>1. job' \in [Reqs -> Jobs] /\ job'[r] = j /\ \A q \in Reqs \ {r} : job'[q] = job[q]
  BY JobUpdate
<1>2. TypeOK'
  BY <1>1 DEF TypeOK, Jobs
<1>3. (CreditedIfVerified /\ ClaimsNotAhead)'
  BY DEF CreditedIfVerified, ClaimsNotAhead
<1>4. JobsSound'
  BY <1>1 DEF JobsSound
<1>5. QED
  BY <1>2, <1>3, <1>4

\* The same when only the table of requests and the reply change.
LEMMA QuietStep ==
    ASSUME AuthInv, NEW r \in Reqs, NEW j \in Jobs, job' = [job EXCEPT ![r] = j],
           j.step # "idle" => account.exists,
           j.step \in {"verify_delete", "verify_credit"} => j.code \in 1 .. MaxCodes,
           j.step = "verify_commit" => Credited,
           j.claim => account.verified,
           j.step = "change_set" => j.action \in Actions,
           UNCHANGED <<account, issued, mail, codes, pending, credits>>,
           reply' \in Answers
    PROVE  AuthInv'
<1>1. TypeOK /\ CreditedIfVerified /\ ClaimsNotAhead /\ JobsSound
  BY DEF AuthInv
<1>2. Credited => Credited'
  BY CreditsStay
<1>3. QED
  BY <1>1, <1>2, JobStep
  DEF TypeOK, CreditedIfVerified, ClaimsNotAhead, JobsSound

\* A record with another step is a record of a request.
LEMMA StepRecord ==
    ASSUME TypeOK, NEW r \in Reqs, NEW step \in Steps, GoTo(r, step)
    PROVE  \E j \in Jobs : /\ job' = [job EXCEPT ![r] = j]
                           /\ j.step = step
                           /\ j.code = job[r].code
                           /\ j.claim = job[r].claim
<1>1. job[r] \in Jobs /\ job' = [job EXCEPT ![r] = [job[r] EXCEPT !.step = step]]
  BY DEF TypeOK, Jobs, GoTo
<1>2. [job[r] EXCEPT !.step = step] \in Jobs
  BY <1>1 DEF Jobs
<1>3. /\ [job[r] EXCEPT !.step = step].step = step
      /\ [job[r] EXCEPT !.step = step].code = job[r].code
      /\ [job[r] EXCEPT !.step = step].claim = job[r].claim
  BY <1>1 DEF Jobs
<1>4. QED
  BY <1>1, <1>2, <1>3

-----------------------------------------------------------------------------
(***************************************************************************)
(* The steps, one lemma for each.                                          *)
(***************************************************************************)

\* What the type and the soundness of the invariant say about one request.
LEMMA JobFacts ==
    ASSUME AuthInv, NEW r \in Reqs
    PROVE  /\ job[r] \in Jobs
           /\ job[r].step # "idle" => account.exists
           /\ job[r].step \in {"verify_delete", "verify_credit"} => job[r].code \in 1 .. MaxCodes
           /\ job[r].step = "verify_commit" => Credited
           /\ job[r].claim => account.verified
           /\ job[r].step = "change_set" => job[r].action \in Actions
           /\ reply \in Answers
  BY DEF AuthInv, TypeOK, Jobs, JobsSound

\* A request that ends by itself or is cut off.
LEMMA DoneInv ==
    ASSUME AuthInv, NEW r \in Reqs, Done(r), reply' \in Answers,
           UNCHANGED <<account, issued, mail, codes, pending, credits>>
    PROVE  AuthInv'
  BY IdleJob, QuietStep DEF Done, Carry

\* A request arrives.
LEMMA ArriveInv ==
    ASSUME AuthInv, NEW r \in Reqs, Arrive(r)
    PROVE  AuthInv'
<1>1. ASSUME NEW step \in {"verify_read", "request_read", "logout_commit",
                           "change_delete", "action_read"},
             NEW authenticated \in BOOLEAN, Begin(r, step, authenticated)
      PROVE  AuthInv'
  <2>1. GoTo(r, step) /\ step \in Steps /\ TypeOK
    BY <1>1 DEF Begin, GoTo, Steps, AuthInv
  <2>2. PICK j \in Jobs : job' = [job EXCEPT ![r] = j] /\ j.step = step
                          /\ j.claim = job[r].claim
    BY <2>1, StepRecord
  <2>3. account.exists /\ UNCHANGED <<account, issued, mail, codes, pending, credits, reply>>
    BY <1>1 DEF Begin, Validated
  <2>4. j.step \notin {"verify_delete", "verify_credit", "verify_commit", "change_set"}
    BY <2>2
  <2>5. QED
    BY <2>2, <2>3, <2>4, JobFacts, QuietStep
<1>2. CASE LoginRead(r)
  <2> DEFINE j == [Idle EXCEPT !.step = "login_commit", !.claim = account.verified]
  <2>1. job' = [job EXCEPT ![r] = j]
    BY <1>2 DEF LoginRead, Carry
  <2>2. j \in Jobs /\ j.step = "login_commit" /\ j.claim = account.verified
    BY IdleJob DEF AuthInv, TypeOK, Idle, Jobs, Steps
  <2>3. account.exists /\ UNCHANGED <<account, issued, mail, codes, pending, credits, reply>>
    BY <1>2 DEF LoginRead
  <2> HIDE DEF j
  <2>4. QED
    BY <2>1, <2>2, <2>3, JobFacts, QuietStep
<1>3. QED
  BY <1>1, <1>2 DEF Arrive

\* A token for a verified row, or one that claims nothing, keeps claims sound.
LEMMA TokenIssued ==
    ASSUME AuthInv, NEW claim \in BOOLEAN, NEW verified \in BOOLEAN,
           IssueToken(claim, verified), claim => verified, account.verified => verified
    PROVE  /\ account' \in [exists : BOOLEAN, verified : BOOLEAN, jwt : Nat]
           /\ account'.verified = verified
           /\ account'.exists = account.exists
           /\ issued' \in Seq(BOOLEAN)
           /\ account'.jwt <= Len(issued')
           /\ \A token \in DOMAIN issued' : issued'[token] => account'.verified
<1>1. TypeOK /\ ClaimsNotAhead
  BY DEF AuthInv
<1>2. issued' = Append(issued, claim) /\ issued \in Seq(BOOLEAN)
  BY <1>1 DEF IssueToken, TypeOK
<1>3. /\ issued' \in Seq(BOOLEAN)
      /\ Len(issued') = Len(issued) + 1
      /\ Len(issued') \in Nat
      /\ DOMAIN issued' = 1 .. Len(issued')
      /\ DOMAIN issued = 1 .. Len(issued)
      /\ issued'[Len(issued')] = claim
      /\ \A t \in DOMAIN issued : issued'[t] = issued[t]
  BY <1>2
<1>4. account' = [account EXCEPT !.jwt = Len(issued'), !.verified = verified]
  BY DEF IssueToken
<1>5. /\ account' \in [exists : BOOLEAN, verified : BOOLEAN, jwt : Nat]
      /\ account'.verified = verified
      /\ account'.exists = account.exists
      /\ account'.jwt = Len(issued')
  BY <1>1, <1>3, <1>4 DEF TypeOK
<1>6. ASSUME NEW token \in DOMAIN issued', issued'[token]
      PROVE  verified
  <2>1. CASE token = Len(issued')
    BY <2>1, <1>3, <1>6
  <2>2. CASE token # Len(issued')
    <3>1. token \in DOMAIN issued
      BY <2>2, <1>2, <1>3
    <3>2. QED
      BY <3>1, <1>1, <1>3, <1>6 DEF ClaimsNotAhead
  <2>3. QED
    BY <2>1, <2>2
<1>7. QED
  BY <1>3, <1>5, <1>6

\* login commits with the claim it read; a row is never unverified again.
LEMMA LoginCommitInv ==
    ASSUME AuthInv, NEW r \in Reqs, LoginCommit(r)
    PROVE  AuthInv'
<1>1. TypeOK /\ CreditedIfVerified /\ JobsSound
  BY DEF AuthInv
<1>2. job[r].claim \in BOOLEAN /\ account.verified \in BOOLEAN
  BY <1>1 DEF TypeOK
<1>3. IssueToken(job[r].claim, account.verified) /\ (job[r].claim => account.verified)
  BY JobFacts DEF LoginCommit
<1>4. job' = [job EXCEPT ![r] = Idle] /\ UNCHANGED <<mail, codes, pending, credits, reply>>
  BY DEF LoginCommit, Done, Carry
<1>5. credits' \in [1 .. MaxCodes -> Nat] /\ (Credited => Credited')
  BY <1>1, <1>4, CreditsStay DEF TypeOK
<1>6. account'.verified => account'.exists /\ Credited'
  BY <1>1, <1>2, <1>3, <1>4, TokenIssued, CreditsStay DEF CreditedIfVerified, JobsSound
<1>7. /\ mail' \in [code : Nat, attempts : Nat]
      /\ codes' \in Nat /\ pending' \subseteq [action : Actions, code : Nat]
      /\ reply' \in Answers
  BY <1>1, <1>4 DEF TypeOK
<1>8. QED
  BY <1>2, <1>3, <1>4, <1>5, <1>6, <1>7, IdleJob, TokenIssued, JobStep

\* verify_email commits: its own credit is behind it.
LEMMA VerifyCommitInv ==
    ASSUME AuthInv, NEW r \in Reqs, VerifyCommit(r)
    PROVE  AuthInv'
<1>1. TypeOK /\ JobsSound
  BY DEF AuthInv
<1>2. IssueToken(TRUE, TRUE) /\ Credited
  BY JobFacts DEF VerifyCommit, At
<1>3. job' = [job EXCEPT ![r] = Idle] /\ UNCHANGED <<mail, codes, pending, credits, reply>>
  BY DEF VerifyCommit, Done, Carry
<1>4. account.exists
  BY JobFacts DEF VerifyCommit, At
<1>5. credits' \in [1 .. MaxCodes -> Nat] /\ (Credited => Credited') /\ Credited'
  BY <1>1, <1>2, <1>3, CreditsStay DEF TypeOK
<1>6. /\ mail' \in [code : Nat, attempts : Nat]
      /\ codes' \in Nat /\ pending' \subseteq [action : Actions, code : Nat]
      /\ reply' \in Answers
  BY <1>1, <1>3 DEF TypeOK
<1>7. QED
  BY <1>2, <1>3, <1>4, <1>5, <1>6, IdleJob, TokenIssued, JobStep

\* logout empties the column jwt and leaves the rest of the row alone.
LEMMA LogoutInv ==
    ASSUME AuthInv, NEW r \in Reqs, LogoutCommit(r)
    PROVE  AuthInv'
<1>1. TypeOK /\ CreditedIfVerified /\ ClaimsNotAhead /\ JobsSound
  BY DEF AuthInv
<1>2. /\ job' = [job EXCEPT ![r] = Idle]
      /\ account' = [account EXCEPT !.jwt = NoToken]
      /\ UNCHANGED <<issued, mail, codes, pending, credits, reply>>
  BY DEF LogoutCommit, Done, Carry
<1>3. /\ account' \in [exists : BOOLEAN, verified : BOOLEAN, jwt : Nat]
      /\ account'.exists = account.exists
      /\ account'.verified = account.verified
      /\ account'.jwt = 0
  BY <1>1, <1>2 DEF TypeOK, NoToken
<1>4. issued' \in Seq(BOOLEAN) /\ account'.jwt <= Len(issued')
  BY <1>1, <1>2, <1>3 DEF TypeOK
<1>5. credits' \in [1 .. MaxCodes -> Nat] /\ (Credited => Credited')
  BY <1>1, <1>2, CreditsStay DEF TypeOK
<1>6. /\ mail' \in [code : Nat, attempts : Nat]
      /\ codes' \in Nat /\ pending' \subseteq [action : Actions, code : Nat]
      /\ reply' \in Answers
  BY <1>1, <1>2 DEF TypeOK
<1>7. /\ account'.verified => account'.exists /\ Credited'
      /\ \A token \in DOMAIN issued' : issued'[token] => account'.verified
  BY <1>1, <1>2, <1>3, CreditsStay DEF CreditedIfVerified, ClaimsNotAhead, JobsSound
<1>8. QED
  BY <1>2, <1>3, <1>4, <1>5, <1>6, <1>7, IdleJob, JobStep

\* A step that writes the keys in Redis and moves its request on.
LEMMA KeysInv ==
    ASSUME AuthInv, NEW r \in Reqs, NEW j \in Jobs, job' = [job EXCEPT ![r] = j],
           j.step # "idle" => account.exists,
           j.step \in {"verify_delete", "verify_credit"} => j.code \in 1 .. MaxCodes,
           j.step = "verify_commit" => Credited',
           j.claim => account.verified,
           j.step = "change_set" => j.action \in Actions,
           UNCHANGED <<account, issued>>,
           mail' \in [code : Nat, attempts : Nat],
           codes' \in Nat,
           pending' \subseteq [action : Actions, code : Nat],
           credits' \in [1 .. MaxCodes -> Nat],
           Credited => Credited',
           reply' \in Answers
    PROVE  AuthInv'
<1>1. TypeOK /\ CreditedIfVerified /\ ClaimsNotAhead /\ JobsSound
  BY DEF AuthInv
<1>2. account'.verified => account'.exists /\ Credited'
  BY <1>1 DEF TypeOK, CreditedIfVerified, JobsSound
<1>3. QED
  BY <1>1, <1>2, JobStep DEF TypeOK, ClaimsNotAhead

\* What the keys in Redis satisfy before a step.
LEMMA KeyFacts ==
    ASSUME AuthInv
    PROVE  /\ mail \in [code : Nat, attempts : Nat] /\ mail.attempts \in Nat
           /\ codes \in Nat /\ codes + 1 \in Nat
           /\ pending \subseteq [action : Actions, code : Nat]
           /\ credits \in [1 .. MaxCodes -> Nat]
           /\ reply \in Answers
           /\ TypeOK
           /\ NoMail \in [code : Nat, attempts : Nat]
  BY AuthAssumption DEF AuthInv, TypeOK, NoMail

\* request_email_verification.
LEMMA RequestInv ==
    ASSUME AuthInv, NEW r \in Reqs, RequestRead(r) \/ RequestDelete(r) \/ RequestSet(r)
    PROVE  AuthInv'
<1>1. CASE RequestRead(r)
  <2>1. UNCHANGED <<account, issued, mail, codes, pending, credits, reply>>
    BY <1>1 DEF RequestRead
  <2>2. CASE mail.attempts + 1 > MaxAttempts
    BY <1>1, <2>1, <2>2, KeyFacts, DoneInv DEF RequestRead
  <2>3. CASE ~(mail.attempts + 1 > MaxAttempts)
    <3> DEFINE j == [Idle EXCEPT !.step = "request_delete", !.seen = mail.attempts]
    <3>3. job' = [job EXCEPT ![r] = j]
      BY <1>1, <2>3 DEF RequestRead, Carry
    <3>4. j \in Jobs /\ j.step = "request_delete" /\ j.claim = FALSE
      BY KeyFacts DEF Idle, Jobs, Steps
    <3>6. account.exists
      BY <1>1, JobFacts DEF RequestRead, At
    <3> HIDE DEF j
    <3>7. QED
      BY <2>1, <3>3, <3>4, <3>6, JobFacts, QuietStep
  <2>4. QED
    BY <2>2, <2>3
<1>2. CASE RequestDelete(r)
  <2>1. GoTo(r, "request_set") /\ mail' = NoMail /\ At(r, "request_delete")
        /\ UNCHANGED <<account, issued, codes, pending, credits, reply>>
    BY <1>2 DEF RequestDelete
  <2>2. PICK j \in Jobs : /\ job' = [job EXCEPT ![r] = j] /\ j.step = "request_set"
                          /\ j.claim = job[r].claim
    BY <2>1, KeyFacts, StepRecord DEF Steps
  <2>3. QED
    BY <2>1, <2>2, JobFacts, KeyFacts, KeysInv, CreditsStay DEF At
<1>3. CASE RequestSet(r)
  <2>1. /\ job' = [job EXCEPT ![r] = Idle]
        /\ codes' = codes + 1
        /\ mail' = [code |-> codes', attempts |-> job[r].seen + 1]
        /\ UNCHANGED <<account, issued, pending, credits, reply>>
    BY <1>3 DEF RequestSet, Done, Carry, NewCode
  <2>2. job[r].seen \in Nat
    BY JobFacts DEF Jobs
  <2>3. mail' \in [code : Nat, attempts : Nat]
    BY <2>1, <2>2, KeyFacts
  <2>4. QED
    BY <2>1, <2>3, IdleJob, KeyFacts, KeysInv, CreditsStay
<1>4. QED
  BY <1>1, <1>2, <1>3

\* verify_email up to its commit: the credit comes before the row.
LEMMA VerifyInv ==
    ASSUME AuthInv, NEW r \in Reqs,
           (\E code \in 1 .. MaxCodes : VerifyRead(r, code)) \/ VerifyDelete(r) \/ VerifyCredit(r)
    PROVE  AuthInv'
<1>1. ASSUME NEW code \in 1 .. MaxCodes, VerifyRead(r, code)
      PROVE  AuthInv'
  <2>1. At(r, "verify_read") /\ UNCHANGED <<account, issued, mail, codes, pending, credits, reply>>
    BY <1>1 DEF VerifyRead
  <2>2. CASE Done(r)
    BY <2>1, <2>2, KeyFacts, DoneInv
  <2> DEFINE j == [Idle EXCEPT !.step = "verify_delete", !.code = code]
  <2>3. CASE Carry(r, j)
    <3>1. j \in Jobs /\ j.step = "verify_delete" /\ j.claim = FALSE /\ j.code = code
      <4>1. code \in Nat
        BY <1>1, AuthAssumption
      <4>2. QED
        BY <4>1 DEF Idle, Jobs, Steps
    <3>2. job' = [job EXCEPT ![r] = j]
      BY <2>3 DEF Carry
    <3> HIDE DEF j
    <3>3. QED
      BY <2>1, <3>1, <3>2, JobFacts, QuietStep DEF At
  <2>4. QED
    BY <1>1, <2>2, <2>3 DEF VerifyRead
<1>2. CASE VerifyDelete(r)
  <2>1. GoTo(r, "verify_credit") /\ mail' = NoMail /\ At(r, "verify_delete")
        /\ UNCHANGED <<account, issued, codes, pending, credits, reply>>
    BY <1>2 DEF VerifyDelete
  <2>2. PICK j \in Jobs : /\ job' = [job EXCEPT ![r] = j] /\ j.step = "verify_credit"
                          /\ j.code = job[r].code /\ j.claim = job[r].claim
    BY <2>1, KeyFacts, StepRecord DEF Steps
  <2>3. QED
    BY <2>1, <2>2, JobFacts, KeyFacts, KeysInv, CreditsStay DEF At
<1>3. CASE VerifyCredit(r)
  <2>1. GoTo(r, "verify_commit") /\ At(r, "verify_credit")
        /\ credits' = [credits EXCEPT ![job[r].code] = @ + 1]
        /\ UNCHANGED <<account, issued, mail, codes, pending, reply>>
    BY <1>3 DEF VerifyCredit
  <2>2. PICK j \in Jobs : /\ job' = [job EXCEPT ![r] = j] /\ j.step = "verify_commit"
                          /\ j.claim = job[r].claim
    BY <2>1, KeyFacts, StepRecord DEF Steps
  <2>3. credits' \in [1 .. MaxCodes -> Nat] /\ (Credited => Credited') /\ Credited'
    <3>1. job[r].code \in 1 .. MaxCodes
      BY <2>1, JobFacts DEF At
    <3>2. credits'[job[r].code] = credits[job[r].code] + 1 /\ credits[job[r].code] \in Nat
      BY <2>1, <3>1, KeyFacts
    <3>3. credits' \in [1 .. MaxCodes -> Nat]
      BY <2>1, <3>1, KeyFacts
    <3>4. credits'[job[r].code] > 0
      BY <3>2
    <3>5. QED
      BY <3>1, <3>3, <3>4 DEF Credited
  <2>4. QED
    BY <2>1, <2>2, <2>3, JobFacts, KeyFacts, KeysInv DEF At
<1>4. QED
  BY <1>1, <1>2, <1>3

\* The requests for a change and the codes that confirm one.
LEMMA ChangeInv ==
    ASSUME AuthInv, NEW r \in Reqs,
           ChangeDelete(r) \/ ChangeSet(r) \/ ActionRead(r) \/ ActionDelete(r)
    PROVE  AuthInv'
<1> USE KeyFacts, JobFacts
<1>1. CASE ChangeDelete(r)
  <2>1. PICK a \in Actions :
            /\ pending' = {k \in pending : k.action # a}
            /\ Carry(r, [Idle EXCEPT !.step = "change_set", !.action = a])
    BY <1>1 DEF ChangeDelete
  <2> DEFINE j == [Idle EXCEPT !.step = "change_set", !.action = a]
  <2>2. j \in Jobs /\ j.step = "change_set" /\ j.claim = FALSE /\ j.action = a
    BY DEF Idle, Jobs, Steps
  <2>3. job' = [job EXCEPT ![r] = j]
    BY <2>1 DEF Carry
  <2>4. UNCHANGED <<account, issued, mail, codes, credits, reply>> /\ account.exists
    BY <1>1 DEF ChangeDelete, At
  <2>5. pending' \subseteq [action : Actions, code : Nat]
    BY <2>1
  <2> HIDE DEF j
  <2>6. QED
    BY <2>2, <2>3, <2>4, <2>5, KeysInv, CreditsStay
<1>2. CASE ChangeSet(r)
  <2>1. /\ job' = [job EXCEPT ![r] = Idle]
        /\ codes' = codes + 1
        /\ pending' = pending \cup {[action |-> job[r].action, code |-> codes']}
        /\ UNCHANGED <<account, issued, mail, credits, reply>>
    BY <1>2 DEF ChangeSet, Done, Carry, NewCode
  <2>2. job[r].action \in Actions
    BY <1>2 DEF ChangeSet, At
  <2>3. pending' \subseteq [action : Actions, code : Nat]
    BY <2>1, <2>2
  <2>4. QED
    BY <2>1, <2>3, IdleJob, KeysInv, CreditsStay
<1>3. CASE ActionRead(r)
  <2>1. PICK k \in pending :
            IF KeyIsRead(k.action)
            THEN /\ Carry(r, [Idle EXCEPT !.step = "action_delete", !.code = k.code,
                                          !.action = k.action])
                 /\ UNCHANGED reply
            ELSE Done(r) /\ reply' = "invalid_code"
    BY <1>3 DEF ActionRead
  <2>2. UNCHANGED <<account, issued, mail, codes, pending, credits>> /\ account.exists
    BY <1>3 DEF ActionRead, At
  <2>3. CASE KeyIsRead(k.action)
    <3> DEFINE j == [Idle EXCEPT !.step = "action_delete", !.code = k.code,
                                 !.action = k.action]
    <3>1. k.code \in Nat /\ k.action \in Actions
      OBVIOUS
    <3>2. j \in Jobs /\ j.step = "action_delete" /\ j.claim = FALSE
      BY <3>1 DEF Idle, Jobs, Steps
    <3>3. job' = [job EXCEPT ![r] = j] /\ UNCHANGED reply
      BY <2>1, <2>3 DEF Carry
    <3> HIDE DEF j
    <3>4. QED
      BY <2>2, <3>2, <3>3, QuietStep
  <2>4. CASE ~KeyIsRead(k.action)
    BY <2>1, <2>2, <2>4, DoneInv DEF Answers
  <2>5. QED
    BY <2>3, <2>4
<1>4. CASE ActionDelete(r)
  <2>1. /\ job' = [job EXCEPT ![r] = Idle]
        /\ pending' = {k \in pending : k.code # job[r].code}
        /\ UNCHANGED <<account, issued, mail, codes, credits>>
    BY <1>4 DEF ActionDelete, Done, Carry
  <2>2. reply' \in Answers
    BY <1>4 DEF ActionDelete, Answers
  <2>3. pending' \subseteq [action : Actions, code : Nat]
    BY <2>1
  <2>4. QED
    BY <2>1, <2>2, <2>3, IdleJob, KeysInv, CreditsStay
<1>5. QED
  BY <1>1, <1>2, <1>3, <1>4

\* register, and the keys that expire: the table of requests stays.
LEMMA OtherInv ==
    ASSUME AuthInv, Register \/ MailExpires \/ \E k \in pending : ChangeExpires(k)
    PROVE  AuthInv'
<1>1. TypeOK /\ CreditedIfVerified /\ ClaimsNotAhead /\ JobsSound
  BY DEF AuthInv
<1>2. CASE Register
  <2>1. /\ ~account.exists
        /\ codes' = codes + 1
        /\ mail' = [code |-> codes', attempts |-> 0]
        /\ issued' = <<FALSE>>
        /\ account' = [exists |-> TRUE, verified |-> FALSE, jwt |-> 1]
        /\ UNCHANGED <<pending, credits, job, reply>>
    BY <1>2 DEF Register, NewCode
  <2>2. issued' \in Seq(BOOLEAN) /\ Len(issued') = 1 /\ DOMAIN issued' = {1} /\ issued'[1] = FALSE
    BY <2>1
  <2>3. TypeOK'
    BY <1>1, <2>1, <2>2 DEF TypeOK
  <2>4. (CreditedIfVerified)'
    BY <2>1, AuthAssumption DEF CreditedIfVerified
  <2>5. ClaimsNotAhead'
    BY <2>2 DEF ClaimsNotAhead
  <2>6. JobsSound'
    BY <1>1, <2>1 DEF JobsSound, TypeOK
  <2>7. QED
    BY <2>3, <2>4, <2>5, <2>6 DEF AuthInv
<1>3. CASE MailExpires
  <2>1. mail' = NoMail /\ UNCHANGED <<account, issued, codes, pending, credits, job, reply>>
    BY <1>3 DEF MailExpires
  <2>2. TypeOK'
    BY <1>1, <2>1, KeyFacts DEF TypeOK
  <2>3. (CreditedIfVerified /\ ClaimsNotAhead /\ JobsSound)'
    BY <1>1, <2>1, CreditsStay DEF CreditedIfVerified, ClaimsNotAhead, JobsSound
  <2>4. QED
    BY <2>2, <2>3 DEF AuthInv
<1>4. ASSUME NEW k \in pending, ChangeExpires(k)
      PROVE  AuthInv'
  <2>1. pending' = pending \ {k}
        /\ UNCHANGED <<account, issued, mail, codes, credits, job, reply>>
    BY <1>4 DEF ChangeExpires
  <2>2. TypeOK'
    BY <1>1, <2>1 DEF TypeOK
  <2>3. (CreditedIfVerified /\ ClaimsNotAhead /\ JobsSound)'
    BY <1>1, <2>1, CreditsStay DEF CreditedIfVerified, ClaimsNotAhead, JobsSound
  <2>4. QED
    BY <2>2, <2>3 DEF AuthInv
<1>5. QED
  BY <1>2, <1>3, <1>4

\* Every step, and a step that changes nothing, keeps the invariant.
LEMMA AuthNextInv == AuthInv /\ [Next]_authVars => AuthInv'
<1> SUFFICES ASSUME AuthInv, [Next]_authVars PROVE AuthInv'
    OBVIOUS
<1>1. ASSUME NEW r \in Reqs, Serve(r)
      PROVE  AuthInv'
  <2>1. CASE RequestFails(r)
    BY <2>1, KeyFacts, DoneInv DEF RequestFails
  <2>2. QED
    BY <1>1, <2>1, LoginCommitInv, LogoutInv, RequestInv, VerifyInv, VerifyCommitInv,
       ChangeInv DEF Serve
<1>2. CASE UNCHANGED authVars
  BY <1>2, CreditsStay DEF authVars, AuthInv, TypeOK, CreditedIfVerified,
              ClaimsNotAhead, JobsSound
<1>3. QED
  BY <1>1, <1>2, ArriveInv, OtherInv DEF Next

-----------------------------------------------------------------------------
(***************************************************************************)
(* How often a code is credited.  A request holds a code from its reading  *)
(* to the credit.  The credits of a code and the requests that hold it are *)
(* together never more than the requests served at a time: a code that can *)
(* still be read has not been credited, and once it was credited or lost   *)
(* nobody reads it again.                                                  *)
(***************************************************************************)

Verifying == {"verify_delete", "verify_credit"}

Holders(code) == {r \in Reqs : job[r].step \in Verifying /\ job[r].code = code}

\* A code that waits in Redis was never credited and no request is past its
\* deletion; the codes to come are nowhere.
CodesFresh ==
    /\ mail.code <= codes
    /\ \A code \in 1 .. MaxCodes :
         code = mail.code \/ code > codes => credits[code] = 0
    /\ \A r \in Reqs : job[r].step \in Verifying => job[r].code <= codes
    /\ \A r \in Reqs : job[r].step = "verify_credit" => job[r].code # mail.code

CreditsBounded ==
    \A code \in 1 .. MaxCodes :
        credits[code] + Cardinality(Holders(code)) <= Cardinality(Reqs)

CreditInv == CodesFresh /\ CreditsBounded

\* The requests that hold a code are finitely many.
LEMMA HoldersFinite ==
    ASSUME NEW code
    PROVE  /\ IsFiniteSet(Holders(code)) /\ Cardinality(Holders(code)) \in Nat
           /\ Cardinality(Holders(code)) <= Cardinality(Reqs)
           /\ Cardinality(Reqs) \in Nat
<1>1. Holders(code) \subseteq Reqs /\ IsFiniteSet(Reqs)
  BY AuthAssumption DEF Holders
<1>2. QED
  BY <1>1, FS_Subset, FS_CardinalityType

\* The same in the next state.
LEMMA HoldersFiniteNext ==
    ASSUME NEW code
    PROVE  /\ IsFiniteSet(Holders(code)') /\ Cardinality(Holders(code)') \in Nat
           /\ Cardinality(Holders(code)') <= Cardinality(Reqs)
<1>1. Holders(code)' \subseteq Reqs /\ IsFiniteSet(Reqs)
  BY AuthAssumption DEF Holders
<1>2. QED
  BY <1>1, FS_Subset, FS_CardinalityType

\* Fewer holders and the same credits.
LEMMA FewerHolders ==
    ASSUME AuthInv, CreditsBounded, UNCHANGED credits,
           \A code \in 1 .. MaxCodes : Holders(code)' \subseteq Holders(code)
    PROVE  CreditsBounded'
<1> SUFFICES ASSUME NEW code \in 1 .. MaxCodes
             PROVE  credits'[code] + Cardinality(Holders(code)') <= Cardinality(Reqs)
  BY DEF CreditsBounded
<1>1. Cardinality(Holders(code)') <= Cardinality(Holders(code))
  BY HoldersFinite, FS_Subset
<1>2. credits[code] \in Nat
  BY DEF AuthInv, TypeOK
<1>3. credits[code] + Cardinality(Holders(code)) <= Cardinality(Reqs)
  BY DEF CreditsBounded
<1>4. QED
  BY <1>1, <1>2, <1>3, HoldersFinite, HoldersFiniteNext

\* What most steps do to the key of the verification and to the codes ...
KeyMoves ==
    \/ codes' = codes /\ mail'.code \in {0, mail.code}
    \/ codes' = codes + 1 /\ mail'.code \in {mail.code, codes'}

\* ... and to a request.
JobMoves(q) ==
    \/ job'[q] = job[q]
    \/ job'[q].step \notin Verifying
    \/ At(q, "verify_delete") /\ job'[q].code = job[q].code /\ mail'.code = 0

\* A step that reads no code and credits none.
LEMMA MovesKeepCredits ==
    ASSUME AuthInv, CreditInv, UNCHANGED credits, KeyMoves, \A q \in Reqs : JobMoves(q)
    PROVE  CreditInv'
<1>1. codes \in Nat /\ mail.code \in Nat /\ credits \in [1 .. MaxCodes -> Nat]
      /\ job \in [Reqs -> Jobs]
  BY DEF AuthInv, TypeOK, Jobs
<1>2. CodesFresh /\ CreditsBounded
  BY DEF CreditInv
<1>3. \A q \in Reqs : job[q].step \in Verifying => job[q].code \in 1 .. MaxCodes
  BY JobFacts DEF Verifying
<1>4. codes' \in Nat /\ codes' >= codes /\ mail'.code <= codes' /\ mail'.code \in Nat
  BY <1>1, <1>2 DEF KeyMoves, CodesFresh
<1>5. ASSUME NEW code \in 1 .. MaxCodes, code = mail'.code \/ code > codes'
      PROVE  credits'[code] = 0
  BY <1>1, <1>2, <1>4, <1>5 DEF KeyMoves, CodesFresh
<1>6. ASSUME NEW q \in Reqs, job'[q].step \in Verifying
      PROVE  job[q].step \in Verifying /\ job'[q].code = job[q].code
  BY <1>6 DEF JobMoves, At, Verifying
<1>7. ASSUME NEW q \in Reqs, job'[q].step \in Verifying
      PROVE  job'[q].code <= codes'
  <2>1. job[q].code <= codes /\ job[q].code \in Nat
    BY <1>2, <1>3, <1>6, <1>7 DEF CodesFresh
  <2>2. QED
    BY <1>1, <1>4, <1>6, <1>7, <2>1
<1>8. ASSUME NEW q \in Reqs, job'[q].step = "verify_credit"
      PROVE  job'[q].code # mail'.code
  <2>1. job[q].step \in Verifying /\ job'[q].code = job[q].code
    BY <1>6, <1>8 DEF Verifying
  <2>2. job[q].code <= codes /\ job[q].code \in Nat /\ job[q].code # 0
    BY <1>2, <1>3, <2>1 DEF CodesFresh
  <2>3. CASE job'[q] = job[q]
    BY <1>1, <1>2, <1>8, <2>1, <2>2, <2>3 DEF KeyMoves, CodesFresh
  <2>4. CASE mail'.code = 0
    BY <2>1, <2>2, <2>4
  <2>5. QED
    BY <1>8, <2>3, <2>4 DEF JobMoves, Verifying
<1>9. \A code \in 1 .. MaxCodes : Holders(code)' \subseteq Holders(code)
  BY <1>6 DEF Holders
<1>10. CreditsBounded'
  BY <1>2, <1>9, FewerHolders
<1>11. CodesFresh'
  BY <1>4, <1>5, <1>7, <1>8 DEF CodesFresh
<1>12. QED
  BY <1>10, <1>11 DEF CreditInv

\* A request that ends or goes on outside the verification.
LEMMA JobMovesOn ==
    ASSUME AuthInv, NEW r \in Reqs, NEW j \in Jobs, job' = [job EXCEPT ![r] = j],
           j.step \notin Verifying
    PROVE  \A q \in Reqs : JobMoves(q)
<1>1. TypeOK
  BY DEF AuthInv
<1>2. QED
  BY <1>1, JobUpdate DEF JobMoves

\* A code is read: it was not credited yet.
LEMMA VerifyReadCredits ==
    ASSUME AuthInv, CreditInv, NEW r \in Reqs, NEW code \in 1 .. MaxCodes, VerifyRead(r, code)
    PROVE  CreditInv'
<1>1. UNCHANGED <<mail, codes, credits>> /\ codes \in Nat /\ mail.code \in Nat
  BY DEF VerifyRead, AuthInv, TypeOK
<1>2. CASE Done(r)
  <2>1. \A q \in Reqs : JobMoves(q)
    BY <1>2, IdleJob, JobMovesOn DEF Done, Carry, Verifying
  <2>2. QED
    BY <1>1, <2>1, MovesKeepCredits DEF KeyMoves
<1> DEFINE j == [Idle EXCEPT !.step = "verify_delete", !.code = code]
<1>3. ASSUME mail.code = code, Carry(r, j)
      PROVE  CreditInv'
  <2>1. code \in Nat
    BY AuthAssumption
  <2>2. j \in Jobs /\ j.step = "verify_delete" /\ j.code = code
    BY <2>1 DEF Idle, Jobs, Steps
  <2>3. job' = [job EXCEPT ![r] = j] /\ TypeOK
    BY <1>3 DEF Carry, AuthInv
  <2> HIDE DEF j
  <2>4. job'[r] = j /\ \A q \in Reqs \ {r} : job'[q] = job[q]
    BY <2>2, <2>3, JobUpdate
  <2>5. CodesFresh /\ CreditsBounded
    BY DEF CreditInv
  <2>6. code <= codes
    BY <1>3, <2>5 DEF CodesFresh
  <2>7. CodesFresh'
    BY <1>1, <2>2, <2>4, <2>5, <2>6 DEF CodesFresh, Verifying
  <2>8. ASSUME NEW c \in 1 .. MaxCodes
        PROVE  credits'[c] + Cardinality(Holders(c)') <= Cardinality(Reqs)
    <3>1. CASE c = code
      <4>1. credits'[c] = 0
        BY <1>1, <1>3, <2>5, <3>1 DEF CodesFresh
      <4>2. QED
        BY <4>1, HoldersFiniteNext
    <3>2. CASE c # code
      <4>1. Holders(c)' = Holders(c)
        BY <2>2, <2>4, <3>2 DEF Holders, VerifyRead, At, Verifying
      <4>2. QED
        BY <1>1, <2>5, <4>1 DEF CreditsBounded
    <3>3. QED
      BY <3>1, <3>2
  <2>9. QED
    BY <2>7, <2>8 DEF CreditInv, CreditsBounded
<1>4. QED
  BY <1>2, <1>3 DEF VerifyRead

\* A code is credited: its request holds it no longer.
LEMMA VerifyCreditCredits ==
    ASSUME AuthInv, CreditInv, NEW r \in Reqs, VerifyCredit(r)
    PROVE  CreditInv'
<1>1. At(r, "verify_credit") /\ UNCHANGED <<mail, codes>> /\ GoTo(r, "verify_commit")
      /\ credits' = [credits EXCEPT ![job[r].code] = @ + 1]
  BY DEF VerifyCredit
<1>2. TypeOK /\ codes \in Nat /\ mail.code \in Nat /\ credits \in [1 .. MaxCodes -> Nat]
  BY DEF AuthInv, TypeOK
<1>3. PICK code \in 1 .. MaxCodes : code = job[r].code
  BY <1>1, JobFacts DEF At
<1>4. PICK j \in Jobs : job' = [job EXCEPT ![r] = j] /\ j.step = "verify_commit"
  BY <1>1, <1>2, StepRecord DEF Steps
<1>5. job'[r] = j /\ \A q \in Reqs \ {r} : job'[q] = job[q]
  BY <1>2, <1>4, JobUpdate
<1>6. CodesFresh /\ CreditsBounded
  BY DEF CreditInv
<1>7. /\ credits'[code] = credits[code] + 1 /\ credits[code] \in Nat
      /\ \A c \in 1 .. MaxCodes \ {code} : credits'[c] = credits[c]
  BY <1>1, <1>2, <1>3
<1>8. code # mail.code /\ ~(code > codes)
  <2>1. code <= codes /\ code \in Nat
    BY <1>1, <1>3, <1>6 DEF CodesFresh, At, Verifying
  <2>2. code # mail.code
    BY <1>1, <1>3, <1>6 DEF CodesFresh, At
  <2>3. QED
    BY <1>2, <2>1, <2>2
<1>9. CodesFresh'
  BY <1>1, <1>4, <1>5, <1>6, <1>7, <1>8 DEF CodesFresh, Verifying
<1>10. ASSUME NEW c \in 1 .. MaxCodes
       PROVE  credits'[c] + Cardinality(Holders(c)') <= Cardinality(Reqs)
  <2>1. CASE c = code
    <3>1. Holders(c)' = Holders(c) \ {r} /\ r \in Holders(c)
      BY <1>1, <1>3, <1>4, <1>5, <2>1 DEF Holders, At, Verifying
    <3>2. Cardinality(Holders(c)') = Cardinality(Holders(c)) - 1
      BY <3>1, HoldersFinite, FS_RemoveElement
    <3>3. credits[c] + Cardinality(Holders(c)) <= Cardinality(Reqs)
      BY <1>6 DEF CreditsBounded
    <3>4. QED
      BY <1>7, <2>1, <3>2, <3>3, HoldersFinite
  <2>2. CASE c # code
    <3>1. Holders(c)' = Holders(c)
      BY <1>1, <1>3, <1>4, <1>5, <2>2 DEF Holders, At, Verifying
    <3>2. QED
      BY <1>6, <1>7, <2>2, <3>1 DEF CreditsBounded
  <2>3. QED
    BY <2>1, <2>2
<1>11. QED
  BY <1>9, <1>10 DEF CreditInv, CreditsBounded

\* The steps of a request.
LEMMA ServeCredits ==
    ASSUME AuthInv, CreditInv, NEW r \in Reqs, Arrive(r) \/ Serve(r)
    PROVE  CreditInv'
<1>1. TypeOK /\ codes \in Nat
  BY DEF AuthInv, TypeOK
<1>2. ASSUME UNCHANGED <<codes, credits>>, mail' \in {mail, NoMail}, Done(r)
      PROVE  CreditInv'
  <2>1. \A q \in Reqs : JobMoves(q)
    BY <1>2, IdleJob, JobMovesOn DEF Done, Carry, Verifying
  <2>2. QED
    BY <1>2, <2>1, MovesKeepCredits DEF KeyMoves, NoMail
<1>3. ASSUME NEW step \in Steps \ Verifying, GoTo(r, step), UNCHANGED <<codes, credits>>,
             mail' \in {mail, NoMail}
      PROVE  CreditInv'
  <2>1. PICK j \in Jobs : job' = [job EXCEPT ![r] = j] /\ j.step = step
    BY <1>1, <1>3, StepRecord
  <2>2. \A q \in Reqs : JobMoves(q)
    BY <1>3, <2>1, JobMovesOn
  <2>3. QED
    BY <1>3, <2>2, MovesKeepCredits DEF KeyMoves, NoMail
<1>4. CASE Arrive(r)
  <2>1. CASE LoginRead(r)
    <3> DEFINE j == [Idle EXCEPT !.step = "login_commit", !.claim = account.verified]
    <3>1. job' = [job EXCEPT ![r] = j] /\ UNCHANGED <<mail, codes, credits>>
      BY <2>1 DEF LoginRead, Carry
    <3>2. j \in Jobs /\ j.step = "login_commit"
      BY <1>1, IdleJob DEF TypeOK, Idle, Jobs, Steps
    <3> HIDE DEF j
    <3>3. \A q \in Reqs : JobMoves(q)
      BY <3>1, <3>2, JobMovesOn DEF Verifying
    <3>4. QED
      BY <3>1, <3>3, MovesKeepCredits DEF KeyMoves
  <2>2. ASSUME NEW step \in {"verify_read", "request_read", "logout_commit",
                             "change_delete", "action_read"},
               NEW authenticated, Begin(r, step, authenticated)
        PROVE  CreditInv'
    <3>1. step \in Steps \ Verifying
      BY <2>2 DEF Steps, Verifying
    <3>2. GoTo(r, step) /\ UNCHANGED <<mail, codes, credits>>
      BY <2>2 DEF Begin, GoTo
    <3>3. QED
      BY <1>3, <3>1, <3>2
  <2>3. QED
    BY <1>4, <2>1, <2>2 DEF Arrive
<1>5. CASE LoginCommit(r) \/ LogoutCommit(r) \/ VerifyCommit(r) \/ RequestFails(r)
           \/ ActionDelete(r)
  BY <1>2, <1>5 DEF LoginCommit, LogoutCommit, VerifyCommit, RequestFails, ActionDelete
<1>6. CASE RequestRead(r)
  <2> DEFINE j == [Idle EXCEPT !.step = "request_delete", !.seen = mail.attempts]
  <2>1. UNCHANGED <<mail, codes, credits>> /\ (Done(r) \/ job' = [job EXCEPT ![r] = j])
    BY <1>6 DEF RequestRead, Carry
  <2>2. j \in Jobs /\ j.step = "request_delete"
    BY <1>1 DEF TypeOK, Idle, Jobs, Steps
  <2> HIDE DEF j
  <2>3. ASSUME job' = [job EXCEPT ![r] = j] PROVE CreditInv'
    <3>1. \A q \in Reqs : JobMoves(q)
      BY <2>2, <2>3, JobMovesOn DEF Verifying
    <3>2. QED
      BY <2>1, <3>1, MovesKeepCredits DEF KeyMoves
  <2>4. QED
    BY <1>2, <2>1, <2>3
<1>7. CASE RequestDelete(r)
  <2>1. "request_set" \in Steps \ Verifying
    BY DEF Steps, Verifying
  <2>2. QED
    BY <1>3, <1>7, <2>1 DEF RequestDelete
<1>8. CASE RequestSet(r) \/ ChangeSet(r)
  <2>1. KeyMoves /\ UNCHANGED credits /\ job' = [job EXCEPT ![r] = Idle]
    BY <1>8 DEF RequestSet, ChangeSet, NewCode, KeyMoves, Done, Carry
  <2>2. \A q \in Reqs : JobMoves(q)
    BY <2>1, IdleJob, JobMovesOn DEF Verifying
  <2>3. QED
    BY <2>1, <2>2, MovesKeepCredits
<1>9. CASE VerifyDelete(r)
  <2>1. At(r, "verify_delete") /\ mail'.code = 0 /\ UNCHANGED <<codes, credits>>
        /\ GoTo(r, "verify_credit")
    BY <1>9 DEF VerifyDelete, NoMail
  <2>2. PICK j \in Jobs : job' = [job EXCEPT ![r] = j] /\ j.code = job[r].code
    BY <1>1, <2>1, StepRecord DEF Steps
  <2>3. \A q \in Reqs : JobMoves(q)
    BY <1>1, <2>1, <2>2, JobUpdate DEF JobMoves
  <2>4. QED
    BY <2>1, <2>3, MovesKeepCredits DEF KeyMoves
<1>10. CASE ChangeDelete(r)
  <2>1. PICK a \in Actions : Carry(r, [Idle EXCEPT !.step = "change_set", !.action = a])
    BY <1>10 DEF ChangeDelete
  <2> DEFINE j == [Idle EXCEPT !.step = "change_set", !.action = a]
  <2>2. j \in Jobs /\ j.step = "change_set"
    BY DEF Idle, Jobs, Steps
  <2>3. job' = [job EXCEPT ![r] = j] /\ UNCHANGED <<mail, codes, credits>>
    BY <1>10, <2>1 DEF Carry, ChangeDelete
  <2> HIDE DEF j
  <2>4. \A q \in Reqs : JobMoves(q)
    BY <2>2, <2>3, JobMovesOn DEF Verifying
  <2>5. QED
    BY <2>3, <2>4, MovesKeepCredits DEF KeyMoves
<1>11. CASE ActionRead(r)
  <2>1. PICK k \in pending :
            \/ Carry(r, [Idle EXCEPT !.step = "action_delete", !.code = k.code,
                                     !.action = k.action])
            \/ Done(r)
    BY <1>11 DEF ActionRead
  <2>2. UNCHANGED <<mail, codes, credits>> /\ k.code \in Nat /\ k.action \in Actions
    BY <1>1, <1>11 DEF ActionRead, TypeOK
  <2> DEFINE j == [Idle EXCEPT !.step = "action_delete", !.code = k.code, !.action = k.action]
  <2>3. j \in Jobs /\ j.step = "action_delete"
    BY <2>2 DEF Idle, Jobs, Steps
  <2>4. ASSUME Carry(r, j) PROVE CreditInv'
    <3>1. job' = [job EXCEPT ![r] = j]
      BY <2>4 DEF Carry
    <3> HIDE DEF j
    <3>2. \A q \in Reqs : JobMoves(q)
      BY <2>3, <3>1, JobMovesOn DEF Verifying
    <3>3. QED
      BY <2>2, <3>2, MovesKeepCredits DEF KeyMoves
  <2>5. QED
    BY <1>2, <2>1, <2>2, <2>4
<1>12. QED
  BY <1>4, <1>5, <1>6, <1>7, <1>8, <1>9, <1>10, <1>11, VerifyReadCredits, VerifyCreditCredits
  DEF Serve

\* Every step, and a step that changes nothing.
LEMMA CreditNextInv == AuthInv /\ CreditInv /\ [Next]_authVars => CreditInv'
<1> SUFFICES ASSUME AuthInv, CreditInv, [Next]_authVars PROVE CreditInv'
    OBVIOUS
<1>1. CASE Register \/ MailExpires \/ (\E k \in pending : ChangeExpires(k)) \/ UNCHANGED authVars
  <2>1. UNCHANGED <<credits, job>>
    BY <1>1 DEF Register, MailExpires, ChangeExpires, authVars
  <2>2. KeyMoves
    <3>1. CASE Register
      BY <3>1 DEF Register, NewCode, KeyMoves
    <3>2. CASE MailExpires
      BY <3>2 DEF MailExpires, KeyMoves, NoMail
    <3>3. CASE (\E k \in pending : ChangeExpires(k)) \/ UNCHANGED authVars
      BY <3>3 DEF ChangeExpires, authVars, KeyMoves
    <3>4. QED
      BY <1>1, <3>1, <3>2, <3>3
  <2>3. \A q \in Reqs : JobMoves(q)
    BY <2>1 DEF JobMoves
  <2>4. QED
    BY <2>1, <2>2, <2>3, MovesKeepCredits
<1>2. QED
  BY <1>1, ServeCredits DEF Next

\* Nothing is credited in a fresh database.
LEMMA CreditInitInv == Init => CreditInv
<1> SUFFICES ASSUME Init PROVE CreditInv
    OBVIOUS
<1>1. CodesFresh
  BY DEF Init, CodesFresh, NoMail, Idle, Verifying
<1>2. CreditsBounded
  <2>1. \A code \in 1 .. MaxCodes : credits[code] = 0
    BY DEF Init
  <2>2. QED
    BY <2>1, HoldersFinite DEF CreditsBounded
<1>3. QED
  BY <1>1, <1>2 DEF CreditInv

-----------------------------------------------------------------------------

\* The invariant holds in every reachable state.
THEOREM AuthSafe == Spec => []AuthInv
  BY AuthInitInv, AuthNextInv, PTL DEF Spec

\* The row, the tokens and the keys keep their types, and the token the row
\* refers to was issued.
THEOREM AuthTypes == Spec => []TypeOK
<1>1. AuthInv => TypeOK
  BY DEF AuthInv
<1>2. QED
  BY <1>1, AuthSafe, PTL

\* verify_email: a code is credited at most once for each request that is served
\* at the same time, however they overlap, fail and come back.
THEOREM CodesPayOncePerRequest == Spec => []CreditsPerCode
<1>1. Spec => []CreditInv
  BY AuthSafe, CreditInitInv, CreditNextInv, PTL DEF Spec
<1>2. AuthInv /\ CreditInv => CreditsPerCode
  <2> SUFFICES ASSUME AuthInv, CreditInv, NEW code \in 1 .. MaxCodes
               PROVE  credits[code] <= Cardinality(Reqs)
    BY DEF CreditsPerCode
  <2>1. credits[code] \in Nat
    BY DEF AuthInv, TypeOK
  <2>2. credits[code] + Cardinality(Holders(code)) <= Cardinality(Reqs)
    BY DEF CreditInv, CreditsBounded
  <2>3. QED
    BY <2>1, <2>2, HoldersFinite
<1>3. QED
  BY <1>1, <1>2, AuthSafe, PTL

\* verify_email: a verified user has received the cash of a new user, wherever
\* requests fail and however they overlap.
THEOREM VerifiedIsCredited == Spec => []CreditedIfVerified
<1>1. AuthInv => CreditedIfVerified
  BY DEF AuthInv
<1>2. QED
  BY <1>1, AuthSafe, PTL

\* login and verify_email: no token claims more than the row says.
THEOREM ClaimsStayBehind == Spec => []ClaimsNotAhead
<1>1. AuthInv => ClaimsNotAhead
  BY DEF AuthInv
<1>2. QED
  BY <1>1, AuthSafe, PTL

====
