--------------------------- MODULE UserWorkProofs ---------------------------
(***********************************************************************************)
(* Proofs about the rows that requests of users change without a lock: accounts and *)
(* sessions, insights and interviews, salary answers, the Google account, resume    *)
(* versions and the settings of auto-apply, for any number of requests, users,      *)
(* versions, rules and times.  In each part the invariant says what a request in    *)
(* progress still knows of the row it has read; what it no longer knows is what the *)
(* property names as its cause.                                                     *)
(***********************************************************************************)
EXTENDS MCUserWork, FiniteSetTheorems, TLAPS

-----------------------------------------------------------------------------------
(* Accounts and sessions.  As long as no stale write has happened to a user, nothing  *)
(* handed out is ahead of the row and everything revoked is behind it.               *)

\* Sessions and requests name ids that were registered, so a fresh id meets nothing old.
IdsAreUsedOnce ==
    /\ deleted \subseteq registered
    /\ \A s \in sessions : s.id \in registered
    /\ \A r \in Requests : request[r].at \in {"signed_in", "changed"}
                             => request[r].id \in registered

\* Where no write was stale the row is never behind a session and ahead of the revoked.
VersionsAreOrdered ==
    \A i \in users \ overlapped :
        /\ \A s \in sessions : s.id = i => s.ver <= version[i]
        /\ \A s \in revoked : s.id = i => s.ver < version[i]

IInv == TypeOK /\ IdsAreUsedOnce /\ RegisteredKeepTheirAccount /\ VersionsAreOrdered

LEMMA InitIInv == Init => IInv
<1> SUFFICES ASSUME Init PROVE IInv
  OBVIOUS
<1>1. TypeOK
  <2>1. (CHOOSE e \in Emails : TRUE) \in Emails /\ (CHOOSE p \in Passwords : TRUE) \in Passwords
    BY SomeValues
  <2> QED BY <2>1 DEF Init, TypeOK, Idle
<1>2. IdsAreUsedOnce
  BY DEF Init, IdsAreUsedOnce, Idle
<1>3. RegisteredKeepTheirAccount
  BY DEF Init, RegisteredKeepTheirAccount
<1>4. VersionsAreOrdered
  BY DEF Init, VersionsAreOrdered
<1> QED BY <1>1, <1>2, <1>3, <1>4 DEF IInv

\* An insertion draws an id nobody has used: no session and no request knows it.
LEMMA InsertKeeps ==
  ASSUME IInv, NEW r \in Requests, NEW i \in Ids, NEW p \in Passwords, InsertUser(r, i, p)
  PROVE  IInv'
<1> USE DEF InsertUser
<1>0. request[r] \in [at : {"registering"}, email : Emails]
  BY DEF IInv, TypeOK, Idle
<1>1. TypeOK'
  BY <1>0 DEF IInv, TypeOK
<1>2. IdsAreUsedOnce'
  BY DEF IInv, TypeOK, IdsAreUsedOnce, Idle
<1>3. RegisteredKeepTheirAccount'
  BY <1>0 DEF IInv, TypeOK, RegisteredKeepTheirAccount, IdsAreUsedOnce
<1>4. VersionsAreOrdered'
  <2> SUFFICES ASSUME NEW j \in users' \ overlapped'
               PROVE  /\ \A s \in sessions' : s.id = j => s.ver <= version'[j]
                      /\ \A s \in revoked' : s.id = j => s.ver < version'[j]
    BY DEF VersionsAreOrdered
  <2>1. CASE j = i
    <3>1. \A s \in sessions : s.id # i
      BY DEF IInv, IdsAreUsedOnce
    <3> QED BY <2>1, <3>1 DEF IInv, TypeOK
  <2>2. CASE j # i
    <3>1. j \in users \ overlapped /\ version'[j] = version[j]
      BY <2>2 DEF IInv, TypeOK
    <3> QED BY <3>1 DEF IInv, VersionsAreOrdered
  <2> QED BY <2>1, <2>2
<1> QED BY <1>1, <1>2, <1>3, <1>4 DEF IInv

\* A session is handed out with the version the row has.
LEMMA IssueKeeps ==
  ASSUME IInv, NEW i \in users,
         sessions' = sessions \cup {Session(i, version[i])},
         request' \in [Requests -> {Idle} \cup [at : {"registering"}, email : Emails]
                  \cup [at : {"signed_in"}, id : Ids, ver : Nat, pw : Passwords]
                  \cup [at : {"changed"}, id : Ids]],
         \A r \in Requests : request'[r] \in {request[r], Idle},
         UNCHANGED <<rows, past>>
  PROVE  IInv'
<1> USE DEF rows, past
<1>0. i \in Ids /\ i \in registered /\ version[i] \in Nat
  BY DEF IInv, TypeOK, RegisteredKeepTheirAccount
<1>1. TypeOK'
  BY <1>0 DEF IInv, TypeOK, Session
<1>2. IdsAreUsedOnce'
  <2>1. \A s \in sessions' : s.id \in registered
    BY <1>0 DEF IInv, IdsAreUsedOnce, Session
  <2>2. ASSUME NEW r \in Requests, request'[r].at \in {"signed_in", "changed"}
        PROVE  request'[r].id \in registered
    BY <2>2 DEF IInv, IdsAreUsedOnce, Idle
  <2> QED BY <2>1, <2>2 DEF IInv, IdsAreUsedOnce
<1>3. RegisteredKeepTheirAccount'
  BY DEF IInv, RegisteredKeepTheirAccount
<1>4. VersionsAreOrdered'
  BY <1>0 DEF IInv, TypeOK, VersionsAreOrdered, Session
<1> QED BY <1>1, <1>2, <1>3, <1>4 DEF IInv

\* A bump that is not stale puts the row ahead of everything handed out so far.
LEMMA BumpKeepsOrder ==
  ASSUME IInv, NEW i \in users, NEW loaded \in Nat, BumpVersion(i, loaded),
         UNCHANGED <<users, sessions>>
  PROVE  VersionsAreOrdered'
<1> SUFFICES ASSUME NEW j \in users' \ overlapped'
             PROVE  /\ \A s \in sessions' : s.id = j => s.ver <= version'[j]
                    /\ \A s \in revoked' : s.id = j => s.ver < version'[j]
  BY DEF VersionsAreOrdered
<1>0. j \in users \ overlapped /\ j \in Ids /\ i \in Ids
  BY DEF BumpVersion, IInv, TypeOK
<1>1. CASE j = i
  <2>1. version[i] = loaded /\ version'[i] = version[i] + 1 /\ version[i] \in Nat
    BY <1>0, <1>1 DEF BumpVersion, IInv, TypeOK
  <2>2. ASSUME NEW s \in sessions, s.id = i
        PROVE  s.ver <= version[i] /\ s.ver \in Nat
    BY <1>0, <1>1, <2>2 DEF IInv, TypeOK, VersionsAreOrdered
  <2>3. revoked' \subseteq sessions
    BY DEF BumpVersion, IInv, TypeOK
  <2>4. ASSUME NEW s \in sessions, s.id = i
        PROVE  s.ver < version'[i] /\ s.ver <= version'[i]
    BY <2>1, <2>2, <2>4
  <2> QED BY <1>1, <2>3, <2>4
<1>2. CASE j # i
  <2>1. version'[j] = version[j] /\ \A s \in revoked' : s.id = j => s \in revoked
    BY <1>0, <1>2 DEF BumpVersion, IInv, TypeOK
  <2> QED BY <1>0, <2>1 DEF IInv, VersionsAreOrdered
<1> QED BY <1>1, <1>2

LEMMA LogoutKeeps ==
  ASSUME IInv, NEW r \in Requests, Logout(r)
  PROVE  IInv'
<1> USE DEF Logout
<1>0. request[r] \in [at : {"signed_in"}, id : Ids, ver : Nat, pw : Passwords]
  BY DEF IInv, TypeOK, Idle
<1>1. TypeOK'
  BY <1>0 DEF IInv, TypeOK, BumpVersion
<1>2. IdsAreUsedOnce'
  BY DEF IInv, TypeOK, IdsAreUsedOnce, Idle
<1>3. RegisteredKeepTheirAccount'
  BY DEF IInv, RegisteredKeepTheirAccount
<1>4. VersionsAreOrdered'
  BY <1>0, BumpKeepsOrder
<1> QED BY <1>1, <1>2, <1>3, <1>4 DEF IInv

LEMMA ChangePasswordKeeps ==
  ASSUME IInv, NEW r \in Requests, NEW old \in Passwords, NEW new \in Passwords,
         ChangePassword(r, old, new)
  PROVE  IInv'
<1> USE DEF ChangePassword
<1>0. request[r] \in [at : {"signed_in"}, id : Ids, ver : Nat, pw : Passwords]
  BY DEF IInv, TypeOK, Idle
<1>1. TypeOK'
  BY <1>0 DEF IInv, TypeOK, BumpVersion
<1>2. IdsAreUsedOnce'
  BY DEF IInv, TypeOK, IdsAreUsedOnce, Idle
<1>3. RegisteredKeepTheirAccount'
  BY DEF IInv, RegisteredKeepTheirAccount
<1>4. VersionsAreOrdered'
  BY <1>0, BumpKeepsOrder
<1> QED BY <1>1, <1>2, <1>3, <1>4 DEF IInv

LEMMA DeleteKeeps ==
  ASSUME IInv, NEW r \in Requests, DeleteAccount(r)
  PROVE  IInv'
<1> USE DEF DeleteAccount
<1>0. request[r] \in [at : {"signed_in"}, id : Ids, ver : Nat, pw : Passwords]
  BY DEF IInv, TypeOK, Idle
<1>1. TypeOK'
  BY <1>0 DEF IInv, TypeOK
<1>2. IdsAreUsedOnce'
  BY DEF IInv, TypeOK, IdsAreUsedOnce, Idle
<1>3. RegisteredKeepTheirAccount'
  BY DEF IInv, RegisteredKeepTheirAccount
<1>4. VersionsAreOrdered'
  BY DEF IInv, VersionsAreOrdered
<1> QED BY <1>1, <1>2, <1>3, <1>4 DEF IInv

\* A request that only begins or ends writes no row.
LEMMA RequestKeeps ==
  ASSUME IInv, UNCHANGED <<rows, sessions, past>>,
         request' \in [Requests -> {Idle} \cup [at : {"registering"}, email : Emails]
                  \cup [at : {"signed_in"}, id : Ids, ver : Nat, pw : Passwords]
                  \cup [at : {"changed"}, id : Ids]],
         \A r \in Requests : request'[r].at \in {"signed_in", "changed"}
                                => request'[r].id \in registered
  PROVE  IInv'
<1> USE DEF rows, past
<1>1. TypeOK'
  BY DEF IInv, TypeOK
<1>2. IdsAreUsedOnce'
  BY DEF IInv, IdsAreUsedOnce
<1>3. RegisteredKeepTheirAccount'
  BY DEF IInv, RegisteredKeepTheirAccount
<1>4. VersionsAreOrdered'
  BY DEF IInv, VersionsAreOrdered
<1> QED BY <1>1, <1>2, <1>3, <1>4 DEF IInv

LEMMA NextIInv == IInv /\ [Next]_vars => IInv'
<1> SUFFICES ASSUME IInv, [Next]_vars PROVE IInv'
  OBVIOUS
<1>1. ASSUME NEW r \in Requests, NEW e \in Emails, CheckEmail(r, e) PROVE IInv'
  BY <1>1, RequestKeeps DEF CheckEmail, IInv, TypeOK, IdsAreUsedOnce, past
<1>2. ASSUME NEW r \in Requests, NEW i \in Ids, NEW p \in Passwords, InsertUser(r, i, p)
      PROVE IInv'
  BY <1>2, InsertKeeps
<1>3. ASSUME NEW r \in Requests, InsertRefused(r) PROVE IInv'
  BY <1>3, RequestKeeps DEF InsertRefused, Idle, IInv, TypeOK, IdsAreUsedOnce, past
<1>4. ASSUME NEW r \in Requests, NEW s \in sessions, Authenticate(r, s) PROVE IInv'
  <2>1. s.id \in Ids /\ s.id \in registered /\ version[s.id] \in Nat /\ password[s.id] \in Passwords
    BY <1>4 DEF IInv, TypeOK, IdsAreUsedOnce
  <2> QED BY <1>4, <2>1, RequestKeeps DEF Authenticate, IInv, TypeOK, IdsAreUsedOnce, past
<1>5. ASSUME NEW r \in Requests, Logout(r) PROVE IInv'
  BY <1>5, LogoutKeeps
<1>6. ASSUME NEW r \in Requests, NEW old \in Passwords, NEW new \in Passwords,
             ChangePassword(r, old, new) PROVE IInv'
  BY <1>6, ChangePasswordKeeps
<1>7. ASSUME NEW r \in Requests, IssueAfterChange(r) PROVE IInv'
  <2>1. request' \in [Requests -> {Idle} \cup [at : {"registering"}, email : Emails]
                  \cup [at : {"signed_in"}, id : Ids, ver : Nat, pw : Passwords]
                  \cup [at : {"changed"}, id : Ids]]
    BY <1>7 DEF IssueAfterChange, IInv, TypeOK
  <2>2. \A q \in Requests : request'[q] \in {request[q], Idle}
    BY <1>7 DEF IssueAfterChange, IInv, TypeOK
  <2> QED BY <1>7, <2>1, <2>2, IssueKeeps DEF IssueAfterChange
<1>8. ASSUME NEW r \in Requests, DeleteAccount(r) PROVE IInv'
  BY <1>8, DeleteKeeps
<1>9. ASSUME NEW r \in Requests, EndRequest(r) PROVE IInv'
  BY <1>9, RequestKeeps DEF EndRequest, Idle, IInv, TypeOK, IdsAreUsedOnce, past
<1>10. ASSUME NEW i \in Ids, NEW e \in Emails, NEW p \in Passwords, Login(i, e, p) PROVE IInv'
  <2>1. request' = request /\ request \in [Requests -> {Idle} \cup [at : {"registering"}, email : Emails]
                  \cup [at : {"signed_in"}, id : Ids, ver : Nat, pw : Passwords]
                  \cup [at : {"changed"}, id : Ids]]
    BY <1>10 DEF Login, IInv, TypeOK
  <2> QED BY <1>10, <2>1, IssueKeeps DEF Login
<1>11. ASSUME NEW s \in sessions, Refresh(s) PROVE IInv'
  <2>1. request' = request /\ request \in [Requests -> {Idle} \cup [at : {"registering"}, email : Emails]
                  \cup [at : {"signed_in"}, id : Ids, ver : Nat, pw : Passwords]
                  \cup [at : {"changed"}, id : Ids]]
    BY <1>11 DEF Refresh, IInv, TypeOK
  <2> QED BY <1>11, <2>1, IssueKeeps DEF Refresh, Accepted
<1>12. CASE UNCHANGED vars
  BY <1>12 DEF vars, rows, past, IInv, TypeOK, IdsAreUsedOnce, RegisteredKeepTheirAccount,
               VersionsAreOrdered
<1> QED BY <1>1, <1>2, <1>3, <1>4, <1>5, <1>6, <1>7, <1>8, <1>9, <1>10, <1>11, <1>12 DEF Next

\* The inductive invariant holds of every behaviour of the account handlers.
THEOREM Invariance == Spec => []IInv
  BY InitIInv, NextIInv, PTL DEF Spec

-----------------------------------------------------------------------------------
\* Type correctness of Sessions: rows, requests and sessions keep their shapes.
THEOREM SessionsTypeCorrect == Spec => []TypeOK
  BY Invariance, PTL DEF IInv

\* Logout and password change: a session they revoke is never accepted again unless a
\* stale write of an overlapping request has set the version back.
THEOREM RevocationHolds == Spec => []RevokedStaysRevoked
<1>1. IInv => RevokedStaysRevoked
  <2> SUFFICES ASSUME IInv, NEW s \in revoked, Accepted(s), s.id \notin overlapped PROVE FALSE
    BY DEF RevokedStaysRevoked
  <2>1. s.ver < version[s.id] /\ s.ver = version[s.id] /\ version[s.id] \in Nat
    BY DEF IInv, TypeOK, VersionsAreOrdered, Accepted
  <2> QED BY <2>1
<1> QED BY Invariance, <1>1, PTL

\* Account deletion: no session of a deleted account is accepted, even when its
\* address is registered again.
THEOREM DeletionHolds == Spec => []DeletedStaysDeleted
<1>1. IInv => DeletedStaysDeleted
  BY DEF IInv, RegisteredKeepTheirAccount, DeletedStaysDeleted, Accepted
<1> QED BY Invariance, <1>1, PTL

\* Logout, password change and account deletion: access ends with them, but for the
\* overlapping requests of one user.
THEOREM AccessEndsForAll == Spec => []AccessEnds
  BY RevocationHolds, DeletionHolds, PTL DEF AccessEnds

\* Registration: whoever was answered 201 keeps the account, and one account has an address.
THEOREM RegistrationHolds == Spec => []RegisteredKeepTheirAccount
  BY Invariance, PTL DEF IInv

\* Registration to deletion: accounts keep their owners and access ends when it should, for
\* any users, addresses and overlapping requests.
THEOREM AccountsAlwaysHold == Spec => []AccountsHold
  BY AccessEndsForAll, RegistrationHolds, PTL DEF AccountsHold

-----------------------------------------------------------------------------------
(* Salary answers *)

Entry == [at : Nat, by : Salary!Lookers \cup {"none"}, sound : BOOLEAN, stored : Nat]
Asking == [at : {"idle", "looking", "again", "researching", "advising", "done", "failed"},
           since : Nat, used : Entry, cached : BOOLEAN, refusals : Nat]
SalaryTypeOK ==
    /\ now \in Nat /\ entries \subseteq Entry
    /\ asker \in [Salary!Lookers -> Asking]

\* Nobody knows of the future.
SalaryTime ==
    /\ \A e \in entries : e.at <= e.stored /\ e.stored <= now
    /\ \A r \in Salary!Lookers : asker[r].since <= now

\* Who asks the model has seen every answer that was there when it began expire.
AsksAfterExpiry ==
    \A r \in Salary!Lookers : asker[r].at = "researching" =>
        \A f \in entries : f.stored >= asker[r].since \/ f.at + Ttl < now

SalaryInv ==
    /\ SalaryTypeOK /\ SalaryTime /\ AsksAfterExpiry
    /\ Salary!CallsExplained /\ Salary!FailuresExplained

LEMMA SalaryStarts == Salary!SalaryInit => SalaryInv
<1> SUFFICES ASSUME Salary!SalaryInit PROVE SalaryInv
  OBVIOUS
<1>1. Salary!NoAnswer \in Entry
  BY DEF Salary!NoAnswer, Entry
<1>2. SalaryTypeOK
  BY <1>1 DEF Salary!SalaryInit, SalaryTypeOK, Asking
<1>3. SalaryTime /\ AsksAfterExpiry
  BY DEF Salary!SalaryInit, SalaryTime, AsksAfterExpiry
<1>4. Salary!CallsExplained /\ Salary!FailuresExplained
  BY DEF Salary!SalaryInit, Salary!CallsExplained, Salary!FailuresExplained
<1> QED BY <1>2, <1>3, <1>4 DEF SalaryInv

\* A request goes on with an answer or without one, and nothing is stored.
LEMMA MoveKeepsInv ==
  ASSUME SalaryInv, NEW r \in Salary!Lookers,
         NEW to \in {"again", "researching", "advising", "done", "failed"},
         NEW e \in Entry, NEW c \in BOOLEAN, Salary!Move(r, to, e, c), UNCHANGED <<now, entries>>,
         to = "researching" => Salary!Valid = {},
         to = "failed" => ~e.sound /\ e \in entries
  PROVE  SalaryInv'
<1> DEFINE q == [asker[r] EXCEPT !.at = to, !.used = e, !.cached = c, !.refusals = 0]
<1>1. asker \in [Salary!Lookers -> Asking] /\ now \in Nat
  BY DEF SalaryInv, SalaryTypeOK
<1>2. /\ q \in Asking /\ q.at = to /\ q.used = e /\ q.since = asker[r].since
  BY <1>1 DEF Asking
<1>3. asker' = [asker EXCEPT ![r] = q]
  BY DEF Salary!Move
<1> HIDE DEF q
<1>4. /\ asker'[r] = q /\ \A b \in Salary!Lookers : b # r => asker'[b] = asker[b]
      /\ asker' \in [Salary!Lookers -> Asking]
  BY <1>1, <1>2, <1>3
<1>5. SalaryTypeOK' /\ Salary!CallsExplained'
  BY <1>4 DEF SalaryInv, SalaryTypeOK, Salary!CallsExplained
<1>6. SalaryTime'
  BY <1>2, <1>4 DEF SalaryInv, SalaryTime
<1>7. to = "researching" => \A f \in entries : f.at + Ttl < now
  BY <1>1, UserWorkAssumption
     DEF Salary!Valid, SalaryInv, SalaryTypeOK, Entry, UserWorkAssumption, Salary!SalaryAssumption
<1>8. AsksAfterExpiry'
  BY <1>2, <1>4, <1>7 DEF SalaryInv, AsksAfterExpiry
<1>9. Salary!FailuresExplained'
  BY <1>2, <1>4 DEF SalaryInv, Salary!FailuresExplained
<1> QED BY <1>5, <1>6, <1>8, <1>9 DEF SalaryInv

\* Found, NotFound, Advise and Brief.
LEMMA LookKeepsInv ==
  ASSUME SalaryInv, NEW r \in Salary!Lookers,
         \/ \E e \in entries : Salary!Found(r, e)
         \/ Salary!NotFound(r) \/ Salary!Advise(r) \/ Salary!Brief(r)
  PROVE  SalaryInv'
<1>1. /\ asker[r] \in Asking /\ entries \subseteq Entry /\ Salary!NoAnswer \in Entry
      /\ asker[r].used \in Entry /\ asker[r].cached \in BOOLEAN
  BY DEF SalaryInv, SalaryTypeOK, Asking, Salary!NoAnswer, Entry
<1>2. CASE \E e \in entries : Salary!Found(r, e)
  <2>1. PICK e \in entries : Salary!Found(r, e)
    BY <1>2
  <2>2. PICK to \in Salary!After(r, e) : Salary!Move(r, to, e, asker[r].at = "looking")
    BY <2>1 DEF Salary!Found
  <2>3. to \in {"failed", "advising", "done"} /\ (to = "failed" => ~e.sound)
    BY <2>2 DEF Salary!After
  <2>4. UNCHANGED <<now, entries>> /\ (asker[r].at = "looking") \in BOOLEAN
    BY <2>1 DEF Salary!Found
  <2> QED BY <1>1, <2>2, <2>3, <2>4, MoveKeepsInv
<1>3. CASE Salary!NotFound(r)
  <2>1. PICK to \in {"advising", "again", "researching"} : Salary!Move(r, to, Salary!NoAnswer, FALSE)
    BY <1>3 DEF Salary!NotFound
  <2>2. UNCHANGED <<now, entries>> /\ Salary!Valid = {}
    BY <1>3 DEF Salary!NotFound
  <2> QED BY <1>1, <2>1, <2>2, MoveKeepsInv
<1>4. CASE Salary!Advise(r) \/ Salary!Brief(r)
  <2>1. /\ Salary!Move(r, "done", asker[r].used, asker[r].cached)
        /\ UNCHANGED <<now, entries>>
    BY <1>4 DEF Salary!Advise, Salary!Brief
  <2> QED BY <1>1, <2>1, MoveKeepsInv
<1> QED BY <1>2, <1>3, <1>4

\* What is stored was asked for when everything older had expired.
LEMMA ResearchKeepsInv ==
  ASSUME SalaryInv, NEW r \in Salary!Lookers, NEW text \in Salary!Texts, Salary!Research(r, text)
  PROVE  SalaryInv'
<1> DEFINE e == [at |-> asker[r].since, by |-> r, sound |-> Salary!ChatJson(text) = "sound",
                 stored |-> now]
<1>1. PICK to \in Salary!After(r, e) : Salary!Move(r, to, e, FALSE)
  BY DEF Salary!Research
<1>2. /\ to \in {"failed", "advising", "done"} /\ (to = "failed" => ~e.sound)
  BY <1>1 DEF Salary!After
<1>3. entries' = entries \cup {e} /\ now' = now /\ asker[r].at = "researching"
  BY DEF Salary!Research
<1>4. /\ asker \in [Salary!Lookers -> Asking] /\ now \in Nat /\ entries \subseteq Entry
      /\ asker[r].since \in Nat /\ asker[r].since <= now
  BY DEF SalaryInv, SalaryTypeOK, SalaryTime, Asking
<1>5. e \in Entry /\ e.at = asker[r].since /\ e.stored = now
  BY <1>4 DEF Entry
<1> HIDE DEF e
<1> DEFINE q == [asker[r] EXCEPT !.at = to, !.used = e, !.cached = FALSE, !.refusals = 0]
<1>6. /\ q \in Asking /\ q.at = to /\ q.used = e /\ q.since = asker[r].since
  BY <1>2, <1>4, <1>5 DEF Asking
<1>7. asker' = [asker EXCEPT ![r] = q]
  BY <1>1 DEF Salary!Move
<1> HIDE DEF q
<1>8. /\ asker'[r] = q /\ \A b \in Salary!Lookers : b # r => asker'[b] = asker[b]
      /\ asker' \in [Salary!Lookers -> Asking]
  BY <1>4, <1>6, <1>7
<1>9. SalaryTypeOK'
  BY <1>3, <1>4, <1>5, <1>8 DEF SalaryTypeOK
<1>10. SalaryTime'
  BY <1>3, <1>4, <1>5, <1>6, <1>8 DEF SalaryInv, SalaryTime
<1>11. AsksAfterExpiry'
  <2> SUFFICES ASSUME NEW b \in Salary!Lookers, asker'[b].at = "researching", NEW f \in entries'
               PROVE  f.stored >= asker'[b].since \/ f.at + Ttl < now
    BY <1>3 DEF AsksAfterExpiry
  <2>1. b # r
    BY <1>2, <1>6, <1>8
  <2>2. asker[b].since <= now /\ asker[b].since \in Nat
    BY <1>4 DEF SalaryInv, SalaryTime, Asking
  <2> QED BY <1>3, <1>4, <1>5, <1>8, <2>1, <2>2 DEF SalaryInv, AsksAfterExpiry
<1>12. Salary!CallsExplained'
  <2>1. ASSUME NEW f \in entries
        PROVE  /\ e.stored >= f.at
               /\ f.stored >= e.at \/ f.at + Ttl < e.stored
    BY <1>3, <1>4, <1>5 DEF SalaryInv, SalaryTime, AsksAfterExpiry, Entry
  <2> QED BY <1>3, <2>1 DEF SalaryInv, Salary!CallsExplained
<1>13. Salary!FailuresExplained'
  BY <1>2, <1>3, <1>6, <1>8 DEF SalaryInv, Salary!FailuresExplained
<1> QED BY <1>9, <1>10, <1>11, <1>12, <1>13 DEF SalaryInv

LEMMA SalaryStep ==
  ASSUME SalaryInv, [Salary!SalaryNext]_(Salary!salaryVars)
  PROVE  SalaryInv'
<1>1. CASE UNCHANGED Salary!salaryVars
  BY <1>1 DEF Salary!salaryVars, SalaryInv, SalaryTypeOK, SalaryTime, AsksAfterExpiry,
     Salary!CallsExplained, Salary!FailuresExplained
<1>2. CASE Salary!Pass
  <2>1. now' = now + 1 /\ UNCHANGED <<entries, asker>> /\ now \in Nat
    BY <1>2 DEF Salary!Pass, SalaryInv, SalaryTypeOK
  <2>2. \A e \in entries : e.at \in Nat /\ e.stored \in Nat
    BY DEF SalaryInv, SalaryTypeOK, Entry
  <2>3. \A r \in Salary!Lookers : asker[r].since \in Nat
    BY DEF SalaryInv, SalaryTypeOK, Asking
  <2>4. Ttl \in Nat
    BY UserWorkAssumption DEF UserWorkAssumption, Salary!SalaryAssumption
  <2>5. SalaryTypeOK' /\ Salary!CallsExplained' /\ Salary!FailuresExplained'
    BY <2>1 DEF SalaryInv, SalaryTypeOK, Salary!CallsExplained, Salary!FailuresExplained
  <2>6. SalaryTime'
    BY <2>1, <2>2, <2>3 DEF SalaryInv, SalaryTime
  <2>7. AsksAfterExpiry'
    BY <2>1, <2>2, <2>3, <2>4 DEF SalaryInv, AsksAfterExpiry
  <2> QED BY <2>5, <2>6, <2>7 DEF SalaryInv
<1>3. ASSUME NEW r \in Salary!Lookers,
             \/ Salary!Enter(r)
             \/ \E text \in Salary!Texts : Salary!ModelRefuses(r, text)
      PROVE  SalaryInv'
  <2>0. asker \in [Salary!Lookers -> Asking] /\ now \in Nat /\ Salary!Models \in Nat
    BY DEF SalaryInv, SalaryTypeOK, Salary!Models, Salary!TASK_MODELS
  <2>1. /\ UNCHANGED <<now, entries>> /\ asker' \in [Salary!Lookers -> Asking]
        /\ \A b \in Salary!Lookers : b # r => asker'[b] = asker[b]
        /\ asker'[r].at = "researching" =>
              asker[r].at = "researching" /\ asker'[r].since = asker[r].since
        /\ asker'[r].at = "failed" => asker'[r].refusals = Salary!Models
        /\ asker'[r].since \in {now, asker[r].since}
    <3>1. CASE Salary!Enter(r)
      BY <2>0, <3>1 DEF Salary!Enter, Asking
    <3>2. ASSUME NEW text \in Salary!Texts, Salary!ModelRefuses(r, text)
          PROVE  /\ UNCHANGED <<now, entries>> /\ asker' \in [Salary!Lookers -> Asking]
                 /\ \A b \in Salary!Lookers : b # r => asker'[b] = asker[b]
                 /\ asker'[r].at = "researching" =>
                       asker[r].at = "researching" /\ asker'[r].since = asker[r].since
                 /\ asker'[r].at = "failed" => asker'[r].refusals = Salary!Models
                 /\ asker'[r].since \in {now, asker[r].since}
      <4> DEFINE n == asker[r].refusals + 1
                 to == IF n = Salary!Models THEN "failed" ELSE asker[r].at
                 q == [asker[r] EXCEPT !.refusals = n, !.at = to]
      <4>1. asker[r] \in Asking /\ asker[r].at \in {"researching", "advising"}
        BY <2>0, <3>2 DEF Salary!ModelRefuses
      <4>2. /\ n \in Nat /\ to \in {"failed", "researching", "advising"}
            /\ to = "failed" => n = Salary!Models
            /\ to = "researching" => asker[r].at = "researching"
        BY <4>1 DEF Asking
      <4>3. asker' = [asker EXCEPT ![r] = q] /\ UNCHANGED <<now, entries>>
        BY <2>0, <3>2 DEF Salary!ModelRefuses
      <4> HIDE DEF n, to
      <4>4. q \in Asking /\ q.since = asker[r].since /\ q.refusals = n /\ q.at = to
        BY <4>1, <4>2 DEF Asking
      <4> HIDE DEF q
      <4> QED BY <2>0, <4>2, <4>3, <4>4
    <3> QED BY <1>3, <3>1, <3>2
  <2>2. SalaryTypeOK' /\ SalaryTime'
    BY <2>0, <2>1 DEF SalaryInv, SalaryTypeOK, SalaryTime
  <2>3. AsksAfterExpiry'
    BY <2>1 DEF SalaryInv, AsksAfterExpiry
  <2>4. Salary!CallsExplained' /\ Salary!FailuresExplained'
    BY <2>1 DEF SalaryInv, Salary!CallsExplained, Salary!FailuresExplained
  <2> QED BY <2>2, <2>3, <2>4 DEF SalaryInv
<1> QED BY <1>1, <1>2, <1>3, LookKeepsInv, ResearchKeepsInv DEF Salary!SalaryNext

\* An answer that is kept is paid for again only when the second request had begun before
\* the first was stored, or after it had expired; and a request fails only when every model
\* refused it, or for an answer of another shape, which is kept (research_salary).
THEOREM SalaryCallsAreExplained == Salary!SalarySpec => []SalaryExplained
<1>1. SalaryInv => SalaryExplained
  BY DEF SalaryInv, SalaryExplained, Salary!SalaryExplained
<1> QED BY <1>1, SalaryStarts, SalaryStep, PTL DEF Salary!SalarySpec

-----------------------------------------------------------------------------------
(* The Google account *)

Holders == Accounts \cup {Google!NoAccount}
Secrets == [account : Holders, access : Nat]
GoogleRows == [id : Nat, secret : Secrets, account : Holders, error : BOOLEAN]
Working == [at : {"idle", "granted", "loaded", "reading", "done"}, secret : Secrets,
            read : GoogleRows]
GoogleShapes ==
    /\ row \in GoogleRows /\ ids \in Nat /\ tokens \in Nat
    /\ conn \in [Connects -> Working] /\ sync \in [Google!Syncs -> Working]

\* A refreshed token is one of the account that the sync has loaded.
RefreshesStay ==
    \A s \in Google!Syncs : sync[s].at = "reading" =>
        sync[s].secret.account = sync[s].read.secret.account

GoogleInv == GoogleShapes /\ RefreshesStay /\ AddressMatchesTokens

LEMMA NothingIsAShape ==
    /\ Google!NoSecret \in Secrets /\ Google!NoRow \in GoogleRows
    /\ Google!NoRow.account = Google!NoRow.secret.account
    /\ Google!Idle \in Working /\ Google!Done \in Working
    /\ Google!Idle.at = "idle" /\ Google!Done.at = "done"
BY DEF Google!NoSecret, Google!NoRow, Google!Idle, Google!Done, Secrets, GoogleRows, Working,
   Holders

LEMMA GoogleStarts == Google!GoogleInit => GoogleInv
<1> SUFFICES ASSUME Google!GoogleInit PROVE GoogleInv
  OBVIOUS
<1>1. GoogleShapes
  BY NothingIsAShape DEF Google!GoogleInit, GoogleShapes
<1>2. RefreshesStay /\ AddressMatchesTokens
  BY NothingIsAShape
     DEF Google!GoogleInit, RefreshesStay, AddressMatchesTokens, Google!AddressMatchesTokens
<1> QED BY <1>1, <1>2 DEF GoogleInv

\* A callback takes the secret of its own account, and its address unless the row it has
\* read had it: then the row still has it, or another has been at it.
LEMMA ConnectKeepsInv ==
  ASSUME GoogleInv, NEW c \in Connects,
         \/ \E a \in Accounts : Google!Exchange(c, a)
         \/ Google!ConnectFails(c) \/ Google!LoadRow(c) \/ Google!StoreConnection(c)
         \/ Google!StoreRefused(c)
  PROVE  GoogleInv'
<1>0. /\ row \in GoogleRows /\ ids \in Nat /\ tokens \in Nat
      /\ conn \in [Connects -> Working] /\ conn[c] \in Working
  BY DEF GoogleInv, GoogleShapes
<1>1. CASE \E a \in Accounts : Google!Exchange(c, a)
  <2>1. PICK a \in Accounts : Google!Exchange(c, a)
    BY <1>1
  <2> DEFINE w == [Google!Idle EXCEPT !.at = "granted",
                                      !.secret = [account |-> a, access |-> tokens']]
  <2>2. conn' = [conn EXCEPT ![c] = w] /\ tokens' = tokens + 1 /\ UNCHANGED <<row, ids, sync, mixed>>
    BY <2>1 DEF Google!Exchange, Google!NewToken
  <2>3. w \in Working
    <3>1. [account |-> a, access |-> tokens'] \in Secrets
      BY <1>0, <2>2 DEF Secrets, Holders
    <3> HIDE DEF Secrets, GoogleRows
    <3> QED BY <3>1, NothingIsAShape DEF Working
  <2> HIDE DEF w
  <2>4. GoogleShapes'
    BY <1>0, <2>2, <2>3 DEF GoogleInv, GoogleShapes
  <2> QED BY <2>2, <2>4
          DEF GoogleInv, RefreshesStay, AddressMatchesTokens, Google!AddressMatchesTokens
<1>2. CASE Google!ConnectFails(c) \/ Google!StoreRefused(c)
  <2>1. conn' = [conn EXCEPT ![c] = Google!Done] /\ UNCHANGED <<row, ids, tokens, sync, mixed>>
    BY <1>2 DEF Google!ConnectFails, Google!StoreRefused
  <2>2. GoogleShapes'
    BY <1>0, <2>1, NothingIsAShape DEF GoogleInv, GoogleShapes
  <2> QED BY <2>1, <2>2
          DEF GoogleInv, RefreshesStay, AddressMatchesTokens, Google!AddressMatchesTokens
<1>3. CASE Google!LoadRow(c)
  <2>1. /\ conn' = [conn EXCEPT ![c].at = "loaded", ![c].read = row]
        /\ UNCHANGED <<row, ids, tokens, sync, mixed>>
    BY <1>3 DEF Google!LoadRow
  <2>2. conn' \in [Connects -> Working]
    BY <1>0, <2>1 DEF Working
  <2>3. GoogleShapes'
    BY <2>1, <2>2 DEF GoogleInv, GoogleShapes
  <2> QED BY <2>1, <2>3
          DEF GoogleInv, RefreshesStay, AddressMatchesTokens, Google!AddressMatchesTokens
<1>4. CASE Google!StoreConnection(c)
  <2> DEFINE read == conn[c].read
             secret == conn[c].secret
  <2>1. /\ read \in GoogleRows /\ secret \in Secrets
    BY <1>0 DEF Working
  <2>2. /\ mixed' = (read.account # row.account) /\ conn' = [conn EXCEPT ![c] = Google!Done]
        /\ UNCHANGED <<tokens, sync>>
        /\ \/ ids' = ids + 1 /\ row' = [Google!Connected(c) EXCEPT !.id = ids']
           \/ ids' = ids /\ row' = Google!Connected(c)
    BY <1>4 DEF Google!StoreConnection
  <2>3. /\ Google!Connected(c) \in GoogleRows /\ Google!Connected(c).secret = secret
        /\ Google!Connected(c).account =
              IF secret.account = read.account THEN row.account ELSE secret.account
    <3> HIDE DEF read, secret
    <3>1. Google!Connected(c) =
            [row EXCEPT !.secret = secret,
               !.account = IF secret.account = read.account THEN row.account ELSE secret.account,
               !.error = IF FALSE = read.error THEN row.error ELSE FALSE]
      BY DEF Google!Connected, Google!Column, read, secret
    <3> QED BY <1>0, <2>1, <3>1 DEF GoogleRows, Secrets
  <2>4. /\ row' \in GoogleRows /\ row'.secret = secret
        /\ row'.account = IF secret.account = read.account THEN row.account ELSE secret.account
        /\ ids' \in Nat
    <3> HIDE DEF read, secret
    <3> QED BY <1>0, <2>2, <2>3 DEF GoogleRows
  <2>5. GoogleShapes'
    BY <1>0, <2>2, <2>4, NothingIsAShape DEF GoogleInv, GoogleShapes
  <2> HIDE DEF read, secret
  <2>6. AddressMatchesTokens'
    BY <2>2, <2>4 DEF AddressMatchesTokens, Google!AddressMatchesTokens
  <2> QED BY <2>2, <2>5, <2>6 DEF GoogleInv, RefreshesStay
<1> QED BY <1>1, <1>2, <1>3, <1>4

\* What a sync writes is the secret it has loaded, refreshed.
LEMMA SyncWrites ==
  ASSUME GoogleInv, NEW s \in Google!Syncs, NEW error \in BOOLEAN, sync[s].at = "reading",
         row' = Google!Synced(s, error), mixed' = (mixed \/ Google!Overwrites(s))
  PROVE  row' \in GoogleRows /\ AddressMatchesTokens'
<1> DEFINE read == sync[s].read
           secret == sync[s].secret
<1>1. /\ row \in GoogleRows /\ read \in GoogleRows /\ secret \in Secrets
  BY DEF GoogleInv, GoogleShapes, Working
<1>2. secret.account = read.secret.account /\ (~mixed => row.account = row.secret.account)
  BY DEF GoogleInv, RefreshesStay, AddressMatchesTokens, Google!AddressMatchesTokens
<1>3. ~mixed' => ~mixed /\ (secret = read.secret \/ row.secret = read.secret)
  BY DEF Google!Overwrites
<1>4. row' = [row EXCEPT !.secret = IF secret = read.secret THEN row.secret ELSE secret,
                         !.error = IF error = read.error THEN row.error ELSE error]
  BY DEF Google!Synced, Google!Column
<1> HIDE DEF read, secret
<1>5. /\ row' \in GoogleRows /\ row'.account = row.account
      /\ row'.secret = IF secret = read.secret THEN row.secret ELSE secret
  BY <1>1, <1>4 DEF GoogleRows
<1> QED BY <1>2, <1>3, <1>5 DEF AddressMatchesTokens, Google!AddressMatchesTokens

LEMMA SyncKeepsInv ==
  ASSUME GoogleInv, NEW s \in Google!Syncs,
         \/ Google!StartSync(s) \/ Google!Refresh(s) \/ Google!CommitMessage(s)
         \/ Google!SyncFails(s) \/ Google!SyncLost(s)
         \/ \E error \in BOOLEAN : Google!EndSync(s, error)
  PROVE  GoogleInv'
<1>0. /\ row \in GoogleRows /\ ids \in Nat /\ tokens \in Nat
      /\ sync \in [Google!Syncs -> Working] /\ sync[s] \in Working
      /\ sync[s].read \in GoogleRows /\ sync[s].secret \in Secrets
      /\ row.secret \in Secrets
  BY DEF GoogleInv, GoogleShapes, Working, GoogleRows
\* Only one sync moves, and its secret stays with its account.
<1>1. ASSUME NEW w \in Working, sync' = [sync EXCEPT ![s] = w],
             w.at = "reading" => w.secret.account = w.read.secret.account,
             row' \in GoogleRows, tokens' \in Nat, UNCHANGED <<ids, conn>>,
             AddressMatchesTokens'
      PROVE  GoogleInv'
  <2>1. /\ sync'[s] = w /\ sync' \in [Google!Syncs -> Working]
        /\ \A d \in Google!Syncs : d # s => sync'[d] = sync[d]
    BY <1>0, <1>1
  <2>2. GoogleShapes'
    BY <1>1, <2>1 DEF GoogleInv, GoogleShapes
  <2>3. RefreshesStay'
    BY <1>1, <2>1 DEF GoogleInv, RefreshesStay
  <2> QED BY <1>1, <2>2, <2>3 DEF GoogleInv
<1>2. UNCHANGED <<row, mixed>> => AddressMatchesTokens'
  BY DEF GoogleInv, AddressMatchesTokens, Google!AddressMatchesTokens
<1>3. CASE Google!StartSync(s)
  <2> DEFINE w == [at |-> "reading", secret |-> row.secret, read |-> row]
  <2>1. w \in Working
    BY <1>0 DEF Working
  <2>2. sync' = [sync EXCEPT ![s] = w] /\ UNCHANGED <<row, ids, tokens, conn, mixed>>
    BY <1>3 DEF Google!StartSync
  <2> QED BY <1>0, <1>1, <1>2, <2>1, <2>2
<1>4. CASE Google!Refresh(s)
  <2> DEFINE new == [account |-> sync[s].secret.account, access |-> tokens']
             w == [sync[s] EXCEPT !.secret = new]
  <2>1. /\ sync' = [sync EXCEPT ![s] = w] /\ tokens' = tokens + 1
        /\ UNCHANGED <<row, ids, conn, mixed>> /\ sync[s].at = "reading"
    BY <1>0, <1>4 DEF Google!Refresh, Google!NewToken, Working
  <2>2. new \in Secrets /\ new.account = sync[s].secret.account /\ tokens' \in Nat
    BY <1>0, <2>1 DEF Secrets
  <2> HIDE DEF new
  <2>3. w \in Working /\ w.secret = new /\ w.read = sync[s].read
    BY <1>0, <2>2 DEF Working
  <2>4. w.secret.account = w.read.secret.account
    BY <2>1, <2>2, <2>3 DEF GoogleInv, RefreshesStay
  <2> HIDE DEF w
  <2>5. row' \in GoogleRows /\ AddressMatchesTokens'
    BY <1>0, <1>2, <2>1
  <2> QED BY <1>1, <2>1, <2>2, <2>3, <2>4, <2>5
<1>5. CASE Google!CommitMessage(s)
  <2> DEFINE w == [sync[s] EXCEPT !.read = [sync[s].read EXCEPT !.secret = sync[s].secret]]
  <2>1. /\ sync' = [sync EXCEPT ![s] = w] /\ sync[s].at = "reading"
        /\ row' = Google!Synced(s, sync[s].read.error)
        /\ mixed' = (mixed \/ Google!Overwrites(s)) /\ UNCHANGED <<ids, tokens, conn>>
    BY <1>5 DEF Google!CommitMessage
  <2>2. /\ w \in Working /\ w.secret = w.read.secret
    BY <1>0 DEF Working, GoogleRows
  <2>3. row' \in GoogleRows /\ AddressMatchesTokens'
    <3>1. sync[s].read.error \in BOOLEAN
      BY <1>0 DEF GoogleRows
    <3> QED BY <2>1, <3>1, SyncWrites
  <2> HIDE DEF w
  <2> QED BY <1>0, <1>1, <2>1, <2>2, <2>3
<1>6. CASE Google!SyncFails(s) \/ Google!SyncLost(s) \/ \E error \in BOOLEAN : Google!EndSync(s, error)
  <2>1. sync' = [sync EXCEPT ![s] = Google!Done] /\ UNCHANGED <<ids, tokens, conn>>
    BY <1>6 DEF Google!SyncFails, Google!SyncLost, Google!EndSync
  <2>2. row' \in GoogleRows /\ AddressMatchesTokens'
    <3>1. CASE Google!SyncLost(s)
      BY <1>0, <1>2, <3>1 DEF Google!SyncLost
    <3>2. CASE Google!SyncFails(s) /\ s \notin Clicks
      <4>1. row' = [row EXCEPT !.error = TRUE] /\ mixed' = mixed
        BY <3>2 DEF Google!SyncFails
      <4>2. row' \in GoogleRows /\ row'.account = row.account /\ row'.secret = row.secret
        BY <1>0, <4>1 DEF GoogleRows
      <4> QED BY <4>1, <4>2 DEF GoogleInv, AddressMatchesTokens, Google!AddressMatchesTokens
    <3>3. CASE Google!SyncFails(s) /\ s \in Clicks
      BY <3>3, SyncWrites DEF Google!SyncFails
    <3>4. CASE \E error \in BOOLEAN : Google!EndSync(s, error)
      BY <3>4, SyncWrites DEF Google!EndSync
    <3> QED BY <1>6, <3>1, <3>2, <3>3, <3>4
  <2> QED BY <1>0, <1>1, <2>1, <2>2, NothingIsAShape
<1> QED BY <1>3, <1>4, <1>5, <1>6

LEMMA GoogleStep ==
  ASSUME GoogleInv, [Google!GoogleNext]_(Google!googleVars)
  PROVE  GoogleInv'
<1>1. ASSUME UNCHANGED <<row, ids, tokens, conn, sync, mixed>>
      PROVE  GoogleInv'
  BY <1>1 DEF GoogleInv, GoogleShapes, RefreshesStay, AddressMatchesTokens,
              Google!AddressMatchesTokens
<1>2. CASE UNCHANGED Google!googleVars
  BY <1>1, <1>2 DEF Google!googleVars
<1>3. CASE (\E n \in 1..MaxTokens : Google!Expire(n)) \/ \E a \in Accounts : Google!Revoke(a)
  BY <1>1, <1>3 DEF Google!Expire, Google!Revoke
<1>4. CASE Google!Disconnect
  <2>1. row' = Google!NoRow /\ UNCHANGED <<ids, tokens, conn, sync, mixed>>
    BY <1>4 DEF Google!Disconnect
  <2> QED BY <2>1, NothingIsAShape DEF GoogleInv, GoogleShapes, RefreshesStay,
             AddressMatchesTokens, Google!AddressMatchesTokens
<1> QED BY <1>2, <1>3, <1>4, ConnectKeepsInv, SyncKeepsInv DEF Google!GoogleNext

\* The mail that is read is that of the account the settings page names, unless a refresh or
\* a second connection wrote over another's columns (connect_google_integration, gmail_sync).
THEOREM MailIsOfTheNamedAccount == Google!GoogleSpec => []AddressMatchesTokens
<1>1. GoogleInv => AddressMatchesTokens
  BY DEF GoogleInv
<1> QED BY <1>1, GoogleStarts, GoogleStep, PTL DEF Google!GoogleSpec

-----------------------------------------------------------------------------------
(* Resume versions *)

VersionRow == [default : BOOLEAN, at : Int, text : BOOLEAN]
Shelves == UNION {[V -> VersionRow] : V \in SUBSET Versions}
ShelfShapes == resume \in Shelves /\ clock \in Int /\ DOMAIN req = Editors

\* A request has read what it sets; an upload has a version of its own, which is not stored.
RequestsKnow ==
    /\ \A r \in Editors : req[r].at \in {"loaded", "read"} =>
          /\ req[r].read \in Shelves
          /\ req[r].at = "loaded" => req[r].op = "choose"
          /\ req[r].at = "loaded" \/ req[r].op = "unset" => req[r].v \in DOMAIN req[r].read
          /\ req[r].op = "upload" => req[r].v \in Versions \ Shelf!Stored
    /\ \A r, q \in Editors :
          /\ req[r].at = "read" /\ req[r].op = "upload"
          /\ req[q].at = "read" /\ req[q].op = "upload" /\ req[q].v = req[r].v
          => q = r

ShelfInv == ShelfShapes /\ RequestsKnow /\ Shelf!DefaultExplained

LEMMA OnShelf ==
  ASSUME NEW s \in Shelves
  PROVE  /\ DOMAIN s \subseteq Versions /\ \A v \in DOMAIN s : s[v] \in VersionRow
         /\ \A v \in DOMAIN s : s[v].default \in BOOLEAN
<1>1. PICK V \in SUBSET Versions : s \in [V -> VersionRow]
  BY DEF Shelves
<1>2. /\ DOMAIN s \subseteq Versions /\ \A v \in DOMAIN s : s[v] \in VersionRow
  <2> HIDE DEF VersionRow
  <2> QED BY <1>1
<1> QED BY <1>2 DEF VersionRow

LEMMA ShelfOf ==
  ASSUME NEW V \in SUBSET Versions, NEW s \in [V -> VersionRow]
  PROVE  s \in Shelves
BY Zenon DEF Shelves

LEMMA DefaultsAre ==
  /\ \A v : v \in Shelf!Defaults <=> v \in DOMAIN resume /\ resume[v].default
  /\ \A v : v \in Shelf!Defaults' <=> v \in DOMAIN resume' /\ resume'[v].default
BY DEF Shelf!Defaults, Shelf!Stored

LEMMA ShelfStarts == Shelf!ResumesInit => ShelfInv
<1> SUFFICES ASSUME Shelf!ResumesInit PROVE ShelfInv
  OBVIOUS
<1>1. PICK V \in SUBSET Versions :
         /\ clock = Shelf!Cardinality(V)
         /\ resume \in [V -> [default : {FALSE}, at : 1..clock, text : {TRUE}]]
  BY DEF Shelf!ResumesInit
<1>2. clock \in Int
  <2>1. IsFiniteSet(V)
    <3>1. Shelf!IsFiniteSet(Versions)
      BY UserWorkAssumption DEF UserWorkAssumption, Shelf!VersionsAreVersions
    <3>2. IsFiniteSet(Versions)
      BY <3>1, Zenon DEF Shelf!IsFiniteSet, IsFiniteSet
    <3> QED BY <3>2, FS_Subset
  <2>2. Shelf!Cardinality(V) = Cardinality(V)
    BY Zenon DEF Shelf!Cardinality, Cardinality
  <2> QED BY <1>1, <2>1, <2>2, FS_CardinalityType
<1>3. resume \in [V -> VersionRow] /\ \A v \in DOMAIN resume : resume[v].default = FALSE
  <2>1. ASSUME NEW t, t \in [default : {FALSE}, at : 1..clock, text : {TRUE}]
        PROVE  t \in VersionRow /\ t.default = FALSE
    <3>1. t.at \in Int
      BY <2>1, <1>2
    <3>2. t = [default |-> FALSE, at |-> t.at, text |-> TRUE]
      BY <2>1, Zenon
    <3>3. [default |-> FALSE, at |-> t.at, text |-> TRUE] \in VersionRow
      BY <3>1 DEF VersionRow
    <3>4. t.default = FALSE
      BY <3>2
    <3> QED BY <3>2, <3>3, <3>4
  <2> DEFINE Fresh == [default : {FALSE}, at : 1..clock, text : {TRUE}]
  <2>2. \A t \in Fresh : t \in VersionRow /\ t.default = FALSE
    BY <2>1
  <2>3. resume \in [V -> Fresh]
    BY <1>1
  <2> HIDE DEF Fresh, VersionRow
  <2> QED BY <2>2, <2>3
<1>4. /\ req = [r \in Editors |-> Shelf!Resting] /\ expected = {} /\ Shelf!Resting.at = "idle"
  BY DEF Shelf!ResumesInit, Shelf!Resting
<1>5. ShelfShapes /\ RequestsKnow
  BY <1>2, <1>3, <1>4, ShelfOf DEF ShelfShapes, RequestsKnow
<1>6. Shelf!DefaultExplained
  BY <1>3, <1>4, DefaultsAre DEF Shelf!DefaultExplained
<1> QED BY <1>5, <1>6 DEF ShelfInv

\* Only one request moves.
LEMMA RequestMoves ==
  ASSUME ShelfInv, NEW r \in Editors, DOMAIN req' = Editors,
         \A q \in Editors : q # r => req'[q] = req[q],
         req'[r].at \in {"loaded", "read"} =>
             /\ req'[r].read \in Shelves
             /\ req'[r].at = "loaded" => req'[r].op = "choose"
             /\ req'[r].at = "loaded" \/ req'[r].op = "unset" => req'[r].v \in DOMAIN req'[r].read
             /\ req'[r].op = "upload" => req'[r].v \in Versions \ Shelf!Stored'
             /\ req'[r].op = "upload" => \A q \in Editors : q # r => req[q].v # req'[r].v,
         \A v \in Shelf!Stored' : v \in Shelf!Stored
             \/ (req[r].at = "read" /\ req[r].op = "upload" /\ v = req[r].v)
  PROVE  RequestsKnow'
<1>1. ASSUME NEW q \in Editors, req'[q].at \in {"loaded", "read"}
      PROVE  /\ req'[q].read \in Shelves
             /\ req'[q].at = "loaded" => req'[q].op = "choose"
             /\ req'[q].at = "loaded" \/ req'[q].op = "unset" => req'[q].v \in DOMAIN req'[q].read
             /\ req'[q].op = "upload" => req'[q].v \in Versions \ Shelf!Stored'
  <2>1. CASE q = r
    BY <1>1, <2>1
  <2>2. CASE q # r
    BY <1>1, <2>2 DEF ShelfInv, RequestsKnow
  <2> QED BY <2>1, <2>2
<1>2. ASSUME NEW p \in Editors, NEW q \in Editors,
             req'[p].at = "read", req'[p].op = "upload",
             req'[q].at = "read", req'[q].op = "upload", req'[q].v = req'[p].v
      PROVE  q = p
  BY <1>2 DEF ShelfInv, RequestsKnow
<1> QED BY <1>1, <1>2 DEF RequestsKnow

LEMMA BeginKeepsInv ==
  ASSUME ShelfInv, NEW r \in Editors,
         \/ \E v \in Versions : \/ Shelf!BeginUpload(r, v) \/ Shelf!BeginChoose(r, v)
                                \/ Shelf!BeginUnset(r, v) \/ Shelf!BeginDelete(r, v)
         \/ Shelf!BeginLetter(r)
  PROVE  ShelfInv'
<1>1. PICK op, at, v :
         /\ Shelf!Start(r, op, at, v)
         /\ at = "loaded" => op = "choose"
         /\ op \in {"choose", "unset"} => v \in Shelf!Stored
         /\ op = "upload" => v \in Versions \ Shelf!Stored /\ \A q \in Editors : req[q].v # v
  <2>1. ASSUME NEW v \in Versions, Shelf!BeginUpload(r, v)
        PROVE  /\ Shelf!Start(r, "upload", "read", v)
               /\ v \in Versions \ Shelf!Stored /\ \A q \in Editors : req[q].v # v
    BY <2>1 DEF Shelf!BeginUpload, Shelf!Begin
  <2>2. ASSUME NEW v \in Versions, Shelf!BeginChoose(r, v)
        PROVE  Shelf!Start(r, "choose", "loaded", v) /\ v \in Shelf!Stored
    BY <2>2 DEF Shelf!BeginChoose
  <2>3. ASSUME NEW v \in Versions, Shelf!BeginUnset(r, v)
        PROVE  Shelf!Start(r, "unset", "read", v) /\ v \in Shelf!Stored
    BY <2>3 DEF Shelf!BeginUnset, Shelf!Begin
  <2>4. ASSUME NEW v \in Versions, Shelf!BeginDelete(r, v)
        PROVE  Shelf!Start(r, "delete", "read", v)
    BY <2>4 DEF Shelf!BeginDelete, Shelf!Begin
  <2>5. Shelf!BeginLetter(r) => Shelf!Start(r, "letter", "read", Shelf!Foremost(resume))
    BY DEF Shelf!BeginLetter, Shelf!Begin
  <2> QED BY <2>1, <2>2, <2>3, <2>4, <2>5
<1>2. /\ req' = [req EXCEPT ![r] = [op |-> op, at |-> at, v |-> v, read |-> resume]]
      /\ UNCHANGED <<resume, named, letter, clock, expected, crossed>>
  BY <1>1 DEF Shelf!Start
<1>3. /\ resume \in Shelves /\ DOMAIN req = Editors /\ Shelf!Stored' = Shelf!Stored
      /\ DOMAIN resume = Shelf!Stored
  BY <1>2 DEF ShelfInv, ShelfShapes, Shelf!Stored
<1>4. /\ DOMAIN req' = Editors /\ \A q \in Editors : q # r => req'[q] = req[q]
      /\ req'[r] = [op |-> op, at |-> at, v |-> v, read |-> resume]
  BY <1>2, <1>3
<1>5. RequestsKnow'
  <2>1. req'[r].read = resume /\ req'[r].op = op /\ req'[r].v = v /\ req'[r].at = at
    BY <1>4
  <2> QED BY <1>1, <1>3, <1>4, <2>1, RequestMoves
<1>6. ShelfShapes' /\ Shelf!DefaultExplained'
  BY <1>2, <1>4, DefaultsAre DEF ShelfInv, ShelfShapes, Shelf!DefaultExplained
<1> QED BY <1>5, <1>6 DEF ShelfInv

\* The second select of a choice: a request reads the list beside the version it holds.
LEMMA ListKeepsInv ==
  ASSUME ShelfInv, NEW r \in Editors, Shelf!List(r)
  PROVE  ShelfInv'
<1>1. /\ req[r].at = "loaded"
      /\ req[r].read \in Shelves /\ req[r].v \in DOMAIN req[r].read
  BY DEF ShelfInv, RequestsKnow, Shelf!List
<1>2. /\ resume \in Shelves /\ DOMAIN req = Editors /\ DOMAIN resume = Shelf!Stored
      /\ UNCHANGED <<resume, clock, expected, crossed>> /\ Shelf!Stored' = Shelf!Stored
  BY DEF ShelfInv, ShelfShapes, Shelf!Stored, Shelf!List
<1>3. PICK new : new = [op |-> "choose", at |-> "read", v |-> req[r].v,
                        read |-> Shelf!Listed(r)]
  OBVIOUS
<1>4. req' = [req EXCEPT ![r] = new]
  BY <1>2, <1>3 DEF Shelf!List
<1>5. /\ DOMAIN req' = Editors /\ req'[r] = new
      /\ \A q \in Editors : q # r => req'[q] = req[q]
  BY <1>2, <1>4
<1>6. Shelf!Listed(r) \in Shelves
  <2>1. \A v \in Shelf!Stored :
          (IF v = req[r].v THEN req[r].read[v] ELSE resume[v]) \in VersionRow
    BY <1>1, <1>2, OnShelf
  <2>2. Shelf!Listed(r) \in [Shelf!Stored -> VersionRow]
    BY <2>1 DEF Shelf!Listed
  <2> QED BY <1>2, <2>2, OnShelf, ShelfOf
<1>7. new.op = "choose" /\ new.at = "read" /\ new.read = Shelf!Listed(r)
  BY <1>3
<1>8. RequestsKnow'
  BY <1>2, <1>5, <1>6, <1>7, RequestMoves
<1>9. ShelfShapes' /\ Shelf!DefaultExplained'
  BY <1>2, <1>5, DefaultsAre DEF ShelfInv, ShelfShapes, Shelf!DefaultExplained
<1> QED BY <1>8, <1>9 DEF ShelfInv

\* A choice that nothing disturbed leaves one default.
LEMMA ChooseSetsOne ==
  ASSUME ShelfInv, NEW r \in Editors, Shelf!Choose(r)
  PROVE  resume' \in Shelves /\ DOMAIN resume' = DOMAIN resume /\ Shelf!DefaultExplained'
<1> DEFINE chosen == req[r].v
           old == req[r].read
<1>1. resume \in Shelves /\ old \in Shelves /\ DOMAIN resume = Shelf!Stored
  BY DEF ShelfInv, ShelfShapes, RequestsKnow, Shelf!Choose, Shelf!Doing, Shelf!Stored
<1> HIDE DEF chosen, old
<1>2. /\ resume' = [v \in DOMAIN resume |->
                       IF v \in Shelf!Changed(r) THEN [resume[v] EXCEPT !.default = (v = chosen)]
                       ELSE resume[v]]
      /\ IF Shelf!Disturbed(r) THEN crossed' = TRUE ELSE expected' = {chosen}
  <2>1. \A v \in Shelf!Changed(r) : Shelf!Flags(r)[v] = (v = chosen)
    BY DEF Shelf!Changed, Shelf!Flags, chosen
  <2>2. resume' = [v \in Shelf!Stored |->
                       IF v \in Shelf!Changed(r)
                       THEN [resume[v] EXCEPT !.default = Shelf!Flags(r)[v]] ELSE resume[v]]
    BY DEF Shelf!Choose
  <2> QED BY <1>1, <2>1, <2>2 DEF Shelf!Choose, chosen
<1>3. \A v : v \in Shelf!Changed(r) <=> v \in DOMAIN old /\ (v = chosen) # old[v].default
  BY DEF Shelf!Changed, Shelf!Flags, chosen, old
<1>4. ASSUME NEW v \in DOMAIN resume
      PROVE  /\ resume'[v] \in VersionRow
             /\ v \in Shelf!Changed(r) => (resume'[v].default <=> v = chosen)
             /\ v \notin Shelf!Changed(r) => resume'[v].default = resume[v].default
  <2>1. resume[v] \in VersionRow
    BY <1>1, OnShelf
  <2>2. resume'[v] = IF v \in Shelf!Changed(r) THEN [resume[v] EXCEPT !.default = (v = chosen)]
                     ELSE resume[v]
    BY <1>2
  <2>3. ASSUME NEW q \in VersionRow, NEW b \in BOOLEAN, NEW p, p = [q EXCEPT !.default = b]
        PROVE  p \in VersionRow /\ (p.default <=> b)
    BY <2>3 DEF VersionRow
  <2>4. (v = chosen) \in BOOLEAN
    OBVIOUS
  <2> QED BY <2>1, <2>2, <2>3, <2>4
<1>5. DOMAIN resume' = DOMAIN resume /\ resume' \in Shelves
  <2>1. resume' \in [DOMAIN resume -> VersionRow]
    BY <1>2, <1>4
  <2> QED BY <1>1, <2>1, OnShelf, ShelfOf
<1>6. Shelf!DefaultExplained'
  <2> SUFFICES ASSUME ~crossed' PROVE Shelf!Defaults' = expected'
    BY DEF Shelf!DefaultExplained
  <2>1. ~Shelf!Disturbed(r) /\ expected' = {chosen}
    BY <1>2
  <2>2. /\ chosen \in DOMAIN resume /\ chosen \in DOMAIN old
        /\ \A v : v \in DOMAIN old /\ v \in DOMAIN resume /\ old[v].default <=> v \in Shelf!Defaults
    BY <1>1, <2>1 DEF Shelf!Disturbed, old, chosen
  <2>3. ASSUME NEW v \in DOMAIN resume
        PROVE  resume'[v].default <=> v = chosen
    <3>1. CASE v \in Shelf!Changed(r)
      BY <1>4, <3>1
    <3>2. CASE v \notin Shelf!Changed(r) /\ v \in DOMAIN old
      <4>1. old[v].default = (v = chosen) /\ old[v].default \in BOOLEAN
        BY <1>1, <1>3, <3>2, OnShelf
      <4>2. v \in Shelf!Defaults <=> v = chosen
        BY <2>2, <3>2, <4>1
      <4> QED BY <1>4, <3>2, <4>2, DefaultsAre
    <3>3. CASE v \notin DOMAIN old
      <4>1. v \notin Shelf!Defaults /\ v # chosen /\ v \notin Shelf!Changed(r)
        BY <1>1, <1>3, <2>2, <3>3
      <4> QED BY <1>4, <4>1, DefaultsAre
    <3> QED BY <3>1, <3>2, <3>3
  <2> QED BY <1>5, <2>1, <2>2, <2>3, DefaultsAre
<1> QED BY <1>5, <1>6

LEMMA UnsetTakesAway ==
  ASSUME ShelfInv, NEW r \in Editors, Shelf!Unset(r)
  PROVE  resume' \in Shelves /\ DOMAIN resume' = DOMAIN resume /\ Shelf!DefaultExplained'
<1> DEFINE v == req[r].v
           change == req[r].read[v].default
<1>1. /\ resume \in Shelves /\ req[r].read \in Shelves /\ v \in DOMAIN req[r].read
      /\ DOMAIN resume = Shelf!Stored
      /\ crossed' = (crossed \/ Shelf!Disturbed(r))
      /\ ~crossed => Shelf!Defaults = expected
  BY DEF ShelfInv, ShelfShapes, RequestsKnow, Shelf!Unset, Shelf!Doing, Shelf!Stored,
         Shelf!DefaultExplained
<1>2. CASE change /\ v \in Shelf!Stored
  <2>1. resume' = [resume EXCEPT ![v].default = FALSE] /\ expected' = expected \ {v}
    BY <1>2 DEF Shelf!Unset
  <2> HIDE DEF v
  <2>2. resume[v] \in VersionRow /\ \A u \in DOMAIN resume : resume[u] \in VersionRow
    BY <1>1, <1>2, OnShelf
  <2>3. ASSUME NEW q \in VersionRow, NEW p, p = [q EXCEPT !.default = FALSE]
        PROVE  p \in VersionRow /\ ~p.default
    BY <2>3 DEF VersionRow
  <2>4. /\ DOMAIN resume' = DOMAIN resume /\ resume' = [u \in DOMAIN resume |-> resume'[u]]
        /\ \A u \in DOMAIN resume : u # v => resume'[u] = resume[u]
        /\ resume'[v] \in VersionRow /\ ~resume'[v].default
    BY <1>1, <1>2, <2>1, <2>2, <2>3
  <2>5. resume' \in Shelves
    <3>1. resume' \in [DOMAIN resume -> VersionRow]
      BY <2>2, <2>4
    <3> QED BY <1>1, <3>1, OnShelf, ShelfOf
  <2>6. \A u : u \in Shelf!Defaults' <=> u \in Shelf!Defaults /\ u # v
    BY <2>4, DefaultsAre
  <2>7. Shelf!DefaultExplained'
    BY <1>1, <2>1, <2>6 DEF Shelf!DefaultExplained
  <2> QED BY <2>4, <2>5, <2>7
<1>3. CASE ~(change /\ v \in Shelf!Stored)
  <2>1. resume' = resume /\ expected' = expected
    BY <1>3 DEF Shelf!Unset
  <2> QED BY <1>1, <2>1, DefaultsAre DEF Shelf!DefaultExplained
<1> QED BY <1>2, <1>3

\* A deleted version is no default, and a new one is none either.
LEMMA StoreKeepsDefaults ==
  ASSUME ShelfInv, NEW r \in Editors, Shelf!Delete(r) \/ \E text \in BOOLEAN : Shelf!Upload(r, text)
  PROVE  /\ resume' \in Shelves /\ Shelf!DefaultExplained' /\ clock' \in Int
         /\ \A v \in Shelf!Stored' : v \in Shelf!Stored
                \/ (req[r].at = "read" /\ req[r].op = "upload" /\ v = req[r].v)
<1>0. /\ resume \in Shelves /\ DOMAIN resume = Shelf!Stored /\ Shelf!Stored' = DOMAIN resume'
      /\ clock \in Int /\ (~crossed => Shelf!Defaults = expected)
      /\ DOMAIN resume \subseteq Versions /\ \A v \in DOMAIN resume : resume[v] \in VersionRow
  BY OnShelf DEF ShelfInv, ShelfShapes, Shelf!Stored, Shelf!DefaultExplained
<1>1. CASE Shelf!Delete(r)
  <2>1. /\ resume' = IF req[r].v \in named THEN resume
                     ELSE [v \in Shelf!Stored \ {req[r].v} |-> resume[v]]
        /\ expected' = expected \cap DOMAIN resume' /\ UNCHANGED <<clock, crossed>>
    BY <1>1 DEF Shelf!Delete
  <2>2. /\ DOMAIN resume' \subseteq DOMAIN resume
        /\ \A v \in DOMAIN resume' : resume'[v] = resume[v]
        /\ resume' = [v \in DOMAIN resume' |-> resume'[v]]
    <3>1. CASE req[r].v \in named
      <4>1. PICK V \in SUBSET Versions : resume \in [V -> VersionRow]
        BY <1>0 DEF Shelves
      <4> QED BY <2>1, <3>1, <4>1
    <3>2. CASE req[r].v \notin named
      BY <1>0, <2>1, <3>2
    <3> QED BY <3>1, <3>2
  <2>3. resume' \in Shelves
    <3>1. resume' \in [DOMAIN resume' -> VersionRow] /\ DOMAIN resume' \subseteq Versions
      BY <1>0, <2>2
    <3> QED BY <3>1, ShelfOf
  <2>4. Shelf!DefaultExplained'
    <3>1. \A v : v \in Shelf!Defaults' <=> v \in Shelf!Defaults /\ v \in DOMAIN resume'
      BY <2>2, DefaultsAre
    <3> QED BY <1>0, <2>1, <3>1 DEF Shelf!DefaultExplained
  <2> QED BY <1>0, <2>1, <2>2, <2>3, <2>4
<1>2. ASSUME NEW text \in BOOLEAN, Shelf!Upload(r, text)
      PROVE  /\ resume' \in Shelves /\ Shelf!DefaultExplained' /\ clock' \in Int
             /\ \A v \in Shelf!Stored' : v \in Shelf!Stored
                    \/ (req[r].at = "read" /\ req[r].op = "upload" /\ v = req[r].v)
  <2> DEFINE new == [default |-> FALSE, at |-> clock', text |-> text]
             u == req[r].v
  <2>1. /\ resume' = [v \in Shelf!Stored \cup {u} |-> IF v = u THEN new ELSE resume[v]]
        /\ clock' = clock + 1 /\ UNCHANGED <<expected, crossed>>
        /\ req[r].at = "read" /\ req[r].op = "upload"
    BY <1>2 DEF Shelf!Upload, Shelf!Doing
  <2>2. u \in Versions /\ u \notin Shelf!Stored
    BY <2>1 DEF ShelfInv, RequestsKnow
  <2>3. clock' \in Int
    BY <1>0, <2>1
  <2>4. new \in VersionRow /\ new.default = FALSE
    BY <2>3 DEF VersionRow
  <2> HIDE DEF new
  <2>5. resume' \in Shelves
    <3>1. resume' \in [Shelf!Stored \cup {u} -> VersionRow]
      <4> HIDE DEF u
      <4> QED BY <1>0, <2>1, <2>4
    <3> QED BY <1>0, <2>2, <3>1, ShelfOf
  <2> HIDE DEF u
  <2>6. \A v : v \in Shelf!Defaults' <=> v \in Shelf!Defaults
    BY <1>0, <2>1, <2>2, <2>4, DefaultsAre
  <2>7. Shelf!DefaultExplained'
    BY <1>0, <2>1, <2>6 DEF Shelf!DefaultExplained
  <2> QED BY <1>0, <2>1, <2>3, <2>5, <2>7 DEF u
<1> QED BY <1>1, <1>2

LEMMA ShelfStep ==
  ASSUME ShelfInv, [Shelf!ResumesNext]_(Shelf!resumeVars)
  PROVE  ShelfInv'
<1>0. /\ resume \in Shelves /\ clock \in Int /\ DOMAIN req = Editors
      /\ Shelf!Stored = DOMAIN resume /\ Shelf!Stored' = DOMAIN resume'
  BY DEF ShelfInv, ShelfShapes, Shelf!Stored
<1>1. CASE UNCHANGED Shelf!resumeVars
  <2>1. UNCHANGED <<resume, req, clock, expected, crossed>>
    BY <1>1 DEF Shelf!resumeVars
  <2> QED BY <2>1, <1>0, DefaultsAre
          DEF ShelfInv, ShelfShapes, RequestsKnow, Shelf!DefaultExplained
\* A request ends.
<1>2. ASSUME NEW r \in Editors, NEW done, done.at = "done", req' = [req EXCEPT ![r] = done],
             resume' \in Shelves, clock' \in Int, Shelf!DefaultExplained',
             \A v \in Shelf!Stored' : v \in Shelf!Stored
                 \/ (req[r].at = "read" /\ req[r].op = "upload" /\ v = req[r].v)
      PROVE  ShelfInv'
  <2>1. /\ DOMAIN req' = Editors /\ req'[r] = done
        /\ \A q \in Editors : q # r => req'[q] = req[q]
    BY <1>0, <1>2
  <2>2. RequestsKnow'
    BY <1>2, <2>1, RequestMoves
  <2> QED BY <1>2, <2>1, <2>2 DEF ShelfInv, ShelfShapes
<1>3. Shelf!Done.at = "done" /\ \A v : [Shelf!Done EXCEPT !.v = v].at = "done"
  BY DEF Shelf!Done, Shelf!Resting
<1>4. \A r \in Editors : Shelf!End(r) => req' = [req EXCEPT ![r] = Shelf!Done]
  BY DEF Shelf!End
<1>5. UNCHANGED <<resume, expected, crossed>> => Shelf!DefaultExplained'
  BY DefaultsAre DEF ShelfInv, Shelf!DefaultExplained
<1>6. ASSUME NEW r \in Editors, Shelf!ChooseFails(r) \/ \E text \in BOOLEAN : Shelf!Letter(r, text)
      PROVE  ShelfInv'
  <2>1. Shelf!End(r) /\ UNCHANGED <<resume, clock, expected, crossed>>
    BY <1>6 DEF Shelf!ChooseFails, Shelf!Letter
  <2> QED BY <1>0, <1>2, <1>3, <1>4, <1>5, <2>1
<1>7. ASSUME NEW r \in Editors, Shelf!Choose(r) \/ Shelf!Unset(r)
      PROVE  ShelfInv'
  <2>1. Shelf!End(r) /\ clock' = clock
    BY <1>7 DEF Shelf!Choose, Shelf!Unset
  <2>2. resume' \in Shelves /\ DOMAIN resume' = DOMAIN resume /\ Shelf!DefaultExplained'
    BY <1>7, ChooseSetsOne, UnsetTakesAway
  <2> QED BY <1>0, <1>2, <1>3, <1>4, <2>1, <2>2
<1>8. ASSUME NEW r \in Editors, Shelf!Delete(r) \/ \E text \in BOOLEAN : Shelf!Upload(r, text)
      PROVE  ShelfInv'
  <2>1. \/ req' = [req EXCEPT ![r] = Shelf!Done]
        \/ req' = [req EXCEPT ![r] = [Shelf!Done EXCEPT !.v = req[r].v]]
    BY <1>8 DEF Shelf!Delete, Shelf!Upload, Shelf!End
  <2> QED BY <1>2, <1>3, <1>8, <2>1, StoreKeepsDefaults
<1>9. ASSUME NEW v \in Versions, Shelf!CreateApplication(v)
      PROVE  ShelfInv'
  <2>1. UNCHANGED <<resume, req, clock, expected, crossed>>
    BY <1>9 DEF Shelf!CreateApplication
  <2> QED BY <2>1, <1>0, DefaultsAre
          DEF ShelfInv, ShelfShapes, RequestsKnow, Shelf!DefaultExplained
<1> QED BY <1>1, <1>6, <1>7, <1>8, <1>9, BeginKeepsInv, ListKeepsInv DEF Shelf!ResumesNext

\* The default version is the one that was chosen, unless requests crossed since the last
\* undisturbed choice (update_version).
THEOREM OneDefaultVersion == Shelf!ResumesSpec => []Shelf!DefaultExplained
<1>1. ShelfInv => Shelf!DefaultExplained
  BY DEF ShelfInv
<1> QED BY <1>1, ShelfStarts, ShelfStep, PTL DEF Shelf!ResumesSpec

-----------------------------------------------------------------------------------
(* The settings of auto-apply *)

RuleRow == [there : BOOLEAN, active : BOOLEAN, on : Nat, off : Nat]
RunNames == [job : Postings \cup {""}, rule : Rules \cup {""}]
BatchRow ==
    [at : {"idle", "count", "rules", "profile", "next", "open", "done"}, rules : SUBSET Rules,
     todo : SUBSET (Postings \X Rules), open : RunNames, since : Nat]
RulesShapes ==
    /\ ticks \in Nat /\ heeded \in Nat /\ rule \in [Rules -> RuleRow]
    /\ DOMAIN editor = Switchers /\ \A e \in Switchers : editor[e].since \in Nat
    /\ batch \in [Batches -> BatchRow]

\* Nobody knows of later commits.
RulesTime ==
    /\ heeded <= ticks /\ \A e \in Switchers : editor[e].since <= ticks
    /\ \A b \in Batches : batch[b].since <= ticks

\* What a pause has not read was switched on since.
PauseSeesAll ==
    \A e \in Switchers : editor[e].at = "loaded" /\ editor[e].op = "pause" =>
        \A r \in Settings!Active : r \in editor[e].loaded \/ rule[r].on > editor[e].since

\* What a batch has loaded is active or was switched off since, and it works on nothing else;
\* an open run has a name.
BatchesKnowTheirRules ==
    \A b \in Batches :
        /\ \A r \in batch[b].rules : r \in Settings!Active \/ rule[r].off > batch[b].since
        /\ \A p \in batch[b].todo : p[2] \in batch[b].rules
        /\ batch[b].at = "open" => batch[b].open.rule \in Rules
        /\ batch[b].at \in {"idle", "count", "rules"} => batch[b].todo = {}

RulesInv ==
    /\ RulesShapes /\ RulesTime /\ PauseSeesAll /\ BatchesKnowTheirRules
    /\ Settings!SettingsObeyed

LEMMA ActiveIs ==
  /\ Settings!There \subseteq Rules
  /\ \A r \in Rules : r \in Settings!There <=> rule[r].there
  /\ \A r \in Rules : r \in Settings!Active <=> rule[r].there /\ rule[r].active
  /\ Settings!Active \subseteq Rules
BY DEF Settings!There, Settings!Active

LEMMA RulesStart == Settings!RulesInit => RulesInv
<1> SUFFICES ASSUME Settings!RulesInit PROVE RulesInv
  OBVIOUS
<1>1. PICK first \in Rules :
         rule = [r \in Rules |-> IF r = first THEN [there |-> TRUE, active |-> TRUE, on |-> 1, off |-> 0]
                              ELSE [there |-> FALSE, active |-> FALSE, on |-> 0, off |-> 0]]
  BY DEF Settings!RulesInit
<1>2. /\ editor = [e \in Switchers |-> Settings!Resting]
      /\ batch = [b \in Batches |-> Settings!Waiting]
      /\ runs = {} /\ heeded = 0 /\ flouted = FALSE /\ ticks = 1
  BY DEF Settings!RulesInit
<1>3. /\ Settings!Waiting \in BatchRow /\ Settings!Waiting.at = "idle"
      /\ Settings!Waiting.open = Settings!NoRun /\ Settings!Waiting.rules = {}
      /\ Settings!Waiting.todo = {} /\ Settings!Waiting.since = 0
  BY DEF Settings!Waiting, Settings!NoRun, BatchRow, RunNames
<1>4. Settings!Resting.since = 0 /\ Settings!Resting.at = "idle"
  BY DEF Settings!Resting
<1>5. rule \in [Rules -> RuleRow] /\ \A r \in Rules : rule[r].active => rule[r].on = 1
  BY <1>1 DEF RuleRow
<1>6. RulesShapes /\ RulesTime
  BY <1>2, <1>3, <1>4, <1>5 DEF RulesShapes, RulesTime
<1>7. PauseSeesAll /\ BatchesKnowTheirRules
  BY <1>2, <1>3, <1>4 DEF PauseSeesAll, BatchesKnowTheirRules
<1>8. Settings!PauseHolds
  BY <1>2, <1>5, ActiveIs DEF Settings!PauseHolds
<1>9. Settings!PausesAreObeyed /\ Settings!RunsKeepTheirRule
  BY <1>2, <1>3 DEF Settings!PausesAreObeyed, Settings!RunsKeepTheirRule, Settings!Open
<1> QED BY <1>6, <1>7, <1>8, <1>9 DEF RulesInv, Settings!SettingsObeyed

LEMMA SwitchedRow ==
  ASSUME NEW old \in RuleRow, NEW on \in BOOLEAN, ticks \in Nat
  PROVE  /\ Settings!Switched(old, on) \in RuleRow
         /\ Settings!Switched(old, on).there /\ Settings!Switched(old, on).active = on
         /\ on => Settings!Switched(old, on).on = ticks + 1
         /\ ~on => Settings!Switched(old, on).off = ticks + 1
<1>1. ASSUME NEW q, q = Settings!Switched(old, TRUE)
      PROVE  q = [there |-> TRUE, active |-> TRUE, on |-> ticks + 1, off |-> old.off]
  BY <1>1 DEF Settings!Switched, RuleRow
<1>2. ASSUME NEW q, q = Settings!Switched(old, FALSE)
      PROVE  q = [there |-> TRUE, active |-> FALSE, on |-> old.on, off |-> ticks + 1]
  BY <1>2 DEF Settings!Switched, RuleRow
<1>3. ASSUME NEW q, q = [there |-> TRUE, active |-> TRUE, on |-> ticks + 1, off |-> old.off]
      PROVE  q \in RuleRow /\ q.there /\ q.active = TRUE /\ q.on = ticks + 1
  BY <1>3 DEF RuleRow
<1>4. ASSUME NEW q, q = [there |-> TRUE, active |-> FALSE, on |-> old.on, off |-> ticks + 1]
      PROVE  q \in RuleRow /\ q.there /\ q.active = FALSE /\ q.off = ticks + 1
  BY <1>4 DEF RuleRow
<1>5. CASE on = TRUE
  BY <1>1, <1>3, <1>5
<1>6. CASE on = FALSE
  BY <1>2, <1>4, <1>6
<1> QED BY <1>5, <1>6

\* Rows of rules that are switched, or stay, while the clock goes on: what is on now was on
\* or has been switched on just now, and what was on and is not has been switched off.
RowsMove ==
    /\ ticks' = ticks + 1 /\ rule' \in [Rules -> RuleRow]
    /\ \A r \in Rules :
          /\ rule'[r].there /\ rule'[r].active =>
                \/ rule'[r].on = ticks + 1
                \/ rule[r].there /\ rule[r].active /\ rule'[r].on = rule[r].on
          /\ \/ rule'[r].off = ticks + 1
             \/ rule'[r].there /\ rule'[r].active
             \/ ~(rule[r].there /\ rule[r].active) /\ rule'[r].off = rule[r].off

LEMMA ActiveWill ==
  /\ Settings!There' \subseteq Rules
  /\ \A r \in Rules : r \in Settings!There' <=> rule'[r].there
  /\ \A r \in Rules : r \in Settings!Active' <=> rule'[r].there /\ rule'[r].active
  /\ Settings!Active' \subseteq Rules
BY DEF Settings!There, Settings!Active

LEMMA CommitKeepsInv ==
  ASSUME RulesInv, RowsMove, UNCHANGED <<keys, batch, runs, flouted>>,
         heeded' \in Nat, heeded' <= ticks,
         \A r \in Settings!Active : r \in Settings!Active' => rule'[r].on = rule[r].on \/ rule'[r].on > ticks,
         \A r \in Settings!Active' : rule'[r].on > heeded',
         keys => \A r \in Settings!There : r \notin Settings!There' =>
                    \A u \in runs \cup Settings!Open : u.rule # r,
         DOMAIN editor' = Switchers,
         \A e \in Switchers : \/ editor'[e] = editor[e]
                              \/ editor'[e].at = "done" /\ editor'[e].since = 0
  PROVE  RulesInv'
<1>0. /\ ticks \in Nat /\ ticks' \in Nat /\ ticks <= ticks'
      /\ rule \in [Rules -> RuleRow] /\ batch \in [Batches -> BatchRow]
      /\ \A e \in Switchers : editor[e].since \in Nat /\ editor[e].since <= ticks
      /\ \A b \in Batches : batch[b].since \in Nat /\ batch[b].since <= ticks
  BY DEF RulesInv, RulesShapes, RulesTime, RowsMove, BatchRow
<1>1. RulesShapes'
  BY <1>0 DEF RulesInv, RulesShapes, RowsMove
<1>2. RulesTime'
  <2>1. ticks' = ticks + 1
    BY DEF RowsMove
  <2> QED BY <1>0, <2>1 DEF RulesTime
<1>3. PauseSeesAll'
  <2> SUFFICES ASSUME NEW e \in Switchers, editor'[e].at = "loaded", editor'[e].op = "pause",
                      NEW r \in Settings!Active'
               PROVE  r \in editor'[e].loaded \/ rule'[r].on > editor'[e].since
    BY DEF PauseSeesAll
  <2>1. editor'[e] = editor[e] /\ r \in Rules
    BY ActiveWill
  <2>2. CASE rule'[r].on = ticks + 1
    BY <1>0, <2>1, <2>2
  <2>3. CASE r \in Settings!Active /\ rule'[r].on = rule[r].on
    BY <2>1, <2>3 DEF RulesInv, PauseSeesAll
  <2> QED BY <2>1, <2>2, <2>3, ActiveIs, ActiveWill DEF RowsMove
<1>4. BatchesKnowTheirRules'
  <2> SUFFICES ASSUME NEW b \in Batches, NEW r \in batch[b].rules, r \notin Settings!Active'
               PROVE  rule'[r].off > batch[b].since
    BY DEF RulesInv, BatchesKnowTheirRules
  <2>1. r \in Rules
    BY <1>0 DEF BatchRow
  <2>2. r \in Settings!Active \/ rule[r].off > batch[b].since
    BY DEF RulesInv, BatchesKnowTheirRules
  <2>3. \/ rule'[r].off = ticks + 1
        \/ r \notin Settings!Active /\ rule'[r].off = rule[r].off
    BY <2>1, ActiveIs, ActiveWill DEF RowsMove
  <2> QED BY <1>0, <2>2, <2>3
<1>5. Settings!PauseHolds' /\ Settings!PausesAreObeyed'
  BY DEF RulesInv, Settings!SettingsObeyed, Settings!PauseHolds, Settings!PausesAreObeyed
<1>6. Settings!RunsKeepTheirRule'
  <2>1. Settings!Open' = Settings!Open
    BY DEF Settings!Open
  <2>2. keys => \A u \in runs \cup Settings!Open : u.rule \in Settings!There
    BY DEF RulesInv, Settings!SettingsObeyed, Settings!RunsKeepTheirRule
  <2>3. keys => \A u \in runs \cup Settings!Open : u.rule \in Settings!There'
    BY <2>2
  <2> QED BY <2>1, <2>3 DEF Settings!RunsKeepTheirRule
<1> QED BY <1>1, <1>2, <1>3, <1>4, <1>5, <1>6 DEF RulesInv, Settings!SettingsObeyed

\* Requests that change rules or profiles.
LEMMA ChangeKeepsInv ==
  ASSUME RulesInv,
         \/ \E r \in Rules : Settings!CreateRule(r) \/ \E on \in BOOLEAN : Settings!UpdateRule(r, on)
         \/ \E p \in Profiles : Settings!CreateProfile(p)
         \/ \E e \in Switchers : Settings!UpdateProfile(e)
  PROVE  RulesInv'
<1>0. /\ ticks \in Nat /\ heeded \in Nat /\ heeded <= ticks /\ rule \in [Rules -> RuleRow]
      /\ DOMAIN editor = Switchers
      /\ \A r \in Settings!Active : rule[r].on > heeded
  BY DEF RulesInv, RulesShapes, RulesTime, Settings!SettingsObeyed, Settings!PauseHolds
<1>1. ASSUME NEW r \in Rules, NEW on \in BOOLEAN, ticks' = ticks + 1,
             rule' = [rule EXCEPT ![r] = Settings!Switched(rule[r], on)],
             UNCHANGED <<keys, editor, batch, runs, heeded, flouted>>
      PROVE  RulesInv'
  <2>1. /\ Settings!Switched(rule[r], on) \in RuleRow
        /\ Settings!Switched(rule[r], on).there /\ Settings!Switched(rule[r], on).active = on
        /\ on => Settings!Switched(rule[r], on).on = ticks + 1
        /\ ~on => Settings!Switched(rule[r], on).off = ticks + 1
    <3>1. rule[r] \in RuleRow
      BY <1>0
    <3> QED BY <1>0, <3>1, SwitchedRow
  <2>2. rule' \in [Rules -> RuleRow] /\ \A s \in Rules : s # r => rule'[s] = rule[s]
    BY <1>0, <1>1, <2>1
  <2>3. /\ rule'[r].there /\ rule'[r].active = on /\ (on => rule'[r].on = ticks + 1)
        /\ (~on => rule'[r].off = ticks + 1)
    BY <1>0, <1>1, <2>1
  <2>4. RowsMove
    <3>1. ASSUME NEW s \in Rules, s # r
          PROVE  /\ rule'[s].there /\ rule'[s].active =>
                      \/ rule'[s].on = ticks + 1
                      \/ rule[s].there /\ rule[s].active /\ rule'[s].on = rule[s].on
                 /\ \/ rule'[s].off = ticks + 1
                    \/ rule'[s].there /\ rule'[s].active
                    \/ ~(rule[s].there /\ rule[s].active) /\ rule'[s].off = rule[s].off
      BY <2>2, <3>1
    <3> QED BY <1>1, <2>2, <2>3, <3>1 DEF RowsMove
  <2>5. \A s \in Settings!Active' : s # r => s \in Settings!Active /\ rule'[s].on = rule[s].on
    BY <2>2, ActiveIs, ActiveWill
  <2>6. r \in Settings!Active' => rule'[r].on = ticks + 1
    BY <2>3, ActiveWill
  <2>7. \A s \in Settings!There : s \in Settings!There'
    BY <2>2, <2>3, ActiveIs, ActiveWill
  <2>8. heeded' = heeded
    BY <1>1
  <2>9. \A s \in Settings!Active' : rule'[s].on > heeded
    BY <1>0, <2>5, <2>6
  <2>10. \A s \in Settings!Active : s \in Settings!Active' => rule'[s].on = rule[s].on \/ rule'[s].on > ticks
    BY <1>0, <2>5, <2>6
  <2> HIDE DEF RowsMove
  <2>11. DOMAIN editor' = Switchers
    BY <1>0, <1>1
  <2> QED BY <1>0, <1>1, <2>11, <2>4, <2>7, <2>8, <2>9, <2>10, CommitKeepsInv
<1>2. ASSUME ticks' = ticks + 1, UNCHANGED <<keys, rule, batch, runs, heeded, flouted>>,
             DOMAIN editor' = Switchers,
             \A e \in Switchers : \/ editor'[e] = editor[e]
                                  \/ editor'[e].at = "done" /\ editor'[e].since = 0
      PROVE  RulesInv'
  <2>1. RowsMove
    BY <1>0, <1>2 DEF RowsMove
  <2>2. Settings!Active' = Settings!Active /\ Settings!There' = Settings!There
    BY <1>2 DEF Settings!Active, Settings!There
  <2> QED BY <1>0, <1>2, <2>1, <2>2, CommitKeepsInv
<1>3. ASSUME NEW r \in Rules, Settings!CreateRule(r)
      PROVE  RulesInv'
  BY <1>1, <1>3 DEF Settings!CreateRule, Settings!Change
<1>4. ASSUME NEW r \in Rules, NEW on \in BOOLEAN, Settings!UpdateRule(r, on)
      PROVE  RulesInv'
  BY <1>1, <1>4 DEF Settings!UpdateRule, Settings!Change
<1>5. ASSUME NEW p \in Profiles, Settings!CreateProfile(p)
      PROVE  RulesInv'
  <2>1. UNCHANGED <<keys, rule, editor, batch, runs, heeded, flouted>> /\ ticks' = ticks + 1
    BY <1>5 DEF Settings!CreateProfile, Settings!Change
  <2>2. DOMAIN editor' = Switchers
    BY <1>0, <2>1
  <2> QED BY <1>2, <2>1, <2>2
<1>6. ASSUME NEW e \in Switchers, Settings!UpdateProfile(e)
      PROVE  RulesInv'
  <2>1. editor' = [editor EXCEPT ![e] = [Settings!Resting EXCEPT !.at = "done"]]
    BY <1>6 DEF Settings!UpdateProfile, Settings!Ready
  <2>2. [Settings!Resting EXCEPT !.at = "done"].at = "done"
        /\ [Settings!Resting EXCEPT !.at = "done"].since = 0
    BY DEF Settings!Resting
  <2>3. \A d \in Switchers : \/ editor'[d] = editor[d]
                             \/ editor'[d].at = "done" /\ editor'[d].since = 0
    BY <2>1, <2>2
  <2>4. DOMAIN editor' = Switchers
    BY <1>0, <2>1
  <2> QED BY <1>2, <1>6, <2>3, <2>4 DEF Settings!UpdateProfile, Settings!Change
<1> QED BY <1>3, <1>4, <1>5, <1>6

\* A pause and a deletion switch rules off.
LEMMA SwitchOffKeepsInv ==
  ASSUME RulesInv, NEW e \in Switchers, Settings!CommitPause(e) \/ Settings!DeleteRule(e)
  PROVE  RulesInv'
<1>0. /\ ticks \in Nat /\ heeded \in Nat /\ heeded <= ticks /\ rule \in [Rules -> RuleRow]
      /\ DOMAIN editor = Switchers
      /\ editor[e].since \in Nat /\ editor[e].since <= ticks
      /\ \A r \in Settings!Active : rule[r].on > heeded /\ rule[r].on \in Nat
  BY ActiveIs
     DEF RulesInv, RulesShapes, RulesTime, Settings!SettingsObeyed, Settings!PauseHolds, RuleRow
<1>1. /\ ticks' = ticks + 1 /\ UNCHANGED <<keys, batch, runs, flouted>>
      /\ editor' = [editor EXCEPT ![e] = [Settings!Resting EXCEPT !.at = "done"]]
      /\ editor[e].at = "loaded"
  BY DEF Settings!CommitPause, Settings!DeleteRule, Settings!Change, Settings!Ready
<1>2. /\ DOMAIN editor' = Switchers
      /\ \A d \in Switchers : \/ editor'[d] = editor[d]
                              \/ editor'[d].at = "done" /\ editor'[d].since = 0
  <2>1. [Settings!Resting EXCEPT !.at = "done"].at = "done"
        /\ [Settings!Resting EXCEPT !.at = "done"].since = 0
    BY DEF Settings!Resting
  <2> QED BY <1>0, <1>1, <2>1
<1>3. ASSUME NEW r \in Rules
      PROVE  /\ Settings!Switched(rule[r], FALSE) \in RuleRow
             /\ ~Settings!Switched(rule[r], FALSE).active
             /\ Settings!Switched(rule[r], FALSE).there
             /\ Settings!Switched(rule[r], FALSE).off = ticks + 1
  <2>1. rule[r] \in RuleRow
    BY <1>0
  <2> QED BY <1>0, <2>1, SwitchedRow
\* Some rows go off, the others stay.
<1>4. ASSUME NEW S,
             \A r \in Rules : r \notin S => rule'[r] = rule[r],
             \A r \in Rules : r \in S => rule'[r] \in RuleRow /\ ~rule'[r].active
                                         /\ rule'[r].off = ticks + 1,
             rule' = [r \in Rules |-> rule'[r]]
      PROVE  /\ RowsMove
             /\ \A r \in Settings!Active' : r \in Settings!Active /\ r \notin S /\ rule'[r] = rule[r]
  <2>1. rule' \in [Rules -> RuleRow]
    BY <1>0, <1>4
  <2>2. RowsMove
    BY <1>1, <1>4, <2>1 DEF RowsMove
  <2> QED BY <1>4, <2>2, ActiveIs, ActiveWill
<1>5. CASE Settings!CommitPause(e)
  <2> DEFINE off == editor[e].loaded
             S == off \cap Settings!There
  <2>1. /\ rule' = [r \in Rules |-> IF r \in S THEN Settings!Switched(rule[r], FALSE) ELSE rule[r]]
        /\ heeded' = IF editor[e].since > heeded THEN editor[e].since ELSE heeded
        /\ editor[e].op = "pause"
    BY <1>5 DEF Settings!CommitPause, Settings!Ready
  <2>2. /\ \A r \in Rules : r \notin S => rule'[r] = rule[r]
        /\ \A r \in Rules : r \in S => rule'[r] \in RuleRow /\ rule'[r].there
                                       /\ ~rule'[r].active /\ rule'[r].off = ticks + 1
        /\ rule' = [r \in Rules |-> rule'[r]]
    <3> HIDE DEF S
    <3> QED BY <1>3, <2>1
  <2>3. RowsMove /\ \A r \in Settings!Active' : r \in Settings!Active /\ r \notin S /\ rule'[r] = rule[r]
    <3> HIDE DEF S
    <3> QED BY <1>4, <2>2
  <2>4. \A r \in Settings!Active' : rule'[r].on > heeded'
    <3> SUFFICES ASSUME NEW r \in Settings!Active' PROVE rule'[r].on > heeded'
      OBVIOUS
    <3>1. r \in Settings!Active /\ r \notin editor[e].loaded /\ rule'[r].on = rule[r].on
      BY <2>3 DEF Settings!Active
    <3>2. rule[r].on > editor[e].since
      BY <1>1, <2>1, <3>1 DEF RulesInv, PauseSeesAll
    <3> QED BY <1>0, <2>1, <3>1, <3>2
  <2>5. \A r \in Settings!There : r \in Settings!There'
    <3> HIDE DEF S
    <3> QED BY <2>2, ActiveIs, ActiveWill
  <2>6. heeded' \in Nat /\ heeded' <= ticks
    BY <1>0, <2>1
  <2> HIDE DEF S, off
  <2> QED BY <1>1, <1>2, <2>3, <2>4, <2>5, <2>6, CommitKeepsInv
<1>6. CASE Settings!DeleteRule(e)
  <2> DEFINE S == editor[e].loaded
  <2>1. /\ rule' = [r \in Rules |-> IF r \in S
                       THEN [Settings!Switched(rule[r], FALSE) EXCEPT !.there = FALSE] ELSE rule[r]]
        /\ heeded' = heeded
        /\ keys => S \cap Settings!Named = {} /\ \A u \in Settings!Open : u.rule \notin S
    BY <1>6 DEF Settings!DeleteRule, Settings!Free
  <2> HIDE DEF S
  <2>2. ASSUME NEW r \in Rules
        PROVE  LET q == [Settings!Switched(rule[r], FALSE) EXCEPT !.there = FALSE]
               IN  q \in RuleRow /\ ~q.active /\ ~q.there /\ q.off = ticks + 1
    <3>1. ASSUME NEW old \in RuleRow, ~old.active, NEW q, q = [old EXCEPT !.there = FALSE]
          PROVE  q \in RuleRow /\ ~q.active /\ ~q.there /\ q.off = old.off
      BY <3>1 DEF RuleRow
    <3> QED BY <1>3, <3>1
  <2>3. /\ \A r \in Rules : r \notin S => rule'[r] = rule[r]
        /\ \A r \in Rules : r \in S => rule'[r] \in RuleRow /\ ~rule'[r].active
                                       /\ rule'[r].off = ticks + 1
        /\ rule' = [r \in Rules |-> rule'[r]]
    BY <2>1, <2>2
  <2>4. RowsMove /\ \A r \in Settings!Active' : r \in Settings!Active /\ rule'[r] = rule[r]
    BY <1>4, <2>3
  <2>5. \A r \in Settings!There : r \notin Settings!There' => r \in S
    BY <2>3, ActiveIs, ActiveWill
  <2>6. keys => \A r \in Settings!There : r \notin Settings!There' =>
                    \A u \in runs \cup Settings!Open : u.rule # r
    BY <2>1, <2>5 DEF Settings!Named
  <2>7. \A r \in Settings!Active' : rule'[r].on > heeded'
    BY <1>0, <2>1, <2>4
  <2> QED BY <1>0, <1>1, <1>2, <2>1, <2>4, <2>6, <2>7, CommitKeepsInv
<1> QED BY <1>5, <1>6

\* Requests that read, or end with nothing done.
LEMMA ReadKeepsInv ==
  ASSUME RulesInv, NEW e \in Switchers,
         \/ \E p \in Profiles, on \in BOOLEAN : Settings!LoadProfile(e, p, on)
         \/ Settings!BeginPause(e) \/ Settings!PauseFails(e)
         \/ \E r \in Rules : Settings!BeginDelete(e, r)
         \/ Settings!DeleteRefused(e)
  PROVE  RulesInv'
<1> DEFINE idle == [Settings!Resting EXCEPT !.at = "done"]
<1>0. ticks \in Nat /\ idle.at = "done" /\ idle.since = 0
  BY DEF RulesInv, RulesShapes, Settings!Resting
<1>1. /\ UNCHANGED <<keys, rule, batch, runs, heeded, flouted, ticks>>
      /\ \E op, loaded :
            /\ op = "pause" => loaded = Settings!Active
            /\ \/ editor' = [editor EXCEPT ![e] = [at |-> "loaded", op |-> op, loaded |-> loaded,
                                                   since |-> ticks]]
               \/ editor' = [editor EXCEPT ![e] = idle]
  <2>1. CASE \E p \in Profiles, on \in BOOLEAN : Settings!LoadProfile(e, p, on)
    BY <2>1 DEF Settings!LoadProfile, Settings!Load
  <2>2. CASE Settings!BeginPause(e)
    BY <2>2 DEF Settings!BeginPause, Settings!Load
  <2>3. CASE \E r \in Rules : Settings!BeginDelete(e, r)
    BY <2>3 DEF Settings!BeginDelete, Settings!Load
  <2>4. CASE Settings!PauseFails(e) \/ Settings!DeleteRefused(e)
    <3>1. "none" = "pause" => {} = Settings!Active
      OBVIOUS
    <3> QED BY <2>4, <3>1 DEF Settings!PauseFails, Settings!DeleteRefused, Settings!Ready
  <2> QED BY <2>1, <2>2, <2>3, <2>4
<1> HIDE DEF idle
<1>2. PICK op, loaded :
            /\ op = "pause" => loaded = Settings!Active
            /\ \/ editor' = [editor EXCEPT ![e] = [at |-> "loaded", op |-> op, loaded |-> loaded,
                                                   since |-> ticks]]
               \/ editor' = [editor EXCEPT ![e] = idle]
  BY <1>1
<1>3. \A d \in Switchers :
         \/ editor'[d] = editor[d]
         \/ editor'[d].at = "done" /\ editor'[d].since = 0
         \/ /\ editor'[d].since = ticks
            /\ editor'[d].op = "pause" => editor'[d].loaded = Settings!Active
  <2>1. CASE editor' = [editor EXCEPT ![e] = idle]
    BY <1>0, <2>1
  <2>2. CASE editor' = [editor EXCEPT ![e] = [at |-> "loaded", op |-> op, loaded |-> loaded,
                                             since |-> ticks]]
    <3>1. DOMAIN editor = Switchers
      BY DEF RulesInv, RulesShapes
    <3>2. editor'[e] = [at |-> "loaded", op |-> op, loaded |-> loaded, since |-> ticks]
      BY <2>2, <3>1
    <3>3. \A d \in Switchers : d # e => editor'[d] = editor[d]
      BY <2>2, <3>1
    <3> QED BY <1>2, <3>2, <3>3
  <2> QED BY <1>2, <2>1, <2>2
<1>4. RulesShapes' /\ RulesTime'
  BY <1>0, <1>1, <1>3 DEF RulesInv, RulesShapes, RulesTime
<1>5. /\ Settings!Active' = Settings!Active /\ Settings!There' = Settings!There
      /\ Settings!Open' = Settings!Open
  BY <1>1 DEF Settings!Active, Settings!There, Settings!Open
<1>6. PauseSeesAll'
  BY <1>1, <1>3, <1>5 DEF RulesInv, PauseSeesAll
<1>7. BatchesKnowTheirRules' /\ Settings!SettingsObeyed'
  BY <1>1, <1>5 DEF RulesInv, BatchesKnowTheirRules, Settings!SettingsObeyed, Settings!PauseHolds,
     Settings!PausesAreObeyed, Settings!RunsKeepTheirRule
<1> QED BY <1>4, <1>6, <1>7 DEF RulesInv

\* One batch moves on.
LEMMA BatchStep ==
  ASSUME RulesInv, NEW b \in Batches, NEW to \in BatchRow, batch' = [batch EXCEPT ![b] = to],
         UNCHANGED <<keys, rule, active, editor, heeded, ticks>>,
         to.since <= ticks,
         \A r \in to.rules : r \in Settings!Active \/ rule[r].off > to.since,
         \A p \in to.todo : p[2] \in to.rules,
         to.at = "open" => to.open.rule \in Rules,
         to.at \in {"idle", "count", "rules"} => to.todo = {},
         keys /\ to.open # Settings!NoRun => to.open.rule \in Settings!There,
         ~flouted',
         keys => \A u \in runs' : u.rule \in Settings!There
  PROVE  RulesInv'
<1>1. /\ batch'[b] = to /\ batch' \in [Batches -> BatchRow]
      /\ \A d \in Batches : d # b => batch'[d] = batch[d]
  BY DEF RulesInv, RulesShapes
<1>2. Settings!Active' = Settings!Active /\ Settings!There' = Settings!There
  BY DEF Settings!Active, Settings!There
<1>3. RulesShapes' /\ RulesTime'
  BY <1>1 DEF RulesInv, RulesShapes, RulesTime
<1>4. PauseSeesAll'
  BY <1>2 DEF RulesInv, PauseSeesAll
<1>5. BatchesKnowTheirRules'
  BY <1>1, <1>2 DEF RulesInv, BatchesKnowTheirRules
<1>6. Settings!PauseHolds' /\ Settings!PausesAreObeyed'
  BY <1>2 DEF RulesInv, Settings!SettingsObeyed, Settings!PauseHolds, Settings!PausesAreObeyed
<1>7. Settings!RunsKeepTheirRule'
  <2> SUFFICES ASSUME keys, NEW u \in runs' \cup Settings!Open' PROVE u.rule \in Settings!There
    BY <1>2 DEF Settings!RunsKeepTheirRule
  <2>1. CASE u \in runs'
    BY <2>1
  <2>2. CASE u \in Settings!Open'
    <3>1. PICK d \in Batches : u = batch'[d].open /\ u # Settings!NoRun
      BY <2>2 DEF Settings!Open
    <3>2. CASE d = b
      BY <1>1, <3>1, <3>2
    <3>3. CASE d # b
      <4>1. u \in Settings!Open
        BY <1>1, <3>1, <3>3 DEF Settings!Open
      <4> QED BY <4>1 DEF RulesInv, Settings!SettingsObeyed, Settings!RunsKeepTheirRule
    <3> QED BY <3>2, <3>3
  <2> QED BY <2>1, <2>2
<1> QED BY <1>3, <1>4, <1>5, <1>6, <1>7 DEF RulesInv, Settings!SettingsObeyed

LEMMA BatchKeepsInv ==
  ASSUME RulesInv, NEW b \in Batches,
         \/ Settings!BeginBatch(b) \/ Settings!TriggerBatch(b) \/ Settings!CountRules(b)
         \/ Settings!LoadRules(b) \/ Settings!MatchJobs(b)
         \/ \E j \in Postings, r \in Rules : Settings!OpenRun(b, j, r) \/ Settings!OpenRefused(b, j, r)
         \/ \E done \in BOOLEAN : Settings!CloseRun(b, done)
  PROVE  RulesInv'
<1>0. /\ ticks \in Nat /\ batch \in [Batches -> BatchRow] /\ batch[b] \in BatchRow
      /\ batch[b].since <= ticks
      /\ \A r \in batch[b].rules : r \in Settings!Active \/ rule[r].off > batch[b].since
      /\ \A p \in batch[b].todo : p[2] \in batch[b].rules
      /\ batch[b].at = "open" => batch[b].open.rule \in Rules
      /\ batch[b].at \in {"idle", "count", "rules"} => batch[b].todo = {}
      /\ keys => \A u \in runs \cup Settings!Open : u.rule \in Settings!There
      /\ ~flouted
  BY DEF RulesInv, RulesShapes, RulesTime, BatchesKnowTheirRules, Settings!SettingsObeyed,
         Settings!PausesAreObeyed, Settings!RunsKeepTheirRule
<1>1. keys /\ batch[b].open # Settings!NoRun => batch[b].open.rule \in Settings!There
  BY <1>0 DEF Settings!Open
<1>2. /\ Settings!NoRun \in RunNames /\ "" \notin Rules /\ Settings!NoRun.rule = ""
  BY UserWorkAssumption DEF Settings!NoRun, RunNames, UserWorkAssumption, Settings!RulesAreRules
<1> DEFINE over == [Settings!Waiting EXCEPT !.at = "done"]
<1>3. /\ over \in BatchRow /\ over.since = 0 /\ over.rules = {} /\ over.todo = {}
      /\ over.at = "done" /\ over.open = Settings!NoRun
  <2> HIDE DEF RunNames
  <2> QED BY <1>2 DEF Settings!Waiting, BatchRow
<1> HIDE DEF over
<1>4. ASSUME Settings!Stop(b), UNCHANGED <<runs, flouted>>
      PROVE  RulesInv'
  <2>1. batch' = [batch EXCEPT ![b] = over] /\ UNCHANGED <<keys, rule, active, editor, heeded, ticks>>
    BY <1>4 DEF Settings!Stop, Settings!Step, over
  <2>2. ~flouted' /\ (keys => \A u \in runs' : u.rule \in Settings!There)
    BY <1>0, <1>4
  <2>3. /\ over.since <= ticks
        /\ \A r \in over.rules : r \in Settings!Active \/ rule[r].off > over.since
        /\ \A p \in over.todo : p[2] \in over.rules
    BY <1>0, <1>3
  <2> QED BY <1>3, <2>1, <2>2, <2>3, BatchStep
\* It goes on to another place, with what it has loaded.
<1>5. ASSUME NEW at \in {"count", "rules"}, batch[b].at \in {"idle", "count"}, Settings!Step(b, [batch[b] EXCEPT !.at = at]),
             UNCHANGED <<runs, flouted>>
      PROVE  RulesInv'
  <2> DEFINE to == [batch[b] EXCEPT !.at = at]
  <2>1. batch' = [batch EXCEPT ![b] = to] /\ UNCHANGED <<keys, rule, active, editor, heeded, ticks>>
    BY <1>5 DEF Settings!Step
  <2>2. /\ to \in BatchRow /\ to.since = batch[b].since /\ to.rules = batch[b].rules
        /\ to.todo = {} /\ to.at # "open" /\ to.open = batch[b].open
    BY <1>0, <1>5 DEF BatchRow
  <2> HIDE DEF to
  <2> QED BY <1>0, <1>1, <1>5, <2>1, <2>2, BatchStep
<1>6. CASE Settings!BeginBatch(b) \/ Settings!TriggerBatch(b) \/ Settings!CountRules(b)
  BY <1>4, <1>5, <1>6 DEF Settings!BeginBatch, Settings!TriggerBatch, Settings!CountRules
<1>7. CASE Settings!LoadRules(b)
  <2> DEFINE to == [batch[b] EXCEPT !.at = "profile", !.rules = Settings!Active, !.since = ticks]
  <2>1. CASE Settings!Active = {}
    BY <1>4, <1>7, <2>1 DEF Settings!LoadRules
  <2>2. CASE Settings!Active # {}
    <3>1. /\ batch' = [batch EXCEPT ![b] = to] /\ UNCHANGED <<runs, flouted>>
          /\ UNCHANGED <<keys, rule, active, editor, heeded, ticks>> /\ batch[b].at = "rules"
      BY <1>7, <2>2 DEF Settings!LoadRules, Settings!Step
    <3>2. /\ to \in BatchRow /\ to.since = ticks /\ to.rules = Settings!Active
          /\ to.todo = {} /\ to.at = "profile" /\ to.open = batch[b].open
      BY <1>0, <3>1, ActiveIs DEF BatchRow
    <3> HIDE DEF to
    <3>3. ~flouted' /\ (keys => \A u \in runs' : u.rule \in Settings!There)
      BY <1>0, <3>1
    <3>4. /\ to.since <= ticks
          /\ \A r \in to.rules : r \in Settings!Active \/ rule[r].off > to.since
          /\ \A p \in to.todo : p[2] \in to.rules
      BY <1>0, <3>2
    <3> QED BY <1>1, <3>1, <3>2, <3>3, <3>4, BatchStep
  <2> QED BY <2>1, <2>2
<1>8. CASE Settings!MatchJobs(b)
  <2> DEFINE pairs == {p \in Settings!Candidates \X batch[b].rules : Settings!Best(p[2], p[1], batch[b].rules)}
             to == [batch[b] EXCEPT !.at = "next", !.todo = pairs]
  <2>1. CASE Settings!ActiveProfiles = {}
    BY <1>4, <1>8, <2>1 DEF Settings!MatchJobs
  <2>2. CASE Settings!ActiveProfiles # {}
    <3>1. /\ batch' = [batch EXCEPT ![b] = to] /\ UNCHANGED <<runs, flouted>>
          /\ UNCHANGED <<keys, rule, active, editor, heeded, ticks>>
      BY <1>8, <2>2 DEF Settings!MatchJobs, Settings!Step
    <3>2. /\ batch[b].rules \subseteq Rules /\ Settings!Candidates \subseteq Postings
      BY <1>0 DEF BatchRow, Settings!Candidates
    <3>3. pairs \subseteq Postings \X Rules /\ \A p \in pairs : p[2] \in batch[b].rules
      BY <3>2
    <3> HIDE DEF pairs
    <3>4. /\ to \in BatchRow /\ to.since = batch[b].since /\ to.rules = batch[b].rules
          /\ to.todo = pairs /\ to.at = "next" /\ to.open = batch[b].open
      BY <1>0, <3>3 DEF BatchRow
    <3> HIDE DEF to
    <3> QED BY <1>0, <1>1, <3>1, <3>3, <3>4, BatchStep
  <2> QED BY <2>1, <2>2
<1>9. ASSUME NEW j \in Postings, NEW r \in Rules, Settings!OpenRefused(b, j, r)
      PROVE  RulesInv'
  BY <1>4, <1>9 DEF Settings!OpenRefused
<1>10. ASSUME NEW j \in Postings, NEW r \in Rules, Settings!OpenRun(b, j, r)
       PROVE  RulesInv'
  <2> DEFINE left == {p \in batch[b].todo : p[1] # j}
             opened == [job |-> j, rule |-> r]
             to == [batch[b] EXCEPT !.at = "open", !.todo = left, !.open = opened]
  <2>1. /\ batch' = [batch EXCEPT ![b] = to] /\ UNCHANGED <<runs>>
        /\ UNCHANGED <<keys, rule, active, editor, heeded, ticks>>
        /\ flouted' = (flouted \/ (r \notin Settings!Active /\ rule[r].off <= batch[b].since))
        /\ <<j, r>> \in batch[b].todo /\ (keys => r \in Settings!There)
    BY <1>0, <1>10 DEF Settings!OpenRun, Settings!Step
  <2>2. opened \in RunNames /\ opened.rule = r /\ left \subseteq batch[b].todo
    BY DEF RunNames
  <2>3. left \in SUBSET (Postings \X Rules)
    BY <1>0, <2>2 DEF BatchRow
  <2> HIDE DEF left, opened, RunNames
  <2>4. /\ to \in BatchRow /\ to.since = batch[b].since /\ to.rules = batch[b].rules
        /\ to.todo = left /\ to.open = opened /\ to.at = "open"
    BY <1>0, <2>2, <2>3 DEF BatchRow
  <2> HIDE DEF to
  <2>5. r \in Settings!Active \/ rule[r].off > batch[b].since
    BY <1>0, <2>1
  <2>6. ~flouted'
    <3>1. r \in Settings!Active \/ ~(rule[r].off <= batch[b].since)
      <4>1. rule[r].off \in Nat /\ batch[b].since \in Nat
        BY <1>0 DEF RulesInv, RulesShapes, RuleRow, BatchRow
      <4> QED BY <2>5, <4>1
    <3> QED BY <1>0, <2>1, <3>1
  <2> QED BY <1>0, <2>1, <2>2, <2>4, <2>6, BatchStep
<1>11. ASSUME NEW done \in BOOLEAN, Settings!CloseRun(b, done)
       PROVE  RulesInv'
  <2> DEFINE to == [batch[b] EXCEPT !.at = "next", !.open = Settings!NoRun]
  <2>1. /\ batch' = [batch EXCEPT ![b] = to] /\ flouted' = flouted /\ batch[b].at = "open"
        /\ UNCHANGED <<keys, rule, active, editor, heeded, ticks>>
        /\ runs' = runs \cup {[job |-> batch[b].open.job, rule |-> batch[b].open.rule, done |-> done]}
    BY <1>11 DEF Settings!CloseRun, Settings!Step
  <2>2. /\ to \in BatchRow /\ to.since = batch[b].since /\ to.rules = batch[b].rules
        /\ to.todo = batch[b].todo /\ to.open = Settings!NoRun /\ to.at = "next"
    <3> HIDE DEF RunNames
    <3> QED BY <1>0, <1>2 DEF BatchRow
  <2> HIDE DEF to
  <2>3. batch[b].open # Settings!NoRun
    BY <1>0, <1>2, <2>1
  <2>4. keys => \A u \in runs' : u.rule \in Settings!There
    BY <1>0, <1>1, <2>1, <2>3
  <2> QED BY <1>0, <2>1, <2>2, <2>4, BatchStep
<1> QED BY <1>6, <1>7, <1>8, <1>9, <1>10, <1>11

LEMMA RulesStep ==
  ASSUME RulesInv, [Settings!RulesNext]_(Settings!ruleVars)
  PROVE  RulesInv'
<1>1. CASE UNCHANGED Settings!ruleVars
  <2>1. UNCHANGED <<keys, rule, editor, batch, runs, heeded, flouted, ticks>>
    BY <1>1 DEF Settings!ruleVars
  <2>2. /\ Settings!Active' = Settings!Active /\ Settings!There' = Settings!There
        /\ Settings!Open' = Settings!Open
    BY <2>1 DEF Settings!Active, Settings!There, Settings!Open
  <2> QED BY <2>1, <2>2
          DEF RulesInv, RulesShapes, RulesTime, PauseSeesAll, BatchesKnowTheirRules,
              Settings!SettingsObeyed, Settings!PauseHolds, Settings!PausesAreObeyed,
              Settings!RunsKeepTheirRule
<1>2. CASE Settings!RulesNext
  BY <1>2, ChangeKeepsInv, SwitchOffKeepsInv, ReadKeepsInv, BatchKeepsInv DEF Settings!RulesNext
<1> QED BY <1>1, <1>2

\* After a pause only rules are active that were switched on since it had read them; no batch
\* begins a run for a rule that was off when it loaded its rules; and runs keep their rule
\* where the database checks it (auto_apply/service.py, run_batch).
THEOREM SettingsAreObeyed == Settings!RulesSpec => []Settings!SettingsObeyed
<1>1. RulesInv => Settings!SettingsObeyed
  BY DEF RulesInv
<1> QED BY <1>1, RulesStart, RulesStep, PTL DEF Settings!RulesSpec

-----------------------------------------------------------------------------------
(* Interview sessions.  As long as no session was written from an outdated copy, the  *)
(* lists are those of the last evaluations; the copies of evaluations in progress have *)
(* one entry for each question, whatever happens.                                     *)

\* LEMMA: the members of a finite set of numbers stand in places from 1 on, one in each.
LEMMA NumbersStand ==
  ASSUME NEW T \in SUBSET Nat, IsFiniteSet(T)
  PROVE  LET c == Cardinality(T)
             place(n) == CHOOSE i \in T : Cardinality({k \in T : k < i}) = n - 1
         IN /\ c \in Nat
            /\ \A n \in 1..c : place(n) \in T
            /\ \A n, m \in 1..c : place(n) = place(m) => n = m
            /\ \A i \in T : \E n \in 1..c : place(n) = i
            /\ T # {} => \E i \in T : \A k \in T : i <= k
<1> DEFINE c == Cardinality(T)
           place(n) == CHOOSE i \in T : Cardinality({k \in T : k < i}) = n - 1
<1>1. c \in Nat
  BY FS_CardinalityType
<1>2. PICK below : below = [i \in T |-> {k \in T : k < i}]
  OBVIOUS
<1>3. \A i \in T : below[i] = {k \in T : k < i} /\ i \in Nat
  BY <1>2
<1>4. ASSUME NEW i \in T
      PROVE  IsFiniteSet(below[i]) /\ Cardinality(below[i]) \in Nat /\ Cardinality(below[i]) < c
  <2>1. IsFiniteSet(T \ {i}) /\ Cardinality(T \ {i}) = c - 1
    BY FS_RemoveElement
  <2>2. below[i] \in SUBSET (T \ {i})
    BY <1>3
  <2>3. IsFiniteSet(below[i]) /\ Cardinality(below[i]) <= Cardinality(T \ {i})
    BY <2>1, <2>2, FS_Subset, Zenon
  <2>4. Cardinality(below[i]) \in Nat
    BY <2>3, FS_CardinalityType
  <2> QED BY <1>1, <2>1, <2>3, <2>4
<1>5. ASSUME NEW i \in T, NEW j \in T, i < j
      PROVE  Cardinality(below[i]) < Cardinality(below[j])
  <2>1. i \in below[j]
    BY <1>3, <1>5, Zenon
  <2>2. IsFiniteSet(below[j] \ {i}) /\ Cardinality(below[j] \ {i}) = Cardinality(below[j]) - 1
    BY <1>4, <2>1, FS_RemoveElement
  <2>3. below[i] \in SUBSET (below[j] \ {i})
    <3> SUFFICES ASSUME NEW k \in below[i] PROVE k \in below[j] /\ k # i
      OBVIOUS
    <3>1. k \in T /\ k < i /\ k \in Nat /\ i \in Nat /\ j \in Nat
      BY <1>3
    <3> QED BY <1>3, <1>5, <3>1
  <2>4. Cardinality(below[i]) <= Cardinality(below[j] \ {i})
    BY <2>2, <2>3, FS_Subset, Zenon
  <2> QED BY <1>4, <2>2, <2>4
<1>6. PICK rank : rank = [i \in T |-> Cardinality(below[i])]
  OBVIOUS
<1>7. \A i \in T : rank[i] = Cardinality(below[i]) /\ rank[i] \in Nat /\ rank[i] < c
  BY <1>4, <1>6
<1>8. \A i, j \in T : i # j => rank[i] # rank[j]
  <2> SUFFICES ASSUME NEW i \in T, NEW j \in T, i # j PROVE rank[i] # rank[j]
    OBVIOUS
  <2>1. CASE i < j
    BY <1>5, <1>7, <2>1
  <2>2. CASE j < i
    BY <1>5, <1>7, <2>2
  <2>3. i \in Nat /\ j \in Nat
    BY <1>3
  <2>4. i < j \/ j < i
    BY <2>3
  <2> QED BY <2>1, <2>2, <2>4
<1> DEFINE ranks == 0..(c - 1)
<1>9. IsFiniteSet(ranks) /\ Cardinality(ranks) = c
  <2>1. 0 \in Int /\ c - 1 \in Int
    BY <1>1
  <2>2. /\ IsFiniteSet(0..(c - 1))
        /\ Cardinality(0..(c - 1)) = IF 0 > c - 1 THEN 0 ELSE (c - 1) - 0 + 1
    BY <2>1, FS_Interval, Zenon
  <2> QED BY <1>1, <2>2
<1>10. \A m \in ranks : \E i \in T : rank[i] = m
  <2>1. rank \in [T -> ranks]
    BY <1>1, <1>6, <1>7
  <2> HIDE DEF ranks, c
  <2>2. rank \in Injection(T, ranks)
    BY <1>8, <2>1 DEF Injection, IsInjective
  <2>3. Cardinality(T) = Cardinality(ranks)
    BY <1>9 DEF c
  <2>4. rank \in Surjection(T, ranks)
    BY <1>9, <2>2, <2>3, FS_Injection
  <2> QED BY <2>4 DEF Surjection
<1> HIDE DEF c
<1>11. \A n \in 1..c : place(n) \in T /\ rank[place(n)] = n - 1
  <2> SUFFICES ASSUME NEW n \in 1..c PROVE place(n) \in T /\ rank[place(n)] = n - 1
    OBVIOUS
  <2>1. n - 1 \in ranks
    BY <1>1
  <2>2. PICK i \in T : rank[i] = n - 1
    BY <1>10, <2>1
  <2>3. Cardinality({k \in T : k < i}) = n - 1
    BY <1>3, <1>7, <2>2
  <2>4. place(n) \in T /\ Cardinality({k \in T : k < place(n)}) = n - 1
    BY <2>3, Zenon
  <2> HIDE DEF place
  <2> QED BY <1>3, <1>7, <2>4
<1> HIDE DEF place
<1>12. \A n, m \in 1..c : place(n) = place(m) => n = m
  BY <1>1, <1>11
<1>13. ASSUME NEW i \in T PROVE \E n \in 1..c : place(n) = i
  <2>1. PICK n : n = rank[i] + 1
    OBVIOUS
  <2>2. n \in 1..c /\ n - 1 = rank[i]
    BY <1>1, <1>7, <2>1
  <2>3. place(n) \in T /\ rank[place(n)] = rank[i]
    BY <1>11, <2>2
  <2> QED BY <1>8, <2>2, <2>3
<1>14. ASSUME T # {} PROVE \E i \in T : \A k \in T : i <= k
  <2>1. c # 0
    BY <1>14, FS_EmptySet DEF c
  <2>2. 0 \in ranks
    BY <1>1, <2>1
  <2>3. PICK i \in T : rank[i] = 0
    BY <1>10, <2>2
  <2>4. below[i] = {}
    BY <1>4, <1>7, <2>3, FS_EmptySet
  <2>5. ASSUME NEW k \in T PROVE i <= k
    <3>1. ~(k < i)
      BY <1>3, <2>4
    <3>2. i \in Nat /\ k \in Nat
      OBVIOUS
    <3> QED BY <3>1, <3>2
  <2> QED BY <2>5
<1> QED BY <1>1, <1>11, <1>12, <1>13, <1>14 DEF c, place

Entries(list) == {list[i] : i \in DOMAIN list}
\* There is one entry for each question.
OneEach(list) == \A i, j \in DOMAIN list : list[i][1] = list[j][1] => i = j
EntryLists(V) == Seq(Questions \X V)
AnswerLists == EntryLists(Answers)
ScoreLists == EntryLists(Scores \cup {0})
IsSession(s) ==
    /\ s = [asked |-> s.asked, answers |-> s.answers, scores |-> s.scores, overall |-> s.overall]
    /\ s.answers \in AnswerLists /\ s.scores \in ScoreLists
    /\ OneEach(s.answers) /\ OneEach(s.scores)

InterviewShapes ==
    /\ IsSession(session) /\ DOMAIN eval = Evaluations
    /\ \A e \in Evaluations : eval[e].at = "scoring" =>
           eval[e].q \in Questions /\ eval[e].answer \in Answers /\ IsSession(eval[e].read)
NothingYet ==
    asking # "done" => /\ session = Interview!Blank /\ DOMAIN last = {}
                       /\ \A e \in Evaluations : eval[e].at # "scoring"
ListsAreLast ==
    ~outdated =>
        /\ Interview!ToSet(session.answers) = {<<q, last[q][1]>> : q \in DOMAIN last}
        /\ Interview!ToSet(session.scores) = {<<q, last[q][2]>> : q \in DOMAIN last}
        /\ Interview!Numbers(session.scores) # <<>> =>
               session.overall = Interview!Overall(session.scores, Interview!Unscored)
InterviewInv == InterviewShapes /\ NothingYet /\ ListsAreLast

\* A list has the entries of an old one, but for that of a question, and the new entry.
HasNew(list, old, q, new) ==
    /\ OneEach(list) /\ new \in Entries(list)
    /\ \A p \in Entries(list) : p = new \/ (p \in Entries(old) /\ p[1] # q)
    /\ \A p \in Entries(old) : p[1] # q => p \in Entries(list)

\* LEMMA: a list without the entry of a question, and with a new one, has one for each.
LEMMA EntryReplaced ==
  ASSUME NEW V, NEW list \in EntryLists(V), OneEach(list), NEW q \in Questions, NEW v \in V
  PROVE  /\ Interview!Replaced(list, q, v) \in EntryLists(V)
         /\ HasNew(Interview!Replaced(list, q, v), list, q, <<q, v>>)
<1>1. PICK len \in Nat : /\ len = Len(list) /\ DOMAIN list = 1..len
                         /\ list \in [1..len -> Questions \X V]
  BY DEF EntryLists
<1>2. PICK T : T = {i \in DOMAIN list : list[i][1] # q}
  OBVIOUS
<1>3. IsFiniteSet(1..len)
  BY FS_Interval
<1>4. T \in SUBSET (1..len) /\ T \in SUBSET Nat /\ T \subseteq DOMAIN list
  BY <1>1, <1>2
<1>5. IsFiniteSet(T)
  BY <1>3, <1>4, FS_Subset
<1> DEFINE c == Cardinality(T)
           place(n) == CHOOSE i \in T : Cardinality({k \in T : k < i}) = n - 1
<1>6. /\ c \in Nat
      /\ \A n \in 1..c : place(n) \in T
      /\ \A n, m \in 1..c : place(n) = place(m) => n = m
      /\ \A i \in T : \E n \in 1..c : place(n) = i
  BY <1>4, <1>5, NumbersStand
<1>7. PICK f : f = Interview!At(T, list)
  OBVIOUS
<1>8. f = [n \in 1..c |-> list[place(n)]]
  BY <1>7 DEF Interview!At, Interview!Cardinality, Cardinality
<1> HIDE DEF c, place
<1>9. f \in [1..c -> Questions \X V]
  <2>1. \A i \in T : list[i] \in Questions \X V
    BY <1>1, <1>4
  <2>2. \A n \in 1..c : list[place(n)] \in Questions \X V
    BY <1>6, <2>1
  <2> QED BY <1>8, <2>2
<1>10. f \in Seq(Questions \X V) /\ DOMAIN f = 1..c /\ Len(f) = c
  BY <1>6, <1>9
<1>11. PICK new, x : new = Append(f, <<q, v>>) /\ x = <<q, v>>
  OBVIOUS
<1>12. /\ new \in Seq(Questions \X V) /\ DOMAIN new = 1..(c + 1)
       /\ \A n \in 1..c : new[n] = f[n]
       /\ new[c + 1] = <<q, v>>
  <2>1. <<q, v>> \in Questions \X V
    OBVIOUS
  <2> QED BY <1>6, <1>10, <1>11, <2>1
<1>13. \A n \in 1..c : place(n) \in T /\ new[n] = list[place(n)] /\ new[n][1] # q
  BY <1>2, <1>6, <1>8, <1>12
<1>14. OneEach(new)
  <2> SUFFICES ASSUME NEW n \in DOMAIN new, NEW m \in DOMAIN new, new[n][1] = new[m][1]
               PROVE  n = m
    BY DEF OneEach
  <2>1. /\ n \in 1..c \/ n = c + 1
        /\ m \in 1..c \/ m = c + 1
    BY <1>6, <1>12
  <2>2. CASE n \in 1..c /\ m \in 1..c
    <3>1. PICK i, j : i = place(n) /\ j = place(m)
      OBVIOUS
    <3>2. i \in DOMAIN list /\ j \in DOMAIN list /\ list[i][1] = list[j][1]
      BY <1>4, <1>13, <2>2, <3>1
    <3>3. i = j
      BY <3>2 DEF OneEach
    <3> QED BY <1>6, <2>2, <3>1, <3>3
  <2>3. CASE ~(n \in 1..c /\ m \in 1..c)
    <3>1. new[c + 1][1] = q
      BY <1>12
    <3> QED BY <1>13, <2>1, <2>3, <3>1
  <2> QED BY <2>2, <2>3
<1>15. x \in Entries(new)
  <2>1. c + 1 \in DOMAIN new
    BY <1>6, <1>12
  <2> QED BY <1>11, <1>12, <2>1 DEF Entries
<1>16. ASSUME NEW p \in Entries(list), p[1] # q PROVE p \in Entries(new)
  <2>1. PICK i \in DOMAIN list : p = list[i]
    BY DEF Entries
  <2>2. i \in T
    BY <1>2, <1>16, <2>1
  <2>3. PICK n \in 1..c : place(n) = i
    BY <1>6, <2>2
  <2>4. n \in DOMAIN new /\ new[n] = p
    BY <1>6, <1>12, <1>13, <2>1, <2>3
  <2> QED BY <2>4 DEF Entries
<1>17. ASSUME NEW p \in Entries(new) PROVE p = x \/ (p \in Entries(list) /\ p[1] # q)
  <2>1. PICK n \in DOMAIN new : p = new[n]
    BY DEF Entries
  <2>2. CASE n \in 1..c
    <3>1. place(n) \in DOMAIN list /\ p = list[place(n)] /\ p[1] # q
      BY <1>4, <1>13, <2>1, <2>2
    <3> QED BY <3>1 DEF Entries
  <2>3. CASE n = c + 1
    BY <1>11, <1>12, <2>1, <2>3
  <2> QED BY <1>6, <1>12, <2>1, <2>2, <2>3
<1>18. Interview!Replaced(list, q, v) = new
  BY <1>2, <1>7, <1>11 DEF Interview!Replaced
<1>19. HasNew(new, list, q, x)
  BY <1>14, <1>15, <1>16, <1>17 DEF HasNew
<1> QED BY <1>11, <1>12, <1>18, <1>19 DEF EntryLists

LEMMA NoNumbers == Interview!Numbers(<<>>) = <<>>
<1>1. PICK T : T = {i \in DOMAIN <<>> : <<>>[i][2] # Interview!Odd}
  OBVIOUS
<1>2. T = {}
  BY <1>1
<1>3. Cardinality(T) = 0
  BY <1>2, FS_EmptySet
<1>4. PICK none : none = Interview!At(T, <<>>)
  OBVIOUS
<1>5. 1..Interview!Cardinality(T) = {}
  <2>1. Interview!Cardinality(T) = 0
    BY <1>3 DEF Interview!Cardinality, Cardinality
  <2> QED BY <2>1
<1>6. none \in [1..0 -> {}]
  BY <1>4, <1>5 DEF Interview!At
<1>7. none = <<>>
  BY <1>6
<1> QED BY <1>1, <1>4, <1>7 DEF Interview!Numbers

LEMMA InterviewsStart == Interview!InterviewsInit => InterviewInv
<1> SUFFICES ASSUME Interview!InterviewsInit PROVE InterviewInv
  OBVIOUS
<1>1. /\ session = [asked |-> FALSE, answers |-> <<>>, scores |-> <<>>, overall |-> Interview!Unscored]
      /\ session = Interview!Blank /\ DOMAIN last = {}
      /\ eval = [e \in Evaluations |-> Interview!Resting]
      /\ \A e \in Evaluations : eval[e].at = "idle"
      /\ asking = "idle"
  BY DEF Interview!InterviewsInit, Interview!Blank, Interview!Resting
<1>2. InterviewShapes
  BY <1>1 DEF InterviewShapes, IsSession, OneEach, AnswerLists, ScoreLists, EntryLists
<1>3. NothingYet
  BY <1>1 DEF NothingYet
<1>4. Interview!Numbers(session.scores) = <<>>
  <2>1. session.scores = <<>>
    BY <1>1
  <2> QED BY <2>1, NoNumbers
<1>5. ListsAreLast
  BY <1>1, <1>4 DEF ListsAreLast, Interview!ToSet
<1> QED BY <1>2, <1>3, <1>5 DEF InterviewInv

\* LEMMA: generating a session, which nobody can answer before, keeps the invariant.
LEMMA GenerateKeepsInv ==
  ASSUME InterviewInv,
         Interview!BeginGenerate \/ Interview!Generate \/ Interview!GenerateFails
  PROVE  InterviewInv'
<1>1. InterviewShapes /\ NothingYet /\ ListsAreLast
  BY DEF InterviewInv
<1>2. CASE Interview!BeginGenerate \/ Interview!GenerateFails
  <2>1. UNCHANGED <<session, eval, last, outdated>> /\ asking # "done" /\ asking' # "done"
    BY <1>2 DEF Interview!BeginGenerate, Interview!GenerateFails
  <2> QED BY <1>1, <2>1 DEF InterviewInv, InterviewShapes, NothingYet, ListsAreLast
<1>3. CASE Interview!Generate
  <2>1. /\ asking = "asking" /\ asking' = "done" /\ UNCHANGED <<eval, last, outdated>>
        /\ session' = [asked |-> TRUE, answers |-> <<>>, scores |-> <<>>,
                       overall |-> Interview!Unscored]
    BY <1>3 DEF Interview!Generate, Interview!Blank
  <2>2. session = Interview!Blank /\ DOMAIN last = {} /\ session'.scores = session.scores
    BY <1>1, <2>1 DEF NothingYet, Interview!Blank
  <2>3. InterviewShapes'
    BY <1>1, <2>1 DEF InterviewShapes, IsSession, OneEach, AnswerLists, ScoreLists, EntryLists
  <2>4. NothingYet'
    BY <2>1 DEF NothingYet
  <2>5. Interview!ToSet(session'.answers) = {} /\ Interview!ToSet(session'.scores) = {}
    BY <2>1 DEF Interview!ToSet
  <2>6. Interview!Numbers(session'.scores) = <<>>
    <3>1. session'.scores = <<>>
      BY <2>1
    <3> QED BY <3>1, NoNumbers
  <2>7. ListsAreLast'
    BY <2>1, <2>2, <2>5, <2>6 DEF ListsAreLast
  <2> QED BY <2>3, <2>4, <2>7 DEF InterviewInv
<1> QED BY <1>2, <1>3

\* LEMMA: an evaluation that begins knows a session as it is.
LEMMA BeginKeepsInterview ==
  ASSUME InterviewInv, NEW e \in Evaluations, NEW q \in Questions, NEW answer \in Answers,
         Interview!BeginEvaluation(e, q, answer)
  PROVE  InterviewInv'
<1>1. InterviewShapes /\ NothingYet /\ ListsAreLast
  BY DEF InterviewInv
<1>2. PICK mine : mine = [at |-> "scoring", q |-> q, answer |-> answer, read |-> session]
  OBVIOUS
<1>3. /\ session.asked /\ eval' = [eval EXCEPT ![e] = mine]
      /\ UNCHANGED <<session, asking, last, outdated>>
  BY <1>2 DEF Interview!BeginEvaluation
<1>4. DOMAIN eval = Evaluations /\ IsSession(session)
  BY <1>1 DEF InterviewShapes
<1>5. asking = "done"
  <2>1. ~Interview!Blank.asked
    BY DEF Interview!Blank
  <2> QED BY <1>1, <1>3, <2>1 DEF NothingYet
<1>6. /\ DOMAIN eval' = Evaluations
      /\ \A d \in Evaluations : eval'[d] = IF d = e THEN mine ELSE eval[d]
  BY <1>3, <1>4
<1>7. ASSUME NEW d \in Evaluations, eval'[d].at = "scoring"
      PROVE  eval'[d].q \in Questions /\ eval'[d].answer \in Answers /\ IsSession(eval'[d].read)
  <2>1. CASE d = e
    BY <1>2, <1>4, <1>6, <2>1
  <2>2. CASE d # e
    BY <1>1, <1>6, <1>7, <2>2 DEF InterviewShapes
  <2> QED BY <2>1, <2>2
<1>8. InterviewShapes'
  BY <1>3, <1>4, <1>6, <1>7 DEF InterviewShapes, IsSession
<1>9. NothingYet' /\ ListsAreLast'
  BY <1>1, <1>3, <1>5 DEF NothingYet, ListsAreLast
<1> QED BY <1>8, <1>9 DEF InterviewInv

\* LEMMA: the lists that are written have one entry for each question, whatever copy they are
\* made from; and if that is the session as it is, they are those of the last evaluations.
LEMMA PersistKeepsInv ==
  ASSUME InterviewInv, NEW e \in Evaluations, NEW score \in Scores \cup {0},
         Interview!Persist(e, score)
  PROVE  InterviewInv'
<1>1. InterviewShapes /\ NothingYet /\ ListsAreLast
  BY DEF InterviewInv
<1>2. PICK q, given, read : q = eval[e].q /\ given = eval[e].answer /\ read = eval[e].read
  OBVIOUS
<1>3. PICK answers, scores, mine :
             /\ answers = Interview!Replaced(read.answers, q, given)
             /\ scores = Interview!Replaced(read.scores, q, score)
             /\ mine = [Interview!Resting EXCEPT !.at = "done"]
  OBVIOUS
<1>4. PICK overall : overall = Interview!Column(session.overall, read.overall,
                                                Interview!Overall(scores, read.overall))
  OBVIOUS
<1>5. /\ eval[e].at = "scoring" /\ eval' = [eval EXCEPT ![e] = mine]
      /\ session' = [asked |-> session.asked,
                     answers |-> Interview!Column(session.answers, read.answers, answers),
                     scores |-> Interview!Column(session.scores, read.scores, scores),
                     overall |-> overall]
      /\ last' = [p \in DOMAIN last \cup {q} |-> IF p = q THEN <<given, score>> ELSE last[p]]
      /\ outdated' = (outdated \/ read # session)
      /\ asking' = asking
  BY <1>2, <1>3, <1>4 DEF Interview!Persist
<1>6. /\ q \in Questions /\ given \in Answers /\ IsSession(read) /\ IsSession(session)
      /\ asking = "done" /\ DOMAIN eval = Evaluations
  BY <1>1, <1>2, <1>5 DEF InterviewShapes, NothingYet
<1>7. answers \in AnswerLists /\ HasNew(answers, read.answers, q, <<q, given>>)
  <2>1. PICK old : old = read.answers
    OBVIOUS
  <2>2. old \in EntryLists(Answers) /\ OneEach(old) /\ answers = Interview!Replaced(old, q, given)
    BY <1>3, <1>6, <2>1 DEF IsSession, AnswerLists
  <2>3. /\ Interview!Replaced(old, q, given) \in EntryLists(Answers)
        /\ HasNew(Interview!Replaced(old, q, given), old, q, <<q, given>>)
    BY <1>6, <2>2, EntryReplaced
  <2> QED BY <2>1, <2>2, <2>3 DEF AnswerLists
<1>8. PICK x : x = <<q, given>> /\ HasNew(answers, read.answers, q, x)
  BY <1>7
<1>9. scores \in ScoreLists /\ HasNew(scores, read.scores, q, <<q, score>>)
  <2>1. PICK old : old = read.scores
    OBVIOUS
  <2>2. /\ old \in EntryLists(Scores \cup {0}) /\ OneEach(old)
        /\ scores = Interview!Replaced(old, q, score)
    BY <1>3, <1>6, <2>1 DEF IsSession, ScoreLists
  <2>3. /\ Interview!Replaced(old, q, score) \in EntryLists(Scores \cup {0})
        /\ HasNew(Interview!Replaced(old, q, score), old, q, <<q, score>>)
    BY <1>6, <2>2, EntryReplaced
  <2> QED BY <2>1, <2>2, <2>3 DEF ScoreLists
<1>10. PICK y : y = <<q, score>> /\ HasNew(scores, read.scores, q, y)
  BY <1>9
<1>11. IsSession(session')
  <2>1. /\ session'.answers \in {session.answers, answers}
        /\ session'.scores \in {session.scores, scores}
    BY <1>5 DEF Interview!Column
  <2>2. /\ session'.answers \in AnswerLists /\ OneEach(session'.answers)
        /\ session'.scores \in ScoreLists /\ OneEach(session'.scores)
    BY <1>6, <1>7, <1>9, <2>1 DEF IsSession, HasNew
  <2>3. session' = [asked |-> session'.asked, answers |-> session'.answers,
                    scores |-> session'.scores, overall |-> session'.overall]
    BY <1>5
  <2> QED BY <2>2, <2>3 DEF IsSession
<1>12. /\ DOMAIN eval' = Evaluations
       /\ \A d \in Evaluations : eval'[d] = IF d = e THEN mine ELSE eval[d]
  BY <1>5, <1>6
<1>13. mine.at = "done"
  BY <1>3 DEF Interview!Resting
<1>14. InterviewShapes'
  BY <1>1, <1>11, <1>12, <1>13 DEF InterviewShapes, IsSession, OneEach
<1>15. NothingYet'
  BY <1>5, <1>6 DEF NothingYet
<1>16. ListsAreLast'
  <2> SUFFICES ASSUME ~outdated'
               PROVE  /\ Entries(session'.answers) = {<<p, last'[p][1]>> : p \in DOMAIN last'}
                      /\ Entries(session'.scores) = {<<p, last'[p][2]>> : p \in DOMAIN last'}
                      /\ Interview!Numbers(session'.scores) # <<>> =>
                             session'.overall = Interview!Overall(session'.scores, Interview!Unscored)
    BY DEF ListsAreLast, Entries, Interview!ToSet
  <2>1. ~outdated /\ read = session
    BY <1>5
  <2>2. /\ Entries(session.answers) = {<<p, last[p][1]>> : p \in DOMAIN last}
        /\ Entries(session.scores) = {<<p, last[p][2]>> : p \in DOMAIN last}
    BY <1>1, <2>1 DEF ListsAreLast, Entries, Interview!ToSet
  <2>3. session'.answers = answers /\ session'.scores = scores
        /\ overall = Interview!Overall(scores, session.overall) /\ session'.overall = overall
    BY <1>4, <1>5, <2>1 DEF Interview!Column
  <2>4. /\ DOMAIN last' = DOMAIN last \cup {q}
        /\ last'[q][1] = given /\ last'[q][2] = score
        /\ \A p \in DOMAIN last : p # q => last'[p] = last[p]
    BY <1>5
  <2>5. Entries(answers) = {<<p, last'[p][1]>> : p \in DOMAIN last'}
    <3>1. ASSUME NEW p \in Entries(answers) PROVE p \in {<<o, last'[o][1]>> : o \in DOMAIN last'}
      <4>1. CASE p = x
        BY <1>8, <2>4, <4>1
      <4>2. CASE p \in Entries(session.answers) /\ p[1] # q
        <5>1. PICK o \in DOMAIN last : p = <<o, last[o][1]>>
          BY <2>2, <4>2
        <5>2. o # q /\ o \in DOMAIN last' /\ last'[o] = last[o]
          BY <2>4, <4>2, <5>1
        <5> QED BY <5>1, <5>2
      <4> QED BY <1>8, <2>1, <4>1, <4>2 DEF HasNew
    <3>2. ASSUME NEW o \in DOMAIN last' PROVE <<o, last'[o][1]>> \in Entries(answers)
      <4>1. CASE o = q
        BY <1>8, <2>4, <4>1 DEF HasNew
      <4>2. CASE o # q
        <5>1. o \in DOMAIN last /\ last'[o] = last[o]
          BY <2>4, <4>2
        <5>2. <<o, last[o][1]>> \in Entries(session.answers)
          BY <2>2, <5>1
        <5>3. PICK p : p = <<o, last[o][1]>>
          OBVIOUS
        <5>4. p \in Entries(read.answers) /\ p[1] # q
          BY <2>1, <4>2, <5>2, <5>3
        <5> QED BY <1>8, <5>1, <5>3, <5>4 DEF HasNew
      <4> QED BY <4>1, <4>2
    <3> QED BY <3>1, <3>2
  <2>6. Entries(scores) = {<<p, last'[p][2]>> : p \in DOMAIN last'}
    <3>1. ASSUME NEW p \in Entries(scores) PROVE p \in {<<o, last'[o][2]>> : o \in DOMAIN last'}
      <4>1. CASE p = y
        BY <1>10, <2>4, <4>1
      <4>2. CASE p \in Entries(session.scores) /\ p[1] # q
        <5>1. PICK o \in DOMAIN last : p = <<o, last[o][2]>>
          BY <2>2, <4>2
        <5>2. o # q /\ o \in DOMAIN last' /\ last'[o] = last[o]
          BY <2>4, <4>2, <5>1
        <5> QED BY <5>1, <5>2
      <4> QED BY <1>10, <2>1, <4>1, <4>2 DEF HasNew
    <3>2. ASSUME NEW o \in DOMAIN last' PROVE <<o, last'[o][2]>> \in Entries(scores)
      <4>1. CASE o = q
        BY <1>10, <2>4, <4>1 DEF HasNew
      <4>2. CASE o # q
        <5>1. o \in DOMAIN last /\ last'[o] = last[o]
          BY <2>4, <4>2
        <5>2. <<o, last[o][2]>> \in Entries(session.scores)
          BY <2>2, <5>1
        <5>3. PICK p : p = <<o, last[o][2]>>
          OBVIOUS
        <5>4. p \in Entries(read.scores) /\ p[1] # q
          BY <2>1, <4>2, <5>2, <5>3
        <5> QED BY <1>10, <5>1, <5>3, <5>4 DEF HasNew
      <4> QED BY <4>1, <4>2
    <3> QED BY <3>1, <3>2
  <2>7. Interview!Numbers(scores) # <<>> =>
            Interview!Overall(scores, session.overall) = Interview!Overall(scores, Interview!Unscored)
    BY DEF Interview!Overall
  <2> QED BY <2>3, <2>5, <2>6, <2>7
<1> QED BY <1>14, <1>15, <1>16 DEF InterviewInv

LEMMA InterviewStep ==
  ASSUME InterviewInv, [Interview!InterviewsNext]_(Interview!interviewVars)
  PROVE  InterviewInv'
<1>1. CASE Interview!InterviewsNext
  BY <1>1, GenerateKeepsInv, BeginKeepsInterview, PersistKeepsInv DEF Interview!InterviewsNext
<1>2. CASE UNCHANGED Interview!interviewVars
  BY <1>2 DEF Interview!interviewVars, InterviewInv, InterviewShapes, IsSession, OneEach,
              NothingYet, ListsAreLast
<1> QED BY <1>1, <1>2

\* LEMMA: one entry for each question means as many questions as entries.
LEMMA AsManyAsQuestions ==
  ASSUME NEW S, NEW list \in Seq(S), OneEach(list)
  PROVE  Interview!Cardinality(Interview!About(list)) = Len(list)
<1>1. PICK len \in Nat : len = Len(list) /\ DOMAIN list = 1..len
  OBVIOUS
<1>2. PICK A : A = Interview!About(list)
  OBVIOUS
<1>3. A = {list[i][1] : i \in DOMAIN list}
  BY <1>2 DEF Interview!About, Interview!ToSet
<1>4. PICK f : f = [i \in 1..len |-> list[i][1]]
  OBVIOUS
<1>5. f \in [1..len -> A]
  BY <1>1, <1>3, <1>4
<1>6. \A i, j \in 1..len : f[i] = f[j] => i = j
  BY <1>1, <1>4 DEF OneEach
<1>7. \A a \in A : \E i \in 1..len : f[i] = a
  BY <1>1, <1>3, <1>4
<1>8. f \in Bijection(1..len, A)
  BY <1>5, <1>6, <1>7 DEF Bijection, Injection, Surjection, IsInjective
<1>9. IsFiniteSet(1..len) /\ Cardinality(1..len) = len
  <2>1. 1 \in Int /\ len \in Int
    OBVIOUS
  <2>2. IsFiniteSet(1..len) /\ Cardinality(1..len) = IF 1 > len THEN 0 ELSE len - 1 + 1
    BY <2>1, FS_Interval, Zenon
  <2> QED BY <2>2
<1>10. Cardinality(A) = len
  BY <1>8, <1>9, FS_Bijection DEF ExistsBijection
<1> QED BY <1>1, <1>2, <1>10 DEF Interview!Cardinality, Cardinality

\* THEOREM: whatever evaluations overlap, a session has one answer and one score for each
\* question; as long as none was written from an outdated copy they are those of the last
\* evaluation, and the overall score is the mean of the numeric ones (evaluate_answer and
\* _persist_score in interview/service.py).
THEOREM EvaluationsAreExplained == Interview!InterviewsSpec => []EvaluationsExplained
<1>1. InterviewInv => EvaluationsExplained
  <2> SUFFICES ASSUME InterviewInv PROVE Interview!EvaluationsExplained
    BY DEF EvaluationsExplained
  <2>1. /\ session.answers \in AnswerLists /\ OneEach(session.answers)
        /\ session.scores \in ScoreLists /\ OneEach(session.scores)
    BY DEF InterviewInv, InterviewShapes, IsSession
  <2>2. /\ Interview!Cardinality(Interview!About(session.answers)) = Len(session.answers)
        /\ Interview!Cardinality(Interview!About(session.scores)) = Len(session.scores)
    <3>1. PICK a, b : a = session.answers /\ b = session.scores
      OBVIOUS
    <3>2. Interview!Cardinality(Interview!About(a)) = Len(a)
      BY <2>1, <3>1, AsManyAsQuestions DEF AnswerLists, EntryLists
    <3>3. Interview!Cardinality(Interview!About(b)) = Len(b)
      BY <2>1, <3>1, AsManyAsQuestions DEF ScoreLists, EntryLists
    <3> QED BY <3>1, <3>2, <3>3
  <2> QED BY <2>2 DEF InterviewInv, ListsAreLast, Interview!EvaluationsExplained
<1>2. Interview!InterviewsInit => InterviewInv
  BY InterviewsStart
<1>3. InterviewInv /\ [Interview!InterviewsNext]_(Interview!interviewVars) => InterviewInv'
  BY InterviewStep
<1> QED BY <1>1, <1>2, <1>3, PTL DEF Interview!InterviewsSpec

-----------------------------------------------------------------------------------
(* Outcomes and the insight of a company.  An outcome is recorded once, so counting   *)
(* on from any reading of the row never exceeds what was recorded; as long as the     *)
(* reading is the row as it is, the two are equal.                                   *)

Ghosts(R) == {e \in R : e[2].ghosted}
Tellers(R, k) == {e \in R : e[2].value[k] # Company!None}

IsInsight(i) ==
    /\ i = [total |-> i.total, ghosted |-> i.ghosted, count |-> i.count, mean |-> i.mean,
            ghostRate |-> i.ghostRate, offerRate |-> i.offerRate, rejectionRate |-> i.rejectionRate]
    /\ i.total \in Nat /\ i.ghosted \in Nat /\ i.count \in [Company!Figures -> Nat]
    /\ i.ghostRate \in Nat /\ i.offerRate \in Nat /\ i.rejectionRate \in Nat
    /\ i.mean = [k \in Company!Figures |-> i.mean[k]]
\* What a row counts is no more than was recorded.
Within(i, R) ==
    /\ i.total <= Cardinality(R) /\ i.ghosted <= Cardinality(Ghosts(R))
    /\ \A k \in Company!Figures : i.count[k] <= Cardinality(Tellers(R, k))
\* It counts just that, and its shares are of that.
Exact(i, R) ==
    /\ i.total = Cardinality(R) /\ i.ghosted = Cardinality(Ghosts(R))
    /\ \A k \in Company!Figures : i.count[k] = Cardinality(Tellers(R, k))
    /\ R # {} => /\ i.ghostRate = Company!Percent(i.ghosted, i.total)
                 /\ i.offerRate = Company!Percent(i.count["offer"], i.total)
    /\ i.rejectionRate <= 100

\* The outcomes that know a figure, the units they give, and the mean.
Knows(out, k) == {a \in DOMAIN out \ Nameless : out[a].value[k] # Company!None}
Given(out, k) == UNION {{a} \X (1..out[a].value[k]) : a \in Knows(out, k)}
MeanFrom(out, k) ==
    IF Knows(out, k) = {} THEN Company!None
    ELSE (Grain * Cardinality(Given(out, k))) \div Cardinality(Knows(out, k))

InsightShapes ==
    /\ IsInsight(insight) /\ edits \in Nat /\ live \subseteq Applications
    /\ IsFiniteSet(DOMAIN outcome) /\ DOMAIN outcome \subseteq live
    /\ \A a \in DOMAIN outcome : outcome[a] \in Facts
    /\ DOMAIN recorder = Recorders
    /\ \A r \in Recorders : recorder[r].at \in {"checked", "inserted"} =>
           recorder[r].app \in Applications /\ recorder[r].facts \in Facts
RecordedOnce ==
    /\ IsFiniteSet(recorded)
    /\ \A e \in recorded : /\ e = <<e[1], e[2]>> /\ e[2] \in Facts
                           /\ e[1] \notin live \/ e[1] \in DOMAIN outcome
    /\ \A a \in DOMAIN outcome \ Nameless : \E e \in recorded : e[1] = a
    /\ recorded = {} => insight = Company!NoInsight
\* A request that has inserted its outcome is alone with its application.
InsertedAlone ==
    \A r \in Recorders : recorder[r].at = "inserted" =>
        /\ recorder[r].app \in live \ DOMAIN outcome
        /\ IsInsight(recorder[r].read) /\ Within(recorder[r].read, recorded)
        /\ \A s \in Recorders : recorder[s].at = "inserted" /\ recorder[s].app = recorder[r].app => s = r
CountsFit ==
    /\ Within(insight, recorded)
    /\ ~raced => Exact(insight, recorded)
UntilEdited ==
    edits = 0 =>
        /\ recorded = {<<a, outcome[a]>> : a \in DOMAIN outcome \ Nameless}
        /\ ~raced /\ recorded # {} =>
               insight.rejectionRate = Company!Percent(Company!Rejections(outcome), insight.total)
\* The means are those of the outcomes there are.
MeansFit ==
    edits = 0 => \A k \in Company!Figures :
        /\ IsFiniteSet(Given(outcome, k))
        /\ ~raced => insight.mean[k] = MeanFrom(outcome, k)
InsightInv == InsightShapes /\ RecordedOnce /\ InsertedAlone /\ CountsFit /\ UntilEdited /\ MeansFit

\* LEMMA: a share of what there is is no more than 100 %.
LEMMA Shares ==
  ASSUME NEW n \in Nat, NEW d \in Nat \ {0}
  PROVE  /\ Company!Percent(n, d) \in Nat
         /\ n <= d => Company!Percent(n, d) <= 100
<1>1. PICK q : q = (100 * n) \div d
  OBVIOUS
<1>2. PICK m \in Nat : m = 100 * n
  OBVIOUS
<1>3. q \in Nat /\ d * q <= m
  BY <1>1, <1>2
<1>4. ASSUME n <= d PROVE q <= 100
  <2> SUFFICES ASSUME q > 100 PROVE FALSE
    BY <1>3
  <2>1. d * q >= d * 101
    BY <1>3
  <2>2. d * 101 = 100 * d + d /\ 100 * n <= 100 * d
    BY <1>4
  <2> QED BY <1>2, <1>3, <2>1, <2>2
<1> QED BY <1>1, <1>3, <1>4 DEF Company!Percent

\* LEMMA: with one more member a finite set counts one more.
LEMMA OneMore ==
  ASSUME NEW S, IsFiniteSet(S), NEW e
  PROVE  /\ IsFiniteSet(S \cup {e}) /\ Cardinality(S) \in Nat
         /\ Cardinality(S \cup {e}) \in {Cardinality(S), Cardinality(S) + 1}
         /\ e \notin S => Cardinality(S \cup {e}) = Cardinality(S) + 1
BY FS_AddElement, FS_CardinalityType

\* LEMMA: as many pairs as arguments.
LEMMA PairsCount ==
  ASSUME NEW A, IsFiniteSet(A), NEW f
  PROVE  Cardinality({<<a, f[a]>> : a \in A}) = Cardinality(A)
<1>1. PICK P : P = {<<a, f[a]>> : a \in A}
  OBVIOUS
<1>2. PICK g : g = [a \in A |-> <<a, f[a]>>]
  OBVIOUS
<1>3. g \in [A -> P]
  BY <1>1, <1>2
<1>4. \A a, b \in A : g[a] = g[b] => a = b
  BY <1>2
<1>5. \A p \in P : \E a \in A : g[a] = p
  BY <1>1, <1>2
<1>6. g \in Bijection(A, P)
  BY <1>3, <1>4, <1>5 DEF Bijection, Injection, Surjection, IsInjective
<1>7. Cardinality(P) = Cardinality(A)
  BY <1>6, FS_Bijection DEF ExistsBijection
<1> QED BY <1>1, <1>7

\* The outcomes with one more, of an application with a company name.
HasOneMore(known, out, a, f) ==
    /\ a \notin DOMAIN out /\ a \notin Nameless /\ f \in Facts
    /\ DOMAIN known = DOMAIN out \cup {a}
    /\ \A b \in DOMAIN known : known[b] = IF b = a THEN f ELSE out[b]

\* LEMMA: it gives its value.
LEMMA OneMoreGiven ==
  ASSUME NEW out, NEW known, NEW a, NEW f, HasOneMore(known, out, a, f), NEW k \in Company!Figures,
         IsFiniteSet(Knows(out, k)), IsFiniteSet(Given(out, k))
  PROVE  /\ f.value[k] = Company!None => Knows(known, k) = Knows(out, k) /\ Given(known, k) = Given(out, k)
         /\ f.value[k] # Company!None =>
               /\ f.value[k] \in Nat /\ Knows(known, k) # {}
               /\ IsFiniteSet(Knows(known, k)) /\ IsFiniteSet(Given(known, k))
               /\ Cardinality(Knows(known, k)) = Cardinality(Knows(out, k)) + 1
               /\ Cardinality(Given(known, k)) = Cardinality(Given(out, k)) + f.value[k]
<1>1. /\ a \notin DOMAIN out /\ a \notin Nameless /\ f \in Facts
      /\ DOMAIN known = DOMAIN out \cup {a}
      /\ \A b \in DOMAIN known : known[b] = IF b = a THEN f ELSE out[b]
  BY DEF HasOneMore
<1>2. PICK v : v = f.value[k]
  OBVIOUS
<1>3. v = Company!None \/ v \in Nat
  BY <1>1, <1>2, UserWorkAssumption DEF Company!FactsAreFacts
<1>4. \A b \in Knows(out, k) : b \in DOMAIN known /\ b # a /\ known[b] = out[b]
  BY <1>1 DEF Knows
<1>5. known[a] = f /\ a \in DOMAIN known \ Nameless
  BY <1>1
<1>6. Knows(known, k) = IF v = Company!None THEN Knows(out, k) ELSE Knows(out, k) \cup {a}
  BY <1>1, <1>2 DEF Knows
<1>7. CASE v = Company!None
  <2>1. Knows(known, k) = Knows(out, k)
    BY <1>6, <1>7
  <2>2. Given(known, k) = Given(out, k)
    BY <1>4, <2>1 DEF Given
  <2> QED BY <1>2, <1>7, <2>1, <2>2
<1>8. CASE v # Company!None
  <2>1. v \in Nat /\ Knows(known, k) = Knows(out, k) \cup {a}
    BY <1>3, <1>6, <1>8
  <2>2. a \notin Knows(out, k)
    BY <1>4
  <2>3. /\ IsFiniteSet(Knows(known, k)) /\ Knows(known, k) # {}
        /\ Cardinality(Knows(known, k)) = Cardinality(Knows(out, k)) + 1
    BY <2>1, <2>2, OneMore
  <2>4. PICK U : U = {a} \X (1..v)
    OBVIOUS
  <2>5. IsFiniteSet(U) /\ Cardinality(U) = v
    <3>1. IsFiniteSet({a}) /\ Cardinality({a}) = 1
      BY FS_Singleton
    <3>6. 1 \in Int /\ v \in Int
      BY <2>1
    <3>2. IsFiniteSet(1..v) /\ Cardinality(1..v) = IF 1 > v THEN 0 ELSE v - 1 + 1
      BY <3>6, FS_Interval, Zenon
    <3>3. Cardinality(1..v) = v
      BY <2>1, <3>2
    <3>4. IsFiniteSet(U) /\ Cardinality(U) = Cardinality({a}) * Cardinality(1..v)
      BY <2>4, <3>1, <3>2, FS_Product, Zenon
    <3> QED BY <2>1, <3>1, <3>3, <3>4
  <2>6. Given(known, k) = Given(out, k) \cup U
    <3>1. \A b \in Knows(out, k) : known[b].value[k] = out[b].value[k]
      BY <1>4
    <3>2. known[a].value[k] = v
      BY <1>2, <1>5
    <3> QED BY <2>1, <2>4, <3>1, <3>2 DEF Given
  <2>7. Given(out, k) \cap U = {}
    BY <2>2, <2>4 DEF Given
  <2>8. /\ IsFiniteSet(Given(known, k))
        /\ Cardinality(Given(known, k))
              = Cardinality(Given(out, k)) + Cardinality(U) - Cardinality(Given(out, k) \cap U)
    BY <2>5, <2>6, FS_Union
  <2>9. Cardinality(Given(out, k) \cap U) = 0 /\ Cardinality(Given(out, k)) \in Nat
    BY <2>7, FS_EmptySet, FS_CardinalityType
  <2> QED BY <1>2, <1>8, <2>1, <2>3, <2>5, <2>8, <2>9
<1> QED BY <1>7, <1>8

\* LEMMA: a mean that has been kept exactly gives the next one.
LEMMA NextMean ==
  ASSUME NEW n \in Nat \ {0}, NEW u \in Nat, NEW v \in Nat, Grain \in Nat \ {0}, Grain % n = 0
  PROVE  /\ (Grain * u) \div n \in Nat
         /\ Company!NewMean((Grain * u) \div n, n + 1, v) = (Grain * (u + v)) \div (n + 1)
<1>1. PICK c \in Nat : Grain = c * n
  <2>1. PICK q, p, z : q = Grain \div n /\ z = Grain % n /\ p = q * n
    OBVIOUS
  <2>2. q \in Nat /\ z = 0 /\ Grain = n * q + z
    BY <2>1
  <2>3. Grain = p
    BY <2>1, <2>2
  <2> QED BY <2>1, <2>2, <2>3, Zenon
<1>2. PICK m \in Nat : m = c * u
  OBVIOUS
<1>3. Grain * u = m * n
  BY <1>1, <1>2
<1>4. (m * n) \div n = m
  OBVIOUS
<1>5. PICK old : old = (Grain * u) \div n
  OBVIOUS
<1>6. old = m /\ old # Company!None
  BY <1>3, <1>4, <1>5 DEF Company!None
<1>7. Company!NewMean(old, n + 1, v) = (old * ((n + 1) - 1) + Grain * v) \div (n + 1)
  BY <1>6 DEF Company!NewMean
<1>8. old * ((n + 1) - 1) + Grain * v = Grain * (u + v)
  BY <1>3, <1>6
<1> QED BY <1>5, <1>6, <1>7, <1>8

\* LEMMA: the mean of one more outcome comes from the mean and the number of those before.
LEMMA MeanGoesOn ==
  ASSUME NEW out, NEW known, NEW a, NEW f, HasOneMore(known, out, a, f), NEW k \in Company!Figures,
         DOMAIN out \subseteq Applications, IsFiniteSet(Given(out, k))
  PROVE  /\ f.value[k] = Company!None => MeanFrom(known, k) = MeanFrom(out, k)
         /\ f.value[k] # Company!None => MeanFrom(known, k)
               = Company!NewMean(MeanFrom(out, k), Cardinality(Knows(out, k)) + 1, f.value[k])
         /\ IsFiniteSet(Given(known, k))
<1>1. /\ IsFiniteSet(Applications) /\ Grain \in Nat \ {0}
      /\ \A n \in 1..Cardinality(Applications) : Grain % n = 0
  BY UserWorkAssumption DEF Company!FactsAreFacts, Company!Cardinality, Company!IsFiniteSet,
                            Cardinality, IsFiniteSet
<1>2. Knows(out, k) \subseteq Applications
  BY DEF Knows
<1>3. IsFiniteSet(Knows(out, k)) /\ Cardinality(Knows(out, k)) <= Cardinality(Applications)
  BY <1>1, <1>2, FS_Subset, Zenon
<1>4. PICK n, u, v : /\ n = Cardinality(Knows(out, k)) /\ u = Cardinality(Given(out, k))
                     /\ v = f.value[k]
  OBVIOUS
<1>5. n \in Nat /\ u \in Nat /\ Cardinality(Applications) \in Nat
  BY <1>1, <1>3, <1>4, FS_CardinalityType
<1>6. CASE v = Company!None
  <2>0. f.value[k] = Company!None
    BY <1>4, <1>6
  <2>1. Knows(known, k) = Knows(out, k) /\ Given(known, k) = Given(out, k)
    BY <1>3, <2>0, OneMoreGiven
  <2> QED BY <1>4, <1>6, <2>1 DEF MeanFrom
<1>7. CASE v # Company!None
  <2>1. v \in Nat /\ Knows(known, k) # {} /\ IsFiniteSet(Given(known, k))
    BY <1>3, <1>4, <1>7, OneMoreGiven
  <2>2. Cardinality(Knows(known, k)) = n + 1 /\ Cardinality(Given(known, k)) = u + v
    BY <1>3, <1>4, <1>7, OneMoreGiven
  <2>3. MeanFrom(known, k) = (Grain * (u + v)) \div (n + 1)
    BY <2>1, <2>2 DEF MeanFrom
  <2>4. CASE n = 0
    <3>1. Knows(out, k) = {}
      BY <1>3, <1>4, <2>4, FS_EmptySet
    <3>2. Given(out, k) = {} /\ MeanFrom(out, k) = Company!None
      BY <3>1 DEF Given, MeanFrom
    <3>3. u = 0
      BY <1>4, <3>2, FS_EmptySet
    <3>4. PICK w \in Nat : w = Grain * v
      BY <1>1, <2>1
    <3>5. Grain * (u + v) = w /\ w \div (n + 1) = w
      BY <2>1, <2>4, <3>3, <3>4
    <3>6. Company!NewMean(MeanFrom(out, k), n + 1, v) = w
      BY <3>2, <3>4 DEF Company!NewMean
    <3> QED BY <1>4, <1>7, <2>1, <2>3, <3>5, <3>6
  <2>5. CASE n # 0
    <3>1. n \in 1..Cardinality(Applications) /\ n \in Nat \ {0}
      BY <1>3, <1>4, <1>5, <2>5
    <3>2. Grain % n = 0
      BY <1>1, <3>1
    <3>3. Knows(out, k) # {}
      BY <1>4, <2>5, FS_EmptySet
    <3>4. MeanFrom(out, k) = (Grain * u) \div n
      BY <1>4, <3>3 DEF MeanFrom
    <3>5. Company!NewMean((Grain * u) \div n, n + 1, v) = (Grain * (u + v)) \div (n + 1)
      BY <1>1, <1>5, <2>1, <3>1, <3>2, NextMean
    <3> QED BY <1>4, <1>7, <2>1, <2>3, <3>4, <3>5
  <2> QED BY <2>4, <2>5
<1> QED BY <1>6, <1>7

\* LEMMA: the means fit as long as neither the outcomes nor the row changes.
LEMMA MeansStay ==
  ASSUME MeansFit, UNCHANGED <<outcome, insight, raced, edits>>
  PROVE  MeansFit'
BY DEF MeansFit, MeanFrom, Given, Knows

\* LEMMA: those that told a figure are those that know it.
LEMMA TellersKnow ==
  ASSUME NEW out, IsFiniteSet(DOMAIN out), NEW k
  PROVE  Cardinality(Tellers({<<a, out[a]>> : a \in DOMAIN out \ Nameless}, k))
            = Cardinality(Knows(out, k))
<1>1. Tellers({<<a, out[a]>> : a \in DOMAIN out \ Nameless}, k)
         = {<<a, out[a]>> : a \in Knows(out, k)}
  BY DEF Tellers, Knows
<1>2. Knows(out, k) \subseteq DOMAIN out
  BY DEF Knows
<1>3. IsFiniteSet(Knows(out, k))
  BY <1>2, FS_Subset
<1> QED BY <1>1, <1>3, PairsCount

LEMMA InsightStarts == Company!InsightsInit => InsightInv
<1> SUFFICES ASSUME Company!InsightsInit PROVE InsightInv
  OBVIOUS
<1>1. /\ live = Applications /\ DOMAIN outcome = {} /\ insight = Company!NoInsight
      /\ DOMAIN recorder = Recorders /\ \A r \in Recorders : recorder[r].at = "idle"
      /\ recorded = {} /\ raced = FALSE /\ edits = 0
  BY DEF Company!InsightsInit, Company!Waiting
<1>2. IsFiniteSet({}) /\ Cardinality({}) = 0
  BY FS_EmptySet
<1>3. Ghosts({}) = {} /\ \A k \in Company!Figures : Tellers({}, k) = {}
  BY DEF Ghosts, Tellers
<1>4. IsInsight(Company!NoInsight)
  BY DEF IsInsight, Company!NoInsight
<1>5. Within(Company!NoInsight, {}) /\ Exact(Company!NoInsight, {})
  BY <1>2, <1>3 DEF Within, Exact, Company!NoInsight
<1>6. InsightShapes
  BY <1>1, <1>2, <1>4 DEF InsightShapes
<1>7. RecordedOnce /\ InsertedAlone /\ CountsFit /\ UntilEdited
  BY <1>1, <1>2, <1>5 DEF RecordedOnce, InsertedAlone, CountsFit, UntilEdited
<1>8. MeansFit
  <2>1. ASSUME NEW k \in Company!Figures
        PROVE  Given(outcome, k) = {} /\ insight.mean[k] = MeanFrom(outcome, k)
    <3>1. Knows(outcome, k) = {}
      BY <1>1 DEF Knows
    <3> QED BY <1>1, <3>1 DEF Given, MeanFrom, Company!NoInsight
  <2> QED BY <1>2, <2>1 DEF MeansFit
<1> QED BY <1>6, <1>7, <1>8 DEF InsightInv

RecorderMoved(r, to) ==
    /\ to.at \in {"checked", "done"}
    /\ to.at = "checked" => to.app \in Applications /\ to.facts \in Facts
    /\ recorder' = [recorder EXCEPT ![r] = to]
    /\ UNCHANGED <<live, outcome, insight, recorded, raced, edits>>

\* LEMMA: a request that has not inserted its outcome yet, or is done, is no concern of others.
LEMMA RecorderMoves ==
  ASSUME InsightInv, NEW r \in Recorders, NEW to, RecorderMoved(r, to)
  PROVE  InsightInv'
<1>1. InsightShapes /\ RecordedOnce /\ InsertedAlone /\ CountsFit /\ UntilEdited /\ MeansFit
  BY DEF InsightInv
<1>0. /\ to.at \in {"checked", "done"}
      /\ to.at = "checked" => to.app \in Applications /\ to.facts \in Facts
      /\ recorder' = [recorder EXCEPT ![r] = to]
      /\ UNCHANGED <<live, outcome, insight, recorded, raced, edits>>
  BY DEF RecorderMoved
<1>2. DOMAIN recorder = Recorders
  BY <1>1 DEF InsightShapes
<1>3. /\ DOMAIN recorder' = Recorders
      /\ \A s \in Recorders : recorder'[s] = IF s = r THEN to ELSE recorder[s]
  BY <1>0, <1>2
<1>4. InsightShapes'
  BY <1>0, <1>1, <1>3 DEF InsightShapes, IsInsight
<1>5. InsertedAlone'
  <2>1. ASSUME NEW s \in Recorders, recorder'[s].at = "inserted"
        PROVE  /\ recorder'[s].app \in live' \ DOMAIN outcome'
               /\ IsInsight(recorder'[s].read) /\ Within(recorder'[s].read, recorded)
               /\ \A t \in Recorders : recorder'[t].at = "inserted"
                                       /\ recorder'[t].app = recorder'[s].app => t = s
    <3>1. s \in Recorders /\ recorder[s].at = "inserted" /\ recorder'[s] = recorder[s]
      BY <1>0, <1>3, <2>1
    <3>2. /\ recorder[s].app \in live \ DOMAIN outcome
          /\ IsInsight(recorder[s].read) /\ Within(recorder[s].read, recorded)
          /\ \A t \in Recorders : recorder[t].at = "inserted"
                                  /\ recorder[t].app = recorder[s].app => t = s
      BY <1>1, <3>1 DEF InsertedAlone
    <3> QED BY <1>0, <1>3, <3>1, <3>2
  <2> QED BY <1>0, <2>1 DEF InsertedAlone, IsInsight, Within, Ghosts, Tellers
<1>6. RecordedOnce' /\ CountsFit' /\ UntilEdited'
  BY <1>0, <1>1 DEF RecordedOnce, CountsFit, UntilEdited, Within, Exact, Ghosts, Tellers
<1>7. MeansFit'
  BY <1>0, <1>1, MeansStay
<1> QED BY <1>4, <1>5, <1>6, <1>7 DEF InsightInv

LEMMA BeginRecordKeeps ==
  ASSUME InsightInv, NEW r \in Recorders, NEW a \in Applications, NEW f \in Facts,
         Company!BeginRecord(r, a, f)
  PROVE  InsightInv'
<1>1. PICK to : to = IF Company!HasOutcome(a) THEN [Company!Waiting EXCEPT !.at = "done"]
                     ELSE [at |-> "checked", app |-> a, facts |-> f, read |-> Company!NoInsight]
  OBVIOUS
<1>2. /\ recorder' = [recorder EXCEPT ![r] = to]
      /\ UNCHANGED <<live, outcome, insight, recorded, raced, edits>>
  BY <1>1 DEF Company!BeginRecord
<1>3. to.at \in {"checked", "done"} /\ (to.at = "checked" => to.app \in Applications /\ to.facts \in Facts)
  BY <1>1 DEF Company!Waiting
<1>4. RecorderMoved(r, to)
  BY <1>2, <1>3 DEF RecorderMoved
<1> QED BY <1>4, RecorderMoves

\* LEMMA: what an insert reads of the company's row is no more than was recorded.
LEMMA InsertKeepsInsight ==
  ASSUME InsightInv, NEW r \in Recorders, Company!Insert(r)
  PROVE  InsightInv'
<1>1. InsightShapes /\ RecordedOnce /\ InsertedAlone /\ CountsFit /\ UntilEdited /\ MeansFit
  BY DEF InsightInv
<1>2. PICK a, f : a = recorder[r].app /\ f = recorder[r].facts
  OBVIOUS
<1>3. CASE a \in DOMAIN outcome \/ a \notin live
  <2>1. PICK to : to = [Company!Waiting EXCEPT !.at = "done"]
    OBVIOUS
  <2>2. to.at = "done"
    BY <2>1 DEF Company!Waiting
  <2>3. /\ recorder' = [recorder EXCEPT ![r] = to]
        /\ UNCHANGED <<live, outcome, insight, recorded, raced, edits>>
    BY <1>2, <1>3, <2>1 DEF Company!Insert, Company!End, Company!HasOutcome
  <2>4. RecorderMoved(r, to)
    BY <2>2, <2>3 DEF RecorderMoved
  <2> QED BY <2>4, RecorderMoves
<1>4. CASE a \notin DOMAIN outcome /\ a \in live
  <2>1. PICK to : to = [at |-> "inserted", app |-> a, facts |-> f, read |-> insight]
    OBVIOUS
  <2>2. /\ recorder[r].at = "checked" /\ recorder' = [recorder EXCEPT ![r] = to]
        /\ UNCHANGED <<live, outcome, insight, recorded, raced, edits>>
        /\ \A s \in Recorders : ~(recorder[s].at = "inserted" /\ recorder[s].app = a)
    BY <1>2, <1>4, <2>1 DEF Company!Insert, Company!HasOutcome, Company!Inserting
  <2>3. a \in Applications /\ f \in Facts /\ DOMAIN recorder = Recorders /\ IsInsight(insight)
    BY <1>1, <1>2, <2>2 DEF InsightShapes
  <2>4. /\ DOMAIN recorder' = Recorders
        /\ \A s \in Recorders : recorder'[s] = IF s = r THEN to ELSE recorder[s]
    BY <2>2, <2>3
  <2>5. InsightShapes'
    BY <1>1, <2>1, <2>2, <2>3, <2>4 DEF InsightShapes, IsInsight
  <2>6. Within(insight, recorded)
    BY <1>1 DEF CountsFit
  <2>7. ASSUME NEW s \in Recorders, recorder'[s].at = "inserted"
        PROVE  /\ recorder'[s].app \in live \ DOMAIN outcome
               /\ IsInsight(recorder'[s].read) /\ Within(recorder'[s].read, recorded)
               /\ \A t \in Recorders : recorder'[t].at = "inserted"
                                       /\ recorder'[t].app = recorder'[s].app => t = s
    <3>1. CASE s = r
      BY <1>4, <2>1, <2>2, <2>3, <2>4, <2>6, <3>1
    <3>2. CASE s # r
      BY <1>1, <2>1, <2>2, <2>4, <2>7, <3>2 DEF InsertedAlone
    <3> QED BY <3>1, <3>2
  <2>8. InsertedAlone'
    BY <2>2, <2>7 DEF InsertedAlone, IsInsight, Within, Ghosts, Tellers
  <2>9. RecordedOnce' /\ CountsFit' /\ UntilEdited'
    BY <1>1, <2>2 DEF RecordedOnce, CountsFit, UntilEdited, Within, Exact, Ghosts, Tellers
  <2>10. MeansFit'
    BY <1>1, <2>2, MeansStay
  <2> QED BY <2>5, <2>8, <2>9, <2>10 DEF InsightInv
<1> QED BY <1>3, <1>4

LEMMA SaveRefusedKeeps ==
  ASSUME InsightInv, NEW r \in Recorders, Company!SaveRefused(r)
  PROVE  InsightInv'
<1>1. PICK to : to = [Company!Waiting EXCEPT !.at = "done"]
  OBVIOUS
<1>2. to.at = "done"
  BY <1>1 DEF Company!Waiting
<1>3. /\ recorder' = [recorder EXCEPT ![r] = to]
      /\ UNCHANGED <<live, outcome, insight, recorded, raced, edits>>
  BY <1>1 DEF Company!SaveRefused, Company!End
<1>4. RecorderMoved(r, to)
  BY <1>2, <1>3 DEF RecorderMoved
<1> QED BY <1>4, RecorderMoves

\* LEMMA: changes and deletions leave the row alone, and what was recorded.
LEMMA EditKeeps ==
  ASSUME InsightInv, NEW a \in Applications,
         Company!DeleteApplication(a) \/ \E f \in Facts : Company!PatchOutcome(a, f)
  PROVE  InsightInv'
<1>1. InsightShapes /\ RecordedOnce /\ InsertedAlone /\ CountsFit /\ UntilEdited /\ MeansFit
  BY DEF InsightInv
<1>2. edits \in Nat /\ edits' = edits + 1 /\ UNCHANGED <<insight, recorder, recorded, raced>>
  BY <1>1 DEF InsightShapes, Company!DeleteApplication, Company!PatchOutcome, Company!Edit
<1>3. CountsFit' /\ UntilEdited' /\ MeansFit'
  BY <1>1, <1>2 DEF CountsFit, UntilEdited, MeansFit, Within, Exact, Ghosts, Tellers
<1>4. CASE Company!DeleteApplication(a)
  <2>1. /\ live' = live \ {a} /\ outcome' = [b \in DOMAIN outcome \ {a} |-> outcome[b]]
        /\ \A s \in Recorders : ~(recorder[s].at = "inserted" /\ recorder[s].app = a)
    BY <1>4 DEF Company!DeleteApplication, Company!Inserting
  <2>2. IsFiniteSet(DOMAIN outcome \ {a})
    BY <1>1, FS_Subset DEF InsightShapes
  <2>3. DOMAIN outcome' = DOMAIN outcome \ {a} /\ \A b \in DOMAIN outcome' : outcome'[b] = outcome[b]
    BY <2>1
  <2>4. InsightShapes'
    BY <1>1, <1>2, <2>1, <2>2, <2>3 DEF InsightShapes, IsInsight
  <2>5. RecordedOnce'
    BY <1>1, <1>2, <2>1, <2>3 DEF RecordedOnce
  <2>6. InsertedAlone'
    <3>1. ASSUME NEW s \in Recorders, recorder'[s].at = "inserted"
          PROVE  /\ recorder'[s].app \in live' \ DOMAIN outcome'
                 /\ IsInsight(recorder'[s].read) /\ Within(recorder'[s].read, recorded)
                 /\ \A t \in Recorders : recorder'[t].at = "inserted"
                                         /\ recorder'[t].app = recorder'[s].app => t = s
      <4>1. s \in Recorders /\ recorder[s].at = "inserted" /\ recorder'[s] = recorder[s]
        BY <1>2, <2>1, <2>3, <3>1
      <4>2. /\ recorder[s].app \in live \ DOMAIN outcome
            /\ IsInsight(recorder[s].read) /\ Within(recorder[s].read, recorded)
            /\ \A t \in Recorders : recorder[t].at = "inserted"
                                    /\ recorder[t].app = recorder[s].app => t = s
        BY <1>1, <4>1 DEF InsertedAlone
      <4> QED BY <1>2, <2>1, <2>3, <4>1, <4>2
    <3> QED BY <3>1, <1>2 DEF InsertedAlone, IsInsight, Within, Ghosts, Tellers
  <2> QED BY <1>3, <2>4, <2>5, <2>6 DEF InsightInv
<1>5. CASE \E f \in Facts : Company!PatchOutcome(a, f)
  <2>1. PICK f \in Facts : Company!PatchOutcome(a, f)
    BY <1>5
  <2>2. /\ a \in DOMAIN outcome /\ outcome' = [outcome EXCEPT ![a] = f] /\ live' = live
    BY <2>1 DEF Company!PatchOutcome, Company!HasOutcome
  <2>3. /\ DOMAIN outcome' = DOMAIN outcome
        /\ \A b \in DOMAIN outcome' : outcome'[b] = IF b = a THEN f ELSE outcome[b]
    BY <2>2
  <2>4. InsightShapes'
    BY <1>1, <1>2, <2>2, <2>3 DEF InsightShapes, IsInsight
  <2>5. RecordedOnce'
    BY <1>1, <1>2, <2>2, <2>3 DEF RecordedOnce
  <2>6. InsertedAlone'
    <3>1. ASSUME NEW s \in Recorders, recorder'[s].at = "inserted"
          PROVE  /\ recorder'[s].app \in live' \ DOMAIN outcome'
                 /\ IsInsight(recorder'[s].read) /\ Within(recorder'[s].read, recorded)
                 /\ \A t \in Recorders : recorder'[t].at = "inserted"
                                         /\ recorder'[t].app = recorder'[s].app => t = s
      <4>1. s \in Recorders /\ recorder[s].at = "inserted" /\ recorder'[s] = recorder[s]
        BY <1>2, <2>2, <2>3, <3>1
      <4>2. /\ recorder[s].app \in live \ DOMAIN outcome
            /\ IsInsight(recorder[s].read) /\ Within(recorder[s].read, recorded)
            /\ \A t \in Recorders : recorder[t].at = "inserted"
                                    /\ recorder[t].app = recorder[s].app => t = s
        BY <1>1, <4>1 DEF InsertedAlone
      <4> QED BY <1>2, <2>2, <2>3, <4>1, <4>2
    <3> QED BY <3>1, <1>2 DEF InsertedAlone, IsInsight, Within, Ghosts, Tellers
  <2> QED BY <1>3, <2>4, <2>5, <2>6 DEF InsightInv
<1> QED BY <1>4, <1>5

\* LEMMA: an application without a company name has its outcome, and the row is left alone.
LEMMA SaveNamelessKeeps ==
  ASSUME InsightInv, NEW r \in Recorders, Company!SaveNameless(r)
  PROVE  InsightInv'
<1>1. InsightShapes /\ RecordedOnce /\ InsertedAlone /\ CountsFit /\ UntilEdited /\ MeansFit
  BY DEF InsightInv
<1>2. PICK a, f, to : /\ a = recorder[r].app /\ f = recorder[r].facts
                      /\ to = [Company!Waiting EXCEPT !.at = "done"]
  OBVIOUS
<1>3. /\ recorder[r].at = "inserted" /\ a \in Nameless
      /\ outcome' = [b \in DOMAIN outcome \cup {a} |-> IF b = a THEN f ELSE outcome[b]]
      /\ recorder' = [recorder EXCEPT ![r] = to]
      /\ UNCHANGED <<live, insight, recorded, raced, edits>>
  BY <1>2 DEF Company!SaveNameless, Company!End
<1>4. /\ a \in live \ DOMAIN outcome /\ f \in Facts /\ DOMAIN recorder = Recorders
      /\ \A s \in Recorders : recorder[s].at = "inserted" /\ recorder[s].app = a => s = r
  BY <1>1, <1>2, <1>3 DEF InsightShapes, InsertedAlone
<1>5. to.at = "done"
  BY <1>2 DEF Company!Waiting
<1>6. /\ DOMAIN recorder' = Recorders
      /\ \A s \in Recorders : recorder'[s] = IF s = r THEN to ELSE recorder[s]
  BY <1>3, <1>4
<1>7. /\ DOMAIN outcome' = DOMAIN outcome \cup {a} /\ DOMAIN outcome' \ Nameless = DOMAIN outcome \ Nameless
      /\ \A b \in DOMAIN outcome' : outcome'[b] = IF b = a THEN f ELSE outcome[b]
  BY <1>3
<1>8. IsFiniteSet(DOMAIN outcome')
  BY <1>1, <1>7, FS_AddElement DEF InsightShapes
<1>9. InsightShapes'
  BY <1>1, <1>3, <1>4, <1>5, <1>6, <1>7, <1>8 DEF InsightShapes, IsInsight
<1>10. RecordedOnce'
  BY <1>1, <1>3, <1>7 DEF RecordedOnce
<1>11. InsertedAlone'
  <2>1. ASSUME NEW s \in Recorders, recorder'[s].at = "inserted"
        PROVE  /\ recorder'[s].app \in live' \ DOMAIN outcome'
               /\ IsInsight(recorder'[s].read) /\ Within(recorder'[s].read, recorded)
               /\ \A t \in Recorders : recorder'[t].at = "inserted"
                                       /\ recorder'[t].app = recorder'[s].app => t = s
    <3>1. s \in Recorders /\ recorder[s].at = "inserted" /\ recorder'[s] = recorder[s]
      BY <1>3, <1>4, <1>5, <1>6, <1>7, <2>1
    <3>2. /\ recorder[s].app \in live \ DOMAIN outcome
          /\ IsInsight(recorder[s].read) /\ Within(recorder[s].read, recorded)
          /\ \A t \in Recorders : recorder[t].at = "inserted"
                                  /\ recorder[t].app = recorder[s].app => t = s
      BY <1>1, <3>1 DEF InsertedAlone
    <3> QED BY <1>3, <1>4, <1>5, <1>6, <1>7, <3>1, <3>2
  <2> QED BY <2>1, <1>3 DEF InsertedAlone, IsInsight, Within, Ghosts, Tellers
<1>12. CountsFit'
  BY <1>1, <1>3 DEF CountsFit, Within, Exact, Ghosts, Tellers
<1>13. Company!Rejections(outcome') = Company!Rejections(outcome)
  <2>1. {b \in DOMAIN outcome' \ Nameless : outcome'[b].rejected}
           = {b \in DOMAIN outcome \ Nameless : outcome[b].rejected}
    BY <1>3, <1>7
  <2> QED BY <2>1 DEF Company!Rejections
<1>14. {<<b, outcome'[b]>> : b \in DOMAIN outcome' \ Nameless}
          = {<<b, outcome[b]>> : b \in DOMAIN outcome \ Nameless}
  BY <1>3, <1>7
<1>15. UntilEdited'
  BY <1>1, <1>3, <1>13, <1>14 DEF UntilEdited
<1>16. MeansFit'
  <2>1. \A b \in DOMAIN outcome : b # a => outcome'[b] = outcome[b]
    BY <1>7
  <2>2. ASSUME NEW k \in Company!Figures
        PROVE  Given(outcome', k) = Given(outcome, k) /\ MeanFrom(outcome', k) = MeanFrom(outcome, k)
    <3>1. Knows(outcome', k) = Knows(outcome, k)
      BY <1>3, <1>7 DEF Knows
    <3>2. \A b \in Knows(outcome, k) : outcome'[b] = outcome[b]
      BY <1>3, <2>1 DEF Knows
    <3> QED BY <3>1, <3>2 DEF Given, MeanFrom
  <2> QED BY <1>1, <1>3, <2>2 DEF MeansFit
<1> QED BY <1>9, <1>10, <1>11, <1>12, <1>15, <1>16 DEF InsightInv

\* LEMMA: one more entry, and what is counted of it.
LEMMA OneMoreRecorded ==
  ASSUME NEW R, IsFiniteSet(R), NEW a, NEW f, <<a, f>> \notin R,
         f.ghosted \in BOOLEAN
  PROVE  /\ IsFiniteSet(R \cup {<<a, f>>}) /\ Cardinality(R) \in Nat
         /\ Cardinality(R \cup {<<a, f>>}) = Cardinality(R) + 1
         /\ Cardinality(Ghosts(R)) \in Nat
         /\ Cardinality(Ghosts(R \cup {<<a, f>>}))
               = Cardinality(Ghosts(R)) + (IF f.ghosted THEN 1 ELSE 0)
<1>1. PICK e : e = <<a, f>>
  OBVIOUS
<1>2. PICK S : S = R \cup {e}
  OBVIOUS
<1>3. e[2] = f /\ e \notin R
  BY <1>1
<1>4. IsFiniteSet(S) /\ Cardinality(S) = Cardinality(R) + 1 /\ Cardinality(R) \in Nat
  BY <1>2, <1>3, OneMore
<1>5. IsFiniteSet(Ghosts(R)) /\ e \notin Ghosts(R)
  <2>1. Ghosts(R) \subseteq R
    BY DEF Ghosts
  <2> QED BY <2>1, <1>3, FS_Subset
<1>6. /\ Cardinality(Ghosts(R)) \in Nat
      /\ Cardinality(Ghosts(R) \cup {e}) = Cardinality(Ghosts(R)) + 1
  BY <1>5, OneMore
<1>7. Ghosts(S) = IF f.ghosted THEN Ghosts(R) \cup {e} ELSE Ghosts(R)
  BY <1>2, <1>3 DEF Ghosts
<1>8. Cardinality(Ghosts(S)) = Cardinality(Ghosts(R)) + (IF f.ghosted THEN 1 ELSE 0)
  BY <1>6, <1>7
<1> QED BY <1>1, <1>2, <1>4, <1>6, <1>8

\* LEMMA: the same of the figures it gives.
LEMMA OneMoreTeller ==
  ASSUME NEW R, IsFiniteSet(R), NEW a, NEW f, <<a, f>> \notin R, NEW k
  PROVE  /\ Cardinality(Tellers(R, k)) \in Nat
         /\ Cardinality(Tellers(R \cup {<<a, f>>}, k))
               = Cardinality(Tellers(R, k)) + (IF f.value[k] = Company!None THEN 0 ELSE 1)
<1>1. PICK e : e = <<a, f>>
  OBVIOUS
<1>2. PICK S : S = R \cup {e}
  OBVIOUS
<1>3. e[2] = f /\ e \notin R
  BY <1>1
<1>5. IsFiniteSet(Tellers(R, k)) /\ e \notin Tellers(R, k)
  <2>1. Tellers(R, k) \subseteq R
    BY DEF Tellers
  <2> QED BY <2>1, <1>3, FS_Subset
<1>6. /\ Cardinality(Tellers(R, k)) \in Nat
      /\ Cardinality(Tellers(R, k) \cup {e}) = Cardinality(Tellers(R, k)) + 1
  BY <1>5, OneMore
<1>7. Tellers(S, k) = IF f.value[k] = Company!None THEN Tellers(R, k) ELSE Tellers(R, k) \cup {e}
  BY <1>2, <1>3 DEF Tellers
<1>8. Cardinality(Tellers(S, k))
         = Cardinality(Tellers(R, k)) + (IF f.value[k] = Company!None THEN 0 ELSE 1)
  BY <1>6, <1>7
<1> QED BY <1>1, <1>2, <1>6, <1>8

\* What a request wrote over the row i, having read it as `read`.
HasSaved(i, read, f, rejections, j) ==
    j = Company!Merged(i, read, Company!Added(read, f, rejections))

\* LEMMA: what is written has the columns of a row, and each is the one that was there or one
\* computed from the reading.
LEMMA SavedColumns ==
  ASSUME NEW i, NEW read, NEW f, NEW n \in Nat, NEW j, IsInsight(i), IsInsight(read),
         f \in Facts, HasSaved(i, read, f, n, j)
  PROVE  /\ IsInsight(j)
         /\ j.total \in {i.total, read.total + 1}
         /\ j.ghosted \in {i.ghosted, read.ghosted + (IF f.ghosted THEN 1 ELSE 0)}
         /\ \A k \in Company!Figures :
               j.count[k] \in {i.count[k], read.count[k] + (IF f.value[k] = Company!None THEN 0 ELSE 1)}
         /\ i = read => /\ j.total = i.total + 1
                        /\ j.ghosted = i.ghosted + (IF f.ghosted THEN 1 ELSE 0)
                        /\ \A k \in Company!Figures : j.count[k]
                              = i.count[k] + (IF f.value[k] = Company!None THEN 0 ELSE 1)
                        /\ j.ghostRate = Company!Percent(j.ghosted, j.total)
                        /\ j.offerRate = Company!Percent(j.count["offer"], j.total)
                        /\ j.rejectionRate = Company!Percent(n, j.total)
<1>1. PICK new : new = Company!Added(read, f, n)
  OBVIOUS
<1>2. f.ghosted \in BOOLEAN
  BY UserWorkAssumption DEF Company!FactsAreFacts
<1>3. PICK g \in Nat : g = IF f.ghosted THEN 1 ELSE 0
  BY <1>2
<1>4. PICK t \in Nat \ {0} : t = read.total + 1
  BY DEF IsInsight
<1>5. PICK h \in Nat : h = read.ghosted + g
  BY DEF IsInsight
<1>6. PICK c : c = [k \in Company!Figures |-> read.count[k] + (IF f.value[k] = Company!None THEN 0 ELSE 1)]
  OBVIOUS
<1>7. c \in [Company!Figures -> Nat]
  BY <1>6 DEF IsInsight
<1>8. /\ new.total = t /\ new.ghosted = h /\ new.count = c /\ DOMAIN new.mean = Company!Figures
      /\ new.ghostRate = Company!Percent(h, t) /\ new.offerRate = Company!Percent(c["offer"], t)
      /\ new.rejectionRate = Company!Percent(n, t)
  BY <1>1, <1>3, <1>4, <1>5, <1>6 DEF Company!Added
<1>9. "offer" \in Company!Figures /\ c["offer"] \in Nat
  BY <1>7 DEF Company!Figures
<1>10. new.ghostRate \in Nat /\ new.offerRate \in Nat /\ new.rejectionRate \in Nat
  BY <1>8, <1>9, Shares
<1>11. j = Company!Merged(i, read, new)
  BY <1>1 DEF HasSaved
<1>12. /\ j = [total |-> j.total, ghosted |-> j.ghosted, count |-> j.count, mean |-> j.mean,
               ghostRate |-> j.ghostRate, offerRate |-> j.offerRate,
               rejectionRate |-> j.rejectionRate]
       /\ j.total = Company!Column(i.total, read.total, new.total)
       /\ j.ghosted = Company!Column(i.ghosted, read.ghosted, new.ghosted)
       /\ j.count = [k \in Company!Figures |-> Company!Column(i.count[k], read.count[k], new.count[k])]
       /\ j.mean = [k \in Company!Figures |-> j.mean[k]]
       /\ j.ghostRate = Company!Column(i.ghostRate, read.ghostRate, new.ghostRate)
       /\ j.offerRate = Company!Column(i.offerRate, read.offerRate, new.offerRate)
       /\ j.rejectionRate = Company!Column(i.rejectionRate, read.rejectionRate, new.rejectionRate)
  BY <1>11 DEF Company!Merged
<1>13. \A k \in Company!Figures : j.count[k] = Company!Column(i.count[k], read.count[k], c[k])
  BY <1>8, <1>12
<1>14. IsInsight(j)
  <2>1. j.count \in [Company!Figures -> Nat]
    <3>1. \A k \in Company!Figures : j.count[k] \in Nat
      BY <1>7, <1>13 DEF Company!Column, IsInsight
    <3>2. j.count = [k \in Company!Figures |-> j.count[k]]
      BY <1>12
    <3> QED BY <3>1, <3>2
  <2>2. j.total \in Nat /\ j.ghosted \in Nat
    BY <1>8, <1>12 DEF Company!Column, IsInsight
  <2>3. j.ghostRate \in Nat /\ j.offerRate \in Nat /\ j.rejectionRate \in Nat
    BY <1>10, <1>12 DEF Company!Column, IsInsight
  <2> QED BY <1>12, <2>1, <2>2, <2>3 DEF IsInsight
<1>15. /\ j.total \in {i.total, read.total + 1}
       /\ j.ghosted \in {i.ghosted, read.ghosted + (IF f.ghosted THEN 1 ELSE 0)}
  BY <1>3, <1>4, <1>5, <1>8, <1>12 DEF Company!Column
<1>16. \A k \in Company!Figures :
          j.count[k] \in {i.count[k], read.count[k] + (IF f.value[k] = Company!None THEN 0 ELSE 1)}
  BY <1>6, <1>13 DEF Company!Column
<1>17. ASSUME i = read
       PROVE  /\ j.total = i.total + 1
              /\ j.ghosted = i.ghosted + (IF f.ghosted THEN 1 ELSE 0)
              /\ \A k \in Company!Figures : j.count[k]
                    = i.count[k] + (IF f.value[k] = Company!None THEN 0 ELSE 1)
              /\ j.ghostRate = Company!Percent(j.ghosted, j.total)
              /\ j.offerRate = Company!Percent(j.count["offer"], j.total)
              /\ j.rejectionRate = Company!Percent(n, j.total)
  <2>1. j.total = t /\ j.ghosted = h
    BY <1>8, <1>12, <1>17 DEF Company!Column
  <2>2. \A k \in Company!Figures : j.count[k] = c[k]
    BY <1>13, <1>17 DEF Company!Column
  <2>3. j.ghostRate = new.ghostRate /\ j.offerRate = new.offerRate /\ j.rejectionRate = new.rejectionRate
    BY <1>12, <1>17 DEF Company!Column
  <2>4. j.count["offer"] = c["offer"]
    BY <1>9, <2>2
  <2>5. \A k \in Company!Figures : j.count[k]
           = i.count[k] + (IF f.value[k] = Company!None THEN 0 ELSE 1)
    BY <1>6, <1>17, <2>2
  <2>6. j.total = i.total + 1 /\ j.ghosted = i.ghosted + (IF f.ghosted THEN 1 ELSE 0)
    BY <1>3, <1>4, <1>5, <1>17, <2>1
  <2> QED BY <1>8, <2>1, <2>3, <2>4, <2>5, <2>6
<1> QED BY <1>14, <1>15, <1>16, <1>17

\* LEMMA: the means written over the row as it was read go on from its means and counts.
LEMMA SavedMean ==
  ASSUME NEW i, NEW f, NEW n, NEW j, HasSaved(i, i, f, n, j), NEW k \in Company!Figures
  PROVE  /\ f.value[k] = Company!None => j.mean[k] = i.mean[k]
         /\ f.value[k] # Company!None =>
               j.mean[k] = Company!NewMean(i.mean[k], i.count[k] + 1, f.value[k])
<1>1. PICK new : new = Company!Added(i, f, n)
  OBVIOUS
<1>2. PICK c : c = [h \in Company!Figures |-> i.count[h] + (IF f.value[h] = Company!None THEN 0 ELSE 1)]
  OBVIOUS
<1>3. new.mean = [h \in Company!Figures |->
                    IF f.value[h] = Company!None THEN i.mean[h]
                    ELSE Company!NewMean(i.mean[h], c[h], f.value[h])]
  BY <1>1, <1>2 DEF Company!Added
<1>4. j.mean = [h \in Company!Figures |-> Company!Column(i.mean[h], i.mean[h], new.mean[h])]
  BY <1>1 DEF HasSaved, Company!Merged
<1>5. j.mean[k] = new.mean[k]
  BY <1>4 DEF Company!Column
<1>6. f.value[k] # Company!None => c[k] = i.count[k] + 1
  BY <1>2
<1> QED BY <1>3, <1>5, <1>6

\* What a request's outcome leaves of the row and of what was recorded.
Noted(R, a, f, n, S) ==
    /\ IsFiniteSet(S) /\ S = R \cup {<<a, f>>}
    /\ Cardinality(S) = Cardinality(R) + 1 /\ Cardinality(R) \in Nat
    /\ Cardinality(Ghosts(R)) \in Nat
    /\ Cardinality(Ghosts(S)) = Cardinality(Ghosts(R)) + (IF f.ghosted THEN 1 ELSE 0)
    /\ \A k \in Company!Figures :
          /\ Cardinality(Tellers(R, k)) \in Nat
          /\ Cardinality(Tellers(S, k))
                = Cardinality(Tellers(R, k)) + (IF f.value[k] = Company!None THEN 0 ELSE 1)
    /\ n \in Nat /\ n <= Cardinality(S)

\* LEMMA: counting on from a reading that is within what was recorded stays within it, and
\* from the row as it is is exact.
LEMMA SavedFits ==
  ASSUME NEW R, NEW S, NEW a, NEW f \in Facts, NEW n, Noted(R, a, f, n, S),
         NEW i, NEW read, NEW j, IsInsight(i), IsInsight(read), HasSaved(i, read, f, n, j),
         Within(i, R), Within(read, R)
  PROVE  /\ IsInsight(j) /\ Within(j, S)
         /\ i = read /\ Exact(i, R) =>
               Exact(j, S) /\ j.rejectionRate = Company!Percent(n, j.total)
<1>1. /\ n \in Nat /\ n <= Cardinality(S)
      /\ Cardinality(S) = Cardinality(R) + 1 /\ Cardinality(R) \in Nat /\ Cardinality(Ghosts(R)) \in Nat
      /\ Cardinality(Ghosts(S)) = Cardinality(Ghosts(R)) + (IF f.ghosted THEN 1 ELSE 0)
      /\ \A k \in Company!Figures :
            /\ Cardinality(Tellers(R, k)) \in Nat
            /\ Cardinality(Tellers(S, k))
                  = Cardinality(Tellers(R, k)) + (IF f.value[k] = Company!None THEN 0 ELSE 1)
  BY DEF Noted
<1>2. IsInsight(j) /\ j.total \in {i.total, read.total + 1}
  BY <1>1, SavedColumns
<1>3. j.ghosted \in {i.ghosted, read.ghosted + (IF f.ghosted THEN 1 ELSE 0)}
  BY <1>1, SavedColumns
<1>4. \A k \in Company!Figures :
         j.count[k] \in {i.count[k], read.count[k] + (IF f.value[k] = Company!None THEN 0 ELSE 1)}
  BY <1>1, SavedColumns
<1>5. i = read => /\ j.total = i.total + 1
                  /\ j.ghosted = i.ghosted + (IF f.ghosted THEN 1 ELSE 0)
                  /\ \A k \in Company!Figures : j.count[k]
                        = i.count[k] + (IF f.value[k] = Company!None THEN 0 ELSE 1)
                  /\ j.ghostRate = Company!Percent(j.ghosted, j.total)
                  /\ j.offerRate = Company!Percent(j.count["offer"], j.total)
                  /\ j.rejectionRate = Company!Percent(n, j.total)
  BY <1>1, SavedColumns
<1>6. f.ghosted \in BOOLEAN
  BY UserWorkAssumption DEF Company!FactsAreFacts
<1>7. PICK g \in Nat : g = IF f.ghosted THEN 1 ELSE 0
  BY <1>6
<1>8. j.total <= Cardinality(S)
  BY <1>1, <1>2 DEF Within, IsInsight
<1>9. j.ghosted <= Cardinality(Ghosts(S))
  <2>1. /\ i.ghosted \in Nat /\ read.ghosted \in Nat /\ i.ghosted <= Cardinality(Ghosts(R))
        /\ read.ghosted <= Cardinality(Ghosts(R))
    BY DEF IsInsight, Within
  <2>2. j.ghosted = i.ghosted \/ j.ghosted = read.ghosted + g
    BY <1>3, <1>7
  <2>3. Cardinality(Ghosts(S)) = Cardinality(Ghosts(R)) + g
    BY <1>1, <1>7
  <2> QED BY <1>1, <1>7, <2>1, <2>2, <2>3
<1>10. ASSUME NEW k \in Company!Figures PROVE j.count[k] <= Cardinality(Tellers(S, k))
  <2>1. PICK d \in Nat : d = IF f.value[k] = Company!None THEN 0 ELSE 1
    OBVIOUS
  <2>2. /\ i.count[k] \in Nat /\ read.count[k] \in Nat /\ i.count[k] <= Cardinality(Tellers(R, k))
        /\ read.count[k] <= Cardinality(Tellers(R, k))
    BY DEF IsInsight, Within
  <2>3. j.count[k] = i.count[k] \/ j.count[k] = read.count[k] + d
    BY <1>4, <2>1
  <2>4. Cardinality(Tellers(R, k)) \in Nat /\ Cardinality(Tellers(S, k)) = Cardinality(Tellers(R, k)) + d
    BY <1>1, <2>1
  <2> QED BY <2>1, <2>2, <2>3, <2>4
<1>11. Within(j, S)
  BY <1>8, <1>9, <1>10 DEF Within
<1>12. ASSUME i = read, Exact(i, R)
       PROVE  Exact(j, S) /\ j.rejectionRate = Company!Percent(n, j.total)
  <2>1. j.rejectionRate = Company!Percent(n, j.total)
    BY <1>5, <1>12
  <2>2. j.total = Cardinality(S)
    BY <1>1, <1>5, <1>12 DEF Exact
  <2>3. j.ghosted = Cardinality(Ghosts(S))
    BY <1>1, <1>5, <1>12 DEF Exact
  <2>4. \A k \in Company!Figures : j.count[k] = Cardinality(Tellers(S, k))
    BY <1>1, <1>5, <1>12 DEF Exact
  <2>5. j.ghostRate = Company!Percent(j.ghosted, j.total) /\ j.offerRate = Company!Percent(j.count["offer"], j.total)
    BY <1>5, <1>12
  <2>6. Cardinality(S) \in Nat \ {0}
    BY <1>1
  <2>7. j.rejectionRate <= 100
    BY <1>1, <2>1, <2>2, <2>6, Shares
  <2> QED BY <2>1, <2>2, <2>3, <2>4, <2>5, <2>7 DEF Exact
<1> QED BY <1>2, <1>11, <1>12

\* LEMMA: what was recorded has an outcome at most once, so the rejections of those there are
\* are no more.
LEMMA RejectionsBounded ==
  ASSUME NEW out, IsFiniteSet(DOMAIN out), NEW S, IsFiniteSet(S),
         \A b \in DOMAIN out \ Nameless : \E e \in S : e[1] = b
  PROVE  Company!Rejections(out) \in Nat /\ Company!Rejections(out) <= Cardinality(S)
<1>1. PICK D : D = {b \in DOMAIN out \ Nameless : out[b].rejected}
  OBVIOUS
<1>2. PICK E : E = {e[1] : e \in S}
  OBVIOUS
<1>3. D \subseteq E /\ D \subseteq DOMAIN out
  BY <1>1, <1>2
<1>4. IsFiniteSet(D)
  BY <1>3, FS_Subset
<1>5. IsFiniteSet(E) /\ Cardinality(E) <= Cardinality(S)
  <2>1. PICK g : g = [e \in S |-> e[1]]
    OBVIOUS
  <2>2. g \in Surjection(S, E)
    BY <1>2, <2>1 DEF Surjection
  <2> QED BY <2>2, FS_Surjection DEF ExistsSurjection
<1>6. Cardinality(D) <= Cardinality(E)
  BY <1>3, <1>5, FS_Subset, Zenon
<1>7. Cardinality(D) \in Nat /\ Cardinality(E) \in Nat /\ Cardinality(S) \in Nat
  BY <1>4, <1>5, FS_CardinalityType
<1>8. Company!Rejections(out) = Cardinality(D)
  BY <1>1 DEF Company!Rejections, Company!Cardinality, Company!IsFiniteSet, Cardinality, IsFiniteSet
<1> QED BY <1>5, <1>6, <1>7, <1>8
\* LEMMA: a request adds its outcome to the row, once, whatever it had read of the row.
LEMMA SaveKeeps ==
  ASSUME InsightInv, NEW r \in Recorders, Company!Save(r)
  PROVE  InsightInv'
<1>1. InsightShapes /\ RecordedOnce /\ InsertedAlone /\ CountsFit /\ UntilEdited /\ MeansFit
  BY DEF InsightInv
<1>2. PICK a, f, read, to : /\ a = recorder[r].app /\ f = recorder[r].facts
                            /\ read = recorder[r].read /\ to = [Company!Waiting EXCEPT !.at = "done"]
  OBVIOUS
<1>3. PICK known : known = [b \in DOMAIN outcome \cup {a} |-> IF b = a THEN f ELSE outcome[b]]
  OBVIOUS
<1>4. PICK n : n = Company!Rejections(known)
  OBVIOUS
<1>5. PICK j : j = Company!Merged(insight, read, Company!Added(read, f, n))
  OBVIOUS
<1>6. PICK S : S = recorded \cup {<<a, f>>}
  OBVIOUS
<1>7. /\ recorder[r].at = "inserted" /\ a \notin Nameless
      /\ outcome' = known /\ insight' = j /\ recorded' = S /\ raced' = (raced \/ read # insight)
      /\ recorder' = [recorder EXCEPT ![r] = to] /\ live' = live /\ edits' = edits
  BY <1>2, <1>3, <1>4, <1>5, <1>6 DEF Company!Save, Company!End
<1>8. /\ a \in live \ DOMAIN outcome /\ f \in Facts /\ DOMAIN recorder = Recorders
      /\ IsInsight(read) /\ Within(read, recorded)
      /\ \A s \in Recorders : recorder[s].at = "inserted" /\ recorder[s].app = a => s = r
  BY <1>1, <1>2, <1>7 DEF InsightShapes, InsertedAlone
<1>9. to.at = "done"
  BY <1>2 DEF Company!Waiting
<1>10. /\ DOMAIN recorder' = Recorders
       /\ \A s \in Recorders : recorder'[s] = IF s = r THEN to ELSE recorder[s]
  BY <1>7, <1>8
<1>11. /\ DOMAIN known = DOMAIN outcome \cup {a}
       /\ \A b \in DOMAIN known : known[b] = IF b = a THEN f ELSE outcome[b]
  BY <1>3
<1>12. IsFiniteSet(DOMAIN known)
  BY <1>1, <1>11, FS_AddElement DEF InsightShapes
<1>13. PICK e : e = <<a, f>>
  OBVIOUS
<1>14. /\ e[1] = a /\ e[2] = f /\ e \notin recorded /\ S = recorded \cup {e}
  <2>1. e[1] = a /\ e[2] = f /\ S = recorded \cup {e}
    BY <1>6, <1>13
  <2>2. \A d \in recorded : d[1] # a
    BY <1>1, <1>8 DEF RecordedOnce
  <2> QED BY <2>1, <2>2
<1>15. IsFiniteSet(recorded) /\ IsFiniteSet(S)
  BY <1>1, <1>14, FS_AddElement DEF RecordedOnce
<1>16. RecordedOnce'
  <2>1. \A d \in S : d = <<d[1], d[2]>> /\ d[2] \in Facts /\ (d[1] \notin live \/ d[1] \in DOMAIN known)
    BY <1>1, <1>8, <1>11, <1>13, <1>14 DEF RecordedOnce
  <2>2. \A b \in DOMAIN known \ Nameless : \E d \in S : d[1] = b
    BY <1>1, <1>11, <1>14 DEF RecordedOnce
  <2>3. S # {}
    BY <1>14
  <2> QED BY <1>7, <1>15, <2>1, <2>2, <2>3 DEF RecordedOnce
<1>17. n \in Nat /\ n <= Cardinality(S)
  <2>1. \A b \in DOMAIN known \ Nameless : \E d \in S : d[1] = b
    BY <1>7, <1>16 DEF RecordedOnce
  <2> QED BY <1>4, <1>12, <1>15, <2>1, RejectionsBounded
<1>18. Noted(recorded, a, f, n, S)
  <2>1. f.ghosted \in BOOLEAN
    BY <1>8, UserWorkAssumption DEF Company!FactsAreFacts
  <2>2. <<a, f>> \notin recorded
    BY <1>13, <1>14
  <2>3. /\ Cardinality(recorded \cup {<<a, f>>}) = Cardinality(recorded) + 1
        /\ Cardinality(recorded) \in Nat /\ Cardinality(Ghosts(recorded)) \in Nat
        /\ Cardinality(Ghosts(recorded \cup {<<a, f>>}))
              = Cardinality(Ghosts(recorded)) + (IF f.ghosted THEN 1 ELSE 0)
    BY <1>15, <2>1, <2>2, OneMoreRecorded
  <2>4. \A k \in Company!Figures :
           /\ Cardinality(Tellers(recorded, k)) \in Nat
           /\ Cardinality(Tellers(recorded \cup {<<a, f>>}, k))
                 = Cardinality(Tellers(recorded, k)) + (IF f.value[k] = Company!None THEN 0 ELSE 1)
    <3> SUFFICES ASSUME NEW k \in Company!Figures
                 PROVE  /\ Cardinality(Tellers(recorded, k)) \in Nat
                        /\ Cardinality(Tellers(recorded \cup {<<a, f>>}, k))
                              = Cardinality(Tellers(recorded, k))
                                   + (IF f.value[k] = Company!None THEN 0 ELSE 1)
      OBVIOUS
    <3> QED BY <1>15, <2>2, OneMoreTeller
  <2> QED BY <1>6, <1>15, <1>17, <2>3, <2>4 DEF Noted
<1>19. IsInsight(insight) /\ Within(insight, recorded) /\ HasSaved(insight, read, f, n, j)
  BY <1>1, <1>5 DEF InsightShapes, CountsFit, HasSaved
<1>20. IsInsight(j) /\ Within(j, S)
  BY <1>8, <1>18, <1>19, SavedFits
<1>21. ~raced' => Exact(j, S) /\ j.rejectionRate = Company!Percent(n, j.total)
  <2>1. insight = read /\ Exact(insight, recorded) =>
           Exact(j, S) /\ j.rejectionRate = Company!Percent(n, j.total)
    BY <1>8, <1>18, <1>19, SavedFits
  <2> QED BY <1>1, <1>7, <2>1 DEF CountsFit
<1>22. InsightShapes'
  BY <1>1, <1>7, <1>8, <1>9, <1>10, <1>11, <1>12, <1>20 DEF InsightShapes, IsInsight
<1>23. ASSUME NEW i, IsInsight(i), Within(i, recorded) PROVE Within(i, S)
  <2>1. Cardinality(S) = Cardinality(recorded) + 1 /\ Cardinality(recorded) \in Nat
    BY <1>18 DEF Noted
  <2>2. /\ Cardinality(Ghosts(recorded)) \in Nat
        /\ Cardinality(Ghosts(S)) = Cardinality(Ghosts(recorded)) + (IF f.ghosted THEN 1 ELSE 0)
    BY <1>18 DEF Noted
  <2>3. \A k \in Company!Figures :
           /\ Cardinality(Tellers(recorded, k)) \in Nat
           /\ Cardinality(Tellers(S, k))
                 = Cardinality(Tellers(recorded, k)) + (IF f.value[k] = Company!None THEN 0 ELSE 1)
    BY <1>18 DEF Noted
  <2>4. f.ghosted \in BOOLEAN
    BY <1>8, UserWorkAssumption DEF Company!FactsAreFacts
  <2>5. i.total <= Cardinality(S)
    BY <1>23, <2>1 DEF Within, IsInsight
  <2>6. i.ghosted <= Cardinality(Ghosts(S))
    <3>1. PICK g \in Nat : g = IF f.ghosted THEN 1 ELSE 0
      BY <2>4
    <3>2. i.ghosted \in Nat /\ i.ghosted <= Cardinality(Ghosts(recorded))
      BY <1>23 DEF Within, IsInsight
    <3> QED BY <2>2, <3>1, <3>2
  <2>7. ASSUME NEW k \in Company!Figures PROVE i.count[k] <= Cardinality(Tellers(S, k))
    <3>1. PICK d \in Nat : d = IF f.value[k] = Company!None THEN 0 ELSE 1
      OBVIOUS
    <3>2. i.count[k] \in Nat /\ i.count[k] <= Cardinality(Tellers(recorded, k))
      BY <1>23 DEF Within, IsInsight
    <3>3. /\ Cardinality(Tellers(recorded, k)) \in Nat
          /\ Cardinality(Tellers(S, k)) = Cardinality(Tellers(recorded, k)) + d
      BY <2>3, <3>1
    <3> QED BY <3>1, <3>2, <3>3
  <2> QED BY <2>5, <2>6, <2>7 DEF Within
<1>24. CountsFit'
  BY <1>7, <1>20, <1>21 DEF CountsFit, Within, Exact, Ghosts, Tellers
<1>25. InsertedAlone'
  <2>1. ASSUME NEW s \in Recorders, recorder'[s].at = "inserted"
        PROVE  /\ recorder'[s].app \in live' \ DOMAIN outcome'
               /\ IsInsight(recorder'[s].read) /\ Within(recorder'[s].read, S)
               /\ \A t \in Recorders : recorder'[t].at = "inserted"
                                       /\ recorder'[t].app = recorder'[s].app => t = s
    <3>1. s # r /\ recorder[s].at = "inserted" /\ recorder'[s] = recorder[s]
      BY <1>9, <1>10, <2>1
    <3>2. /\ recorder[s].app \in live \ DOMAIN outcome
          /\ IsInsight(recorder[s].read) /\ Within(recorder[s].read, recorded)
          /\ \A t \in Recorders : recorder[t].at = "inserted"
                                  /\ recorder[t].app = recorder[s].app => t = s
      BY <1>1, <3>1 DEF InsertedAlone
    <3>3. recorder[s].app # a
      BY <1>8, <3>1
    <3>4. Within(recorder[s].read, S)
      BY <1>23, <3>2
    <3> QED BY <1>7, <1>9, <1>10, <1>11, <3>1, <3>2, <3>3, <3>4
  <2> QED BY <1>7, <2>1 DEF InsertedAlone, IsInsight, Within, Ghosts, Tellers
<1>26. UntilEdited'
  <2>1. ASSUME edits = 0
        PROVE  /\ S = {<<b, known[b]>> : b \in DOMAIN known \ Nameless}
               /\ ~raced' => j.rejectionRate = Company!Percent(n, j.total)
    <3>1. recorded = {<<b, outcome[b]>> : b \in DOMAIN outcome \ Nameless}
      BY <1>1, <2>1 DEF UntilEdited
    <3>2. DOMAIN known \ Nameless = (DOMAIN outcome \ Nameless) \cup {a}
      BY <1>7, <1>11
    <3>3. known[a] = f /\ \A b \in DOMAIN outcome \ Nameless : known[b] = outcome[b]
      BY <1>8, <1>11
    <3>4. {<<b, known[b]>> : b \in (DOMAIN outcome \ Nameless) \cup {a}}
             = {<<b, outcome[b]>> : b \in DOMAIN outcome \ Nameless} \cup {<<a, f>>}
      BY <3>3
    <3> QED BY <1>6, <1>21, <3>1, <3>2, <3>4
  <2> QED BY <1>4, <1>7, <2>1 DEF UntilEdited
<1>27. MeansFit'
  <2>1. ASSUME edits = 0, NEW k \in Company!Figures
        PROVE  /\ IsFiniteSet(Given(known, k))
               /\ ~raced' => j.mean[k] = MeanFrom(known, k)
    <3>1. IsFiniteSet(Given(outcome, k)) /\ (~raced => insight.mean[k] = MeanFrom(outcome, k))
      BY <1>1, <2>1 DEF MeansFit
    <3>2. HasOneMore(known, outcome, a, f) /\ DOMAIN outcome \subseteq Applications
      BY <1>1, <1>7, <1>8, <1>11 DEF HasOneMore, InsightShapes
    <3>3. IsFiniteSet(Given(known, k))
      BY <3>1, <3>2, MeanGoesOn
    <3>4. ASSUME ~raced' PROVE j.mean[k] = MeanFrom(known, k)
      <4>1. read = insight /\ ~raced
        BY <1>7, <3>4
      <4>2. HasSaved(insight, insight, f, n, j)
        BY <1>19, <4>1
      <4>3. insight.mean[k] = MeanFrom(outcome, k)
        BY <3>1, <4>1
      <4>4. insight.count[k] = Cardinality(Knows(outcome, k))
        <5>1. insight.count[k] = Cardinality(Tellers(recorded, k))
          BY <1>1, <4>1 DEF CountsFit, Exact
        <5>2. recorded = {<<b, outcome[b]>> : b \in DOMAIN outcome \ Nameless}
          BY <1>1, <2>1 DEF UntilEdited
        <5>3. IsFiniteSet(DOMAIN outcome)
          BY <1>1 DEF InsightShapes
        <5> QED BY <5>1, <5>2, <5>3, TellersKnow
      <4>5. CASE f.value[k] = Company!None
        <5>1. j.mean[k] = insight.mean[k]
          BY <4>2, <4>5, SavedMean
        <5>2. MeanFrom(known, k) = MeanFrom(outcome, k)
          BY <3>1, <3>2, <4>5, MeanGoesOn
        <5> QED BY <4>3, <5>1, <5>2
      <4>6. CASE f.value[k] # Company!None
        <5>1. j.mean[k] = Company!NewMean(insight.mean[k], insight.count[k] + 1, f.value[k])
          BY <4>2, <4>6, SavedMean
        <5>2. MeanFrom(known, k)
                 = Company!NewMean(MeanFrom(outcome, k), Cardinality(Knows(outcome, k)) + 1, f.value[k])
          BY <3>1, <3>2, <4>6, MeanGoesOn
        <5> QED BY <4>3, <4>4, <5>1, <5>2
      <4> QED BY <4>5, <4>6
    <3> QED BY <3>3, <3>4
  <2> QED BY <1>7, <2>1 DEF MeansFit
<1> QED BY <1>16, <1>22, <1>24, <1>25, <1>26, <1>27 DEF InsightInv

\* LEMMA: every step of the requests keeps the invariant.
LEMMA InsightStep == InsightInv /\ [Company!InsightsNext]_(Company!insightVars) => InsightInv'
<1> SUFFICES ASSUME InsightInv, [Company!InsightsNext]_(Company!insightVars) PROVE InsightInv'
  OBVIOUS
<1>1. ASSUME NEW r \in Recorders, NEW a \in Applications, NEW f \in Facts,
             Company!BeginRecord(r, a, f)
      PROVE  InsightInv'
  BY <1>1, BeginRecordKeeps
<1>2. ASSUME NEW r \in Recorders, Company!Insert(r) PROVE InsightInv'
  BY <1>2, InsertKeepsInsight
<1>3. ASSUME NEW r \in Recorders, Company!Save(r) PROVE InsightInv'
  BY <1>3, SaveKeeps
<1>4. ASSUME NEW r \in Recorders, Company!SaveNameless(r) PROVE InsightInv'
  BY <1>4, SaveNamelessKeeps
<1>5. ASSUME NEW r \in Recorders, Company!SaveRefused(r) PROVE InsightInv'
  BY <1>5, SaveRefusedKeeps
<1>6. ASSUME NEW a \in Applications,
             Company!DeleteApplication(a) \/ \E f \in Facts : Company!PatchOutcome(a, f)
      PROVE  InsightInv'
  BY <1>6, EditKeeps
<1>7. CASE UNCHANGED Company!insightVars
  <2>1. MeansFit'
    BY <1>7, MeansStay DEF Company!insightVars, InsightInv
  <2>2. InsightShapes' /\ RecordedOnce'
    BY <1>7 DEF Company!insightVars, InsightInv, InsightShapes, RecordedOnce, IsInsight
  <2>3. InsertedAlone'
    BY <1>7 DEF Company!insightVars, InsightInv, InsertedAlone, IsInsight, Within, Ghosts, Tellers
  <2>4. CountsFit' /\ UntilEdited'
    BY <1>7 DEF Company!insightVars, InsightInv, CountsFit, UntilEdited, Within, Exact, Ghosts,
                Tellers, Company!Rejections
  <2> QED BY <2>1, <2>2, <2>3, <2>4 DEF InsightInv
<1>8. CASE Company!InsightsNext
  BY <1>1, <1>2, <1>3, <1>4, <1>5, <1>6, <1>8 DEF Company!InsightsNext
<1> QED BY <1>7, <1>8

\* LEMMA: the invariant says what the row counts, and its means.
LEMMA InsightInvSays == InsightInv => Company!InsightExplained
<1> SUFFICES ASSUME InsightInv, insight # Company!NoInsight PROVE Company!InsightExplained
  BY DEF Company!InsightExplained
<1>1. InsightShapes /\ RecordedOnce /\ CountsFit /\ UntilEdited /\ MeansFit
  BY DEF InsightInv
<1>2. IsInsight(insight) /\ Within(insight, recorded) /\ (~raced => Exact(insight, recorded))
  BY <1>1 DEF InsightShapes, CountsFit
<1>3. IsFiniteSet(recorded) /\ recorded # {}
  BY <1>1 DEF RecordedOnce
<1>4. Company!NothingCountedTwice
  BY <1>2 DEF Within, Ghosts, Tellers, Company!NothingCountedTwice, Company!Cardinality,
              Company!IsFiniteSet, Cardinality, IsFiniteSet
<1>5. Company!SharesAreShares
  <2> SUFFICES ASSUME ~raced
               PROVE  insight.ghostRate <= 100 /\ insight.offerRate <= 100 /\ insight.rejectionRate <= 100
    BY <1>2 DEF Company!SharesAreShares, IsInsight
  <2>1. Exact(insight, recorded)
    BY <1>2
  <2>2. insight.total \in Nat \ {0}
    BY <1>2, <1>3, <2>1, FS_EmptySet DEF Exact, IsInsight
  <2>3. Ghosts(recorded) \subseteq recorded /\ Tellers(recorded, "offer") \subseteq recorded
    BY DEF Ghosts, Tellers
  <2>4. /\ Cardinality(Ghosts(recorded)) <= Cardinality(recorded)
        /\ Cardinality(Tellers(recorded, "offer")) <= Cardinality(recorded)
    BY <1>3, <2>3, FS_Subset, Zenon
  <2>5. "offer" \in Company!Figures
    BY DEF Company!Figures
  <2>6. /\ insight.ghosted \in Nat /\ insight.count["offer"] \in Nat
        /\ insight.ghosted <= insight.total /\ insight.count["offer"] <= insight.total
    BY <1>2, <2>1, <2>4, <2>5 DEF Exact, IsInsight
  <2>7. /\ insight.ghostRate = Company!Percent(insight.ghosted, insight.total)
        /\ insight.offerRate = Company!Percent(insight.count["offer"], insight.total)
        /\ insight.rejectionRate <= 100
    BY <1>3, <2>1 DEF Exact
  <2> QED BY <2>2, <2>6, <2>7, Shares
<1>6. ASSUME ~raced, edits = 0
      PROVE  insight = Company!Computed
  <2>1. Exact(insight, recorded)
    BY <1>2, <1>6
  <2>2. PICK D : D = DOMAIN outcome \ Nameless
    OBVIOUS
  <2>3. recorded = {<<a, outcome[a]>> : a \in D} /\ IsFiniteSet(D)
    BY <1>1, <1>6, <2>2, FS_Subset DEF UntilEdited, InsightShapes
  <2>4. insight.total = Cardinality(D)
    BY <2>1, <2>3, PairsCount DEF Exact
  <2>5. insight.ghosted = Cardinality({a \in D : outcome[a].ghosted})
    <3>1. Ghosts(recorded) = {<<a, outcome[a]>> : a \in {b \in D : outcome[b].ghosted}}
      BY <2>3 DEF Ghosts
    <3>2. IsFiniteSet({b \in D : outcome[b].ghosted})
      BY <2>3, FS_Subset
    <3> QED BY <2>1, <3>1, <3>2, PairsCount DEF Exact
  <2>6. ASSUME NEW k \in Company!Figures
        PROVE  insight.count[k] = Cardinality({a \in D : outcome[a].value[k] # Company!None})
    <3>1. Tellers(recorded, k)
             = {<<a, outcome[a]>> : a \in {b \in D : outcome[b].value[k] # Company!None}}
      BY <2>3 DEF Tellers
    <3>2. IsFiniteSet({b \in D : outcome[b].value[k] # Company!None})
      BY <2>3, FS_Subset
    <3> QED BY <2>1, <3>1, <3>2, PairsCount DEF Exact
  <2>7. PICK t, g, c : /\ t = Company!Cardinality(Company!Counted)
                       /\ g = Company!Cardinality({a \in Company!Counted : outcome[a].ghosted})
                       /\ c = [k \in Company!Figures |-> Company!Cardinality(Company!Knowing(k))]
    OBVIOUS
  <2>8. insight.total = t /\ insight.ghosted = g
    BY <2>2, <2>4, <2>5, <2>7 DEF Company!Counted, Company!Cardinality, Company!IsFiniteSet,
                                  Cardinality, IsFiniteSet
  <2>9. \A k \in Company!Figures : insight.count[k] = c[k]
    BY <2>2, <2>6, <2>7 DEF Company!Counted, Company!Knowing, Company!Cardinality,
                            Company!IsFiniteSet, Cardinality, IsFiniteSet
  <2>10. insight.count = c
    BY <1>2, <2>7, <2>9 DEF IsInsight
  <2>11. "offer" \in Company!Figures
    BY DEF Company!Figures
  <2>12. /\ insight.ghostRate = Company!Percent(g, t)
         /\ insight.offerRate = Company!Percent(Company!Cardinality(Company!Knowing("offer")), t)
         /\ insight.rejectionRate = Company!Percent(Company!Rejections(outcome), t)
    BY <1>1, <1>3, <1>6, <2>1, <2>7, <2>8, <2>9, <2>11 DEF Exact, UntilEdited
  <2>13. PICK m, o, rate, gone :
            /\ m = [k \in Company!Figures |-> Company!MeanOf(k)] /\ rate = Company!Percent(g, t)
            /\ o = Company!Percent(Company!Cardinality(Company!Knowing("offer")), t)
            /\ gone = Company!Percent(Company!Rejections(outcome), t)
    OBVIOUS
  <2>14. Company!Computed = [total |-> t, ghosted |-> g, count |-> c, mean |-> m,
                             ghostRate |-> rate, offerRate |-> o, rejectionRate |-> gone]
    BY <2>7, <2>13 DEF Company!Computed
  <2>15. ASSUME NEW k \in Company!Figures PROVE insight.mean[k] = m[k]
    <3>1. Company!Knowing(k) = Knows(outcome, k)
      BY DEF Company!Knowing, Company!Counted, Knows
    <3>2. Company!Units(k) = Given(outcome, k)
      BY <3>1 DEF Company!Units, Given
    <3>3. Company!MeanOf(k) = MeanFrom(outcome, k)
      BY <3>1, <3>2 DEF Company!MeanOf, MeanFrom, Company!Cardinality, Company!IsFiniteSet,
                        Cardinality, IsFiniteSet
    <3>4. insight.mean[k] = MeanFrom(outcome, k)
      BY <1>1, <1>6 DEF MeansFit
    <3> QED BY <2>13, <3>3, <3>4
  <2>16. m = insight.mean
    BY <1>2, <2>13, <2>15 DEF IsInsight
  <2> QED BY <1>2, <2>8, <2>10, <2>12, <2>13, <2>14, <2>16 DEF IsInsight
<1> QED BY <1>4, <1>5, <1>6 DEF Company!InsightExplained

\* THEOREM: the row kept for a company counts no outcome twice, and until requests overlap or
\* an outcome is changed or deleted it says what is computed from the outcomes, means too.
THEOREM InsightsSayWhatOutcomesDo == Company!InsightsSpec => []InsightExplained
<1>1. Company!InsightsSpec => []InsightInv
  BY InsightStarts, InsightStep, PTL DEF Company!InsightsSpec
<1>2. InsightInv => InsightExplained
  BY InsightInvSays DEF InsightExplained
<1> QED BY <1>1, <1>2, PTL

-----------------------------------------------------------------------------------
(* The parts together *)

\* Resume versions and auto-apply settings: flags are as they were set.
THEOREM FlagsAreExplained == Shelf!ResumesSpec /\ Settings!RulesSpec => []FlagsExplained
BY OneDefaultVersion, SettingsAreObeyed, PTL DEF FlagsExplained

\* What runs in all parts is, of each part, what its module says.
LEMMA PartsRun ==
  MCSpec => PipelineSpec /\ Spec /\ Company!InsightsSpec /\ Interview!InterviewsSpec
            /\ Shelf!ResumesSpec /\ Salary!SalarySpec /\ Google!GoogleSpec /\ Settings!RulesSpec
<1>1. MCInit => PipelineInit /\ Init /\ Company!InsightsInit /\ Interview!InterviewsInit
                /\ Shelf!ResumesInit /\ Salary!SalaryInit /\ Google!GoogleInit /\ Settings!RulesInit
  BY DEF MCInit
<1>2. ASSUME [MCNext]_mcVars
      PROVE  /\ [PipelineNext]_pipelineVars /\ [Next]_vars
             /\ [Company!InsightsNext]_(Company!insightVars)
             /\ [Interview!InterviewsNext]_(Interview!interviewVars)
             /\ [Shelf!ResumesNext]_(Shelf!resumeVars) /\ [Salary!SalaryNext]_(Salary!salaryVars)
             /\ [Google!GoogleNext]_(Google!googleVars) /\ [Settings!RulesNext]_(Settings!ruleVars)
  <2> USE DEF companyVars, interviewVars, shelfVars, salaryVars, googleVars, settingVars,
              Company!insightVars, Interview!interviewVars, Shelf!resumeVars, Salary!salaryVars,
              Google!googleVars, Settings!ruleVars
  <2>1. CASE UNCHANGED mcVars
    BY <2>1 DEF mcVars, notApplications
  <2>2. CASE InApplications(PipelineNext)
    BY <2>2 DEF InApplications, notApplications
  <2>3. CASE InAccounts(Next)
    BY <2>3 DEF InAccounts
  <2>4. CASE InCompany(Company!InsightsNext)
    BY <2>4 DEF InCompany
  <2>5. CASE InInterview(Interview!InterviewsNext)
    BY <2>5 DEF InInterview
  <2>6. CASE InShelf(Shelf!ResumesNext)
    BY <2>6 DEF InShelf
  <2>7. CASE InSalary(Salary!SalaryNext)
    BY <2>7 DEF InSalary
  <2>8. CASE InGoogle(Google!GoogleNext)
    BY <2>8 DEF InGoogle
  <2>9. CASE InSettings(Settings!RulesNext)
    BY <2>9 DEF InSettings
  <2> QED BY <1>2, <2>1, <2>2, <2>3, <2>4, <2>5, <2>6, <2>7, <2>8, <2>9 DEF MCNext
<1> QED
  BY <1>1, <1>2, PTL DEF MCSpec, PipelineSpec, Spec, Company!InsightsSpec,
     Interview!InterviewsSpec, Shelf!ResumesSpec, Salary!SalarySpec, Google!GoogleSpec,
     Settings!RulesSpec

\* THEOREM: of everything users do at a time to rows no lock protects: accounts keep their
\* owners, insights say what was recorded, interview sessions are those of the last
\* evaluations, flags are as they were set, a kept salary answer is not asked for again, and
\* mail is collected for the account whose tokens are kept, but for the overlaps named.
THEOREM OverlapsAreNamed ==
  MCSpec => [](/\ AccountsHold /\ InsightExplained /\ EvaluationsExplained
               /\ FlagsExplained /\ SalaryExplained /\ AddressMatchesTokens)
BY PartsRun, AccountsAlwaysHold, InsightsSayWhatOutcomesDo, EvaluationsAreExplained,
   FlagsAreExplained, SalaryCallsAreExplained, MailIsOfTheNamedAccount,
   PTL DEF SalaryExplained, AddressMatchesTokens
===================================================================================
