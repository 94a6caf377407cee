--------------------------------- MODULE Sessions ---------------------------------
(***********************************************************************************)
(* Accounts and their sessions: registration, login, refresh, logout, password      *)
(* change and account deletion (auth/router.py, auth/service.py), and the check     *)
(* every other request makes of its token (dependencies.py).                        *)
(*                                                                                  *)
(* A session is the pair of tokens a response sets as cookies; both carry the       *)
(* user's id and the token_version the user row had, and both are compared with     *)
(* the row when they are used.  Nobody takes a lock: a request loads the row and    *)
(* later writes what it computed from it, and PostgreSQL keeps the last write.      *)
(* The lifetimes in the tokens are left out: an expired one is refused, which       *)
(* changes nothing.                                                                 *)
(***********************************************************************************)
EXTENDS Naturals

CONSTANTS
    Ids,          \* the uuids registrations draw
    Emails,
    Passwords,
    Requests,     \* the requests that may be in progress at the same time
    MaxVersion    \* bound: the highest token_version the runs look at

ASSUME MaxVersionIsNat == MaxVersion \in Nat
ASSUME SomeValues == Emails # {} /\ Passwords # {}

VARIABLES
    users,        \* the ids that have a row in users
    email,        \* the columns of those rows
    password,
    version,
    request,      \* what each request in progress holds of a row it has read
    sessions,     \* every session handed out
    registered,   \* history: ids whose registration was answered with 201
    deleted,      \* history: ids whose account deletion has been committed
    revoked,      \* history: sessions that existed when their user logged out or
                  \* changed the password
    overlapped    \* history: ids with a write computed from a row no longer current

vars == <<users, email, password, version, request, sessions,
          registered, deleted, revoked, overlapped>>
rows == <<users, email, password, version>>
past == <<registered, deleted, revoked, overlapped>>

Idle == [at |-> "idle"]
Session(i, v) == [id |-> i, ver |-> v]

\* The check of get_current_user, and of refresh.
Accepted(s) == s.id \in users /\ version[s.id] = s.ver

Init ==
    /\ users = {} /\ sessions = {}
    /\ email = [i \in Ids |-> CHOOSE e \in Emails : TRUE]       \* no row, no meaning yet
    /\ password = [i \in Ids |-> CHOOSE p \in Passwords : TRUE]
    /\ version = [i \in Ids |-> 0]
    /\ request = [r \in Requests |-> Idle]
    /\ registered = {} /\ deleted = {} /\ revoked = {} /\ overlapped = {}

-----------------------------------------------------------------------------------
(* Registration: look the address up, then insert; the unique index decides. *)

CheckEmail(r, e) ==
    /\ request[r] = Idle
    /\ \A i \in users : email[i] # e
    /\ request' = [request EXCEPT ![r] = [at |-> "registering", email |-> e]]
    /\ UNCHANGED <<rows, sessions, past>>

InsertUser(r, i, p) ==
    /\ request[r].at = "registering"
    /\ i \notin registered
    /\ \A j \in users : email[j] # request[r].email
    /\ users' = users \cup {i}
    /\ email' = [email EXCEPT ![i] = request[r].email]
    /\ password' = [password EXCEPT ![i] = p]
    /\ version' = [version EXCEPT ![i] = 0]
    /\ request' = [request EXCEPT ![r] = Idle]
    /\ registered' = registered \cup {i}
    /\ UNCHANGED <<sessions, deleted, revoked, overlapped>>

\* IntegrityError: the transaction is rolled back and the request answers 500.
InsertRefused(r) ==
    /\ request[r].at = "registering"
    /\ \E j \in users : email[j] = request[r].email
    /\ request' = [request EXCEPT ![r] = Idle]
    /\ UNCHANGED <<rows, sessions, past>>

-----------------------------------------------------------------------------------
(* Login and refresh issue what they have read in the same statement they check. *)

Login(i, e, p) ==
    /\ i \in users /\ email[i] = e /\ password[i] = p
    /\ sessions' = sessions \cup {Session(i, version[i])}
    /\ UNCHANGED <<rows, request, past>>

Refresh(s) ==
    /\ s \in sessions /\ Accepted(s)
    /\ sessions' = sessions \cup {Session(s.id, version[s.id])}
    /\ UNCHANGED <<rows, request, past>>

-----------------------------------------------------------------------------------
(* Requests of a signed-in user *)

\* get_current_user: the row is loaded into the request's database session.
Authenticate(r, s) ==
    /\ request[r] = Idle
    /\ s \in sessions /\ Accepted(s)
    /\ version[s.id] < MaxVersion
    /\ request' = [request EXCEPT ![r] =
           [at |-> "signed_in", id |-> s.id, ver |-> version[s.id], pw |-> password[s.id]]]
    /\ UNCHANGED <<rows, sessions, past>>

\* The version written is the one loaded plus one, whatever the row holds by now.
BumpVersion(i, loaded) ==
    /\ version' = [version EXCEPT ![i] = loaded + 1]
    /\ revoked' = revoked \cup {s \in sessions : s.id = i}
    /\ overlapped' = IF version[i] = loaded THEN overlapped ELSE overlapped \cup {i}

Logout(r) ==
    /\ request[r].at = "signed_in" /\ request[r].id \in users
    /\ BumpVersion(request[r].id, request[r].ver)
    /\ request' = [request EXCEPT ![r] = Idle]
    /\ UNCHANGED <<users, email, password, sessions, registered, deleted>>

\* Mutant: the new password is stored and the sessions are left alone.
ChangePassword_only(r, old, new) ==
    /\ request[r].at = "signed_in" /\ request[r].id \in users
    /\ old = request[r].pw /\ new # old
    /\ password' = [password EXCEPT ![request[r].id] = new]
    /\ revoked' = revoked \cup {s \in sessions : s.id = request[r].id}
    /\ request' = [request EXCEPT ![r] = [at |-> "changed", id |-> request[r].id]]
    /\ UNCHANGED <<users, email, version, sessions, registered, deleted, overlapped>>
\* The old password is compared with the hash that was loaded; hash and version are
\* written by one UPDATE.
ChangePassword(r, old, new) ==
    /\ request[r].at = "signed_in" /\ request[r].id \in users
    /\ old = request[r].pw /\ new # old
    /\ password' = [password EXCEPT ![request[r].id] = new]
    /\ BumpVersion(request[r].id, request[r].ver)
    /\ request' = [request EXCEPT ![r] = [at |-> "changed", id |-> request[r].id]]
    /\ UNCHANGED <<users, email, sessions, registered, deleted>>

\* db.refresh reads the row again, and the tokens carry the version it then holds.
IssueAfterChange(r) ==
    /\ request[r].at = "changed" /\ request[r].id \in users
    /\ sessions' = sessions \cup {Session(request[r].id, version[request[r].id])}
    /\ request' = [request EXCEPT ![r] = Idle]
    /\ UNCHANGED <<rows, past>>

\* clear_data and the row itself go in one transaction; UserData says when it commits.
DeleteAccount(r) ==
    /\ request[r].at = "signed_in" /\ request[r].id \in users
    /\ users' = users \ {request[r].id}
    /\ deleted' = deleted \cup {request[r].id}
    /\ request' = [request EXCEPT ![r] = Idle]
    /\ UNCHANGED <<email, password, version, sessions, registered, revoked, overlapped>>

\* A wrong or unchanged password, a row that is gone, a refused deletion, a lost
\* connection: the request ends and has written nothing (more).
EndRequest(r) ==
    /\ request[r] # Idle
    /\ request' = [request EXCEPT ![r] = Idle]
    /\ UNCHANGED <<rows, sessions, past>>

Next ==
    \/ \E r \in Requests :
           \/ \E e \in Emails : CheckEmail(r, e)
           \/ \E i \in Ids, p \in Passwords : InsertUser(r, i, p)
           \/ InsertRefused(r)
           \/ \E s \in sessions : Authenticate(r, s)
           \/ Logout(r)
           \/ \E old, new \in Passwords : ChangePassword(r, old, new)
           \/ IssueAfterChange(r) \/ DeleteAccount(r) \/ EndRequest(r)
    \/ \E i \in Ids, e \in Emails, p \in Passwords : Login(i, e, p)
    \/ \E s \in sessions : Refresh(s)

Spec == Init /\ [][Next]_vars

-----------------------------------------------------------------------------------
(* Properties *)

\* The shapes of the columns, of the requests and of the sessions.
TypeOK ==
    /\ users \subseteq Ids /\ registered \subseteq Ids /\ deleted \subseteq Ids
    /\ overlapped \subseteq Ids
    /\ email \in [Ids -> Emails] /\ password \in [Ids -> Passwords] /\ version \in [Ids -> Nat]
    /\ sessions \subseteq [id : Ids, ver : Nat] /\ revoked \subseteq sessions
    /\ request \in [Requests ->
           {Idle} \cup [at : {"registering"}, email : Emails]
                  \cup [at : {"signed_in"}, id : Ids, ver : Nat, pw : Passwords]
                  \cup [at : {"changed"}, id : Ids]]

\* A session that was there when its user logged out or changed the password is never
\* accepted again, unless two of the user's requests overlapped and the later commit
\* wrote a version computed from a row the earlier one had replaced.
RevokedStaysRevoked == \A s \in revoked : Accepted(s) => s.id \in overlapped

\* No session of a deleted account is accepted, whoever registers the address later
\* and whatever requests were in progress when the account went.
DeletedStaysDeleted == \A s \in sessions : s.id \in deleted => ~Accepted(s)

\* Both together: access ends with what ends it, but for overlapping requests of one user.
AccessEnds == RevokedStaysRevoked /\ DeletedStaysDeleted

\* Whoever was told that the registration succeeded keeps the account until it is
\* deleted, and alone holds its address, however registrations for one address race.
RegisteredKeepTheirAccount ==
    /\ users = registered \ deleted
    /\ \A i, j \in users : email[i] = email[j] => i = j

\* Both halves: accounts keep their owners, and access ends when it should (auth/router.py).
AccountsHold == AccessEnds /\ RegisteredKeepTheirAccount
===================================================================================
