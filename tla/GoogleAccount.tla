------------------------------ MODULE GoogleAccount ------------------------------
(***********************************************************************************)
(* One user's Google connection (settings/integration_service.py, integrations/,      *)
(* email/gmail_sync.py): the row with the account's address and the sealed tokens,    *)
(* connecting through the consent page, disconnecting, and the syncs that refresh     *)
(* the access token while they read mail.  What the mail does is EmailIntake's.       *)
(*                                                                                  *)
(* All of them load the row, wait for Google, and write the columns they have         *)
(* changed.  A secret is the account that granted it and the number of its access     *)
(* token; a grant lives until it is revoked, an access token until it expires.        *)
(***********************************************************************************)
EXTENDS Naturals, FiniteSets

CONSTANTS
    Accounts,
    Connects,   \* callbacks of the consent page
    Requests,   \* syncs the user asks for
    Visits,     \* visits of the worker
    MaxTokens, MaxEvents   \* bounds: access tokens; revocations and disconnects

Syncs == Requests \cup Visits
NoAccount == "nobody"

\* Assumed of the constants by the module that instantiates this one.
GoogleAssumption ==
    /\ Requests \cap Visits = {} /\ NoAccount \notin Accounts
    /\ MaxTokens \in Nat /\ MaxEvents \in Nat

VARIABLES
    row,      \* [id, secret, account, error]; id 0 is no row; error: last_error is set
    ids,      \* rows so far
    tokens,   \* access tokens so far
    expired, revoked,
    conn,     \* of each callback: [at, secret, read]
    sync,     \* of each sync: [at, secret, read]; secret is what it reads mail with
    mixed,    \* history: since the last undisturbed connection, a column was written over a
              \* newer one of another writer
    events

googleVars == <<row, ids, tokens, expired, revoked, conn, sync, mixed, events>>

NoSecret == [account |-> NoAccount, access |-> 0]
NoRow == [id |-> 0, secret |-> NoSecret, account |-> NoAccount, error |-> FALSE]
Idle == [at |-> "idle", secret |-> NoSecret, read |-> NoRow]
Done == [Idle EXCEPT !.at = "done"]

GoogleInit ==
    /\ row = NoRow /\ ids = 0 /\ tokens = 0 /\ expired = {} /\ revoked = {}
    /\ conn = [c \in Connects |-> Idle] /\ sync = [s \in Syncs |-> Idle]
    /\ mixed = FALSE /\ events = 0

NewToken == tokens < MaxTokens /\ tokens' = tokens + 1

-----------------------------------------------------------------------------------
(* connect_google_integration *)

\* The code is exchanged for tokens; consent makes an account's grant good again.
Exchange(c, a) ==
    /\ conn[c].at = "idle" /\ NewToken
    /\ conn' = [conn EXCEPT ![c] = [Idle EXCEPT !.at = "granted",
                                        !.secret = [account |-> a, access |-> tokens']]]
    /\ revoked' = revoked \ {a}
    /\ UNCHANGED <<row, ids, expired, sync, mixed, events>>
\* Denied, a stale state, no offline access, or no answer of Google's.
ConnectFails(c) ==
    /\ conn[c].at \in {"idle", "granted"} /\ conn' = [conn EXCEPT ![c] = Done]
    /\ UNCHANGED <<row, ids, tokens, expired, revoked, sync, mixed, events>>

\* The profile gives the address; then the row is looked for.
LoadRow(c) ==
    /\ conn[c].at = "granted"
    /\ conn' = [conn EXCEPT ![c].at = "loaded", ![c].read = row]
    /\ UNCHANGED <<row, ids, tokens, expired, revoked, sync, mixed, events>>

Column(old, read, new) == IF new = read THEN old ELSE new
\* Mutant: the address is kept from the first connection.
Connected_firstAddress(c) ==
    LET read == conn[c].read
        secret == conn[c].secret
    IN  [row EXCEPT !.secret = secret,
                    !.account = IF read.id = 0 THEN secret.account ELSE @,
                    !.error = Column(@, read.error, FALSE)]
Connected(c) ==
    LET read == conn[c].read
        secret == conn[c].secret
    IN  [row EXCEPT !.secret = secret, !.account = Column(@, read.account, secret.account),
                    !.error = Column(@, read.error, FALSE)]

StoreConnection(c) ==
    /\ conn[c].at = "loaded" /\ conn[c].read.id = row.id
    /\ IF row.id = 0 THEN ids' = ids + 1 /\ row' = [Connected(c) EXCEPT !.id = ids']
                     ELSE UNCHANGED ids /\ row' = Connected(c)
    /\ mixed' = (conn[c].read.account # row.account)
    /\ conn' = [conn EXCEPT ![c] = Done]
    /\ UNCHANGED <<tokens, expired, revoked, sync, events>>
\* The user has a row by now, or not that row any more.
StoreRefused(c) ==
    /\ conn[c].at = "loaded" /\ conn[c].read.id # row.id /\ conn' = [conn EXCEPT ![c] = Done]
    /\ UNCHANGED <<row, ids, tokens, expired, revoked, sync, mixed, events>>

\* delete_integration.
Disconnect ==
    /\ row.id # 0 /\ events < MaxEvents /\ events' = events + 1 /\ row' = NoRow
    /\ UNCHANGED <<ids, tokens, expired, revoked, conn, sync, mixed>>

-----------------------------------------------------------------------------------
(* sync_gmail_for_user *)

StartSync(s) ==
    /\ sync[s].at = "idle" /\ row.id # 0
    /\ sync' = [sync EXCEPT ![s] = [at |-> "reading", secret |-> row.secret, read |-> row]]
    /\ UNCHANGED <<row, ids, tokens, expired, revoked, conn, mixed, events>>

\* Google answers 401, and the refresh token is used.
Refresh(s) ==
    LET a == sync[s].secret.account
    IN  /\ sync[s].at = "reading" /\ sync[s].secret.access \in expired /\ a \notin revoked
        /\ NewToken /\ sync' = [sync EXCEPT ![s].secret = [account |-> a, access |-> tokens']]
        /\ UNCHANGED <<row, ids, expired, revoked, conn, mixed, events>>

Usable(secret) == secret.access \notin expired /\ secret.account \notin revoked

\* The sync's changed columns, with the error it leaves.
Synced(s, error) ==
    [row EXCEPT !.secret = Column(@, sync[s].read.secret, sync[s].secret),
                !.error = Column(@, sync[s].read.error, error)]
Overwrites(s) == sync[s].secret # sync[s].read.secret /\ row.secret # sync[s].read.secret
Same(s) == sync[s].read.id = row.id

\* The commit of a message's log stores a refreshed token, too.
CommitMessage(s) ==
    /\ sync[s].at = "reading" /\ Usable(sync[s].secret) /\ Same(s)
    /\ sync[s].secret # sync[s].read.secret
    /\ row' = Synced(s, sync[s].read.error)
    /\ sync' = [sync EXCEPT ![s].read = [@ EXCEPT !.secret = sync[s].secret]]
    /\ mixed' = (mixed \/ Overwrites(s))
    /\ UNCHANGED <<ids, tokens, expired, revoked, conn, events>>

\* All messages read, or some of them failed.
EndSync(s, error) ==
    /\ sync[s].at = "reading" /\ Same(s) /\ (Usable(sync[s].secret) \/ error)
    /\ row' = Synced(s, error) /\ mixed' = (mixed \/ Overwrites(s))
    /\ sync' = [sync EXCEPT ![s] = Done]
    /\ UNCHANGED <<ids, tokens, expired, revoked, conn, events>>

\* Listing or refreshing fails: a request commits what it has changed and the error, the
\* worker rolls back and stores the error alone.
SyncFails(s) ==
    /\ sync[s].at = "reading" /\ Same(s)
    /\ IF s \in Requests
       THEN row' = Synced(s, TRUE) /\ mixed' = (mixed \/ Overwrites(s))
       ELSE row' = [row EXCEPT !.error = TRUE] /\ UNCHANGED mixed
    /\ sync' = [sync EXCEPT ![s] = Done]
    /\ UNCHANGED <<ids, tokens, expired, revoked, conn, events>>

\* The row it has loaded is gone, and nothing can be written.
SyncLost(s) ==
    /\ sync[s].at = "reading" /\ ~Same(s) /\ sync' = [sync EXCEPT ![s] = Done]
    /\ UNCHANGED <<row, ids, tokens, expired, revoked, conn, mixed, events>>

-----------------------------------------------------------------------------------
(* Google *)

Expire(n) ==
    /\ n \in (1..tokens) \ expired /\ expired' = expired \cup {n}
    /\ UNCHANGED <<row, ids, tokens, revoked, conn, sync, mixed, events>>
Revoke(a) ==
    /\ a \notin revoked /\ events < MaxEvents /\ events' = events + 1 /\ revoked' = revoked \cup {a}
    /\ UNCHANGED <<row, ids, tokens, expired, conn, sync, mixed>>

GoogleNext ==
    \/ \E c \in Connects :
           \/ \E a \in Accounts : Exchange(c, a)
           \/ ConnectFails(c) \/ LoadRow(c) \/ StoreConnection(c) \/ StoreRefused(c)
    \/ \E s \in Syncs :
           \/ StartSync(s) \/ Refresh(s) \/ CommitMessage(s) \/ SyncFails(s) \/ SyncLost(s)
           \/ \E error \in BOOLEAN : EndSync(s, error)
    \/ Disconnect \/ (\E n \in 1..MaxTokens : Expire(n)) \/ \E a \in Accounts : Revoke(a)

GoogleSpec == GoogleInit /\ [][GoogleNext]_googleVars

-----------------------------------------------------------------------------------
(* Properties *)

GoogleTypeOK ==
    /\ row.id \in 0..ids /\ row.secret.access \in 0..tokens
    /\ {row.account, row.secret.account} \subseteq Accounts \cup {NoAccount}
    /\ expired \subseteq 1..tokens /\ revoked \subseteq Accounts

\* The mail that is read is that of the account the settings page names: a sync that
\* refreshes its token while the user connects another account, or two connections at a
\* time, alone can mix them, and the next undisturbed connection puts them right.
AddressMatchesTokens == ~mixed => row.account = row.secret.account
===================================================================================
