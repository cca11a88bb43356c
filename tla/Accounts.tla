------------------------------ MODULE Accounts ------------------------------
(***************************************************************************)
(* The accounts of the monitoring service: the users table, the signed     *)
(* tokens that stand for a sign-in, and the requests that carry them.      *)
(*                                                                         *)
(* A token is checked once, when a request arrives, and against the clock  *)
(* only: nothing looks its user up again.  A sign-in reads the table       *)
(* first and signs later; an edit is admitted first and commits later.     *)
(* Meanwhile other requests edit the table, and time passes.               *)
(*                                                                         *)
(* The column "name" is not modelled: nothing depends on it.               *)
(***************************************************************************)
EXTENDS Integers, FiniteSets

CONSTANTS
  Requests,       \* request goroutines
  Emails,         \* addresses that pass validation
  Passwords,      \* passwords of requests, none empty
  Hashes,         \* values of the password column
  Sha1,           \* [Passwords \cup {""} -> Hashes]
  TokenLifeTime,  \* seconds
  MaxUsers,       \* bound: rows of the users table
  MaxTokens,      \* bound: tokens signed
  MaxTime         \* bound: the clock, in seconds

ASSUME AccountsAssumption ==
  /\ "" \notin Emails /\ "" \notin Passwords
  /\ Sha1 \in [Passwords \cup {""} -> Hashes]
  /\ TokenLifeTime \in Nat \ {0}
  /\ MaxUsers \in Nat /\ MaxTokens \in Nat /\ MaxTime \in Nat

VARIABLES
  users,   \* the users table
  now,     \* the clock
  tokens,  \* the tokens signed so far
  pc,      \* per request: where it is
  session  \* per request: its sign-in, and when a request was admitted by it

vars == <<users, now, tokens, pc, session>>

Ids   == 1 .. MaxUsers
Time  == 0 .. MaxTime
Never == -1

User  == [id: Ids, email: Emails \cup {""}, password: Hashes, deleted_at: Time \cup {Never}]

\* "read" is the time of the sign-in's transaction, "signed" that of its token.
Token == [user: Ids, read: Time, signed: Time]

NoSession == [user |-> 0, read |-> 0, signed |-> 0, at |-> 0]
SignIns   == [user: Ids, read: Time, signed: Time, at: Time]

TypeOK ==
  /\ users \subseteq User /\ now \in Time
  /\ tokens \subseteq Token
  /\ pc \in [Requests -> {"idle", "signing", "admitted"}]
  /\ session \in [Requests -> SignIns \cup {NoSession}]

live(r) == r.deleted_at = Never

\* A password is stored, and compared, as the hexadecimal text of its hash.
Plain(password)  == password
Hashed(password) == Sha1[password]

Init ==
  /\ users = {} /\ now = 0 /\ tokens = {}
  /\ pc = [g \in Requests |-> "idle"]
  /\ session = [g \in Requests |-> NoSession]

Tick == now < MaxTime /\ now' = now + 1 /\ UNCHANGED <<users, tokens, pc, session>>

\* users_email_unique also covers the rows of deleted accounts.
EmailFree(email, id) == \A r \in users : r.email = email => r.id = id

\* POST /auth/register: one transaction, no token.  Its failure changes nothing.
Register(email, password) ==
  /\ EmailFree(email, 0)
  /\ Cardinality(users) < MaxUsers
  /\ users' = users \cup {[id |-> Cardinality(users) + 1, email |-> email,
                           password |-> Hashed(password), deleted_at |-> Never]}
  /\ UNCHANGED <<now, tokens, pc, session>>

-----------------------------------------------------------------------------
(* GET /auth/sign_in                                                       *)

\* Without "deleted_at is null".
AnyMatch(email, password) ==
  {r \in users : r.email = email /\ r.password = Hashed(password)}
Match(email, password) ==
  {r \in users : r.email = email /\ r.password = Hashed(password) /\ live(r)}

Authorize(g, email, password) ==
  /\ pc[g] = "idle"
  /\ \E r \in Match(email, password) :
       session' = [session EXCEPT ![g] = [NoSession EXCEPT !.user = r.id, !.read = now]]
  /\ pc' = [pc EXCEPT ![g] = "signing"]
  /\ UNCHANGED <<users, now, tokens>>

\* 401: no such user.
Unauthorized(g, email, password) ==
  /\ pc[g] = "idle"
  /\ Match(email, password) = {}
  /\ UNCHANGED vars

\* The claims: the user, and the expiry counted from this moment.
Sign(g) ==
  /\ pc[g] = "signing"
  /\ Cardinality(tokens) < MaxTokens
  /\ tokens' = tokens \cup
       {[user |-> session[g].user, read |-> session[g].read, signed |-> now]}
  /\ pc' = [pc EXCEPT ![g] = "idle"]
  /\ session' = [session EXCEPT ![g] = NoSession]
  /\ UNCHANGED <<users, now>>

-----------------------------------------------------------------------------
(* Requests with a token.                                                  *)

Expired(t) == now >= t.signed + TokenLifeTime

DeserializeMW(g, t) ==
  /\ pc[g] = "idle"
  /\ ~ Expired(t)
  /\ pc' = [pc EXCEPT ![g] = "admitted"]
  /\ session' = [session EXCEPT ![g] =
                   [user |-> t.user, read |-> t.read, signed |-> t.signed, at |-> now]]
  /\ UNCHANGED <<users, now, tokens>>

\* The request ends: answered, failed, or lost with its process.
Respond(g) ==
  /\ pc[g] # "idle"
  /\ pc' = [pc EXCEPT ![g] = "idle"]
  /\ session' = [session EXCEPT ![g] = NoSession]
  /\ UNCHANGED <<users, now, tokens>>

\* Its transaction commits, then it ends.
Commits(g, rows) ==
  /\ pc[g] = "admitted"
  /\ users' = rows
  /\ pc' = [pc EXCEPT ![g] = "idle"]
  /\ session' = [session EXCEPT ![g] = NoSession]
  /\ UNCHANGED <<now, tokens>>

\* PUT /users/update.  Every option is non-nil: an omitted e-mail becomes "",
\* an omitted password the hash of "".  Without "deleted_at is null":
AnyUpdated(id, email, password) ==
  {IF r.id = id THEN [r EXCEPT !.email = email, !.password = Hashed(password)]
                ELSE r : r \in users}
Updated(id, email, password) ==
  {IF r.id = id /\ live(r)
     THEN [r EXCEPT !.email = email, !.password = Hashed(password)]
     ELSE r : r \in users}

Update(g, id, email, password) ==
  /\ (\E r \in users : r.id = id /\ live(r)) => EmailFree(email, id)
  /\ Commits(g, Updated(id, email, password))

\* DELETE /users/delete: the trigger of the table marks the row instead.
Delete(g, id) ==
  Commits(g, {IF r.id = id /\ live(r) THEN [r EXCEPT !.deleted_at = now] ELSE r : r \in users})

-----------------------------------------------------------------------------

Edit(g) ==
  \E id \in Ids :
    \/ Delete(g, id)
    \/ \E email \in Emails \cup {""}, password \in Passwords \cup {""} :
         Update(g, id, email, password)

Next ==
  \/ Tick
  \/ \E email \in Emails, password \in Passwords :
       \/ Register(email, password)
       \/ \E g \in Requests : Authorize(g, email, password) \/ Unauthorized(g, email, password)
  \/ \E g \in Requests :
       Sign(g) \/ Respond(g) \/ Edit(g) \/ \E t \in tokens : DeserializeMW(g, t)

Spec == Init /\ [][Next]_vars

-----------------------------------------------------------------------------
(* Properties.                                                             *)

\* A deleted account is only served through a sign-in that read the table
\* before the deletion, and through its token's life time: a deletion is
\* final for whoever signs in later, whatever overlaps it.
DeletedAccountWindow ==
  \A g \in Requests : \A r \in users :
    pc[g] = "admitted" /\ session[g].user = r.id /\ ~ live(r)
      => /\ session[g].read <= r.deleted_at
         /\ session[g].at < session[g].signed + TokenLifeTime

\* An account that is deleted stays as it was: an update that was admitted
\* before does not change it, and its e-mail stays taken.
DeletedForGood == [][\A r \in users : live(r) \/ r \in users']_vars

\* What the struct tags of an update promise, and the code does not keep: a
\* field may be omitted, so no update leaves an account nobody can sign in to.
AccountsReachable ==
  \A r \in users : live(r) => r.email # "" /\ \E p \in Passwords : r.password = Sha1[p]
=============================================================================
