--------------------------- MODULE AccountsProofs ---------------------------
(***************************************************************************)
(* What Accounts guarantees for every number of requests, users and        *)
(* seconds.  The inductive invariant says that ids are given once and that *)
(* a sign-in known to the program read the table before its user was       *)
(* deleted.                                                                *)
(***************************************************************************)
EXTENDS Accounts, FiniteSetTheorems, TLAPS

Numbered ==
  /\ IsFiniteSet(users)
  /\ \A r \in users : r.id \in 1 .. Cardinality(users)
  /\ \A r, s \in users : r.id = s.id => r = s

\* A sign-in of the past, of a user who was not deleted before it.
Covered(user, read) ==
  /\ read <= now
  /\ \A r \in users : r.id = user /\ ~ live(r) => read <= r.deleted_at

Signed == \A t \in tokens : Covered(t.user, t.read)

Served ==
  \A g \in Requests :
    pc[g] # "idle" =>
      /\ session[g] \in SignIns /\ Covered(session[g].user, session[g].read)
      /\ pc[g] = "admitted" => session[g].at < session[g].signed + TokenLifeTime

IInv == TypeOK /\ Numbered /\ Signed /\ Served

-----------------------------------------------------------------------------

LEMMA Bounds == TokenLifeTime \in Nat \ {0} /\ MaxUsers \in Nat /\ MaxTime \in Nat
BY AccountsAssumption

LEMMA Clock == /\ \A t \in Time : t \in Nat
               /\ 0 \in Time /\ Never \notin Nat
BY Bounds DEF Time, Never

\* Rows that are replaced one by one keep their number.
LEMMA Replaced ==
  ASSUME Numbered, NEW f \in [users -> User], \A r \in users : f[r].id = r.id
  PROVE  LET new == {f[r] : r \in users}
         IN /\ new \subseteq User
            /\ IsFiniteSet(new)
            /\ \A r \in new : r.id \in 1 .. Cardinality(new)
            /\ \A r, s \in new : r.id = s.id => r = s
<1> DEFINE new == {f[r] : r \in users}
<1>1. f \in Surjection(users, new)
  BY DEF Surjection
<1>2. f \in Injection(users, new)
  BY DEF Injection, IsInjective, Numbered
<1>3. IsFiniteSet(new) /\ Cardinality(new) = Cardinality(users)
  <2> HIDE DEF new
  <2>1. ExistsBijection(users, new)
    BY <1>1, <1>2 DEF ExistsBijection, Bijection
  <2>2. QED
    BY <2>1, FS_Bijection DEF Numbered
<1>4. ASSUME NEW x \in new
      PROVE  /\ x \in User /\ x.id \in 1 .. Cardinality(new)
             /\ \A y \in new : x.id = y.id => x = y
  <2>1. PICK r \in users : x = f[r]
    OBVIOUS
  <2>2. x \in User /\ x.id = r.id /\ r.id \in 1 .. Cardinality(new)
    BY <2>1, <1>3 DEF Numbered
  <2>3. ASSUME NEW y \in new, x.id = y.id PROVE x = y
    <3>1. PICK q \in users : y = f[q]
      OBVIOUS
    <3>2. q.id = r.id
      BY <3>1, <2>2, <2>3
    <3>3. q = r
      BY <3>2 DEF Numbered
    <3>4. QED
      BY <3>1, <3>3, <2>1
  <2>4. QED
    BY <2>2, <2>3
<1> HIDE DEF new
<1>5. QED
  BY <1>3, <1>4 DEF new

LEMMA InitInv ==
  ASSUME Init
  PROVE  IInv
<1>1. TypeOK
  BY Clock DEF Init, TypeOK
<1>2. Numbered
  BY FS_EmptySet DEF Init, Numbered
<1>3. QED
  BY <1>1, <1>2 DEF Init, IInv, Signed, Served

\* Time passes, requests come and go: the table stays.
LEMMA KeepsUsers ==
  ASSUME IInv, UNCHANGED users, now \in Time, now' \in Time, now <= now',
         pc' \in [Requests -> {"idle", "signing", "admitted"}],
         session' \in [Requests -> SignIns \cup {NoSession}],
         \A t \in tokens' : t \in Token /\ Covered(t.user, t.read)',
         Served'
  PROVE  IInv'
<1>1. TypeOK'
  BY DEF IInv, TypeOK
<1>2. Numbered'
  BY DEF IInv, Numbered
<1>3. QED
  BY <1>1, <1>2 DEF IInv, Signed

\* Coverage survives the clock.
LEMMA StillCovered ==
  ASSUME NEW user, NEW read \in Time, Covered(user, read), UNCHANGED users,
         now \in Time, now' \in Time, now <= now'
  PROVE  Covered(user, read)'
BY Clock DEF Covered

LEMMA TickInv ==
  ASSUME IInv, Tick
  PROVE  IInv'
<1>1. now \in Time /\ now' \in Time /\ now <= now'
  BY Bounds DEF Tick, IInv, TypeOK, Time
<1>2. \A t \in tokens' : t \in Token /\ Covered(t.user, t.read)'
  <2> TAKE t \in tokens'
  <2>1. t \in Token /\ t.read \in Time /\ Covered(t.user, t.read)
    BY DEF Tick, IInv, TypeOK, Signed, Token
  <2>2. QED
    BY <2>1, <1>1, StillCovered DEF Tick
<1>3. Served'
  <2> SUFFICES ASSUME NEW g \in Requests, pc[g] # "idle"
               PROVE  /\ session[g] \in SignIns /\ Covered(session[g].user, session[g].read)'
                      /\ pc[g] = "admitted" => session[g].at < session[g].signed + TokenLifeTime
    BY DEF Served, Tick
  <2>1. /\ session[g] \in SignIns /\ Covered(session[g].user, session[g].read)
        /\ pc[g] = "admitted" => session[g].at < session[g].signed + TokenLifeTime
    BY DEF IInv, Served
  <2>2. session[g].read \in Time
    BY <2>1 DEF SignIns
  <2>3. QED
    BY <2>1, <2>2, <1>1, StillCovered DEF Tick
<1>4. QED
  BY <1>1, <1>2, <1>3, KeepsUsers DEF Tick, IInv, TypeOK

\* The steps of one request that leave the table and the clock alone.
LEMMA RequestInv ==
  ASSUME IInv, NEW g \in Requests, UNCHANGED <<users, now>>,
         NEW stage \in {"idle", "signing", "admitted"}, pc' = [pc EXCEPT ![g] = stage],
         NEW s \in SignIns \cup {NoSession}, session' = [session EXCEPT ![g] = s],
         \A t \in tokens' : t \in Token /\ Covered(t.user, t.read),
         stage # "idle" =>
           /\ s \in SignIns /\ Covered(s.user, s.read)
           /\ stage = "admitted" => s.at < s.signed + TokenLifeTime
  PROVE  IInv'
<1>2. Served'
  <2> SUFFICES ASSUME NEW h \in Requests, (pc[h] # "idle")'
               PROVE  (/\ session[h] \in SignIns /\ Covered(session[h].user, session[h].read)
                       /\ pc[h] = "admitted" =>
                            session[h].at < session[h].signed + TokenLifeTime)'
    BY DEF Served
  <2>1. pc \in [Requests -> {"idle", "signing", "admitted"}] /\ session \in
          [Requests -> SignIns \cup {NoSession}]
    BY DEF IInv, TypeOK
  <2>2. CASE h = g
    BY <2>1, <2>2 DEF Covered, live
  <2>3. CASE h # g
    <3>1. pc'[h] = pc[h] /\ session'[h] = session[h]
      BY <2>1, <2>3
    <3>2. QED
      BY <3>1 DEF IInv, Served, Covered, live
  <2>4. QED
    BY <2>2, <2>3
<1>3. now \in Time /\ now <= now
  BY Clock DEF IInv, TypeOK
<1>4. QED
  <2>1. \A t \in tokens' : t \in Token /\ Covered(t.user, t.read)'
    BY DEF Covered, live
  <2>2. pc' \in [Requests -> {"idle", "signing", "admitted"}]
        /\ session' \in [Requests -> SignIns \cup {NoSession}]
    BY DEF IInv, TypeOK
  <2>3. QED
    BY <1>2, <1>3, <2>1, <2>2, KeepsUsers

LEMMA AuthorizeInv ==
  ASSUME IInv, NEW g \in Requests, NEW email, NEW password, Authorize(g, email, password)
  PROVE  IInv'
<1>1. PICK r \in Match(email, password) :
        session' = [session EXCEPT ![g] = [NoSession EXCEPT !.user = r.id, !.read = now]]
  BY DEF Authorize
<1> DEFINE s == [NoSession EXCEPT !.user = r.id, !.read = now]
<1>2. r \in users /\ live(r) /\ r \in User /\ now \in Time
  BY DEF Match, IInv, TypeOK
<1>3. s \in SignIns /\ s.user = r.id /\ s.read = now
  BY <1>2, Clock DEF User, SignIns, NoSession
<1>4. Covered(r.id, now)
  <2>1. now <= now
    BY <1>2, Clock
  <2>2. \A q \in users : q.id = r.id => q = r
    BY <1>2 DEF IInv, Numbered
  <2>3. QED
    BY <2>1, <2>2, <1>2 DEF Covered
<1>5. \A t \in tokens' : t \in Token /\ Covered(t.user, t.read)
  BY DEF Authorize, IInv, TypeOK, Signed
<1> HIDE DEF s
<1>6. QED
  BY <1>1, <1>3, <1>4, <1>5, RequestInv DEF Authorize, s

LEMMA SignInv ==
  ASSUME IInv, NEW g \in Requests, Sign(g)
  PROVE  IInv'
<1> DEFINE t == [user |-> session[g].user, read |-> session[g].read, signed |-> now]
<1>1. session[g] \in SignIns /\ Covered(session[g].user, session[g].read) /\ now \in Time
  BY DEF Sign, IInv, Served, TypeOK
<1>2. t \in Token /\ Covered(t.user, t.read)
  BY <1>1 DEF Token, SignIns
<1>3. \A u \in tokens' : u \in Token /\ Covered(u.user, u.read)
  BY <1>2 DEF Sign, IInv, TypeOK, Signed
<1>4. QED
  BY <1>3, RequestInv DEF Sign

LEMMA AdmitInv ==
  ASSUME IInv, NEW g \in Requests, NEW t \in tokens, DeserializeMW(g, t)
  PROVE  IInv'
<1> DEFINE s == [user |-> t.user, read |-> t.read, signed |-> t.signed, at |-> now]
<1>1. t \in Token /\ Covered(t.user, t.read) /\ now \in Time
  BY DEF IInv, TypeOK, Signed
<1>2. s \in SignIns /\ Covered(s.user, s.read)
  BY <1>1 DEF Token, SignIns
<1>3. s.at < s.signed + TokenLifeTime
  BY <1>1, Clock, Bounds DEF DeserializeMW, Expired, Token
<1>4. \A u \in tokens' : u \in Token /\ Covered(u.user, u.read)
  BY DEF DeserializeMW, IInv, TypeOK, Signed
<1>5. pc' = [pc EXCEPT ![g] = "admitted"] /\ session' = [session EXCEPT ![g] = s]
  BY DEF DeserializeMW
<1> HIDE DEF s
<1>6. QED
  BY <1>2, <1>3, <1>4, <1>5, RequestInv DEF DeserializeMW

LEMMA RespondInv ==
  ASSUME IInv, NEW g \in Requests, Respond(g)
  PROVE  IInv'
<1>1. \A u \in tokens' : u \in Token /\ Covered(u.user, u.read)
  BY DEF Respond, IInv, TypeOK, Signed
<1>2. QED
  BY <1>1, RequestInv DEF Respond

-----------------------------------------------------------------------------
(* Steps that change the table.                                            *)

\* A table whose deleted rows are the old ones, or are deleted just now, covers
\* what the old one did.
LEMMA NewUsersInv ==
  ASSUME IInv, UNCHANGED <<now, tokens>>,
         users' \subseteq User, Numbered',
         \A r \in users' : live(r) \/ r \in users \/ r.deleted_at = now,
         pc' \in [Requests -> {"idle", "signing", "admitted"}],
         session' \in [Requests -> SignIns \cup {NoSession}],
         \A h \in Requests : pc'[h] # "idle" => pc'[h] = pc[h] /\ session'[h] = session[h]
  PROVE  IInv'
<1>1. TypeOK'
  BY DEF IInv, TypeOK
<1>2. \A user, read : Covered(user, read) => Covered(user, read)'
  BY DEF Covered, live
<1>3. Signed' /\ Served'
  BY <1>2 DEF IInv, Signed, Served
<1>4. QED
  BY <1>1, <1>3 DEF IInv

LEMMA RegisterInv ==
  ASSUME IInv, NEW email \in Emails, NEW password \in Passwords, Register(email, password)
  PROVE  IInv'
<1> DEFINE new == [id |-> Cardinality(users) + 1, email |-> email,
                   password |-> Hashed(password), deleted_at |-> Never]
<1>1. IsFiniteSet(users) /\ Cardinality(users) \in Nat
  BY FS_CardinalityType DEF IInv, Numbered
<1>2. new \in User
  <2>1. Hashed(password) \in Hashes
    BY AccountsAssumption DEF Hashed
  <2>2. Cardinality(users) + 1 \in Ids
    BY <1>1, Bounds DEF Register, Ids
  <2>3. QED
    BY <2>1, <2>2 DEF User
<1>3. new \notin users
  BY <1>1 DEF IInv, Numbered
<1>4. IsFiniteSet(users') /\ Cardinality(users') = Cardinality(users) + 1
  BY <1>1, <1>3, FS_AddElement DEF Register
<1>5. Numbered'
  <2>1. \A r \in users' : r.id \in 1 .. Cardinality(users')
    BY <1>1, <1>4 DEF Register, IInv, Numbered
  <2>2. \A r, s \in users' : r.id = s.id => r = s
    BY <1>1 DEF Register, IInv, Numbered
  <2>3. QED
    BY <2>1, <2>2, <1>4 DEF Numbered
<1>6. users' \subseteq User /\ \A r \in users' : live(r) \/ r \in users
  BY <1>2 DEF Register, IInv, TypeOK, live
<1>7. QED
  BY <1>5, <1>6, NewUsersInv DEF Register, IInv, TypeOK

\* Update and Delete replace rows by rows with the same id.
LEMMA CommitsInv ==
  ASSUME IInv, NEW g \in Requests, NEW f \in [users -> User],
         \A r \in users : f[r].id = r.id,
         \A r \in users : live(f[r]) \/ f[r] = r \/ f[r].deleted_at = now,
         Commits(g, {f[r] : r \in users})
  PROVE  IInv'
<1>1. users' = {f[r] : r \in users}
  BY DEF Commits
<1>2. users' \subseteq User /\ Numbered'
  BY <1>1, Replaced DEF IInv, Numbered
<1>3. \A r \in users' : live(r) \/ r \in users \/ r.deleted_at = now
  BY <1>1
<1>4. QED
  BY <1>2, <1>3, NewUsersInv DEF Commits, IInv, TypeOK

LEMMA EditInv ==
  ASSUME IInv, NEW g \in Requests, Edit(g)
  PROVE  IInv'
<1>1. users \subseteq User /\ now \in Time
  BY DEF IInv, TypeOK
<1>2. ASSUME NEW id \in Ids, Delete(g, id) PROVE IInv'
  <2> DEFINE f == [r \in users |->
                     IF r.id = id /\ live(r) THEN [r EXCEPT !.deleted_at = now] ELSE r]
  <2>1. f \in [users -> User] /\ \A r \in users : f[r].id = r.id
    <3>1. \A r \in User, t \in Time :
            LET new == [r EXCEPT !.deleted_at = t]
            IN new \in User /\ new.id = r.id
      BY DEF User
    <3>2. \A r \in users : f[r] \in User /\ f[r].id = r.id
      BY <1>1, <3>1
    <3>3. QED
      BY <3>2
  <2>2. \A r \in users : live(f[r]) \/ f[r] = r \/ f[r].deleted_at = now
    BY <1>1 DEF User
  <2>3. Commits(g, {f[r] : r \in users})
    BY <1>2 DEF Delete
  <2> HIDE DEF f
  <2>4. QED
    BY <2>1, <2>2, <2>3, CommitsInv
<1>3. ASSUME NEW id \in Ids, NEW email \in Emails \cup {""},
             NEW password \in Passwords \cup {""}, Update(g, id, email, password)
      PROVE  IInv'
  <2> DEFINE f == [r \in users |->
                     IF r.id = id /\ live(r)
                       THEN [r EXCEPT !.email = email, !.password = Hashed(password)]
                       ELSE r]
  <2>1. Hashed(password) \in Hashes
    BY AccountsAssumption DEF Hashed
  <2>2. f \in [users -> User] /\ \A r \in users : f[r].id = r.id
    <3>1. \A h \in Hashes, r \in User :
            LET new == [r EXCEPT !.email = email, !.password = h]
            IN new \in User /\ new.id = r.id
      BY DEF User
    <3>2. \A r \in users : f[r] \in User /\ f[r].id = r.id
      BY <1>1, <2>1, <3>1
    <3>3. QED
      BY <3>2
  <2>3. \A r \in users : live(f[r]) \/ f[r] = r
    BY <1>1 DEF User, live
  <2>4. Commits(g, {f[r] : r \in users})
    BY <1>3 DEF Update, Updated
  <2> HIDE DEF f
  <2>5. QED
    BY <2>2, <2>3, <2>4, CommitsInv
<1>4. QED
  BY <1>2, <1>3 DEF Edit

LEMMA NextInv ==
  ASSUME IInv, [Next]_vars
  PROVE  IInv'
<1>1. ASSUME UNCHANGED vars PROVE IInv'
  BY <1>1 DEF vars, IInv, TypeOK, Numbered, Signed, Served, Covered, live
<1>2. ASSUME NEW g \in Requests, NEW email, NEW password, Unauthorized(g, email, password)
      PROVE  IInv'
  BY <1>1, <1>2 DEF Unauthorized
<1>3. QED
  BY <1>1, <1>2, TickInv, RegisterInv, AuthorizeInv, SignInv, AdmitInv, RespondInv, EditInv
     DEF Next

LEMMA InvAlways == Spec => []IInv
<1>1. Init => IInv
  BY InitInv
<1>2. IInv /\ [Next]_vars => IInv'
  BY NextInv
<1>3. QED
  BY <1>1, <1>2, PTL DEF Spec

-----------------------------------------------------------------------------

\* Whatever sign-ins, edits and requests overlap, a deleted account is served
\* only by a sign-in from before its deletion and within its token's life time.
THEOREM DeletionFinal == Spec => []DeletedAccountWindow
<1>1. IInv => DeletedAccountWindow
  BY DEF IInv, Served, Covered, DeletedAccountWindow
<1>2. QED
  BY <1>1, InvAlways, PTL

\* No request changes or removes the row of a deleted account, whenever it was
\* admitted.
THEOREM DeletedRowsStay == Spec => DeletedForGood
<1> DEFINE Stays == \A r \in users : live(r) \/ r \in users'
<1>1. ASSUME IInv, [Next]_vars PROVE [Stays]_vars
  <2>1. ASSUME NEW g \in Requests, Edit(g) PROVE Stays
    <3>1. ASSUME NEW id \in Ids, Delete(g, id) PROVE Stays
      BY <3>1 DEF Delete, Commits
    <3>2. ASSUME NEW id \in Ids, NEW email, NEW password, Update(g, id, email, password)
          PROVE  Stays
      BY <3>2 DEF Update, Updated, Commits
    <3>3. QED
      BY <2>1, <3>1, <3>2 DEF Edit
  <2>2. ASSUME NEW email, NEW password, Register(email, password) PROVE Stays
    BY <2>2 DEF Register
  <2>3. ASSUME users' = users PROVE Stays
    BY <2>3
  <2>4. QED
    BY <1>1, <2>1, <2>2, <2>3
       DEF Next, Tick, Authorize, Unauthorized, Sign, Respond, DeserializeMW, vars
<1>2. QED
  BY <1>1, InvAlways, PTL DEF Spec, DeletedForGood

\* Type correctness; above all, the ids that are given by counting rows stay in
\* range, for updates and deletions keep the number of the rows.
THEOREM TypeCorrect == Spec => []TypeOK
<1>1. IInv => TypeOK
  BY DEF IInv
<1>2. QED
  BY <1>1, InvAlways, PTL
=============================================================================
