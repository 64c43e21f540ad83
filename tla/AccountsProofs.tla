--------------------------- MODULE AccountsProofs ---------------------------
(***************************************************************************)
(* For any number of callers, browsers, tabs and addresses: an address     *)
(* names one account, no account is taken over, a session is only given to *)
(* who typed its account's password, and a page fits who is signed in when *)
(* it is rendered. For clients of the API (ASpec) and for tabs of the web  *)
(* application (WSpec).                                                    *)
(*                                                                         *)
(* The pages rest on AInv: account ids are not used again, so the subject  *)
(* of a cookie never becomes somebody else, and the role it claims is that *)
(* of its account for good.                                                *)
(***************************************************************************)
EXTENDS WebSession, FiniteSetTheorems, TLAPS

(* An account is written by SaveUser and removed by Delete, by nothing else. *)
LEMMA WhoWritesUsers ==
  ASSUME [ANext]_aVars, users' # users
  PROVE  \/ \E c \in Callers : SaveUser(c)
         \/ \E u \in users : Delete(u)
<1>1. CASE UNCHANGED aVars
  BY <1>1 DEF aVars
<1>2. CASE Tick \/ Quiet
  BY <1>2 DEF Tick, Quiet, aVars
<1>3. ASSUME NEW c \in Callers, NEW t \in Typed, NEW p \in Passwords,
             Login(c, t, p) \/ \E r \in Roles : Register(c, t, p, r)
      PROVE  FALSE
  BY <1>3 DEF Register, Login
<1>4. ASSUME NEW c \in Callers,
             \/ CheckEmail(c) \/ Compare(c) \/ Refresh(c)
             \/ Receive(c) \/ Refuse(c) \/ Lose(c)
      PROVE  FALSE
  BY <1>4 DEF CheckEmail, Compare, Refresh, Receive, Refuse, Lose
<1>5. ASSUME NEW b \in Browsers, Evict(b) PROVE FALSE
  BY <1>5 DEF Evict
<1> QED
  BY <1>1, <1>2, <1>3, <1>4, <1>5 DEF ANext, ApiStep

(* SaveUser either leaves the table or adds one account with an address that
   none of it has. *)
LEMMA SaveAddsOne ==
  ASSUME NEW c \in Callers, SaveUser(c)
  PROVE  \/ users' = users
         \/ \E u : /\ users' = users \cup {u}
                   /\ \A v \in users : v.email # u.email
<1>1. CASE UNCHANGED <<users, made>>
  BY <1>1
<1>2. CASE FindByEmail(call[c].email) = {} /\ ~UNCHANGED <<users, made>>
  <2> DEFINE u == [id |-> made + 1, email |-> call[c].email,
                   password |-> call[c].password, role |-> call[c].role]
  <2>1. users' = users \cup {u}
    BY <1>2 DEF SaveUser
  <2>2. u.email = call[c].email
    OBVIOUS
  <2>3. \A v \in users : v.email # u.email
    BY <1>2, <2>2 DEF FindByEmail
  <2> QED
    BY <2>1, <2>3
<1> QED
  BY <1>1, <1>2 DEF SaveUser

----------------------------------------------------------------------------
(* Ids are not used again, and what a cookie claims of its account is so. *)

OneOfAKind(S) == \A s, t \in S : s.typ = t.typ => s = t

CookiesOk(S) ==
  /\ S \subseteq Tokens /\ OneOfAKind(S)
  /\ \A t \in S : t.sub <= made /\ \A u \in users : u.id = t.sub => u.role = t.role

Statuses == {0, 200, 201, 400, 401, 404, 409, 500}

Requests ==
  {k \in [at : Waiting \cup {"idle", "answered"},
          op : {"none", "register", "login", "refresh"},
          email : Emails, password : Passwords \cup {""}, role : Roles,
          status : Statuses, cookies : SUBSET Tokens] :
     k.at \in Waiting => k.password \in Passwords}

AInv ==
  /\ users \subseteq Users /\ made \in 0 .. MaxAccounts
  /\ \A u \in users : u.id <= made
  /\ \A u, v \in users : u.id = v.id => u = v
  /\ call \in [Callers -> Requests] /\ jar \in [Browsers -> SUBSET Tokens]
  /\ \A c \in Callers : CookiesOk(call[c].cookies)
  /\ \A b \in Browsers : CookiesOk(jar[b])
  /\ now \in 0 .. MaxTime /\ faults \in 0 .. MaxFaults

LEMMA IdleRequest ==
  /\ Idle \in Requests /\ Idle.cookies = {} /\ CookiesOk({})
  /\ Idle.email \in Emails /\ Idle.at = "idle" /\ Idle.op = "none"
<1> DEFINE e == CHOOSE x \in Emails : TRUE
<1>1. e \in Emails
  <2>1. PICK t \in Typed : TRUE
    BY CallersAssumption
  <2>2. Normal[t] \in Emails
    BY <2>1 DEF Emails
  <2> QED
    BY <2>2
<1>2. Idle = [at |-> "idle", op |-> "none", email |-> e, password |-> "",
              role |-> "guest", status |-> 0, cookies |-> {}]
  BY DEF Idle
<1> HIDE DEF e
<1>3. Idle \in Requests
  BY <1>1, <1>2 DEF Requests, Waiting, Statuses, Roles
<1>4. CookiesOk({})
  BY DEF CookiesOk, OneOfAKind
<1> QED
  BY <1>1, <1>2, <1>3, <1>4

LEMMA JarsOk ==
  ASSUME NEW S, CookiesOk(S)
  PROVE  S \in Jars
<1> SUFFICES ASSUME NEW k \in {"access", "refresh"}
             PROVE  Cardinality({t \in S : t.typ = k}) <= 1
  BY DEF Jars, CookiesOk
<1> DEFINE T == {t \in S : t.typ = k}
<1>1. T = {} \/ \E s : T = {s}
  BY DEF CookiesOk, OneOfAKind
<1> HIDE DEF T
<1>2. Cardinality(T) = 0 \/ Cardinality(T) = 1
  BY <1>1, FS_EmptySet, FS_Singleton
<1>3. Cardinality(T) <= 1
  BY <1>2
<1> QED
  BY <1>3 DEF T

LEMMA AInvTypes == AInv => TypeOK
<1> SUFFICES ASSUME AInv PROVE TypeOK
  OBVIOUS
<1>1. jar \in [Browsers -> Jars]
  BY JarsOk DEF AInv
<1>2. ASSUME NEW c \in Callers
      PROVE  /\ call[c].at \in Waiting \cup {"idle", "answered"}
             /\ call[c].op \in {"none", "register", "login", "refresh"}
             /\ call[c].email \in Emails /\ call[c].role \in Roles
             /\ call[c].status \in {0, 200, 201, 400, 401, 404, 409, 500}
             /\ call[c].cookies \in Jars
  <2>1. call[c] \in Requests /\ CookiesOk(call[c].cookies)
    BY DEF AInv
  <2>2. call[c].cookies \in Jars
    BY <2>1, JarsOk
  <2> PICK k \in Requests : k = call[c]
    BY <2>1
  <2>3. /\ k.at \in Waiting \cup {"idle", "answered"} /\ k.email \in Emails
        /\ k.role \in Roles /\ k.status \in Statuses
    BY DEF Requests
  <2>4. k.op \in {"none", "register", "login", "refresh"}
    BY DEF Requests
  <2> QED
    BY <2>2, <2>3, <2>4 DEF Statuses
<1> QED
  BY <1>1, <1>2 DEF AInv, TypeOK

LEMMA InitA == AInit => AInv
<1> SUFFICES ASSUME AInit PROVE AInv
  OBVIOUS
<1> QED
  BY IdleRequest, BoundsAssumption DEF AInit, AInv, CookiesOk, OneOfAKind

(* The tokens of an account claim its id and its role. *)
LEMMA IssuedOk ==
  ASSUME AInv, NEW u \in users
  PROVE  CookiesOk(IssueTokens(u))
<1> DEFINE access == [typ |-> "access", sub |-> u.id, role |-> u.role, exp |-> now + 1]
           refresh == [typ |-> "refresh", sub |-> u.id, role |-> u.role,
                       exp |-> now + RefreshTtl]
<1>1. u \in Users /\ u.id <= made /\ \A v \in users : v.id = u.id => v = u
  BY DEF AInv
<1>2. now + 1 \in 0..(MaxTime + RefreshTtl) /\ now + RefreshTtl \in 0..(MaxTime + RefreshTtl)
  BY BoundsAssumption DEF AInv
<1>3. access \in Tokens /\ refresh \in Tokens
  BY <1>1, <1>2 DEF Tokens, Users
<1>4. /\ access.typ = "access" /\ access.sub = u.id /\ access.role = u.role
      /\ refresh.typ = "refresh" /\ refresh.sub = u.id /\ refresh.role = u.role
  OBVIOUS
<1>5. IssueTokens(u) = {access, refresh}
  BY DEF IssueTokens
<1> HIDE DEF access, refresh
<1> QED
  BY <1>1, <1>3, <1>4, <1>5 DEF CookiesOk, OneOfAKind

(* Set-Cookie leaves one cookie of a name. *)
LEMMA SetCookiesOk ==
  ASSUME NEW S, CookiesOk(S), NEW T, CookiesOk(T)
  PROVE  CookiesOk(SetCookies(S, T))
  BY DEF CookiesOk, OneOfAKind, SetCookies

(* A step that changes one request only. *)
LEMMA CallStep ==
  ASSUME AInv, NEW c \in Callers, NEW k \in Requests, CookiesOk(k.cookies),
         call' = [call EXCEPT ![c] = k], UNCHANGED <<users, made, jar, now>>,
         faults' \in 0 .. MaxFaults
  PROVE  AInv'
<1>1. \A d \in Callers : call'[d] = IF d = c THEN k ELSE call[d]
  BY DEF AInv
<1> QED
  BY <1>1 DEF AInv, CookiesOk

(* Answer as one assignment. *)
LEMMA AnswerStep ==
  ASSUME AInv, NEW c \in Callers, NEW status \in Statuses,
         NEW cookies \in SUBSET Tokens, Answer(c, status, cookies)
  PROVE  \E k \in Requests : /\ call' = [call EXCEPT ![c] = k]
                             /\ k.at = "answered" /\ k.cookies = cookies
<1> DEFINE k == [call[c] EXCEPT !.at = "answered", !.status = status,
                                !.cookies = cookies]
<1>1. call[c] \in Requests
  BY DEF AInv
<1>2. k \in Requests /\ k.at = "answered" /\ k.cookies = cookies
  BY <1>1 DEF Requests, Waiting
<1>3. call' = [call EXCEPT ![c] = k]
  BY <1>1 DEF Answer
<1> QED
  BY <1>2, <1>3

LEMMA RefusedStep ==
  ASSUME AInv, NEW c \in Callers, NEW status \in Statuses, Answer(c, status, {}),
         UNCHANGED <<users, made, jar, now>>, faults' \in 0 .. MaxFaults
  PROVE  AInv'
  BY AnswerStep, IdleRequest, CallStep

LEMMA GrantedStep ==
  ASSUME AInv, NEW c \in Callers, NEW status \in Statuses, NEW u \in users,
         Answer(c, status, IssueTokens(u)), UNCHANGED <<users, made, jar, now, faults>>
  PROVE  AInv'
<1>1. CookiesOk(IssueTokens(u)) /\ IssueTokens(u) \subseteq Tokens
  BY IssuedOk DEF CookiesOk
<1>2. PICK k \in Requests : /\ call' = [call EXCEPT ![c] = k]
                            /\ k.cookies = IssueTokens(u)
  BY <1>1, AnswerStep
<1> QED
  BY <1>1, <1>2, CallStep DEF AInv

----------------------------------------------------------------------------
(* The steps of Accounts *)

LEMMA RegisterA ==
  ASSUME AInv, NEW c \in Callers, NEW t \in Typed, NEW p \in Passwords, NEW r \in Roles,
         Register(c, t, p, r)
  PROVE  AInv'
<1> DEFINE k == [Idle EXCEPT !.at = "check", !.op = "register", !.email = Normal[t],
                             !.password = p, !.role = r]
<1>1. k \in Requests /\ k.cookies = {}
  BY IdleRequest DEF Requests, Waiting, Emails
<1>2. /\ call' = [call EXCEPT ![c] = k] /\ UNCHANGED <<users, made, jar, now>>
      /\ faults' \in 0 .. MaxFaults
  BY DEF Register, AInv
<1> HIDE DEF k
<1> QED
  BY <1>1, <1>2, IdleRequest, CallStep

LEMMA LoginA ==
  ASSUME AInv, NEW c \in Callers, NEW t \in Typed, NEW p \in Passwords,
         NEW k, k = [Idle EXCEPT !.at = "login", !.op = "login", !.email = Normal[t],
                                 !.password = p],
         call' = [call EXCEPT ![c] = k],
         UNCHANGED <<users, made, jar, now>>, faults' \in 0 .. MaxFaults
  PROVE  AInv'
<1>1. k \in Requests /\ k.cookies = {}
  BY IdleRequest DEF Requests, Waiting, Emails
<1> QED
  BY <1>1, IdleRequest, CallStep

LEMMA CheckEmailA ==
  ASSUME AInv, NEW c \in Callers, CheckEmail(c)
  PROVE  AInv'
<1>1. UNCHANGED <<users, made, jar, now>> /\ faults' \in 0 .. MaxFaults
  BY DEF CheckEmail, AInv
<1>2. CASE Answer(c, 409, {})
  BY <1>1, <1>2, RefusedStep DEF Statuses
<1>3. CASE call' = [call EXCEPT ![c].at = "save"]
  <2> DEFINE k == [call[c] EXCEPT !.at = "save"]
  <2>1. k \in Requests /\ k.cookies = call[c].cookies
    <3>1. call[c] \in Requests /\ call[c].password \in Passwords
      BY DEF AInv, CheckEmail, Requests, Waiting
    <3> QED
      BY <3>1 DEF Requests, Waiting
  <2>2. call' = [call EXCEPT ![c] = k]
    BY <1>3
  <2>3. CookiesOk(k.cookies)
    BY <2>1 DEF AInv
  <2> HIDE DEF k
  <2> QED
    BY <1>1, <2>1, <2>2, <2>3, CallStep
<1> QED
  BY <1>2, <1>3 DEF CheckEmail

(* The new account has an id that no cookie names. *)
LEMMA SaveUserA ==
  ASSUME AInv, NEW c \in Callers, SaveUser(c)
  PROVE  AInv'
<1>1. CASE Answer(c, 500, {}) /\ UNCHANGED <<users, made>>
  BY <1>1, RefusedStep DEF SaveUser, AInv, Statuses
<1>2. CASE ~(Answer(c, 500, {}) /\ UNCHANGED <<users, made>>)
  <2> PICK u : u = [id |-> made + 1, email |-> call[c].email,
                    password |-> call[c].password, role |-> call[c].role]
    OBVIOUS
  <2>1. /\ users' = users \cup {u} /\ made' = made + 1 /\ made < MaxAccounts
        /\ Answer(c, 201, IssueTokens(u)) /\ UNCHANGED <<jar, now, faults>>
    BY <1>2 DEF SaveUser
  <2>2. u \in Users /\ u.id = made + 1 /\ made' \in 0 .. MaxAccounts /\ made \in Nat
    <3>1. /\ call[c] \in Requests /\ call[c].at = "save"
      BY DEF AInv, SaveUser
    <3>2. /\ call[c].email \in Emails /\ call[c].password \in Passwords
          /\ call[c].role \in Roles
      BY <3>1 DEF Requests, Waiting
    <3>3. made + 1 \in 1 .. MaxAccounts /\ made' \in 0 .. MaxAccounts /\ made \in Nat
      BY <2>1, BoundsAssumption DEF AInv
    <3> QED
      BY <3>2, <3>3 DEF Users
  <2>3. \A S : CookiesOk(S) => CookiesOk(S)'
    BY <2>1, <2>2 DEF CookiesOk, Tokens
  <2>4. /\ users' \subseteq Users
        /\ \A v \in users' : v.id <= made'
        /\ \A v, w \in users' : v.id = w.id => v = w
    <3>1. \A v \in users : v.id \in Int /\ v.id <= made
      BY DEF AInv, Users
    <3> QED
      BY <2>1, <2>2, <3>1 DEF AInv
  <2>5. CookiesOk(IssueTokens(u))' /\ IssueTokens(u) \subseteq Tokens
    <3> DEFINE access == [typ |-> "access", sub |-> u.id, role |-> u.role, exp |-> now + 1]
               refresh == [typ |-> "refresh", sub |-> u.id, role |-> u.role,
                           exp |-> now + RefreshTtl]
    <3>1. /\ now + 1 \in 0..(MaxTime + RefreshTtl)
          /\ now + RefreshTtl \in 0..(MaxTime + RefreshTtl)
      BY BoundsAssumption DEF AInv
    <3>2. access \in Tokens /\ refresh \in Tokens
      BY <2>2, <3>1 DEF Tokens, Users
    <3>3. /\ access.typ = "access" /\ access.sub = u.id /\ access.role = u.role
          /\ refresh.typ = "refresh" /\ refresh.sub = u.id /\ refresh.role = u.role
      OBVIOUS
    <3>4. IssueTokens(u) = {access, refresh} /\ IssueTokens(u)' = {access, refresh}
      BY <2>1 DEF IssueTokens
    <3>5. \A v \in users' : v.id = u.id => v = u
      BY <2>1, <2>4
    <3> HIDE DEF access, refresh
    <3> QED
      BY <2>1, <2>2, <3>2, <3>3, <3>4, <3>5 DEF CookiesOk, OneOfAKind
  <2>6. PICK k \in Requests : /\ call' = [call EXCEPT ![c] = k]
                              /\ k.cookies = IssueTokens(u)
    BY <2>1, <2>5, AnswerStep DEF Statuses
  <2>7. \A d \in Callers : CookiesOk(call[d].cookies)'
    <3>1. IssueTokens(u)' = IssueTokens(u)
      BY <2>1 DEF IssueTokens
    <3> QED
      BY <2>3, <2>5, <2>6, <3>1 DEF AInv, CookiesOk
  <2>8. \A b \in Browsers : CookiesOk(jar[b])'
    BY <2>1, <2>3 DEF AInv, CookiesOk
  <2> QED
    BY <2>1, <2>2, <2>4, <2>6, <2>7, <2>8 DEF AInv
<1> QED
  BY <1>1, <1>2

LEMMA CompareA ==
  ASSUME AInv, NEW c \in Callers, Compare(c)
  PROVE  AInv'
<1>1. UNCHANGED <<users, made, jar, now, faults>> /\ faults' \in 0 .. MaxFaults
  BY DEF Compare, AInv
<1>2. CASE Answer(c, 401, {})
  BY <1>1, <1>2, RefusedStep DEF Statuses
<1>3. ASSUME NEW u \in users, Answer(c, 200, IssueTokens(u))
      PROVE  AInv'
  BY <1>1, <1>3, GrantedStep DEF Statuses
<1> QED
  BY <1>2, <1>3 DEF Compare, FindByEmail

LEMMA RefreshA ==
  ASSUME AInv, NEW c \in Callers, Refresh(c)
  PROVE  AInv'
<1> DEFINE sent == {t \in jar[BrowserOf[c]] : t.typ = "refresh"}
           found == UNION {FindById(t.sub) : t \in Verified(sent, "refresh")}
           k(status, cookies) == [Idle EXCEPT !.at = "answered", !.op = "refresh",
                                              !.status = status, !.cookies = cookies]
<1>1. UNCHANGED <<users, made, jar, now, faults>> /\ faults' \in 0 .. MaxFaults
  BY DEF Refresh, AInv
<1>2. ASSUME NEW status \in Statuses, NEW cookies, CookiesOk(cookies),
             call' = [call EXCEPT ![c] = k(status, cookies)]
      PROVE  AInv'
  <2>1. k(status, cookies) \in Requests /\ k(status, cookies).cookies = cookies
    BY <1>2, IdleRequest DEF Requests, Waiting, CookiesOk
  <2> HIDE DEF k
  <2> QED
    BY <1>1, <1>2, <2>1, CallStep
<1>3. \/ call' = [call EXCEPT ![c] = k(400, {})]
      \/ call' = [call EXCEPT ![c] = k(401, {})]
      \/ call' = [call EXCEPT ![c] = k(404, {})]
      \/ \E u \in found : call' = [call EXCEPT ![c] = k(200, IssueTokens(u))]
  BY Zenon DEF Refresh
<1>4. found \subseteq users
  BY DEF FindById
<1> HIDE DEF k, found
<1>5. {400, 401, 404, 200} \subseteq Statuses
  BY DEF Statuses
<1>6. ASSUME NEW u \in found, call' = [call EXCEPT ![c] = k(200, IssueTokens(u))]
      PROVE  AInv'
  <2> PICK cookies : cookies = IssueTokens(u)
    OBVIOUS
  <2>1. CookiesOk(cookies)
    BY <1>4, IssuedOk
  <2>2. 200 \in Statuses
    BY <1>5
  <2> QED
    BY <1>2, <1>6, <2>1, <2>2
<1>7. ASSUME NEW status \in {400, 401, 404}, call' = [call EXCEPT ![c] = k(status, {})]
      PROVE  AInv'
  <2>1. status \in Statuses
    BY <1>5
  <2>2. CookiesOk({})
    BY IdleRequest
  <2> QED
    BY <1>2, <1>7, <2>1, <2>2, Zenon
<1> QED
  BY <1>3, <1>6, <1>7

(* A step that changes a jar, and forgets at most a request. *)
LEMMA JarStep ==
  ASSUME AInv, NEW b \in Browsers, NEW S, CookiesOk(S),
         jar' = [jar EXCEPT ![b] = S],
         call' = call \/ \E c \in Callers : call' = [call EXCEPT ![c] = Idle],
         UNCHANGED <<users, made, now>>, faults' \in 0 .. MaxFaults
  PROVE  AInv'
<1>1. \A d \in Callers : call'[d] \in {call[d], Idle}
  BY DEF AInv
<1>2. call' \in [Callers -> Requests]
  BY IdleRequest DEF AInv
<1>3. \A d \in Callers : CookiesOk(call'[d].cookies)
  BY <1>1, IdleRequest DEF AInv
<1>4. jar' \in [Browsers -> SUBSET Tokens] /\ \A d \in Browsers : CookiesOk(jar'[d])
  <2>1. S \in SUBSET Tokens
    BY DEF CookiesOk
  <2> QED
    BY <2>1 DEF AInv
<1>5. \A T : CookiesOk(T) => CookiesOk(T)'
  BY DEF CookiesOk
<1> QED
  BY <1>2, <1>3, <1>4, <1>5 DEF AInv, CookiesOk

LEMMA ReceiveA ==
  ASSUME AInv, NEW c \in Callers, NEW S, CookiesOk(S),
         jar' = [jar EXCEPT ![BrowserOf[c]] = S],
         call' = [call EXCEPT ![c] = Idle], UNCHANGED <<users, made, now, faults>>
  PROVE  AInv'
<1>1. BrowserOf[c] \in Browsers /\ faults' \in 0 .. MaxFaults
  BY CallersAssumption DEF AInv
<1> QED
  BY <1>1, JarStep

LEMMA FaultStep ==
  ASSUME AInv, faults < MaxFaults, faults' = faults + 1
  PROVE  faults' \in 0 .. MaxFaults
  BY BoundsAssumption DEF AInv

LEMMA RefuseA ==
  ASSUME AInv, NEW c \in Callers, Refuse(c)
  PROVE  AInv'
  BY FaultStep, RefusedStep DEF Refuse, Statuses

LEMMA LoseA ==
  ASSUME AInv, NEW c \in Callers, Lose(c)
  PROVE  AInv'
  BY FaultStep, IdleRequest, CallStep DEF Lose

LEMMA DeleteA ==
  ASSUME AInv, NEW u \in users, Delete(u)
  PROVE  AInv'
<1>1. faults' \in 0 .. MaxFaults
  BY FaultStep DEF Delete
<1>2. \A T : CookiesOk(T) => CookiesOk(T)'
  BY DEF CookiesOk, Delete
<1> QED
  BY <1>1, <1>2 DEF AInv, Delete, CookiesOk

LEMMA EvictA ==
  ASSUME AInv, NEW b \in Browsers, Evict(b)
  PROVE  AInv'
<1> DEFINE S == {t \in jar[b] : now < t.exp}
<1>1. CookiesOk(S)
  BY DEF AInv, CookiesOk, OneOfAKind
<1>2. jar' = [jar EXCEPT ![b] = S] /\ call' = call /\ UNCHANGED <<users, made, now>>
  BY DEF Evict
<1>3. faults' \in 0 .. MaxFaults
  BY DEF Evict, AInv
<1> HIDE DEF S
<1> QED
  BY <1>1, <1>2, <1>3, JarStep

LEMMA TickA ==
  ASSUME AInv, Tick
  PROVE  AInv'
<1>1. now' \in 0 .. MaxTime
  BY BoundsAssumption DEF AInv, Tick
<1> QED
  BY <1>1 DEF AInv, Tick, CookiesOk

LEMMA UnchangedA ==
  ASSUME AInv, UNCHANGED aVars
  PROVE  AInv'
  BY DEF AInv, aVars, CookiesOk

(* Every step of the accounts keeps the invariant. *)
LEMMA StepA == AInv /\ [ANext]_aVars => AInv'
<1> SUFFICES ASSUME AInv, [ANext]_aVars PROVE AInv'
  OBVIOUS
<1>1. ASSUME NEW c \in Callers, NEW t \in Typed, NEW p \in Passwords, NEW r \in Roles,
             Register(c, t, p, r)
      PROVE  AInv'
  BY <1>1, RegisterA
<1>2. ASSUME NEW c \in Callers, NEW t \in Typed, NEW p \in Passwords, Login(c, t, p)
      PROVE  AInv'
  <2>1. faults' \in 0 .. MaxFaults
    BY <1>2 DEF Login, AInv
  <2> QED
    BY <1>2, <2>1, LoginA DEF Login
<1>3. ASSUME NEW c \in Callers, Receive(c) PROVE AInv'
  <2> DEFINE S == IF Clears(c) THEN {} ELSE SetCookies(jar[BrowserOf[c]], call[c].cookies)
  <2>1. CookiesOk(S)
    <3>1. BrowserOf[c] \in Browsers
      BY CallersAssumption
    <3> QED
      BY <3>1, IdleRequest, SetCookiesOk DEF AInv
  <2>2. /\ jar' = [jar EXCEPT ![BrowserOf[c]] = S] /\ call' = [call EXCEPT ![c] = Idle]
        /\ UNCHANGED <<users, made, now, faults>>
    BY <1>3 DEF Receive
  <2> HIDE DEF S
  <2> QED
    BY <2>1, <2>2, ReceiveA
<1>4. ASSUME NEW c \in Callers, ApiStep(c) \/ Refresh(c) \/ Refuse(c) \/ Lose(c)
      PROVE  AInv'
  BY <1>4, CheckEmailA, SaveUserA, CompareA, RefreshA, RefuseA, LoseA DEF ApiStep
<1>5. CASE (\E u \in users : Delete(u)) \/ (\E b \in Browsers : Evict(b)) \/ Tick
  BY <1>5, DeleteA, EvictA, TickA
<1>6. CASE Quiet \/ UNCHANGED aVars
  BY <1>6, UnchangedA DEF Quiet
<1> QED
  BY <1>1, <1>2, <1>3, <1>4, <1>5, <1>6 DEF ANext

----------------------------------------------------------------------------
(* The tabs. *)

TabInv ==
  tab \in [Callers -> {k \in [page : Pages, next : Protected,
                              going : Protected \cup {"home", "still"},
                              header : 0 .. MaxAccounts, out : {"no", "sent", "after"}] :
                         k.out # "no" => k.header # 0}]

LEMMA TabTypes == AInv /\ TabInv => WTypeOK
  BY AInvTypes DEF TabInv, WTypeOK

LEMMA InitW == WInit => AInv /\ TabInv
<1> SUFFICES ASSUME WInit PROVE AInv /\ TabInv
  OBVIOUS
<1>1. 0 \in 0 .. MaxAccounts
  BY BoundsAssumption
<1> QED
  BY <1>1, InitA DEF WInit, TabInv, Pages, Protected

(* A page's request ends on a page, with the header of an account or none. *)
LEMMA RenderKeeps ==
  ASSUME AInv, TabInv, NEW t \in Callers, NEW p \in Visits \cup Protected, NEW how,
         NEW seen \in SUBSET (1 .. MaxAccounts), Render(t, p, how, seen)
  PROVE  TabInv'
<1> DEFINE page == Landing(BrowserOf[t], p, seen)
           header == IF how = "link" THEN tab[t].header
                     ELSE IF seen = {} THEN 0 ELSE CHOOSE id \in seen : TRUE
           next == IF page = "login" /\ p \in Protected THEN p
                   ELSE IF page # "login" /\ call[t].op = "login" THEN tab[t].next
                   ELSE "account"
           out == IF header = 0 \/ how = "reload" THEN "no" ELSE tab[t].out
           k == [page |-> page, next |-> next, going |-> "still",
                 header |-> header, out |-> out]
<1>1. page \in Pages
  BY DEF Landing, Pages, Protected, Visits
<1>2. header \in 0 .. MaxAccounts
  <2>1. tab[t].header \in 0 .. MaxAccounts
    BY DEF TabInv
  <2>2. seen # {} => (CHOOSE id \in seen : TRUE) \in seen
    OBVIOUS
  <2>3. 0 \in 0 .. MaxAccounts /\ \A i \in 1 .. MaxAccounts : i \in 0 .. MaxAccounts
    BY BoundsAssumption
  <2> QED
    BY <2>1, <2>2, <2>3
<1>3. next \in Protected
  BY DEF TabInv, Protected
<1>4. out \in {"no", "sent", "after"} /\ (out # "no" => header # 0)
  BY DEF TabInv
<1>5. tab' = [tab EXCEPT ![t] = k]
  BY DEF Render
<1>6. "still" \in Protected \cup {"home", "still"}
  OBVIOUS
<1> HIDE DEF page, header, next, out
<1>7. k \in {r \in [page : Pages, next : Protected,
                    going : Protected \cup {"home", "still"},
                    header : 0 .. MaxAccounts, out : {"no", "sent", "after"}] :
               r.out # "no" => r.header # 0}
  BY <1>1, <1>2, <1>3, <1>4, <1>6
<1> HIDE DEF k
<1> QED
  BY <1>5, <1>7 DEF TabInv

(* The account the API names is the account of the one good session. *)
LEMMA SeenIsAccount ==
  ASSUME AInv, NEW b \in Browsers
  PROVE  CurrentUser(b) \in SUBSET (1 .. MaxAccounts)
  BY DEF AInv, CurrentUser, FindById, Users

LEMMA RenderA ==
  ASSUME AInv, UNCHANGED <<users, made, call, now, jar>>,
         faults' = faults \/ Unreachable
  PROVE  AInv'
<1>1. faults' \in 0 .. MaxFaults
  BY FaultStep DEF Unreachable, AInv
<1> QED
  BY <1>1 DEF AInv, CookiesOk

LEMMA VisitW ==
  ASSUME AInv, TabInv, NEW t \in Callers, NEW g \in Goes[t], Visit(t, g[1], g[2])
  PROVE  AInv' /\ TabInv'
<1>1. g[1] \in Visits
  BY VisitorsAssumption
<1>2. CurrentUser(BrowserOf[t]) \in SUBSET (1 .. MaxAccounts)
  BY SeenIsAccount, CallersAssumption
<1>3. AInv'
  BY RenderA DEF Visit, Keeps
<1>4. {} \in SUBSET (1 .. MaxAccounts)
  OBVIOUS
<1> QED
  BY <1>1, <1>2, <1>3, <1>4, RenderKeeps DEF Visit

LEMMA PushedW ==
  ASSUME AInv, TabInv, NEW t \in Callers, Pushed(t) \/ PushedUnreachable(t)
  PROVE  AInv' /\ TabInv'
<1>1. tab[t].going \in Visits \cup Protected
  BY DEF Pushed, PushedUnreachable, TabInv, Visits
<1>2. CurrentUser(BrowserOf[t]) \in SUBSET (1 .. MaxAccounts)
  BY SeenIsAccount, CallersAssumption
<1>3. AInv'
  BY RenderA DEF Pushed, PushedUnreachable, Keeps
<1>4. {} \in SUBSET (1 .. MaxAccounts)
  OBVIOUS
<1> QED
  BY <1>1, <1>2, <1>3, <1>4, RenderKeeps DEF Pushed, PushedUnreachable

LEMMA FormsW ==
  ASSUME AInv, TabInv, NEW t \in Callers,
         SubmitLogin(t) \/ Mistype(t) \/ SubmitSignup(t)
  PROVE  AInv' /\ TabInv'
<1>1. TabInv'
  BY DEF SubmitLogin, Mistype, SubmitSignup, TabInv
<1>2. /\ Person[t].typed \in Typed /\ Person[t].password \in Passwords
      /\ Person[t].role \in Roles
  BY VisitorsAssumption
<1>3. CASE SubmitLogin(t)
  <2>1. Login(t, Person[t].typed, Person[t].password)
    BY <1>3 DEF SubmitLogin
  <2>2. faults' \in 0 .. MaxFaults
    BY <2>1 DEF Login, AInv
  <2> QED
    BY <1>1, <1>2, <2>1, <2>2, LoginA DEF Login
<1>4. CASE Mistype(t)
  <2>1. faults' \in 0 .. MaxFaults
    BY <1>4, FaultStep DEF Mistype
  <2>2. PICK p \in Passwords :
          call' = [call EXCEPT ![t] = [Idle EXCEPT !.at = "login", !.op = "login",
                                         !.email = Normal[Person[t].typed], !.password = p]]
    BY <1>4 DEF Mistype
  <2>3. UNCHANGED <<users, made, jar, now>>
    BY <1>4 DEF Mistype
  <2> QED
    BY <1>1, <1>2, <2>1, <2>2, <2>3, LoginA
<1>5. CASE SubmitSignup(t)
  BY <1>1, <1>2, <1>5, RegisterA DEF SubmitSignup
<1> QED
  BY <1>3, <1>4, <1>5

(* A tab's change of a single field. *)
LEMMA TabStep ==
  ASSUME TabInv, NEW t \in Callers,
         \/ \E g \in Protected : tab' = [tab EXCEPT ![t].going = g]
         \/ tab[t].header # 0 /\ tab' = [tab EXCEPT ![t].out = "sent"]
         \/ tab[t].header # 0 /\ tab' = [tab EXCEPT ![t].out = "after", ![t].going = "home"]
  PROVE  TabInv'
  BY DEF TabInv

LEMMA SettleFormW ==
  ASSUME AInv, TabInv, NEW t \in Callers, SettleForm(t)
  PROVE  AInv' /\ TabInv'
<1> DEFINE S == SetCookies(jar[BrowserOf[t]], call[t].cookies)
<1>1. CookiesOk(S)
  <2>1. BrowserOf[t] \in Browsers
    BY CallersAssumption
  <2> QED
    BY <2>1, SetCookiesOk DEF AInv
<1>2. /\ jar' = [jar EXCEPT ![BrowserOf[t]] = S] /\ call' = [call EXCEPT ![t] = Idle]
      /\ UNCHANGED <<users, made, now, faults>>
  BY DEF SettleForm, Relayed
<1> HIDE DEF S
<1>3. AInv'
  BY <1>1, <1>2, ReceiveA
<1>4. tab[t].next \in Protected /\ "account" \in Protected
  BY DEF TabInv, Protected
<1>5. tab' = tab \/ \E g \in Protected : tab' = [tab EXCEPT ![t].going = g]
  BY <1>4 DEF SettleForm
<1>6. CASE tab' = tab
  BY <1>3, <1>6 DEF TabInv
<1> QED
  BY <1>3, <1>5, <1>6, TabStep

LEMMA LogoutW ==
  ASSUME AInv, TabInv, NEW t \in Callers, Logout(t) \/ LogoutDone(t) \/ LogoutLost(t)
  PROVE  AInv' /\ TabInv'
<1>1. tab[t].header # 0
  BY DEF Logout, LogoutDone, LogoutLost, TabInv
<1>2. TabInv'
  BY <1>1, TabStep DEF Logout, LogoutDone, LogoutLost, GoesHome
<1>3. CASE Logout(t)
  BY <1>2, <1>3, UnchangedA DEF Logout
<1>4. CASE LogoutDone(t)
  <2>1. BrowserOf[t] \in Browsers /\ faults' \in 0 .. MaxFaults
    BY <1>4, CallersAssumption DEF AInv, LogoutDone
  <2> QED
    BY <1>2, <1>4, <2>1, IdleRequest, JarStep DEF LogoutDone, Keeps
<1>5. CASE LogoutLost(t)
  BY <1>2, <1>5, RenderA DEF LogoutLost, Keeps, Unreachable
<1> QED
  BY <1>3, <1>4, <1>5

(* Every step of the tabs keeps the invariants. *)
LEMMA StepW == AInv /\ TabInv /\ [WNext]_vars => AInv' /\ TabInv'
<1> SUFFICES ASSUME AInv, TabInv, [WNext]_vars PROVE AInv' /\ TabInv'
  OBVIOUS
<1>1. ASSUME NEW t \in Callers, Visitor(t) \/ Page(t) \/ PushedUnreachable(t) \/ LogoutLost(t)
      PROVE  AInv' /\ TabInv'
  BY <1>1, VisitW, PushedW, FormsW, SettleFormW, LogoutW DEF Visitor, Page
<1>2. CASE UNCHANGED tab /\ [ANext]_aVars
  BY <1>2, StepA DEF TabInv
<1>3. ASSUME NEW t \in Callers, ApiStep(t) \/ Refuse(t) \/ Lose(t)
      PROVE  ANext
  BY <1>3 DEF ANext
<1>4. ASSUME (\E u \in users : Delete(u)) \/ (\E b \in Browsers : Evict(b)) \/ Tick
      PROVE  ANext
  BY <1>4 DEF ANext
<1>5. CASE UNCHANGED vars
  BY <1>2, <1>5 DEF vars
<1> QED
  BY <1>1, <1>2, <1>3, <1>4, <1>5 DEF WNext

----------------------------------------------------------------------------
(* Theorems *)

(* The table, the requests, the answers and the cookies of the clients of the
   API keep their types, and the counters their bounds. *)
THEOREM AccountsAreTyped == ASpec => []TypeOK
<1>1. ASpec => []AInv
  BY InitA, StepA, PTL DEF ASpec
<1> QED
  BY <1>1, AInvTypes, PTL

(* The same with tabs as the clients, and their pages, forms and headers. *)
THEOREM TabsAreTyped == WSpec => []WTypeOK
<1>1. WSpec => [](AInv /\ TabInv)
  BY InitW, StepW, PTL DEF WSpec
<1> QED
  BY <1>1, TabTypes, PTL

(* A tab changes the accounts in no other way than a client of the API does. *)
LEMMA TabsWriteAsClients ==
  ASSUME [WNext]_vars
  PROVE  \/ UNCHANGED <<users, made>>
         \/ [ANext]_aVars
<1>1. ASSUME NEW t \in Callers, Visitor(t) \/ Page(t) \/ PushedUnreachable(t) \/ LogoutLost(t)
      PROVE  UNCHANGED <<users, made>>
  <2>1. CASE Logout(t)
    BY <2>1 DEF Logout, aVars
  <2> QED
    BY <1>1, <2>1 DEF Visitor, Page, Visit, Pushed, PushedUnreachable, Keeps, SubmitLogin,
       Mistype, SubmitSignup, Login, Register, SettleForm, LogoutDone, LogoutLost
<1>2. ASSUME NEW t \in Callers, ApiStep(t) \/ Refuse(t) \/ Lose(t)
      PROVE  ANext
  BY <1>2 DEF ANext
<1>3. ASSUME (\E u \in users : Delete(u)) \/ (\E b \in Browsers : Evict(b)) \/ Tick
      PROVE  ANext
  BY <1>3 DEF ANext
<1>4. CASE UNCHANGED vars
  BY <1>4 DEF vars
<1> QED
  BY <1>1, <1>2, <1>3, <1>4 DEF WNext

(* The steps of AddressesAreUnique and AccountsAreKept. *)
LEMMA UniqueStep ==
  ASSUME OneAccountPerEmail, [ANext]_aVars
  PROVE  OneAccountPerEmail'
<1>1. CASE users' = users
  BY <1>1 DEF OneAccountPerEmail
<1>2. ASSUME NEW c \in Callers, SaveUser(c) PROVE OneAccountPerEmail'
  <2>1. ASSUME NEW u, users' = users \cup {u}, \A v \in users : v.email # u.email
        PROVE  OneAccountPerEmail'
    BY <2>1 DEF OneAccountPerEmail
  <2> QED
    BY <1>1, <1>2, <2>1, SaveAddsOne
<1>3. ASSUME NEW u \in users, Delete(u) PROVE OneAccountPerEmail'
  BY <1>3 DEF OneAccountPerEmail, Delete
<1> QED
  BY <1>1, <1>2, <1>3, WhoWritesUsers

LEMMA KeptStep ==
  ASSUME faults \in Nat, [ANext]_aVars, faults' = faults
  PROVE  users \subseteq users'
<1>1. ASSUME NEW c \in Callers, SaveUser(c) PROVE users \subseteq users'
  BY <1>1, SaveAddsOne
<1>2. ASSUME NEW u \in users, Delete(u) PROVE FALSE
  BY <1>2 DEF Delete
<1> QED
  BY <1>1, <1>2, WhoWritesUsers

(* Two registrations of an address may interleave in any way between the
   read and the write, in any number: one account results. *)
THEOREM AddressesAreUnique == ASpec \/ WSpec => []OneAccountPerEmail
<1>1. AInit => OneAccountPerEmail
  BY DEF AInit, OneAccountPerEmail
<1>2. OneAccountPerEmail /\ [ANext]_aVars => OneAccountPerEmail'
  BY UniqueStep
<1>3. OneAccountPerEmail /\ [WNext]_vars => OneAccountPerEmail'
  <2>1. OneAccountPerEmail /\ UNCHANGED <<users, made>> => OneAccountPerEmail'
    BY DEF OneAccountPerEmail
  <2> QED
    BY <1>2, <2>1, TabsWriteAsClients
<1>4. ASpec => []OneAccountPerEmail
  BY <1>1, <1>2, PTL DEF ASpec
<1>5. WSpec => []OneAccountPerEmail
  BY <1>1, <1>3, PTL DEF WSpec, WInit
<1> QED
  BY <1>4, <1>5

(* No step but an operator's deletion takes an account away or changes its
   password or its role. *)
THEOREM AccountsAreKept == ASpec \/ WSpec => AccountsKept
<1>1. AInv => faults \in Nat
  BY DEF AInv
<1>2. AInv /\ [ANext]_aVars => [faults' = faults => users \subseteq users']_aVars
  BY <1>1, KeptStep
<1>3. AInv /\ [WNext]_vars => [faults' = faults => users \subseteq users']_aVars
  BY <1>1, KeptStep, TabsWriteAsClients
<1>4. ASpec => AccountsKept
  BY <1>2, InitA, StepA, PTL DEF ASpec, AccountsKept
<1>5. WSpec => AccountsKept
  BY <1>3, InitW, StepW, PTL DEF WSpec, AccountsKept
<1> QED
  BY <1>4, <1>5

(* The body of SessionIsEarned. *)
Earned ==
  \A c \in Callers :
    call[c].at \in Waiting /\ call'[c].at = "answered" =>
      \A t \in call'[c].cookies :
        \E u \in users' : /\ u.id = t.sub /\ u.role = t.role
                          /\ u.email = call[c].email
                          /\ u.password = call[c].password

LEMMA OthersWait ==
  ASSUME AInv,
         \A c \in Callers : \/ call'[c] = call[c] \/ call[c].at \notin Waiting
                            \/ call'[c].at # "answered" \/ call'[c].cookies = {}
  PROVE  Earned
  BY DEF Earned, Waiting

LEMMA GrantedIsEarned ==
  ASSUME AInv, NEW c \in Callers, NEW status, NEW u \in users',
         Answer(c, status, IssueTokens(u)),
         u.email = call[c].email, u.password = call[c].password
  PROVE  Earned
<1>1. \A t \in IssueTokens(u) : t.sub = u.id /\ t.role = u.role
  BY DEF IssueTokens
<1>2. \A d \in Callers : d # c => call'[d] = call[d]
  BY DEF AInv, Answer
<1>3. call'[c].cookies = IssueTokens(u)
  <2>1. call'[c] = [call[c] EXCEPT !.at = "answered", !.status = status,
                                   !.cookies = IssueTokens(u)]
    BY DEF AInv, Answer
  <2>2. call[c] \in Requests
    BY DEF AInv
  <2> QED
    BY <2>1, <2>2 DEF Requests
<1> QED
  BY <1>1, <1>2, <1>3 DEF Earned, Waiting

LEMMA RefusedIsEarned ==
  ASSUME AInv, NEW c \in Callers, NEW status, Answer(c, status, {})
  PROVE  Earned
<1>1. \A d \in Callers : d # c => call'[d] = call[d]
  BY DEF AInv, Answer
<1>2. call'[c].cookies = {}
  BY DEF AInv, Answer, Requests
<1> QED
  BY <1>1, <1>2, OthersWait

LEMMA ApiEarned ==
  ASSUME AInv, NEW c \in Callers, ApiStep(c) \/ Refuse(c) \/ Lose(c)
  PROVE  Earned
<1>1. CASE CheckEmail(c)
  <2>1. CASE call' = [call EXCEPT ![c].at = "save"]
    BY <2>1, OthersWait DEF AInv, Requests
  <2> QED
    BY <1>1, <2>1, RefusedIsEarned DEF CheckEmail
<1>2. CASE SaveUser(c)
  <2>1. CASE Answer(c, 500, {})
    BY <2>1, RefusedIsEarned
  <2>2. CASE ~Answer(c, 500, {})
    <3> PICK u : u = [id |-> made + 1, email |-> call[c].email,
                      password |-> call[c].password, role |-> call[c].role]
      OBVIOUS
    <3>1. u \in users' /\ Answer(c, 201, IssueTokens(u))
      BY <1>2, <2>2 DEF SaveUser
    <3> QED
      BY <3>1, GrantedIsEarned
  <2> QED
    BY <2>1, <2>2
<1>3. CASE Compare(c)
  <2>1. CASE Answer(c, 401, {})
    BY <2>1, RefusedIsEarned
  <2>2. ASSUME NEW u \in users, u.email = call[c].email, u.password = call[c].password,
               Answer(c, 200, IssueTokens(u))
        PROVE  Earned
    BY <1>3, <2>2, GrantedIsEarned DEF Compare
  <2> QED
    BY <1>3, <2>1, <2>2 DEF Compare, FindByEmail
<1>4. CASE Refuse(c)
  BY <1>4, RefusedIsEarned DEF Refuse
<1>5. CASE Lose(c)
  BY <1>5, OthersWait, IdleRequest DEF Lose, AInv
<1> QED
  BY <1>1, <1>2, <1>3, <1>4, <1>5 DEF ApiStep

(* A step of any other kind answers nobody who waits. *)
LEMMA ElseEarned ==
  ASSUME AInv,
         \/ UNCHANGED call
         \/ \E c \in Callers : \/ call[c].at \in {"idle", "answered"}
                                    /\ \E k : call' = [call EXCEPT ![c] = k]
  PROVE  Earned
<1>1. CASE UNCHANGED call
  BY <1>1, OthersWait
<1>2. ASSUME NEW c \in Callers, call[c].at \in {"idle", "answered"}, NEW k,
             call' = [call EXCEPT ![c] = k]
      PROVE  Earned
  BY <1>2, OthersWait DEF AInv, Waiting
<1> QED
  BY <1>1, <1>2

(* An answer that sets session cookies for a registration or a login sets
   them for the account of the address and the password that were typed, in
   whatever order registrations, logins and deletions interleave. *)
THEOREM SessionsAreEarned == ASpec \/ WSpec => SessionIsEarned
<1>1. ASSUME AInv, [ANext]_aVars PROVE Earned
  <2>1. ASSUME NEW c \in Callers, NEW t \in Typed, NEW p \in Passwords,
               Login(c, t, p) \/ \E r \in Roles : Register(c, t, p, r)
        PROVE  Earned
    BY <1>1, <2>1, ElseEarned DEF Login, Register
  <2>2. ASSUME NEW c \in Callers, ApiStep(c) \/ Refuse(c) \/ Lose(c)
        PROVE  Earned
    BY <1>1, <2>2, ApiEarned
  <2>3. ASSUME NEW c \in Callers, Refresh(c)
        PROVE  Earned
    <3>1. call[c].at = "idle"
      BY <2>3 DEF Refresh
    <3> DEFINE found == UNION {FindById(t.sub) :
                                 t \in Verified({t \in jar[BrowserOf[c]] : t.typ = "refresh"},
                                                "refresh")}
               k(status, cookies) == [Idle EXCEPT !.at = "answered", !.op = "refresh",
                                                  !.status = status, !.cookies = cookies]
    <3>3. \/ call' = [call EXCEPT ![c] = k(400, {})]
          \/ call' = [call EXCEPT ![c] = k(401, {})]
          \/ call' = [call EXCEPT ![c] = k(404, {})]
          \/ \E u \in found : call' = [call EXCEPT ![c] = k(200, IssueTokens(u))]
      BY <2>3, Zenon DEF Refresh
    <3>2. \E new : call' = [call EXCEPT ![c] = new]
      <4> HIDE DEF k, found
      <4> QED
        BY <3>3
    <3> QED
      BY <1>1, <3>1, <3>2, ElseEarned
  <2>4. ASSUME NEW c \in Callers, Receive(c)
        PROVE  Earned
    BY <1>1, <2>4, ElseEarned DEF Receive
  <2>5. CASE (\E u \in users : Delete(u)) \/ (\E b \in Browsers : Evict(b)) \/ Tick
               \/ Quiet \/ UNCHANGED aVars
    BY <1>1, <2>5, ElseEarned DEF Delete, Evict, Tick, Quiet, aVars
  <2> QED
    BY <1>1, <2>1, <2>2, <2>3, <2>4, <2>5 DEF ANext
<1>2. ASSUME AInv, [WNext]_vars PROVE Earned
  <2>1. ASSUME NEW t \in Callers, SubmitLogin(t) \/ Mistype(t) \/ SubmitSignup(t)
        PROVE  Earned
    BY <1>2, <2>1, ElseEarned DEF SubmitLogin, Mistype, SubmitSignup, Login, Register
  <2>2. ASSUME NEW t \in Callers, SettleForm(t)
        PROVE  Earned
    BY <1>2, <2>2, ElseEarned DEF SettleForm
  <2>3. ASSUME NEW t \in Callers,
               \/ \E g \in Goes[t] : Visit(t, g[1], g[2])
               \/ Pushed(t) \/ PushedUnreachable(t)
               \/ Logout(t) \/ LogoutDone(t) \/ LogoutLost(t)
        PROVE  Earned
    <3>1. UNCHANGED call
      BY <2>3 DEF Visit, Pushed, PushedUnreachable, Logout, LogoutDone, LogoutLost, Keeps, aVars
    <3> QED
      BY <1>2, <3>1, ElseEarned
  <2>4. ASSUME NEW t \in Callers, ApiStep(t) \/ Refuse(t) \/ Lose(t)
        PROVE  Earned
    BY <1>2, <2>4, ApiEarned
  <2>5. CASE (\E u \in users : Delete(u)) \/ (\E b \in Browsers : Evict(b)) \/ Tick
               \/ UNCHANGED vars
    BY <1>2, <2>5, ElseEarned DEF Delete, Evict, Tick, vars, aVars
  <2> QED
    BY <1>2, <2>1, <2>2, <2>3, <2>4, <2>5 DEF WNext, Visitor, Page
<1>3. AInv /\ [ANext]_aVars => [Earned]_aVars
  BY <1>1
<1>4. AInv /\ [WNext]_vars => [Earned]_aVars
  BY <1>2
<1>5. ASpec => [][Earned]_aVars
  BY <1>3, InitA, StepA, PTL DEF ASpec
<1>6. WSpec => [][Earned]_aVars
  BY <1>4, InitW, StepW, PTL DEF WSpec
<1> QED
  BY <1>5, <1>6 DEF SessionIsEarned, Earned

(* The accounts whose session in the browser is good: those whom PageFitsVisitor
   names, and whom the API names when it is asked. *)
Good(b) ==
  {u \in users : \E k \in jar[b] : k.typ = "access" /\ now < k.exp /\ k.sub = u.id}

LEMMA GoodIsSeen ==
  ASSUME AInv, NEW b \in Browsers
  PROVE  /\ Good(b) = {} <=> CurrentUser(b) = {}
         /\ \A u \in Good(b) : IsHost(b) <=> u.role = "host"
<1>1. CookiesOk(jar[b])
  BY DEF AInv
<1>2. \A k \in jar[b] : k \in Tokens
  BY <1>1 DEF CookiesOk
<1>3. Good(b) = {} <=> CurrentUser(b) = {}
  BY DEF Good, CurrentUser, FindById, Verified
<1>4. ASSUME NEW u \in Good(b)
      PROVE  IsHost(b) <=> u.role = "host"
  <2>1. PICK k \in jar[b] : k.typ = "access" /\ now < k.exp /\ k.sub = u.id
    BY DEF Good
  <2>2. u \in users
    BY DEF Good
  <2>3. u.role = k.role
    BY <1>1, <2>1, <2>2 DEF CookiesOk
  <2>4. \A t \in Verified(jar[b], "access") : t = k
    BY <1>1, <2>1 DEF Verified, CookiesOk, OneOfAKind
  <2>5. k \in Verified(jar[b], "access")
    BY <2>1 DEF Verified
  <2> QED
    BY <2>3, <2>4, <2>5 DEF IsHost
<1> QED
  BY <1>3, <1>4

(* The body of PageFitsVisitor, for a tab. *)
Fits(t) ==
  (tab'[t].page # tab[t].page /\ faults' = faults) =>
    LET good == {u \in users : \E k \in jar[BrowserOf[t]] :
                    k.typ = "access" /\ now < k.exp /\ k.sub = u.id}
    IN /\ tab'[t].page = "account" => good # {}
       /\ tab'[t].page = "host" => \E u \in good : u.role = "host"
       /\ tab'[t].page = "forbidden" => \E u \in good : u.role # "host"
       /\ tab'[t].page = "login" => good = {}

LEMMA RenderFits ==
  ASSUME AInv, TabInv, NEW t \in Callers, NEW p \in Visits \cup Protected, NEW how,
         Render(t, p, how, CurrentUser(BrowserOf[t]))
  PROVE  \A s \in Callers : Fits(s)
<1>1. \A s \in Callers : s # t => tab'[s] = tab[s]
  BY DEF Render, TabInv
<1>2. tab'[t].page = Landing(BrowserOf[t], p, CurrentUser(BrowserOf[t]))
  BY DEF Render, TabInv
<1>3. BrowserOf[t] \in Browsers
  BY CallersAssumption
<1> DEFINE good == Good(BrowserOf[t])
<1>4. /\ tab'[t].page = "account" => good # {}
      /\ tab'[t].page = "host" => \E u \in good : u.role = "host"
      /\ tab'[t].page = "forbidden" => \E u \in good : u.role # "host"
      /\ tab'[t].page = "login" => good = {}
  BY <1>2, <1>3, GoodIsSeen DEF Landing, Protected, Visits
<1>5. Fits(t)
  BY <1>4 DEF Fits, Good
<1> QED
  BY <1>1, <1>5 DEF Fits

LEMMA ElseFits ==
  ASSUME AInv, TabInv,
         \/ UNCHANGED tab \/ faults' # faults
         \/ \E t \in Callers : \E k : tab' = [tab EXCEPT ![t] = k] /\ k.page = tab[t].page
  PROVE  \A s \in Callers : Fits(s)
  BY DEF Fits, TabInv

(* What a page shows fits who is signed in at the moment it is rendered, for
   any number of tabs that share a browser and in any order of their logins,
   logouts and redirects: the API names the account of the one access cookie
   again, whose role nothing changes. *)
THEOREM PagesFitVisitors == WSpec => PageFitsVisitor
<1>1. ASSUME AInv, TabInv, [WNext]_vars
      PROVE  \A s \in Callers : Fits(s)
  <2>0. faults \in Nat
    BY <1>1 DEF AInv
  <2>1. ASSUME NEW t \in Callers, NEW g \in Goes[t], Visit(t, g[1], g[2])
        PROVE  \A s \in Callers : Fits(s)
    <3>1. g[1] \in Visits
      BY VisitorsAssumption
    <3>2. CASE Unreachable
      BY <1>1, <2>0, <3>2, ElseFits DEF Unreachable
    <3> QED
      BY <1>1, <2>1, <3>1, <3>2, RenderFits DEF Visit
  <2>2. ASSUME NEW t \in Callers, Pushed(t)
        PROVE  \A s \in Callers : Fits(s)
    <3>1. tab[t].going \in Visits \cup Protected
      BY <1>1, <2>2 DEF Pushed, TabInv, Visits
    <3> QED
      BY <1>1, <2>2, <3>1, RenderFits DEF Pushed
  <2>3. ASSUME NEW t \in Callers, PushedUnreachable(t) \/ LogoutLost(t)
        PROVE  \A s \in Callers : Fits(s)
    BY <1>1, <2>0, <2>3, ElseFits DEF PushedUnreachable, Unreachable, LogoutLost
  <2>4. ASSUME NEW t \in Callers, SubmitLogin(t) \/ Mistype(t) \/ SubmitSignup(t)
        PROVE  \A s \in Callers : Fits(s)
    BY <1>1, <2>4, ElseFits DEF SubmitLogin, Mistype, SubmitSignup
  <2>5. ASSUME NEW t \in Callers, SettleForm(t) \/ Logout(t) \/ LogoutDone(t)
        PROVE  \A s \in Callers : Fits(s)
    <3>1. \A s \in Callers : tab'[s].page = tab[s].page
      BY <1>1, <2>5 DEF SettleForm, Logout, LogoutDone, GoesHome, TabInv
    <3> QED
      BY <3>1 DEF Fits
  <2>6. CASE UNCHANGED tab
    BY <1>1, <2>6, ElseFits
  <2> QED
    BY <1>1, <2>1, <2>2, <2>3, <2>4, <2>5, <2>6 DEF WNext, Visitor, Page, vars
<1> DEFINE AllFit ==
      \A t \in Callers :
        (tab'[t].page # tab[t].page /\ faults' = faults) =>
          LET good == {u \in users : \E k \in jar[BrowserOf[t]] :
                          k.typ = "access" /\ now < k.exp /\ k.sub = u.id}
          IN /\ tab'[t].page = "account" => good # {}
             /\ tab'[t].page = "host" => \E u \in good : u.role = "host"
             /\ tab'[t].page = "forbidden" => \E u \in good : u.role # "host"
             /\ tab'[t].page = "login" => good = {}
<1>2. AInv /\ TabInv /\ [WNext]_vars => [AllFit]_vars
  BY <1>1 DEF Fits
<1>3. [][AllFit]_vars => PageFitsVisitor
  BY DEF PageFitsVisitor
<1> QED
  BY <1>2, <1>3, InitW, StepW, PTL DEF WSpec
=============================================================================
