------------------------------ MODULE Accounts ------------------------------
(***************************************************************************)
(* The identity context (BC-7): registration, login and refresh over HTTP, *)
(* the two session cookies, and the browsers that keep them.               *)
(*                                                                         *)
(* A caller has one request in flight at a time; callers of one browser    *)
(* share its cookie jar.  A registration reads the table, hashes for a     *)
(* while and writes, so two of them interleave; the unique index on the    *)
(* email decides.  One unit of `now' is the access token's 15 minutes.  A  *)
(* browser whose clock is behind still sends a cookie after its token has  *)
(* expired: Evict is when it stops.                                        *)
(***************************************************************************)
EXTENDS Naturals, FiniteSets

CONSTANTS Callers, Browsers, BrowserOf, \* who calls, from which browser
          Typed, Normal,                \* addresses as typed, and Email.create's value
          Passwords, RefreshTtl,        \* the refresh token's life, in units of 15 minutes
          MaxAccounts, MaxTime, MaxFaults

ASSUME CallersAssumption == BrowserOf \in [Callers -> Browsers] /\ Typed # {}
ASSUME BoundsAssumption ==
  /\ RefreshTtl \in Nat \ {0}
  /\ MaxAccounts \in Nat /\ MaxTime \in Nat /\ MaxFaults \in Nat

VARIABLES users, made, call, jar, now, faults
aVars == <<users, made, call, jar, now, faults>>

Emails == {Normal[t] : t \in Typed}
Roles == {"guest", "host"}
Users == [id : 1..MaxAccounts, email : Emails, password : Passwords, role : Roles]

(* A token: its typ, its subject and role claims, and when it expires. *)
Tokens == [typ : {"access", "refresh"}, sub : 1..MaxAccounts, role : Roles,
           exp : 0..(MaxTime + RefreshTtl)]
Jars == {s \in SUBSET Tokens : \A k \in {"access", "refresh"} :
             Cardinality({t \in s : t.typ = k}) <= 1}

Idle == [at |-> "idle", op |-> "none", email |-> CHOOSE e \in Emails : TRUE,
         password |-> "", role |-> "guest", status |-> 0, cookies |-> {}]
Waiting == {"check", "save", "login"}

TypeOK ==
  /\ users \subseteq Users /\ made \in 0..MaxAccounts
  /\ jar \in [Browsers -> Jars]
  /\ now \in 0..MaxTime /\ faults \in 0..MaxFaults
  /\ \A c \in Callers :
       /\ call[c].at \in Waiting \cup {"idle", "answered"}
       /\ call[c].op \in {"none", "register", "login", "refresh"}
       /\ call[c].email \in Emails /\ call[c].role \in Roles
       /\ call[c].status \in {0, 200, 201, 400, 401, 404, 409, 500}
       /\ call[c].cookies \in Jars

AInit ==
  /\ users = {} /\ made = 0
  /\ call = [c \in Callers |-> Idle]
  /\ jar = [b \in Browsers |-> {}]
  /\ now = 0 /\ faults = 0

----------------------------------------------------------------------------
(* Tokens and cookies *)

IssueTokens(u) ==
  {[typ |-> "access", sub |-> u.id, role |-> u.role, exp |-> now + 1],
   [typ |-> "refresh", sub |-> u.id, role |-> u.role, exp |-> now + RefreshTtl]}

(* jwt.verify with the secret of the kind: the signature, exp and typ. *)
Verified(cookies, kind) == {t \in cookies : t.typ = kind /\ now < t.exp}

FindByEmail(e) == {u \in users : u.email = e}
FindById(id) == {u \in users : u.id = id}

Answer(c, status, cookies) ==
  call' = [call EXCEPT ![c].at = "answered", ![c].status = status, ![c].cookies = cookies]

----------------------------------------------------------------------------
(* Registration and login *)

Register(c, typed, password, role) ==
  /\ call[c].at = "idle"
  /\ call' = [call EXCEPT ![c] = [Idle EXCEPT !.at = "check", !.op = "register",
                                    !.email = Normal[typed], !.password = password, !.role = role]]
  /\ UNCHANGED <<users, made, jar, now, faults>>

(* The read; bcrypt runs between it and the write. *)
CheckEmail(c) ==
  /\ call[c].at = "check"
  /\ IF FindByEmail(call[c].email) # {}
       THEN Answer(c, 409, {})
       ELSE call' = [call EXCEPT ![c].at = "save"]
  /\ UNCHANGED <<users, made, jar, now, faults>>

(* Mutant of SaveUser: the upsert is keyed by the email. *)
SaveUserByEmail(c) ==
  /\ call[c].at = "save"
  /\ made < MaxAccounts
  /\ LET u == [id |-> made + 1, email |-> call[c].email,
               password |-> call[c].password, role |-> call[c].role]
     IN /\ users' = (users \ FindByEmail(call[c].email)) \cup {u}
        /\ made' = made + 1
        /\ Answer(c, 201, IssueTokens(u))
  /\ UNCHANGED <<jar, now, faults>>

(* Mutant of SaveUser: no unique index. *)
SaveUserTwice(c) ==
  /\ call[c].at = "save"
  /\ made < MaxAccounts
  /\ LET u == [id |-> made + 1, email |-> call[c].email,
               password |-> call[c].password, role |-> call[c].role]
     IN /\ users' = users \cup {u}
        /\ made' = made + 1
        /\ Answer(c, 201, IssueTokens(u))
  /\ UNCHANGED <<jar, now, faults>>

(* User.create with a fresh id and the upsert by id.  The unique index on the
   email refuses a second row, and nothing translates that error. *)
SaveUser(c) ==
  /\ call[c].at = "save"
  /\ \/ /\ FindByEmail(call[c].email) # {}
        /\ Answer(c, 500, {})
        /\ UNCHANGED <<users, made>>
     \/ /\ FindByEmail(call[c].email) = {}
        /\ made < MaxAccounts
        /\ LET u == [id |-> made + 1, email |-> call[c].email,
                     password |-> call[c].password, role |-> call[c].role]
           IN /\ users' = users \cup {u}
              /\ made' = made + 1
              /\ Answer(c, 201, IssueTokens(u))
  /\ UNCHANGED <<jar, now, faults>>

Login(c, typed, password) ==
  /\ call[c].at = "idle"
  /\ call' = [call EXCEPT ![c] = [Idle EXCEPT !.at = "login", !.op = "login",
                                    !.email = Normal[typed], !.password = password]]
  /\ UNCHANGED <<users, made, jar, now, faults>>

(* Mutant of Compare: the password is not looked at. *)
CompareNothing(c) ==
  /\ call[c].at = "login"
  /\ IF FindByEmail(call[c].email) # {}
       THEN \E u \in FindByEmail(call[c].email) : Answer(c, 200, IssueTokens(u))
       ELSE Answer(c, 401, {})
  /\ UNCHANGED <<users, made, jar, now, faults>>

(* An unknown address and a wrong password have the same answer. *)
Compare(c) ==
  /\ call[c].at = "login"
  /\ LET match == {u \in FindByEmail(call[c].email) : u.password = call[c].password}
     IN IF match # {}
          THEN \E u \in match : Answer(c, 200, IssueTokens(u))
          ELSE Answer(c, 401, {})
  /\ UNCHANGED <<users, made, jar, now, faults>>

(* POST /auth/refresh with the browser's cookies.  Only the branch without a
   refresh cookie clears. *)
Refresh(c) ==
  /\ call[c].at = "idle"
  /\ LET sent == {t \in jar[BrowserOf[c]] : t.typ = "refresh"}
         claims == Verified(sent, "refresh")
         found == UNION {FindById(t.sub) : t \in claims}
         ended(status, cookies) ==
           call' = [call EXCEPT ![c] = [Idle EXCEPT !.at = "answered", !.op = "refresh",
                                          !.status = status, !.cookies = cookies]]
     IN \/ sent = {} /\ ended(400, {})
        \/ sent # {} /\ claims = {} /\ ended(401, {})
        \/ claims # {} /\ found = {} /\ ended(404, {})
        \/ \E u \in found : ended(200, IssueTokens(u))
  /\ UNCHANGED <<users, made, jar, now, faults>>

----------------------------------------------------------------------------
(* The answer's way back, faults and time *)

Clears(c) == call[c].op = "refresh" /\ call[c].status = 400

(* Set-Cookie replaces a cookie of the same name. *)
SetCookies(old, new) == {t \in old : \A n \in new : n.typ # t.typ} \cup new

Receive(c) ==
  /\ call[c].at = "answered"
  /\ jar' = [jar EXCEPT ![BrowserOf[c]] =
               IF Clears(c) THEN {} ELSE SetCookies(@, call[c].cookies)]
  /\ call' = [call EXCEPT ![c] = Idle]
  /\ UNCHANGED <<users, made, now, faults>>

(* The throttle's 429, a failed query: refused before anything is done. *)
Refuse(c) ==
  /\ call[c].at \in Waiting /\ faults < MaxFaults
  /\ faults' = faults + 1
  /\ Answer(c, 500, {})
  /\ UNCHANGED <<users, made, jar, now>>

(* The answer is lost, its cookies with it. *)
Lose(c) ==
  /\ call[c].at = "answered" /\ faults < MaxFaults
  /\ faults' = faults + 1
  /\ call' = [call EXCEPT ![c] = Idle]
  /\ UNCHANGED <<users, made, jar, now>>

(* An operator removes an account; no code of the repository does. *)
Delete(u) ==
  /\ u \in users /\ faults < MaxFaults
  /\ faults' = faults + 1
  /\ users' = users \ {u}
  /\ UNCHANGED <<made, call, jar, now>>

Tick == now < MaxTime /\ now' = now + 1 /\ UNCHANGED <<users, made, call, jar, faults>>

(* Max-Age has passed on the browser's clock. *)
Evict(b) ==
  /\ \E t \in jar[b] : t.exp <= now
  /\ jar' = [jar EXCEPT ![b] = {t \in @ : now < t.exp}]
  /\ UNCHANGED <<users, made, call, now, faults>>

ApiStep(c) == CheckEmail(c) \/ SaveUser(c) \/ Compare(c)

(* Every visitor has stopped asking. *)
Quiet == (\A c \in Callers : call[c].at = "idle") /\ UNCHANGED aVars

ANext ==
  \/ \E c \in Callers, t \in Typed, p \in Passwords :
       \/ \E r \in Roles : Register(c, t, p, r)
       \/ Login(c, t, p)
  \/ \E c \in Callers :
       \/ ApiStep(c) \/ Refresh(c) \/ Receive(c) \/ Refuse(c) \/ Lose(c)
  \/ \E u \in users : Delete(u)
  \/ \E b \in Browsers : Evict(b)
  \/ Tick
  \/ Quiet

ASpec == AInit /\ [][ANext]_aVars

----------------------------------------------------------------------------
(* Properties *)

(* However registrations interleave between the read and the write, and in
   whatever case the address is typed, an address names one account. *)
OneAccountPerEmail ==
  \A u, v \in users : u.email = v.email => u = v

(* Nobody takes an account over: a step that is not a deletion keeps every
   account with its password and role. *)
AccountsKept ==
  [][faults' = faults => users \subseteq users']_aVars

(* An answer that carries a session to a registration or a login names the
   account of the address and the password that were typed. *)
SessionIsEarned ==
  [][\A c \in Callers :
       call[c].at \in Waiting /\ call'[c].at = "answered" =>
         \A t \in call'[c].cookies :
           \E u \in users' : /\ u.id = t.sub /\ u.role = t.role
                             /\ u.email = call[c].email
                             /\ u.password = call[c].password]_aVars

(* "Email already in use.": a registration that finds its address taken, by
   the read or by the index, is answered 409. *)
TakenIsConflict ==
  [][\A c \in Callers :
       (call[c].at \in {"check", "save"} /\ call'[c].at = "answered"
          /\ faults' = faults /\ FindByEmail(call[c].email) # {})
         => call'[c].status = 409]_aVars

(* "Clear both session cookies (logout / invalid refresh)": after a refused
   refresh has arrived no session cookie is left. *)
RefusedRefreshClears ==
  [][\A c \in Callers :
       (call[c].op = "refresh" /\ call[c].status # 200
          /\ call'[c].at = "idle" /\ faults' = faults)
         => jar'[BrowserOf[c]] = {}]_aVars
=============================================================================
