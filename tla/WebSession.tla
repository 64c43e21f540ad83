----------------------------- MODULE WebSession -----------------------------
(***************************************************************************)
(* The session as the web application sees it: tabs that share a browser's *)
(* cookie jar, the login, signup and logout bridges, the server-side       *)
(* guards, and the header in the root layout.                              *)
(*                                                                         *)
(* A tab is a caller of Accounts: its form has one request in flight.  The *)
(* server renders a page from the cookies the browser sends with that      *)
(* request.  A link or a redirect leaves the root layout as it is,         *)
(* router.refresh() renders it again but keeps the client state of what is *)
(* still there, a reload starts afresh.  What a form or the logout button  *)
(* pushes is in `going' until it is rendered.                              *)
(***************************************************************************)
EXTENDS Accounts

CONSTANTS Person,  \* what the visitor of a tab types: [typed, password, role]
          Goes     \* where the visitor goes, by a "link" or by a "reload"

(* The addresses of the application's pages.                               *)
Visits == {"home", "login", "signup", "account", "host"}

ASSUME VisitorsAssumption ==
  \A t \in Callers :
    /\ Person[t].typed \in Typed /\ Person[t].password \in Passwords
    /\ Person[t].role \in Roles
    /\ Goes[t] \subseteq Visits \X {"link", "reload"}

VARIABLE tab
vars == <<aVars, tab>>

Protected == {"account", "host"}
Pages == Protected \cup {"home", "login", "signup", "forbidden"}

(* header is the account the header shows, 0 for the login links; out is the
   logout button: pressed and waiting, or answered with its flag still set. *)
WTypeOK ==
  /\ TypeOK
  /\ \A t \in Callers :
       /\ tab[t].page \in Pages /\ tab[t].next \in Protected
       /\ tab[t].going \in Protected \cup {"home", "still"}
       /\ tab[t].header \in 0..MaxAccounts
       /\ tab[t].out \in {"no", "sent", "after"}
       /\ tab[t].out # "no" => tab[t].header # 0

WInit ==
  /\ AInit
  /\ tab = [t \in Callers |-> [page |-> "home", next |-> "account", going |-> "still",
                               header |-> 0, out |-> "no"]]

----------------------------------------------------------------------------
(* The server's side of a page *)

(* getCurrentUser: GET /auth/me with the cookies; the account is read again. *)
CurrentUser(b) ==
  UNION {{u.id : u \in FindById(t.sub)} : t \in Verified(jar[b], "access")}

(* Mutant of IsHost: any signed-in visitor. *)
IsAnyone(b) == CurrentUser(b) # {}

IsHost(b) == \E t \in Verified(jar[b], "access") : t.role = "host"

(* The page a request for p ends on: requireUser, requireHost, and the login
   and signup pages, which skip the form for a visitor who is signed in. *)
Landing(b, p, seen) ==
  CASE p \in Protected /\ seen = {} -> "login"
    [] p = "host" /\ seen # {} /\ ~IsHost(b) -> "forbidden"
    [] p \in {"login", "signup"} /\ seen # {} -> "account"
    [] OTHER -> p

Keeps == UNCHANGED <<users, made, call, now>>

(* Tab t asks for p and the API says who is there.  Where the visitor was
   headed is kept by the login form, and by its request while it lasts. *)
Render(t, p, how, seen) ==
  LET page == Landing(BrowserOf[t], p, seen)
      header == IF how = "link" THEN tab[t].header
                ELSE IF seen = {} THEN 0 ELSE CHOOSE id \in seen : TRUE
      next == IF page = "login" /\ p \in Protected THEN p
              ELSE IF page # "login" /\ call[t].op = "login" THEN tab[t].next
              ELSE "account"
      out == IF header = 0 \/ how = "reload" THEN "no" ELSE tab[t].out
  IN tab' = [tab EXCEPT ![t] = [page |-> page, next |-> next, going |-> "still",
                                header |-> header, out |-> out]]

(* An unreachable API counts as signed out. *)
Unreachable == faults < MaxFaults /\ faults' = faults + 1

Visit(t, p, how) ==
  /\ tab[t].going = "still"
  /\ how = "link" => p # tab[t].page
  /\ \/ Render(t, p, how, CurrentUser(BrowserOf[t])) /\ UNCHANGED faults
     \/ Render(t, p, how, {}) /\ Unreachable
  /\ Keeps /\ UNCHANGED jar

(* router.push and router.refresh. *)
Pushed(t) ==
  /\ tab[t].going # "still"
  /\ Render(t, tab[t].going, "refresh", CurrentUser(BrowserOf[t]))
  /\ Keeps /\ UNCHANGED <<jar, faults>>

PushedUnreachable(t) ==
  /\ tab[t].going # "still"
  /\ Render(t, tab[t].going, "refresh", {})
  /\ Unreachable
  /\ Keeps /\ UNCHANGED jar

----------------------------------------------------------------------------
(* The forms and their bridges *)

SubmitLogin(t) ==
  /\ tab[t].page = "login" /\ tab[t].going = "still"
  /\ Login(t, Person[t].typed, Person[t].password)
  /\ UNCHANGED tab

(* A slip of the keyboard. *)
Mistype(t) ==
  /\ tab[t].page = "login" /\ tab[t].going = "still"
  /\ call[t].at = "idle" /\ faults < MaxFaults
  /\ faults' = faults + 1
  /\ \E p \in Passwords \ {Person[t].password} :
       call' = [call EXCEPT ![t] = [Idle EXCEPT !.at = "login", !.op = "login",
                                      !.email = Normal[Person[t].typed], !.password = p]]
  /\ UNCHANGED <<users, made, jar, now, tab>>

SubmitSignup(t) ==
  /\ tab[t].page = "signup" /\ tab[t].going = "still"
  /\ Register(t, Person[t].typed, Person[t].password, Person[t].role)
  /\ UNCHANGED tab

(* Mutant of Relayed: set instead of append, so only the last one is kept. *)
RelayedLast(t) == {k \in call[t].cookies : k.typ = "refresh"}

(* relayAuthCookies: the API's cookies, on the web's origin. *)
Relayed(t) == call[t].cookies

(* The form's request ends.  A success pushes `next' and refreshes, also when
   the visitor has left the form meanwhile; an error is shown on the form. *)
SettleForm(t) ==
  /\ call[t].at = "answered"
  /\ jar' = [jar EXCEPT ![BrowserOf[t]] = SetCookies(@, Relayed(t))]
  /\ call' = [call EXCEPT ![t] = Idle]
  /\ tab' = IF call[t].status \in {200, 201}
              THEN [tab EXCEPT ![t].going =
                      IF call[t].op = "login" THEN tab[t].next ELSE "account"]
              ELSE tab
  /\ UNCHANGED <<users, made, now, faults>>

(* The logout button: shown by a header with an account, disabled once pressed. *)
Logout(t) ==
  /\ tab[t].header # 0 /\ tab[t].out = "no" /\ tab[t].going = "still"
  /\ tab' = [tab EXCEPT ![t].out = "sent"]
  /\ UNCHANGED aVars

GoesHome(t) ==
  tab' = [tab EXCEPT ![t].out = "after", ![t].going = "home"]

(* The bridge expires the cookies. *)
LogoutDone(t) ==
  /\ tab[t].out = "sent"
  /\ jar' = [jar EXCEPT ![BrowserOf[t]] = {}]
  /\ GoesHome(t)
  /\ Keeps /\ UNCHANGED faults

(* The call fails: the visitor is sent home all the same. *)
LogoutLost(t) ==
  /\ tab[t].out = "sent" /\ faults < MaxFaults
  /\ faults' = faults + 1
  /\ GoesHome(t)
  /\ Keeps /\ UNCHANGED jar

----------------------------------------------------------------------------
Visitor(t) ==
  \/ \E g \in Goes[t] : Visit(t, g[1], g[2])
  \/ SubmitLogin(t) \/ Mistype(t) \/ SubmitSignup(t) \/ Logout(t)

Page(t) == Pushed(t) \/ SettleForm(t) \/ LogoutDone(t)

WNext ==
  \/ \E t \in Callers :
       \/ Visitor(t) \/ Page(t) \/ PushedUnreachable(t) \/ LogoutLost(t)
       \/ (ApiStep(t) \/ Refuse(t) \/ Lose(t)) /\ UNCHANGED tab
  \/ ((\E u \in users : Delete(u)) \/ (\E b \in Browsers : Evict(b)) \/ Tick)
       /\ UNCHANGED tab

WSpec == WInit /\ [][WNext]_vars

(* The server answers, the page reacts, and a visitor who has an account and
   stays at the login form types what is right. *)
Fairness ==
  \A t \in Callers :
    /\ WF_vars(Page(t)) /\ WF_vars(ApiStep(t) /\ UNCHANGED tab)
    /\ WF_vars(SubmitLogin(t))

FairSpec == WSpec /\ Fairness

----------------------------------------------------------------------------
(* Properties *)

(* Whatever happened to the account and to the session since the navigation
   began, in this tab or in another: a protected page is rendered for an
   account that exists at that moment, the host's pages for a host, and the
   login form is never shown to a visitor whose session is good. *)
PageFitsVisitor ==
  [][\A t \in Callers :
       (tab'[t].page # tab[t].page /\ faults' = faults) =>
         LET good == {u \in users : \E k \in jar[BrowserOf[t]] :
                         k.typ = "access" /\ now < k.exp /\ k.sub = u.id}
         IN /\ tab'[t].page = "account" => good # {}
            /\ tab'[t].page = "host" => \E u \in good : u.role = "host"
            /\ tab'[t].page = "forbidden" => \E u \in good : u.role # "host"
            /\ tab'[t].page = "login" => good = {}]_vars

HasAccount(t) ==
  \E u \in users : u.email = Normal[Person[t].typed] /\ u.password = Person[t].password

(* A visitor with an account who is sent to the login form gets past it,
   unless another tab of the browser logs out: lost answers, refusals and
   expiries do not end in a loop. *)
GetsIn ==
  \A t \in Callers :
    (tab[t].page = "login")
      ~> (tab[t].page # "login" \/ ~HasAccount(t)
            \/ \E s \in Callers \ {t} : tab[s].out # "no")

(* "navigates home and refreshes so the server components (header, guarded
   pages) re-render as signed-out": once the home page is there after a
   logout, its header shows no account. *)
LogoutSignsOut ==
  [][\A t \in Callers :
       (tab[t].out = "after" /\ tab[t].going = "home" /\ tab'[t].going = "still")
         => tab'[t].header = 0]_vars
=============================================================================
