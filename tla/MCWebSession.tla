---------------------------- MODULE MCWebSession ----------------------------
(***************************************************************************)
(* Two visitors who share a browser, for TLC. They are two tabs of the web *)
(* application while nothing fails, or one tab while time passes and calls *)
(* fail, or two clients of the API, which can refresh a session, too.      *)
(***************************************************************************)
EXTENDS WebSession, TLC

CONSTANTS t1, t2, b1

VARIABLE client

(* The second visitor only follows links to the forms and the host's pages. *)
MCGoes == t1 :> (Visits \X {"link", "reload"})
       @@ t2 :> ({"login", "signup", "host"} \X {"link"})

OneBrowser == t1 :> b1 @@ t2 :> b1
MCNormal == [ann |-> "ann", Ann |-> "ann", bob |-> "bob"]
MCPerson == t1 :> [typed |-> "Ann", password |-> "p", role |-> "host"]
         @@ t2 :> [typed |-> "bob", password |-> "q", role |-> "guest"]

MCInit == WInit /\ client \in {"tabs", "tab", "api"}

(* A client of the API registers in its visitor's role, with its visitor's
   password and address, or the first visitor's address.                   *)
AsOneself ==
  \A c \in Callers :
    call'[c].op = "register" =>
      /\ call'[c].role = Person[c].role /\ call'[c].password = Person[c].password
      /\ call'[c].email \in {Normal[Person[c].typed], Normal[Person[t1].typed]}

MCNext ==
  /\ \/ client = "tabs" /\ WNext /\ UNCHANGED <<now, faults>>
     \/ client = "tab" /\ WNext /\ UNCHANGED <<tab[t2], call[t2]>>
     \/ client = "api" /\ ANext /\ UNCHANGED tab /\ AsOneself
  /\ UNCHANGED client

(* The fairness of WebSession, for its tabs.                               *)
MCFairSpec == MCInit /\ [][MCNext]_<<vars, client>> /\ Fairness
=============================================================================
