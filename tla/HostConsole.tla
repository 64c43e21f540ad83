----------------------------- MODULE HostConsole -----------------------------
(***************************************************************************)
(* The availability page of one listing: what the browser holds, the calls *)
(* it has under way through the cookie bridge to the API, and the table    *)
(* behind them. A block can be added while another one is being removed,   *)
(* every answer carries the whole list, and answers come in any order.     *)
(***************************************************************************)
EXTENDS HostBridge

CONSTANTS
  BlockId,
  Range,       \* disjoint ranges of nights; only equal ones overlap
  Slot,        \* bound: calls under way at the same time
  Ops,         \* what this host does: a subset of {"add", "remove"}
  Standing,    \* blocks that stand at the beginning
  MaxFaults,   \* bound: lost calls and answers
  None

OpsAssumption == Ops \subseteq {"add", "remove"}
StandingAssumption ==
  /\ Standing \subseteq [id : BlockId, range : Range]
  /\ \A b, c \in Standing : b.id = c.id \/ b.range = c.range => b = c
FaultsAssumption == MaxFaults \in Nat
NoneAssumption == None \notin BlockId

VARIABLES
  table,       \* the listing's rows in availability_block
  signedIn,    \* whether the cookie is still good
  page,        \* the component's state
  call,        \* the calls under way
  faults

vars == <<table, signedIn, page, call, faults>>
-----------------------------------------------------------------------------
Block == [id : BlockId, range : Range]

Status == {0, 200, 201, 401, 404, 409, 500}

Page == [at : {"manager", "login"}, blocks : SUBSET Block,
         range : Range \cup {None}, adding : BOOLEAN,
         removingId : BlockId \cup {None},
         error : {"none", "overlap", "refused", "network"}]

NoCall == [op |-> "none", pc |-> "none", id |-> None, range |-> None,
           list |-> {}, status |-> 0, lost |-> FALSE]
Call == [op : {"add", "remove", "none"},
         pc : {"none", "sent", "save", "answered"},
         id : BlockId \cup {None}, range : Range \cup {None},
         list : SUBSET Block, status : Status, lost : BOOLEAN]

(* The page is rendered on the server with the blocks of the moment.       *)
Loaded(blocks) == [at |-> "manager", blocks |-> blocks, range |-> None,
                   adding |-> FALSE, removingId |-> None, error |-> "none"]

Init ==
  /\ table = Standing
  /\ signedIn = TRUE
  /\ page = Loaded(Standing)
  /\ call = [s \in Slot |-> NoCall]
  /\ faults = 0

Under(op) == {s \in Slot : call[s].op = op}
-----------------------------------------------------------------------------
(* The host.                                                               *)

PickRange(r) ==
  /\ "add" \in Ops
  /\ page.at = "manager" /\ page.range = None
  /\ page' = [page EXCEPT !.range = r]
  /\ UNCHANGED <<table, signedIn, call, faults>>

Send(s, c) == call[s] = NoCall /\ call' = [call EXCEPT ![s] = c]

(* The button is disabled until the range is valid and while adding.       *)
CanAdd == page.at = "manager" /\ page.range # None /\ ~page.adding

HandleAdd(s) ==
  /\ CanAdd
  /\ page' = [page EXCEPT !.adding = TRUE, !.error = "none"]
  /\ Send(s, [NoCall EXCEPT !.op = "add", !.pc = "sent", !.range = page.range])
  /\ UNCHANGED <<table, signedIn, faults>>

(* All remove buttons are disabled while one removal is under way.         *)
CanRemove(b) == page.at = "manager" /\ b \in page.blocks /\ page.removingId = None

HandleRemove(s, b) ==
  /\ "remove" \in Ops
  /\ CanRemove(b)
  /\ page' = [page EXCEPT !.removingId = b.id, !.error = "none"]
  /\ Send(s, [NoCall EXCEPT !.op = "remove", !.pc = "sent", !.id = b.id])
  /\ UNCHANGED <<table, signedIn, faults>>

SessionExpires ==
  /\ signedIn
  /\ page.at = "manager"
  /\ signedIn' = FALSE
  /\ UNCHANGED <<table, page, call, faults>>

(* /login?next= leads back to the page, which is loaded anew; answers to   *)
(* calls of the page that was left go nowhere.                             *)
SignIn ==
  /\ page.at = "login"
  /\ \A s \in Slot : call[s].pc \in {"none", "answered"}
  /\ signedIn' = TRUE
  /\ page' = Loaded(table)
  /\ call' = [s \in Slot |-> NoCall]
  /\ UNCHANGED <<table, faults>>
-----------------------------------------------------------------------------
(* The API: load, change, save, and answer with the aggregate's blocks.    *)

Answered(c, status, list) ==
  [c EXCEPT !.pc = "answered", !.status = status, !.list = list]

(* Mutant of Unused: an id may be handed out twice.                        *)
AnyId == BlockId

Unused == {id \in BlockId :
             /\ \A b \in table \cup page.blocks : b.id # id
             /\ \A s \in Slot : call[s].id # id
                                  /\ \A b \in call[s].list : b.id # id}

Load(s) ==
  LET c == call[s]
  IN  /\ c.pc = "sent"
      /\ \/ /\ ~signedIn
            /\ call' = [call EXCEPT ![s] = Answered(c, 401, {})]
         \/ /\ signedIn /\ c.op = "add"
            /\ \E b \in table : b.range = c.range
            /\ call' = [call EXCEPT ![s] =
                 Answered(c, StatusFor("OverlappingBlock"), {})]
         \/ /\ signedIn /\ c.op = "add"
            /\ \A b \in table : b.range # c.range
            /\ \E id \in Unused :
                 call' = [call EXCEPT ![s] =
                   [c EXCEPT !.pc = "save", !.id = id,
                             !.list = table \cup {[id |-> id, range |-> c.range]}]]
         \/ /\ signedIn /\ c.op = "add" /\ Unused = {}   \* bound on ids
            /\ call' = [call EXCEPT ![s] = Answered(c, 500, {})]
         \/ /\ signedIn /\ c.op = "remove"
            /\ \A b \in table : b.id # c.id
            /\ call' = [call EXCEPT ![s] =
                 Answered(c, StatusFor("BlockNotFound"), {})]
         \/ /\ signedIn /\ c.op = "remove"
            /\ \E b \in table : b.id = c.id
            /\ call' = [call EXCEPT ![s] =
                 [c EXCEPT !.pc = "save", !.list = {b \in table : b.id # c.id}]]
      /\ UNCHANGED <<table, signedIn, page, faults>>

(* syncBlocks writes the difference of what was loaded and the table, so a *)
(* row another call has added meanwhile goes and one it removed returns.   *)
Save(s) ==
  LET c == call[s]
      created == IF c.op = "add" THEN 201 ELSE 200
  IN  /\ c.pc = "save"
      /\ table' = c.list
      /\ call' = [call EXCEPT ![s] = Answered(c, created, c.list)]
      /\ UNCHANGED <<signedIn, page, faults>>

(* The API answers 500, the bridge does not reach it, or the browser does  *)
(* not reach the bridge, before the commit or after it.                    *)
Fault(s) ==
  /\ call[s].pc # "none" /\ faults < MaxFaults
  /\ faults' = faults + 1
  /\ \/ \E status \in {500, 0} :
          call' = [call EXCEPT ![s] = Answered(call[s], status, {})]
     \/ call' = [call EXCEPT ![s].pc = "answered", ![s].lost = TRUE]
  /\ UNCHANGED <<table, signedIn, page>>
-----------------------------------------------------------------------------
(* An answer that is lost between the bridge and the browser stays a 0.    *)
Relayed(c) ==
  IF c.lost THEN 0
  ELSE IF c.op = "add" THEN PostBlock(c.status)
  ELSE DeleteBlock(c.status)

(* What handleAdd does with the answer.                                    *)
AddSettled(p, status, list) ==
  CASE status = 401 -> [p EXCEPT !.at = "login"]
    [] status = 400 -> [p EXCEPT !.error = "overlap", !.adding = FALSE]
    [] status = 0 -> [p EXCEPT !.error = "network", !.adding = FALSE]
    [] status = 201 -> [p EXCEPT !.blocks = list, !.range = None,
                                 !.adding = FALSE]
    [] OTHER -> [p EXCEPT !.error = "refused", !.adding = FALSE]

(* Mutant of RemoveSettled: no reset on success.                           *)
RemoveSettledStuck(p, status, list) ==
  CASE status = 401 -> [p EXCEPT !.at = "login"]
    [] status = 0 -> [p EXCEPT !.error = "network", !.removingId = None]
    [] status = 200 -> [p EXCEPT !.blocks = list]
    [] OTHER -> [p EXCEPT !.error = "refused", !.removingId = None]

(* What handleRemove does with the answer.                                 *)
RemoveSettled(p, status, list) ==
  CASE status = 401 -> [p EXCEPT !.at = "login"]
    [] status = 0 -> [p EXCEPT !.error = "network", !.removingId = None]
    [] status = 200 -> [p EXCEPT !.blocks = list, !.removingId = None]
    [] OTHER -> [p EXCEPT !.error = "refused", !.removingId = None]

Settle(s) ==
  LET c == call[s]
      status == Relayed(c)
  IN  /\ c.pc = "answered"
      /\ page.at = "manager"
      /\ page' = IF c.op = "add" THEN AddSettled(page, status, c.list)
                                 ELSE RemoveSettled(page, status, c.list)
      /\ call' = [call EXCEPT ![s] = NoCall]
      /\ UNCHANGED <<table, signedIn, faults>>

(* Nothing is left to click on.                                            *)
Rest ==
  /\ "add" \notin Ops /\ page.at = "manager" /\ page.blocks = {}
  /\ \A s \in Slot : call[s] = NoCall
  /\ UNCHANGED vars

Next ==
  \/ \E r \in Range : PickRange(r)
  \/ \E s \in Slot :
       \/ HandleAdd(s) \/ (\E b \in Block : HandleRemove(s, b))
       \/ Load(s) \/ Save(s) \/ Fault(s) \/ Settle(s)
  \/ SessionExpires \/ SignIn \/ Rest

Spec == Init /\ [][Next]_vars

(* Calls end: the API serves them, fetch resolves or rejects.              *)
Fairness == \A s \in Slot : WF_vars(Load(s) \/ Save(s) \/ Settle(s))

FairSpec == Spec /\ Fairness
-----------------------------------------------------------------------------
(* Page, calls and table have their types; a block id is never used twice. *)
TypeOK ==
  /\ table \subseteq Block
  /\ \A b, c \in table : b.id = c.id => b = c
  /\ signedIn \in BOOLEAN
  /\ page \in Page
  /\ call \in [Slot -> Call]
  /\ faults \in 0 .. MaxFaults

(* The server stays the source of truth: when nothing is under way and no  *)
(* error is shown, the page lists what the server has.                     *)
ShownIsServers ==
  page.at = "manager" /\ page.error = "none"
    /\ (\A s \in Slot : call[s] = NoCall) => page.blocks = table

(* A button is busy exactly while a call of its kind is under way, and     *)
(* there is never more than one of a kind.                                 *)
FlagsMatchCalls ==
  page.at = "manager" =>
    /\ page.adding <=> Under("add") # {}
    /\ page.removingId # None <=> Under("remove") # {}
    /\ \A s, t \in Slot :
         call[s].op = call[t].op /\ call[s] # NoCall => s = t

(* A button waits for its call; an addition and a removal may wait side by *)
(* side. The stuck-button lesson is that neither may wait for good.        *)
Adding == page.at = "manager" /\ page.adding
Removing == page.at = "manager" /\ page.removingId # None
=============================================================================
