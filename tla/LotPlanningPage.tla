--------------------------- MODULE LotPlanningPage ---------------------------
(***************************************************************************)
(* The pages on which the solutions of a process are looked at and lots of *)
(* them are transferred, one transfer at a time for all pages.             *)
(* (DynReActService/dynreact/gui/pages/lot_planning.py)                    *)
(*                                                                         *)
(* A page is the record of its stores; its callbacks are scheduled as those*)
(* of LotCreationPage.  While the dialog is open nothing else is within the*)
(* user's reach.  The thread of a transfer is kept in a variable of the    *)
(* module, tested and written without a lock; what the transfer does is in *)
(* SnapshotStore and LotTransfer.  One snapshot; another one is to the     *)
(* callbacks what another process is.  The tables' columns and the rows of *)
(* orders, the structure and the downloads are functions of the stores and *)
(* left out.                                                               *)
(***************************************************************************)
EXTENDS Integers, FiniteSets, Sequences, SequencesExt

CONSTANTS
  None,
  User,         \* the pages
  Process, Solution, LotId, Order,
  ProcessOf,    \* [Solution -> Process]
  Contents,     \* [Solution -> <<its lots, its lots once it has been improved>>]
  MaxResults,   \* answers above which the oldest are dropped: 10
  MaxClicks,    \* bound
  MaxTransfers  \* bound

PlanningAssumption ==
  /\ IsFiniteSet(Order)
  /\ ProcessOf \in [Solution -> Process]
  /\ \A s \in Solution : \A v \in 1 .. 2 : Contents[s][v] \in [DOMAIN Contents[s][v] -> SUBSET Order \ {{}}]
  /\ MaxResults \in Nat \ {0} /\ {MaxClicks, MaxTransfers} \subseteq Nat

VARIABLES
  version,   \* [Solution -> which of its contents is stored]
  page,      \* [User -> the stores of the page]
  asked,     \* [User -> [callback -> the inputs written since it ran]]
  thread,    \* lottransfer_thread: a transfer's number
  alive,     \* the transfers whose thread runs
  answers,   \* lottransfer_results: numbers of transfers, oldest first
  transfers, \* (observed) all transfers, by number
  lost,      \* (observed) transfers whose thread was overwritten, or their answer dropped
  clicks

vars == <<version, page, asked, thread, alive, answers, transfers, lost, clicks>>

Inputs == [
  solutionsTable |-> {"process"},
  solutionSelected |-> {"solutionRow"},
  solutionChanged |-> {"process", "solution"},
  lotRowSelected |-> {"lotRow"},
  checkStart |-> {"start", "interval", "lot", "orders"}]
Outputs == [
  solutionsTable |-> {"solutionRow"}, solutionSelected |-> {"solution"},
  solutionChanged |-> {"table"}, lotRowSelected |-> {"lot", "orders"}, checkStart |-> {}]
Callback == DOMAIN Inputs
Feeding == [c \in Callback |-> {d \in Callback : Outputs[d] \cap Inputs[c] # {}}]

Snapshot == "_SNAPSHOT_"
Idle(u) == page[u].starting.at = "idle"
Ready(u, c) ==
  /\ asked[u][c] # {} /\ Idle(u) /\ \A d \in Feeding[c] : asked[u][d] = {}
Asked(before, written) == [c \in Callback |-> before[c] \cup (written \cap Inputs[c])]
Click(u, written) ==
  /\ clicks < MaxClicks /\ clicks' = clicks + 1 /\ Idle(u)
  /\ asked' = [asked EXCEPT ![u] = Asked(@, written)]
Done(u, c, written) ==
  asked' = [asked EXCEPT ![u] = Asked([@ EXCEPT ![c] = {}], written)] /\ UNCHANGED clicks
Writes(u, stores) ==
  page' = [page EXCEPT ![u] = [f \in DOMAIN @ |-> IF f \in DOMAIN stores THEN stores[f] ELSE @[f]]]

Stored(s) == Contents[s][version[s]]
NoStart == [at |-> "idle"]
EmptyTable == [of |-> None, version |-> 0]
Lots(table) == IF table.of = None THEN <<>> ELSE Contents[table.of][table.version]
NoLot == [lot |-> None, orders |-> {}, listed |-> {}, seen |-> EmptyTable]

server == <<thread, alive, answers, transfers, lost>>

-----------------------------------------------------------------------------
(* The user.                                                                *)
ChooseProcess(u, p) ==
  /\ ~page[u].open /\ p # page[u].process
  /\ Writes(u, [process |-> p]) /\ Click(u, {"process"}) /\ UNCHANGED <<version, server>>

ChooseSolution(u, s) ==
  /\ ~page[u].open /\ s # page[u].row
  /\ s = Snapshot \/ s \in page[u].listed
  /\ Writes(u, [row |-> s]) /\ Click(u, {"solutionRow"}) /\ UNCHANGED <<version, server>>

(* A row of the lots, as the table shows them at the moment.                *)
ChooseLot(u, l) ==
  /\ ~page[u].open /\ l \in DOMAIN Lots(page[u].table)
  /\ page[u].lotRow # None => page[u].lotRow.lot # l
  /\ Writes(u, [lotRow |-> [lot |-> l, orders |-> Lots(page[u].table)[l], seen |-> page[u].table]])
  /\ Click(u, {"lotRow"}) /\ UNCHANGED <<version, server>>

ChooseOrders(u, os) ==
  /\ page[u].open /\ os \subseteq page[u].dialog.listed /\ os # page[u].dialog.orders
  /\ Writes(u, [dialog |-> [page[u].dialog EXCEPT !.orders = os]])
  /\ Click(u, {"orders"}) /\ UNCHANGED <<version, server>>

PressStart(u) ==
  /\ page[u].open /\ page[u].startable /\ Click(u, {"start"}) /\ UNCHANGED <<version, page, server>>

Cancel(u) ==
  /\ page[u].open /\ Writes(u, [open |-> FALSE]) /\ Click(u, {}) /\ UNCHANGED <<version, server>>

(* Every second, while the page polls.                                      *)
Poll(u) ==
  /\ page[u].polls /\ Idle(u) /\ "interval" \notin asked[u]["checkStart"]
  /\ asked' = [asked EXCEPT ![u] = Asked(@, {"interval"})]
  /\ UNCHANGED <<version, page, server, clicks>>

(* A run of the optimizer stores a better solution under the same name.     *)
Improve(s) ==
  /\ version[s] = 1 /\ version' = [version EXCEPT ![s] = 2]
  /\ UNCHANGED <<page, asked, server, clicks>>

-----------------------------------------------------------------------------
(* solutions_table lists the solutions and selects none.                    *)
SolutionsTable(u) ==
  /\ Ready(u, "solutionsTable")
  /\ Writes(u, [listed |-> {s \in Solution : ProcessOf[s] = page[u].process}, row |-> None])
  /\ Done(u, "solutionsTable", {"solutionRow"}) /\ UNCHANGED <<version, server>>

SolutionSelected(u) ==
  /\ Ready(u, "solutionSelected")
  /\ Writes(u, [solution |-> page[u].row])
  /\ Done(u, "solutionSelected", {"solution"}) /\ UNCHANGED <<version, server>>

(* The table shows the lots that are not in the snapshot, none therefore of *)
(* the snapshot's own solution; nothing is loaded for another process.  The *)
(* grid (external) forgets the selected row with the rows.                  *)
Shown(u) ==
  LET s == page[u].solution IN
  IF s \in Solution /\ ProcessOf[s] = page[u].process THEN [of |-> s, version |-> version[s]] ELSE EmptyTable
SolutionChanged(u) ==
  /\ Ready(u, "solutionChanged")
  /\ Writes(u, [table |-> Shown(u), lotRow |-> None])
  /\ Done(u, "solutionChanged", {"table"} \cup IF page[u].lotRow = None THEN {} ELSE {"lotRow"})
  /\ UNCHANGED <<version, server>>

(* lot_row_selected also takes the answer the page may be about to show.    *)
Position(id) == CHOOSE i \in DOMAIN answers : answers[i] = id
Without(id) == IF id \in ToSet(answers) THEN RemoveAt(answers, Position(id)) ELSE answers
LotRowSelected(u) ==
  LET row == page[u].lotRow
      none == row = None \/ page[u].solution = Snapshot
      taken == page[u].transferred # None /\ page[u].transferred \in ToSet(answers)
  IN
  /\ Ready(u, "lotRowSelected")
  /\ answers' = Without(page[u].transferred)
  /\ Writes(u, [dialog |-> IF none THEN [NoLot EXCEPT !.lot = page[u].dialog.lot]
                           ELSE [lot |-> row.lot, orders |-> row.orders, listed |-> row.orders, seen |-> row.seen],
                open |-> page[u].open \/ ~none,
                left |-> page[u].left \/ (taken /\ page[u].told # page[u].transferred)])
  /\ Done(u, "lotRowSelected", IF none THEN {"orders"} ELSE {"lot", "orders"})
  /\ UNCHANGED <<version, thread, alive, transfers, lost>>

-----------------------------------------------------------------------------
(* check_running_transfer: the answer of a thread that has ended is kept.   *)
Ended == thread # None /\ thread \notin alive
DropOldest == IF Len(answers) > MaxResults THEN SubSeq(answers, Len(answers) - MaxResults + 1, Len(answers)) ELSE answers
Kept == IF Ended THEN Append(DropOldest, thread) ELSE answers
Runs == thread # None /\ ~Ended
Collected ==
  /\ answers' = Kept /\ thread' = (IF Ended THEN None ELSE thread)
  /\ lost' = lost \cup (IF Ended THEN ToSet(answers) \ ToSet(Kept) ELSE {})

Choosable(u) == page[u].process # None /\ page[u].solution \notin {None, Snapshot}
Complete(u) == page[u].dialog.lot # None /\ page[u].dialog.orders # {}
Told(u) == IF page[u].transferred \in ToSet(Kept) THEN page[u].transferred ELSE page[u].told

(* check_start_transfer, up to the start of a transfer.                     *)
CheckStart(u) ==
  LET starts == ~Runs /\ Complete(u) /\ "start" \in asked[u]["checkStart"]
  IN
  /\ Ready(u, "checkStart") /\ Done(u, "checkStart", {})
  /\ \/ /\ ~Choosable(u)
        /\ Writes(u, [polls |-> FALSE, startable |-> FALSE,
                      left |-> page[u].left \/ page[u].told # page[u].transferred])
        /\ UNCHANGED server
     \/ /\ Choosable(u) /\ Collected
        /\ Writes(u, [polls |-> Runs, startable |-> ~Runs /\ Complete(u), told |-> Told(u),
                      starting |-> [at |-> IF starts THEN "load" ELSE "idle"]])
        /\ UNCHANGED <<alive, transfers>>
  /\ UNCHANGED version

Fails(u) ==
  Writes(u, [starting |-> NoStart, transferred |-> None, told |-> None, left |-> FALSE, polls |-> FALSE,
             startable |-> TRUE])

(* Other orders than those of the lot if there are fewer.                   *)
WholeLot(chosen, orders) == orders
Carried(chosen, orders) == IF Cardinality(chosen) # Cardinality(orders) THEN chosen ELSE orders

(* start_transfer0 loads the solution anew and looks for the lot.           *)
Found(u) == page[u].solution \in Solution /\ ProcessOf[page[u].solution] = page[u].process
            /\ page[u].dialog.lot \in DOMAIN Stored(page[u].solution)
LoadLot(u) ==
  /\ page[u].starting.at = "load"
  /\ IF Found(u) /\ thread = None
     THEN Writes(u, [starting |-> [at |-> "begin", lot |-> page[u].dialog.lot, process |-> page[u].process, chosen |-> page[u].dialog.orders,
            carried |-> Carried(page[u].dialog.orders, Stored(page[u].solution)[page[u].dialog.lot]),
            inStep |-> page[u].dialog.seen = Shown(u)]])
     ELSE Fails(u)
  /\ UNCHANGED <<version, asked, server, clicks>>

(* transfer_internal, after its test: a thread that has been started in the *)
(* meantime is overwritten.                                                 *)
StartThread(u) ==
  LET id == Len(transfers) + 1 IN
  /\ page[u].starting.at = "begin" /\ Len(transfers) < MaxTransfers
  /\ transfers' = Append(transfers, page[u].starting)
  /\ lost' = (IF thread = None THEN lost ELSE lost \cup {thread})
  /\ thread' = id /\ alive' = alive \cup {id}
  /\ Writes(u, [starting |-> NoStart, transferred |-> id, told |-> None, left |-> FALSE, polls |-> TRUE,
                startable |-> FALSE])
  /\ UNCHANGED <<version, asked, answers, clicks>>

(* LotTransferThread.run ends, with a result or an error.                   *)
EndThread(id) ==
  /\ id \in alive /\ alive' = alive \ {id}
  /\ UNCHANGED <<version, page, asked, thread, answers, transfers, lost, clicks>>

-----------------------------------------------------------------------------
NewPage == [
  process |-> None, listed |-> {}, row |-> None, solution |-> None, table |-> EmptyTable,
  lotRow |-> None, dialog |-> NoLot, open |-> FALSE, startable |-> FALSE, polls |-> FALSE,
  starting |-> NoStart, transferred |-> None, told |-> None, left |-> FALSE]

(* With a process and one of its solutions chosen by the link to the page,  *)
(* and all callbacks run.                                                   *)
Init ==
  /\ version = [s \in Solution |-> 1]
  /\ \E s \in Solution :
       page = [u \in User |-> [NewPage EXCEPT
         !.process = ProcessOf[s], !.listed = {r \in Solution : ProcessOf[r] = ProcessOf[s]},
         !.row = s, !.solution = s, !.table = [of |-> s, version |-> 1]]]
  /\ asked = [u \in User |-> [c \in Callback |-> {}]]
  /\ thread = None /\ alive = {} /\ answers = <<>> /\ transfers = <<>> /\ lost = {} /\ clicks = 0

Next ==
  \/ \E u \in User :
       \/ \E p \in Process : ChooseProcess(u, p)
       \/ \E s \in Solution \cup {Snapshot} : ChooseSolution(u, s)
       \/ \E l \in LotId : ChooseLot(u, l)
       \/ \E os \in SUBSET Order : ChooseOrders(u, os)
       \/ PressStart(u) \/ Cancel(u) \/ Poll(u)
       \/ SolutionsTable(u) \/ SolutionSelected(u) \/ SolutionChanged(u) \/ LotRowSelected(u)
       \/ CheckStart(u) \/ LoadLot(u) \/ StartThread(u)
  \/ \E s \in Solution : Improve(s)
  \/ \E id \in 1 .. MaxTransfers : EndThread(id)

Spec == Init /\ [][Next]_vars

-----------------------------------------------------------------------------
(* Every variable keeps its type.                                           *)
PlanningTypeOK ==
  /\ version \in [Solution -> 1 .. 2] /\ thread \in 1 .. MaxTransfers \cup {None}
  /\ alive \subseteq 1 .. MaxTransfers /\ ToSet(answers) \subseteq 1 .. MaxTransfers
  /\ \A u \in User : page[u].dialog.orders \subseteq Order /\ page[u].dialog.orders \subseteq page[u].dialog.listed
  /\ clicks \in 0 .. MaxClicks

(* If the dialog was opened on the lots of the solution as it is stored     *)
(* when the transfer is started, the orders that are transferred are those  *)
(* chosen in it, and orders of that solution of the process shown.          *)
TransfersAreAsChosen ==
  \A i \in DOMAIN transfers : LET t == transfers[i] IN
    t.inStep => /\ t.carried = t.chosen /\ t.chosen # {}
                /\ \E s \in Solution, v \in 1 .. 2 :
                     ProcessOf[s] = t.process /\ t.lot \in DOMAIN Contents[s][v] /\ t.chosen \subseteq Contents[s][v][t.lot]

(* A page that has not been told the outcome of its transfer goes on asking *)
(* for it, and it is still there to be told, unless the user left the       *)
(* solution or the lot, the thread was overwritten, or ten others came.     *)
AnswersReachTheirPage ==
  \A u \in User : LET id == page[u].transferred IN
    id # None /\ page[u].told # id /\ ~page[u].left /\ id \notin lost
      => /\ page[u].polls \/ asked[u]["checkStart"] # {} \/ ~Idle(u)
         /\ id = thread \/ id \in ToSet(answers)
=============================================================================
