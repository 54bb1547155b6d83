------------------------------ MODULE Auction ------------------------------
(***************************************************************************)
(* One short-term planning auction: a LOG agent, one EQUIPMENT agent per   *)
(* line and one MATERIAL agent per order, every one of them a container    *)
(* that talks to the others through one Kafka topic, and the UX client     *)
(* that starts the auction, asks for its results and ends it.              *)
(* (ShortTermPlanning/dynreact/shortterm/agents, short_term_planning.py)   *)
(*                                                                         *)
(* The topic has one partition and every agent has a consumer group of its *)
(* own that starts at the earliest offset, so each agent reads all of the  *)
(* topic, in one order, from the beginning, however late its container     *)
(* starts.  inbox[a] is the part of the topic that a has still to read,    *)
(* without what can never be addressed to a.                               *)
(*                                                                         *)
(* Abstracted: prices, costs, arrival times and equipment states.  The     *)
(* bid an equipment prefers is any of its bids, and a cost service that    *)
(* finds a transition impossible may reject any counterbid.  Timeouts are  *)
(* abstracted to "may have elapsed".  Log traffic (WRITE) is left out.     *)
(***************************************************************************)
EXTENDS Naturals, Sequences, FiniteSets

CONSTANTS
  Equipment,      \* ids of the equipments of the auction
  Material,       \* ids of the materials (one representative per order)
  LogAgent,       \* the LOG of the auction
  None,           \* Python's None and the empty bid_to_confirm
  Allowed,        \* Allowed[m]: equipments m may be processed on and has a route to
  Tons,           \* Tons[m]: weight of the order m stands for
  Target,         \* Target[e]: tonnage at which e stops bidding
  NameCovers,     \* NameCovers[m]: materials whose agent name contains the name of m
  Radix,          \* base of the round number in an agent name: 10 in the code
  MaxAsks,        \* bound on the ASKRESULTS requests of the UX
  MaxCrashes,     \* bound on the containers that die
  UXEnds          \* whether the UX calls end_auction

Agent == {LogAgent} \cup Equipment \cup Material

ASSUME AgentsAssumption ==
  /\ IsFiniteSet(Equipment) /\ IsFiniteSet(Material)
  /\ Equipment \cap Material = {}
  /\ LogAgent \notin Equipment \cup Material
  /\ None \notin Agent /\ None \notin Equipment \X Nat

ASSUME DataAssumption ==
  /\ Allowed \in [Material -> SUBSET Equipment]
  /\ Tons \in [Material -> Nat]
  /\ Target \in [Equipment -> Nat]
  /\ NameCovers \in [Material -> SUBSET Material]
  /\ \A m \in Material : m \in NameCovers[m]
  /\ Radix \in Nat \ {0, 1}

ASSUME BoundsAssumption ==
  /\ MaxAsks \in Nat
  /\ MaxCrashes \in Nat
  /\ UXEnds \in BOOLEAN

VARIABLES
  inbox,       \* what each agent has still to read of the topic
  stage,       \* life of each agent's container
  round,       \* Equipment.round_number, the last part of its agent name
  bidding,     \* Equipment.last_bid_time is not None
  bids,        \* Equipment.bids
  pending,     \* Equipment.bid_to_confirm
  tons,        \* Equipment.accumulated_tons
  assigned,    \* Material.assigned_equipment
  checked,     \* Log.total_num_agents is not None
  present,     \* Log.present_agents
  started,     \* Log.auction_start
  finished,    \* Log.finished_equipments
  completed,   \* Log.auction_completed
  endRequested,\* Log.auction_end_requested
  results,     \* Log.results
  failed,      \* the LOG has handled a RECIEVEERROR
  served,      \* payload of the last RESULTS the LOG sent to the UX
  exiting,     \* callers of end_auction that sleep before they send EXIT to the LOG
  checkSent, asks, ended,   \* what the UX has done so far
  crashes      \* containers that died

equipmentVars == <<round, bidding, bids, pending, tons>>
logVars == <<checked, present, started, finished, completed, endRequested,
             results, failed, served>>
uxVars == <<checkSent, asks, ended>>
vars == <<inbox, stage, equipmentVars, assigned, logVars, exiting, uxVars, crashes>>

-----------------------------------------------------------------------------
(* Messages.  rnd is the round in the equipment name of the message.        *)

Broadcasts == {"PING", "PINGANSWER", "CHECK", "START", "ASKRESULTS", "EXIT"}
EquipmentActions == {"PINGANSWER", "BID", "EQUIPMENTFINISHED", "RECIEVEERROR"}
DealActions == {"COUNTERBID", "ASKCONFIRM", "CONFIRM", "ASSIGNED", "ASSIGNEDOTHERS"}

Message ==
  [act : Broadcasts, eq : {None}, rnd : {0}, mat : {None}]
    \cup [act : EquipmentActions, eq : Equipment, rnd : Nat, mat : {None}]
    \cup [act : {"PINGANSWER"}, eq : {None}, rnd : {0}, mat : Material]
    \cup [act : DealActions, eq : Equipment, rnd : Nat, mat : Material]

Plain(act) == [act |-> act, eq |-> None, rnd |-> 0, mat |-> None]
OfEquipment(act, e) == [act |-> act, eq |-> e, rnd |-> round[e], mat |-> None]
OfMaterial(act, m) == [act |-> act, eq |-> None, rnd |-> 0, mat |-> m]
Between(act, e, r, m) == [act |-> act, eq |-> e, rnd |-> r, mat |-> m]

(* A topic name ends in the round, and dest is searched in it as a regular  *)
(* expression: round 1 is also found in rounds 10, 11, ... 19, 100, ...     *)
RoundMatches(r, current) ==
  \/ r = current
  \/ r > 0 /\ \E k \in 1..current : current \div (Radix ^ k) = r

(* ASSIGNED goes to "every equipment but the assigned one", a negative      *)
(* look-ahead on the name, round included, that the material confirmed to.  *)
AddressedTo(e, msg) ==
  CASE msg.act \in {"COUNTERBID", "CONFIRM", "ASSIGNED"} ->
         RoundMatches(msg.rnd, round[e])
    [] msg.act = "ASSIGNEDOTHERS" ->
         ~ (msg.eq = e /\ RoundMatches(msg.rnd, round[e]))
    [] OTHER -> TRUE

Unread(a) == {inbox[a][i] : i \in DOMAIN inbox[a]}
Next1(a) == Head(inbox[a])
Reads(a, act) == stage[a] = "running" /\ inbox[a] # <<>> /\ Next1(a).act = act

(* An agent that ended reads nothing any more, whatever the topic holds.    *)
Post(box, readers, msg) ==
  [a \in Agent |-> IF a \in readers /\ stage[a] # "ended"
                   THEN Append(box[a], msg) ELSE box[a]]
Consume(a) == [inbox EXCEPT ![a] = Tail(@)]
Leave(box, a) == [box EXCEPT ![a] = <<>>]
Ends(a) == stage' = [stage EXCEPT ![a] = "ended"]

-----------------------------------------------------------------------------
(* Containers: the parents clone themselves once per agent of the auction.  *)

Launch(a) ==
  /\ stage[a] = "absent"
  /\ stage' = [stage EXCEPT ![a] = "running"]
  /\ UNCHANGED <<inbox, equipmentVars, assigned, logVars, exiting, uxVars, crashes>>

(* A container dies between two steps; nothing restarts it.                 *)
Crash(a) ==
  /\ crashes < MaxCrashes
  /\ stage[a] \in {"running", "announcing"}
  /\ Ends(a)
  /\ inbox' = Leave(inbox, a)
  /\ exiting' = exiting \ {a}
  /\ crashes' = crashes + 1
  /\ UNCHANGED <<equipmentVars, assigned, logVars, uxVars>>

-----------------------------------------------------------------------------
(* Agent: the handlers every agent has.                                     *)

AnswerPing(a, answer) ==
  /\ Reads(a, "PING")
  /\ inbox' = Post(Consume(a), {LogAgent}, answer)
  /\ UNCHANGED <<stage, equipmentVars, assigned, logVars, exiting, uxVars, crashes>>

HandleExit(a) ==
  /\ Reads(a, "EXIT")
  /\ Ends(a)
  /\ inbox' = Leave(inbox, a)
  /\ UNCHANGED <<equipmentVars, assigned, logVars, exiting, uxVars, crashes>>

-----------------------------------------------------------------------------
(* Equipment                                                                *)

Receives(e, act) == Reads(e, act) /\ AddressedTo(e, Next1(e))

EquipmentIgnores(e) ==
  /\ stage[e] = "running" /\ inbox[e] # <<>>
  /\ ~ AddressedTo(e, Next1(e))
  /\ inbox' = Consume(e)
  /\ UNCHANGED <<stage, equipmentVars, assigned, logVars, exiting, uxVars, crashes>>

EquipmentStart(e) ==
  /\ Receives(e, "START")
  /\ inbox' = Post(Consume(e), Material, OfEquipment("BID", e))
  /\ bidding' = [bidding EXCEPT ![e] = TRUE]
  /\ UNCHANGED <<stage, round, bids, pending, tons, assigned, logVars, exiting,
                 uxVars, crashes>>

(* The cost of the transition depends on the state of the equipment: the    *)
(* bid is kept, or discarded because the transition returns no cost.        *)
EquipmentCounterbid(e) ==
  /\ Receives(e, "COUNTERBID")
  /\ inbox' = Consume(e)
  /\ \/ /\ bids' = [bids EXCEPT ![e] = @ \cup
                      {[mat |-> Next1(e).mat, rnd |-> Next1(e).rnd]}]
        /\ bidding' = [bidding EXCEPT ![e] = TRUE]
     \/ UNCHANGED <<bids, bidding>>
  /\ UNCHANGED <<stage, round, pending, tons, assigned, logVars, exiting, uxVars,
                 crashes>>

(* The loop pops from the list it enumerates: of several entries of one     *)
(* material it removes at least one, which others depends on their order.   *)
EquipmentAssigned(e) ==
  /\ Receives(e, "ASSIGNED") \/ Receives(e, "ASSIGNEDOTHERS")
  /\ inbox' = Consume(e)
  /\ LET m == Next1(e).mat
         entries == {b \in bids[e] : b.mat = m}
     IN IF pending[e] = m
        THEN /\ pending' = [pending EXCEPT ![e] = None]
             /\ UNCHANGED bids
        ELSE /\ \E gone \in SUBSET entries :
                  /\ entries # {} => gone # {}
                  /\ bids' = [bids EXCEPT ![e] = @ \ gone]
             /\ UNCHANGED pending
  /\ UNCHANGED <<stage, round, bidding, tons, assigned, logVars, exiting, uxVars,
                 crashes>>

HasEnough(e, total) == total >= Target[e]
NextRound(e) == round[e] + 1

(* The confirmation of the material e waits for: e takes its weight and     *)
(* either has enough, or renames itself and bids again at once.             *)
EquipmentConfirm(e) ==
  /\ Receives(e, "CONFIRM")
  /\ pending[e] = Next1(e).mat
  /\ LET total == tons[e] + Tons[Next1(e).mat]
     IN /\ tons' = [tons EXCEPT ![e] = total]
        /\ IF HasEnough(e, total)
           THEN /\ inbox' = Leave(Post(inbox, {LogAgent},
                                       OfEquipment("EQUIPMENTFINISHED", e)), e)
                /\ Ends(e)
                /\ UNCHANGED <<round, bidding, bids, pending>>
           ELSE /\ round' = [round EXCEPT ![e] = NextRound(e)]
                /\ bids' = [bids EXCEPT ![e] = {}]
                /\ pending' = [pending EXCEPT ![e] = None]
                /\ bidding' = [bidding EXCEPT ![e] = TRUE]
                /\ inbox' = Post(Consume(e), Material,
                                 Between("BID", e, NextRound(e), None))
                /\ UNCHANGED stage
  /\ UNCHANGED <<assigned, logVars, exiting, uxVars, crashes>>

(* A confirmation e did not ask for raises, and process_message reports it. *)
EquipmentConfirmError(e) ==
  /\ Receives(e, "CONFIRM")
  /\ pending[e] # Next1(e).mat
  /\ inbox' = Post(Consume(e), {LogAgent}, OfEquipment("RECIEVEERROR", e))
  /\ UNCHANGED <<stage, equipmentVars, assigned, logVars, exiting, uxVars, crashes>>

(* callback_before_message, once COUNTERBID_WAIT has elapsed.               *)
NoWaitForAnswer(e) == stage[e] = "running" /\ bidding[e]
WaitIsOver(e) == stage[e] = "running" /\ bidding[e] /\ pending[e] = None

AskBest(e) ==
  /\ WaitIsOver(e)
  /\ \E b \in bids[e] :
       /\ bids' = [bids EXCEPT ![e] = @ \ {b}]
       /\ pending' = [pending EXCEPT ![e] = b.mat]
       /\ inbox' = Post(inbox, NameCovers[b.mat],
                        Between("ASKCONFIRM", e, round[e], b.mat))
  /\ UNCHANGED <<stage, round, bidding, tons, assigned, logVars, exiting, uxVars,
                 crashes>>

NoMoreBids(e) ==
  /\ WaitIsOver(e)
  /\ bids[e] = {}
  /\ inbox' = Leave(Post(inbox, {LogAgent}, OfEquipment("EQUIPMENTFINISHED", e)), e)
  /\ Ends(e)
  /\ UNCHANGED <<equipmentVars, assigned, logVars, exiting, uxVars, crashes>>

-----------------------------------------------------------------------------
(* Material                                                                 *)

Name(msg) == <<msg.eq, msg.rnd>>

MaterialBid(m) ==
  /\ Reads(m, "BID")
  /\ LET e == Next1(m).eq
         r == Next1(m).rnd
     IN inbox' = IF assigned[m] # None
                 THEN Post(Consume(m), {e}, Between("ASSIGNED", e, r, m))
                 ELSE IF e \in Allowed[m]
                 THEN Post(Consume(m), {e}, Between("COUNTERBID", e, r, m))
                 ELSE Consume(m)
  /\ UNCHANGED <<stage, equipmentVars, assigned, logVars, exiting, uxVars, crashes>>

(* A material that looks at no earlier commitment and does not end.         *)
MaterialConfirmsAgain(m) ==
  /\ Reads(m, "ASKCONFIRM")
  /\ LET e == Next1(m).eq
         r == Next1(m).rnd
     IN /\ assigned' = [assigned EXCEPT ![m] = Name(Next1(m))]
        /\ inbox' = Post(Consume(m), {e, LogAgent}, Between("CONFIRM", e, r, m))
  /\ UNCHANGED <<stage, equipmentVars, logVars, exiting, uxVars, crashes>>

(* The handler publishes CONFIRM, then (MaterialAnnounce) ASSIGNED, and the *)
(* agent ends.  The LOG overhears CONFIRM, which is not addressed to it.    *)
MaterialAskConfirm(m) ==
  /\ Reads(m, "ASKCONFIRM")
  /\ LET e == Next1(m).eq
         r == Next1(m).rnd
     IN IF assigned[m] # None /\ assigned[m] # Name(Next1(m))
        THEN /\ inbox' = Post(Consume(m), {e}, Between("ASSIGNED", e, r, m))
             /\ UNCHANGED <<assigned, stage>>
        ELSE /\ assigned' = [assigned EXCEPT ![m] = Name(Next1(m))]
             /\ inbox' = Post(Consume(m), {e, LogAgent}, Between("CONFIRM", e, r, m))
             /\ stage' = [stage EXCEPT ![m] = "announcing"]
  /\ UNCHANGED <<equipmentVars, logVars, exiting, uxVars, crashes>>

MaterialEndsSilently(m) ==
  /\ stage[m] = "announcing"
  /\ inbox' = Leave(inbox, m)
  /\ Ends(m)
  /\ UNCHANGED <<equipmentVars, assigned, logVars, exiting, uxVars, crashes>>

MaterialAnnounce(m) ==
  /\ stage[m] = "announcing"
  /\ inbox' = Leave(Post(inbox, Equipment,
                Between("ASSIGNEDOTHERS", assigned[m][1], assigned[m][2], m)), m)
  /\ Ends(m)
  /\ UNCHANGED <<equipmentVars, assigned, logVars, exiting, uxVars, crashes>>

-----------------------------------------------------------------------------
(* LOG.  Its callback runs before every poll, so that a due start comes     *)
(* before the next message; in end_auction it sleeps and reads nothing.     *)

NumAgents == 1 + Cardinality(Equipment) + Cardinality(Material)
StartOnFirstAnswer == checked /\ ~started /\ present # {}
StartIsDue == checked /\ ~started /\ Cardinality(present) = NumAgents
LogReads(act) ==
  Reads(LogAgent, act) /\ ~StartIsDue /\ LogAgent \notin exiting

ExitEquipments(box) == Post(box, Equipment, Plain("EXIT"))
ExitAgents(box) == Post(box, Equipment \cup Material, Plain("EXIT"))

LogCheck ==
  /\ LogReads("CHECK")
  /\ checked' = TRUE
  /\ inbox' = Post(Consume(LogAgent), Agent, Plain("PING"))
  /\ UNCHANGED <<stage, equipmentVars, assigned, present, started, finished,
                 completed, endRequested, results, failed, served, exiting, uxVars,
                 crashes>>

LogPing == ~StartIsDue /\ LogAgent \notin exiting
           /\ AnswerPing(LogAgent, Plain("PINGANSWER"))

AnswererOfAuction(msg) == IF msg.eq # None THEN msg.eq ELSE msg.mat
Answerer(msg) == IF msg.eq # None THEN msg.eq
                 ELSE IF msg.mat # None THEN msg.mat ELSE LogAgent

LogPingAnswer ==
  /\ LogReads("PINGANSWER")
  /\ present' = present \cup {Answerer(Next1(LogAgent))}
  /\ inbox' = Consume(LogAgent)
  /\ UNCHANGED <<stage, equipmentVars, assigned, checked, started, finished,
                 completed, endRequested, results, failed, served, exiting, uxVars,
                 crashes>>

LogStart ==
  /\ stage[LogAgent] = "running" /\ LogAgent \notin exiting
  /\ StartIsDue
  /\ started' = TRUE
  /\ inbox' = Post(inbox, Equipment, Plain("START"))
  /\ UNCHANGED <<stage, equipmentVars, assigned, checked, present, finished,
                 completed, endRequested, results, failed, served, exiting, uxVars,
                 crashes>>

(* callback_on_not_match records every CONFIRM in the order of the topic.   *)
LogRecordsConfirm ==
  /\ LogReads("CONFIRM")
  /\ LET msg == Next1(LogAgent)
     IN results' = [results EXCEPT ![msg.eq] =
                      Append(@, [mat |-> msg.mat, rnd |-> msg.rnd])]
  /\ inbox' = Consume(LogAgent)
  /\ UNCHANGED <<stage, equipmentVars, assigned, checked, present, started,
                 finished, completed, endRequested, failed, served, exiting, uxVars,
                 crashes>>

Expected == present \cap Equipment
AnyFinished(fin) == started /\ fin # {}
AllFinished(fin) == started /\ Expected # {} /\ Expected \subseteq fin

LogEquipmentFinished ==
  /\ LogReads("EQUIPMENTFINISHED")
  /\ finished' = finished \cup {Next1(LogAgent).eq}
  /\ completed' = (completed \/ AllFinished(finished'))
  /\ inbox' = Consume(LogAgent)
  /\ UNCHANGED <<stage, equipmentVars, assigned, checked, present, started,
                 endRequested, results, failed, served, exiting, uxVars, crashes>>

EndUnasked == ~endRequested
MayEnd == completed /\ ~endRequested

(* The first answer given after completion also ends the auction.           *)
LogAskResults ==
  /\ LogReads("ASKRESULTS")
  /\ served' = results
  /\ IF MayEnd
     THEN /\ endRequested' = TRUE
          /\ inbox' = ExitAgents(Consume(LogAgent))
          /\ exiting' = exiting \cup {LogAgent}
     ELSE /\ inbox' = Consume(LogAgent)
          /\ UNCHANGED <<endRequested, exiting>>
  /\ UNCHANGED <<stage, equipmentVars, assigned, checked, present, started,
                 finished, completed, results, failed, uxVars, crashes>>

LogReceiveError ==
  /\ LogReads("RECIEVEERROR")
  /\ results' = [e \in Equipment |-> <<>>]
  /\ failed' = TRUE
  /\ inbox' = ExitAgents(Consume(LogAgent))
  /\ exiting' = exiting \cup {LogAgent}
  /\ UNCHANGED <<stage, equipmentVars, assigned, checked, present, started,
                 finished, completed, endRequested, served, uxVars, crashes>>

LogExit == ~StartIsDue /\ LogAgent \notin exiting /\ HandleExit(LogAgent)

-----------------------------------------------------------------------------
(* UX client, and the second half of end_auction for whoever called it.     *)

UX == "UX"

UXCheck ==
  /\ ~checkSent
  /\ checkSent' = TRUE
  /\ inbox' = Post(inbox, {LogAgent}, Plain("CHECK"))
  /\ UNCHANGED <<stage, equipmentVars, assigned, logVars, exiting, asks, ended,
                 crashes>>

UXAskResults ==
  /\ checkSent /\ ~ended
  /\ asks < MaxAsks
  /\ asks' = asks + 1
  /\ inbox' = Post(inbox, {LogAgent}, Plain("ASKRESULTS"))
  /\ UNCHANGED <<stage, equipmentVars, assigned, logVars, exiting, checkSent, ended,
                 crashes>>

UXEndAuction ==
  /\ UXEnds /\ ~ended
  /\ ended' = TRUE
  /\ inbox' = ExitAgents(inbox)
  /\ exiting' = exiting \cup {UX}
  /\ UNCHANGED <<stage, equipmentVars, assigned, logVars, checkSent, asks, crashes>>

ExitLog(caller) ==
  /\ caller \in exiting
  /\ exiting' = exiting \ {caller}
  /\ inbox' = Post(inbox, {LogAgent}, Plain("EXIT"))
  /\ UNCHANGED <<stage, equipmentVars, assigned, logVars, uxVars, crashes>>

-----------------------------------------------------------------------------
Init ==
  /\ inbox = [a \in Agent |-> <<>>]
  /\ stage = [a \in Agent |-> "absent"]
  /\ round = [e \in Equipment |-> 0]
  /\ bidding = [e \in Equipment |-> FALSE]
  /\ bids = [e \in Equipment |-> {}]
  /\ pending = [e \in Equipment |-> None]
  /\ tons = [e \in Equipment |-> 0]
  /\ assigned = [m \in Material |-> None]
  /\ checked = FALSE /\ started = FALSE /\ completed = FALSE
  /\ endRequested = FALSE /\ failed = FALSE
  /\ present = {} /\ finished = {} /\ exiting = {}
  /\ results = [e \in Equipment |-> <<>>]
  /\ served = None
  /\ checkSent = FALSE /\ asks = 0 /\ ended = FALSE
  /\ crashes = 0

EquipmentStep(e) ==
  \/ AnswerPing(e, OfEquipment("PINGANSWER", e))
  \/ EquipmentStart(e)
  \/ EquipmentCounterbid(e)
  \/ EquipmentAssigned(e)
  \/ EquipmentConfirm(e)
  \/ EquipmentConfirmError(e)
  \/ EquipmentIgnores(e)
  \/ HandleExit(e)

MaterialStep(m) ==
  \/ AnswerPing(m, OfMaterial("PINGANSWER", m))
  \/ MaterialBid(m)
  \/ MaterialAskConfirm(m)
  \/ MaterialAnnounce(m)
  \/ HandleExit(m)

LogStep ==
  \/ LogCheck
  \/ LogPing
  \/ LogPingAnswer
  \/ LogStart
  \/ LogRecordsConfirm
  \/ LogEquipmentFinished
  \/ LogAskResults
  \/ LogReceiveError
  \/ LogExit

UXStep == UXCheck \/ UXAskResults \/ UXEndAuction

Next ==
  \/ \E a \in Agent : Launch(a) \/ Crash(a)
  \/ \E e \in Equipment : EquipmentStep(e) \/ AskBest(e) \/ NoMoreBids(e)
  \/ \E m \in Material : MaterialStep(m)
  \/ LogStep
  \/ UXStep
  \/ \E caller \in {LogAgent, UX} : ExitLog(caller)

Spec == Init /\ [][Next]_vars

(* Every container that was cloned starts, every agent runs its loop, the   *)
(* bid timer of an equipment runs out, and end_auction returns.             *)
Fairness ==
  /\ \A a \in Agent : WF_vars(Launch(a))
  /\ \A e \in Equipment : WF_vars(EquipmentStep(e))
                          /\ WF_vars(AskBest(e) \/ NoMoreBids(e))
  /\ \A m \in Material : WF_vars(MaterialStep(m))
  /\ WF_vars(LogStep)
  /\ \A caller \in {LogAgent, UX} : WF_vars(ExitLog(caller))
  /\ WF_vars(UXCheck)

FairSpec == Spec /\ Fairness
=============================================================================
