--------------------------- MODULE Auction_proofs ---------------------------
(***************************************************************************)
(* Proofs about one auction: its types, that no order stands twice in its  *)
(* results, and that no agent misses the start, for any number of          *)
(* equipments and materials, of requests and of crashes, with any          *)
(* tonnages, targets and names.                                            *)
(***************************************************************************)
EXTENDS AuctionProperties, FiniteSetTheorems, SequenceTheorems, TLAPS

Boxes == [Agent -> Seq(Message)]

(* What is sent is a message of the protocol, to whom and by whom it may.   *)
LEMMA PlainMessage ==
  ASSUME NEW act \in Broadcasts
  PROVE  Plain(act) \in Message
BY DEF Plain, Message

LEMMA EquipmentMessage ==
  ASSUME NEW act \in EquipmentActions, NEW e \in Equipment, NEW r \in Nat
  PROVE  Between(act, e, r, None) \in Message
BY DEF Between, Message

LEMMA DealMessage ==
  ASSUME NEW act \in DealActions, NEW e \in Equipment, NEW r \in Nat,
         NEW m \in Material
  PROVE  Between(act, e, r, m) \in Message
BY DEF Between, Message

LEMMA MaterialMessage ==
  ASSUME NEW m \in Material
  PROVE  OfMaterial("PINGANSWER", m) \in Message
BY DEF OfMaterial, Message

LEMMA OfEquipmentMessage ==
  ASSUME TypeOK, NEW act \in EquipmentActions, NEW e \in Equipment
  PROVE  OfEquipment(act, e) \in Message
<1>1. round[e] \in Nat
  BY DEF TypeOK
<1>2. OfEquipment(act, e) = Between(act, e, round[e], None)
  BY DEF OfEquipment, Between
<1> QED
  BY <1>1, <1>2, EquipmentMessage

(* The fields of a message that are read after its action has been tested.  *)
LEMMA DealFields ==
  ASSUME NEW msg \in Message, msg.act \in DealActions
  PROVE  msg.eq \in Equipment /\ msg.rnd \in Nat /\ msg.mat \in Material
BY DEF Message, DealActions, Broadcasts, EquipmentActions

LEMMA EquipmentFields ==
  ASSUME NEW msg \in Message, msg.act \in {"BID", "EQUIPMENTFINISHED"}
  PROVE  msg.eq \in Equipment /\ msg.rnd \in Nat
BY DEF Message, DealActions, Broadcasts, EquipmentActions

LEMMA PostType ==
  ASSUME NEW box \in Boxes, NEW readers, NEW msg \in Message
  PROVE  Post(box, readers, msg) \in Boxes
BY DEF Post, Boxes

LEMMA ConsumeType ==
  ASSUME inbox \in Boxes, NEW a \in Agent, inbox[a] # <<>>
  PROVE  Consume(a) \in Boxes /\ Next1(a) \in Message
<1>1. inbox[a] \in Seq(Message)
  BY DEF Boxes
<1>2. Tail(inbox[a]) \in Seq(Message) /\ Head(inbox[a]) \in Message
  BY <1>1
<1> QED
  BY <1>2 DEF Consume, Next1, Boxes

LEMMA LeaveType ==
  ASSUME NEW box \in Boxes, NEW a \in Agent
  PROVE  Leave(box, a) \in Boxes
BY DEF Leave, Boxes

-----------------------------------------------------------------------------
(* Only a material announces, and it has committed before it does.          *)
Announcers ==
  \A a \in Agent : stage[a] = "announcing" => a \in Material /\ assigned[a] # None

TypeInv == TypeOK /\ Announcers

LEMMA InitTypeInv == Init => TypeInv
<1> SUFFICES ASSUME Init PROVE TypeInv
  OBVIOUS
<1>1. inbox \in [Agent -> Seq(Message)] /\ stage \in [Agent -> Stage]
  BY DEF Init, Stage
<1>2. results \in Results
  BY DEF Init, Results
<1>3. assigned \in [Material -> (Equipment \X Nat) \cup {None}]
  BY DEF Init
<1>4. /\ round \in [Equipment -> Nat] /\ tons \in [Equipment -> Nat]
      /\ bidding \in [Equipment -> BOOLEAN]
      /\ bids \in [Equipment -> SUBSET Bid]
      /\ pending \in [Equipment -> Material \cup {None}]
  BY DEF Init
<1>5. TypeOK
  BY <1>1, <1>2, <1>3, <1>4 DEF Init, TypeOK
<1>6. Announcers
  BY DEF Init, Announcers
<1> QED
  BY <1>5, <1>6 DEF TypeInv

(* A step is well typed if the parts it writes are: the rest is unchanged.  *)
LEMMA AgentKinds == Equipment \subseteq Agent /\ Material \subseteq Agent /\ LogAgent \in Agent
BY DEF Agent

LEMMA BoxesOf == ASSUME TypeInv PROVE inbox \in Boxes
BY DEF TypeInv, TypeOK, Boxes

LEMMA StageOf == ASSUME TypeInv PROVE stage \in [Agent -> Stage]
BY DEF TypeInv, TypeOK

LEMMA ReadsOf ==
  ASSUME TypeInv, NEW a \in Agent, NEW act, Reads(a, act)
  PROVE  /\ Consume(a) \in Boxes
         /\ Next1(a) \in Message
         /\ Next1(a).act = act
         /\ stage[a] = "running"
BY BoxesOf, ConsumeType DEF Reads

(* Container and message handling that every agent shares.                  *)
LEMMA ContainerTypes ==
  ASSUME TypeInv, NEW a \in Agent, Launch(a) \/ Crash(a) \/ HandleExit(a)
  PROVE  TypeInv'
<1>1. inbox' \in Boxes
  BY BoxesOf, LeaveType DEF Launch, Crash, HandleExit
<1>2. /\ stage' \in [Agent -> Stage]
      /\ \A b \in Agent : stage'[b] = "announcing" => stage[b] = "announcing"
  BY StageOf, Zenon DEF Launch, Crash, HandleExit, Ends, Stage
<1>3. exiting' \in SUBSET {LogAgent, UX} /\ crashes' \in Nat
  BY DEF Launch, Crash, HandleExit, TypeInv, TypeOK
<1>4. UNCHANGED <<equipmentVars, assigned, logVars, uxVars>>
  BY DEF Launch, Crash, HandleExit
<1> QED
  BY <1>1, <1>2, <1>3, <1>4
     DEF TypeInv, TypeOK, Announcers, equipmentVars, logVars, uxVars, Boxes

LEMMA PingTypes ==
  ASSUME TypeInv, NEW a \in Agent, NEW answer \in Message, AnswerPing(a, answer)
  PROVE  TypeInv'
<1>1. inbox' \in Boxes
  BY ReadsOf, PostType DEF AnswerPing
<1> QED
  BY <1>1 DEF AnswerPing, TypeInv, TypeOK, Announcers, equipmentVars, logVars,
              uxVars, Boxes

LEMMA EquipmentTypes ==
  ASSUME TypeInv, NEW e \in Equipment,
         EquipmentStep(e) \/ AskBest(e) \/ NoMoreBids(e)
  PROVE  TypeInv'
<1> DEFINE msg == Next1(e)
<1>a. e \in Agent /\ round[e] \in Nat /\ inbox \in Boxes
  BY AgentKinds, BoxesOf DEF TypeInv, TypeOK
<1>1. CASE AnswerPing(e, OfEquipment("PINGANSWER", e))
  <2>1. OfEquipment("PINGANSWER", e) \in Message
    BY OfEquipmentMessage DEF TypeInv, EquipmentActions
  <2> QED
    BY <1>1, <1>a, <2>1, PingTypes
<1>2. CASE EquipmentStart(e)
  <2>1. OfEquipment("BID", e) \in Message
    BY OfEquipmentMessage DEF TypeInv, EquipmentActions
  <2>2. inbox' \in Boxes
    BY <1>2, <1>a, <2>1, ReadsOf, PostType DEF EquipmentStart, Receives
  <2>3. bidding' \in [Equipment -> BOOLEAN]
    BY <1>2 DEF EquipmentStart, TypeInv, TypeOK
  <2> QED
    BY <1>2, <2>2, <2>3 DEF EquipmentStart, TypeInv, TypeOK, Announcers, logVars,
                            uxVars, Boxes
<1>3. CASE EquipmentCounterbid(e)
  <2>1. inbox' \in Boxes /\ msg.mat \in Material /\ msg.rnd \in Nat
    BY <1>3, <1>a, ReadsOf, DealFields DEF EquipmentCounterbid, Receives, DealActions
  <2> DEFINE bid == [mat |-> msg.mat, rnd |-> msg.rnd]
  <2>2. bid \in Bid
    BY <2>1 DEF Bid
  <2>3. \/ bids' = [bids EXCEPT ![e] = @ \cup {bid}] /\ bidding' = [bidding EXCEPT ![e] = TRUE]
        \/ UNCHANGED <<bids, bidding>>
    BY <1>3 DEF EquipmentCounterbid
  <2> HIDE DEF bid
  <2>4. bids' \in [Equipment -> SUBSET Bid] /\ bidding' \in [Equipment -> BOOLEAN]
    <3>1. bids \in [Equipment -> SUBSET Bid] /\ bidding \in [Equipment -> BOOLEAN]
      BY DEF TypeInv, TypeOK
    <3>2. bids[e] \cup {bid} \in SUBSET Bid
      BY <2>2, <3>1
    <3> QED
      BY <2>3, <3>1, <3>2
  <2>5. UNCHANGED <<stage, round, pending, tons, assigned, logVars, exiting, uxVars, crashes>>
    BY <1>3 DEF EquipmentCounterbid
  <2> QED
    BY <2>1, <2>4, <2>5 DEF TypeInv, TypeOK, Announcers, logVars, uxVars, Boxes
<1>4. CASE EquipmentAssigned(e)
  <2>1. inbox' \in Boxes
    BY <1>4, <1>a, ReadsOf DEF EquipmentAssigned, Receives
  <2>2. /\ bids' \in [Equipment -> SUBSET Bid]
        /\ pending' \in [Equipment -> Material \cup {None}]
    <3>1. \/ bids' = bids /\ pending' = [pending EXCEPT ![e] = None]
          \/ pending' = pending /\ \E gone : bids' = [bids EXCEPT ![e] = @ \ gone]
      BY <1>4 DEF EquipmentAssigned
    <3>2. bids \in [Equipment -> SUBSET Bid] /\ pending \in [Equipment -> Material \cup {None}]
      BY DEF TypeInv, TypeOK
    <3> QED
      BY <3>1, <3>2
  <2> QED
    BY <1>4, <2>1, <2>2 DEF EquipmentAssigned, TypeInv, TypeOK, Announcers,
                            logVars, uxVars, Boxes
<1>5. CASE EquipmentConfirm(e)
  <2> DEFINE total == tons[e] + Tons[msg.mat]
             bid == Between("BID", e, NextRound(e), None)
  <2>1. Consume(e) \in Boxes /\ msg.mat \in Material
    BY <1>5, <1>a, ReadsOf, DealFields DEF EquipmentConfirm, Receives, DealActions
  <2>2. total \in Nat /\ NextRound(e) \in Nat
    BY <1>a, <2>1, DataAssumption DEF NextRound, TypeInv, TypeOK
  <2>3. tons' \in [Equipment -> Nat]
    BY <1>5, <2>2 DEF EquipmentConfirm, TypeInv, TypeOK
  <2>4. CASE HasEnough(e, total)
    <3>1. OfEquipment("EQUIPMENTFINISHED", e) \in Message
      BY OfEquipmentMessage DEF TypeInv, EquipmentActions
    <3>2. inbox' \in Boxes
      BY <1>5, <1>a, <2>4, <3>1, PostType, LeaveType DEF EquipmentConfirm
    <3>3. stage' = [stage EXCEPT ![e] = "ended"]
      BY <1>5, <2>4 DEF EquipmentConfirm, Ends
    <3>4. /\ stage' \in [Agent -> Stage]
          /\ \A b \in Agent : stage'[b] = "announcing" => stage[b] = "announcing"
      BY <3>3, StageOf, Zenon DEF Stage
    <3> QED
      BY <1>5, <2>3, <2>4, <3>2, <3>4
         DEF EquipmentConfirm, TypeInv, TypeOK, Announcers, logVars, uxVars, Boxes
  <2>5. CASE ~HasEnough(e, total)
    <3>1. bid \in Message
      BY <2>2, EquipmentMessage DEF EquipmentActions
    <3>2. inbox' \in Boxes
      BY <1>5, <2>1, <2>5, <3>1, PostType DEF EquipmentConfirm
    <3>3. /\ round' \in [Equipment -> Nat]
          /\ bids' \in [Equipment -> SUBSET Bid]
          /\ pending' \in [Equipment -> Material \cup {None}]
          /\ bidding' \in [Equipment -> BOOLEAN]
      BY <1>5, <2>2, <2>5 DEF EquipmentConfirm, TypeInv, TypeOK
    <3> QED
      BY <1>5, <2>3, <2>5, <3>2, <3>3
         DEF EquipmentConfirm, TypeInv, TypeOK, Announcers, logVars, uxVars, Boxes
  <2> QED
    BY <2>4, <2>5
<1>6. CASE EquipmentConfirmError(e)
  <2>1. OfEquipment("RECIEVEERROR", e) \in Message
    BY OfEquipmentMessage DEF TypeInv, EquipmentActions
  <2>2. inbox' \in Boxes
    BY <1>6, <1>a, <2>1, ReadsOf, PostType DEF EquipmentConfirmError, Receives
  <2> QED
    BY <1>6, <2>2 DEF EquipmentConfirmError, TypeInv, TypeOK, Announcers,
                      equipmentVars, logVars, uxVars, Boxes
<1>7. CASE EquipmentIgnores(e)
  <2>1. inbox' \in Boxes
    BY <1>7, <1>a, ConsumeType DEF EquipmentIgnores
  <2> QED
    BY <1>7, <2>1 DEF EquipmentIgnores, TypeInv, TypeOK, Announcers,
                      equipmentVars, logVars, uxVars, Boxes
<1>8. CASE HandleExit(e)
  BY <1>8, <1>a, ContainerTypes
<1>9. CASE AskBest(e)
  <2>1. PICK b \in bids[e] :
          /\ bids' = [bids EXCEPT ![e] = @ \ {b}]
          /\ pending' = [pending EXCEPT ![e] = b.mat]
          /\ inbox' = Post(inbox, NameCovers[b.mat],
                           Between("ASKCONFIRM", e, round[e], b.mat))
    BY <1>9 DEF AskBest
  <2>2. b.mat \in Material
    BY DEF TypeInv, TypeOK, Bid
  <2>3. Between("ASKCONFIRM", e, round[e], b.mat) \in Message
    BY <1>a, <2>2, DealMessage DEF DealActions
  <2>4. inbox' \in Boxes
    BY <1>a, <2>1, <2>3, PostType
  <2>5. /\ bids' \in [Equipment -> SUBSET Bid]
        /\ pending' \in [Equipment -> Material \cup {None}]
    BY <2>1, <2>2 DEF TypeInv, TypeOK
  <2> QED
    BY <1>9, <2>4, <2>5 DEF AskBest, TypeInv, TypeOK, Announcers, logVars, uxVars,
                            Boxes
<1>10. CASE NoMoreBids(e)
  <2>1. OfEquipment("EQUIPMENTFINISHED", e) \in Message
    BY OfEquipmentMessage DEF TypeInv, EquipmentActions
  <2>2. inbox' \in Boxes
    BY <1>10, <1>a, <2>1, PostType, LeaveType DEF NoMoreBids
  <2>3. /\ stage' \in [Agent -> Stage]
        /\ \A b \in Agent : stage'[b] = "announcing" => stage[b] = "announcing"
    BY <1>10, StageOf, Zenon DEF NoMoreBids, Ends, Stage
  <2> QED
    BY <1>10, <2>2, <2>3 DEF NoMoreBids, TypeInv, TypeOK, Announcers,
                             equipmentVars, logVars, uxVars, Boxes
<1> QED
  BY <1>1, <1>2, <1>3, <1>4, <1>5, <1>6, <1>7, <1>8, <1>9, <1>10 DEF EquipmentStep

LEMMA MaterialTypes ==
  ASSUME TypeInv, NEW m \in Material, MaterialStep(m)
  PROVE  TypeInv'
<1> DEFINE msg == Next1(m)
<1>a. m \in Agent /\ inbox \in Boxes
  BY AgentKinds, BoxesOf
<1>1. CASE AnswerPing(m, OfMaterial("PINGANSWER", m))
  BY <1>1, <1>a, MaterialMessage, PingTypes
<1>2. CASE MaterialBid(m)
  <2>1. Consume(m) \in Boxes /\ msg.eq \in Equipment /\ msg.rnd \in Nat
    BY <1>2, <1>a, ReadsOf, EquipmentFields DEF MaterialBid
  <2>2. /\ Between("ASSIGNED", msg.eq, msg.rnd, m) \in Message
        /\ Between("COUNTERBID", msg.eq, msg.rnd, m) \in Message
    BY <2>1, DealMessage DEF DealActions
  <2>3. inbox' \in Boxes
    BY <1>2, <2>1, <2>2, PostType DEF MaterialBid
  <2> QED
    BY <1>2, <2>3 DEF MaterialBid, TypeInv, TypeOK, Announcers, equipmentVars,
                      logVars, uxVars, Boxes
<1>3. CASE MaterialAskConfirm(m)
  <2>1. Consume(m) \in Boxes /\ msg.eq \in Equipment /\ msg.rnd \in Nat
    BY <1>3, <1>a, ReadsOf, DealFields DEF MaterialAskConfirm, DealActions
  <2>2. /\ Between("ASSIGNED", msg.eq, msg.rnd, m) \in Message
        /\ Between("CONFIRM", msg.eq, msg.rnd, m) \in Message
    BY <2>1, DealMessage DEF DealActions
  <2>3. inbox' \in Boxes
    BY <1>3, <2>1, <2>2, PostType DEF MaterialAskConfirm
  <2>4. CASE UNCHANGED <<assigned, stage>>
    BY <1>3, <2>3, <2>4 DEF MaterialAskConfirm, TypeInv, TypeOK, Announcers,
                            equipmentVars, logVars, uxVars, Boxes
  <2>5. CASE /\ assigned' = [assigned EXCEPT ![m] = Name(msg)]
             /\ stage' = [stage EXCEPT ![m] = "announcing"]
    <3>1. Name(msg) \in Equipment \X Nat /\ Name(msg) # None
      BY <2>1, AgentsAssumption DEF Name
    <3>2. assigned' \in [Material -> (Equipment \X Nat) \cup {None}]
      BY <2>5, <3>1 DEF TypeInv, TypeOK
    <3>3. stage' \in [Agent -> Stage]
      BY <2>5, StageOf DEF Stage
    <3>4. \A b \in Agent : stage'[b] = "announcing" => b \in Material /\ assigned'[b] # None
      BY <1>a, <2>5, <3>1, StageOf DEF TypeInv, TypeOK, Announcers
    <3> QED
      BY <1>3, <2>3, <3>2, <3>3, <3>4
         DEF MaterialAskConfirm, TypeInv, TypeOK, Announcers, equipmentVars, logVars,
             uxVars, Boxes
  <2> QED
    BY <1>3, <2>4, <2>5 DEF MaterialAskConfirm
<1>4. CASE MaterialAnnounce(m)
  <2>1. assigned[m] \in Equipment \X Nat
    BY <1>4, <1>a DEF MaterialAnnounce, TypeInv, TypeOK, Announcers
  <2>2. Between("ASSIGNEDOTHERS", assigned[m][1], assigned[m][2], m) \in Message
    BY <2>1, DealMessage DEF DealActions
  <2>3. inbox' \in Boxes
    BY <1>4, <1>a, <2>2, PostType, LeaveType DEF MaterialAnnounce
  <2>4. /\ stage' \in [Agent -> Stage]
        /\ \A b \in Agent : stage'[b] = "announcing" => stage[b] = "announcing"
    BY <1>4, StageOf, Zenon DEF MaterialAnnounce, Ends, Stage
  <2> QED
    BY <1>4, <2>3, <2>4 DEF MaterialAnnounce, TypeInv, TypeOK, Announcers,
                            equipmentVars, logVars, uxVars, Boxes
<1>5. CASE HandleExit(m)
  BY <1>5, <1>a, ContainerTypes
<1> QED
  BY <1>1, <1>2, <1>3, <1>4, <1>5 DEF MaterialStep

LEMMA ExitType ==
  ASSUME NEW box \in Boxes
  PROVE  ExitAgents(box) \in Boxes
BY PlainMessage, PostType DEF ExitAgents, Broadcasts

LEMMA LogTypes ==
  ASSUME TypeInv, LogStep
  PROVE  TypeInv'
<1> DEFINE msg == Next1(LogAgent)
<1>a. LogAgent \in Agent /\ inbox \in Boxes
  BY AgentKinds, BoxesOf
<1>1. CASE LogCheck
  <2>1. inbox' \in Boxes
    BY <1>1, <1>a, ReadsOf, PlainMessage, PostType DEF LogCheck, LogReads, Broadcasts
  <2> QED
    BY <1>1, <2>1 DEF LogCheck, TypeInv, TypeOK, Announcers, equipmentVars, uxVars,
                      Boxes
<1>2. CASE LogPing
  BY <1>2, <1>a, PlainMessage, PingTypes DEF LogPing, Broadcasts
<1>3. CASE LogPingAnswer
  <2>1. inbox' \in Boxes /\ msg \in Message
    BY <1>3, <1>a, ReadsOf DEF LogPingAnswer, LogReads
  <2>2. Answerer(msg) \in Agent
    BY <2>1, AgentKinds DEF Answerer, Message
  <2> QED
    BY <1>3, <2>1, <2>2 DEF LogPingAnswer, TypeInv, TypeOK, Announcers,
                            equipmentVars, uxVars, Boxes
<1>4. CASE LogStart
  <2>1. inbox' \in Boxes
    BY <1>4, <1>a, PlainMessage, PostType DEF LogStart, Broadcasts
  <2> QED
    BY <1>4, <2>1 DEF LogStart, TypeInv, TypeOK, Announcers, equipmentVars, uxVars,
                      Boxes
<1>5. CASE LogRecordsConfirm
  <2> DEFINE entry == [mat |-> msg.mat, rnd |-> msg.rnd]
  <2>1. inbox' \in Boxes /\ msg.eq \in Equipment /\ entry \in Bid
    BY <1>5, <1>a, ReadsOf, DealFields DEF LogRecordsConfirm, LogReads, DealActions, Bid
  <2>2. results' = [results EXCEPT ![msg.eq] = Append(@, entry)]
    BY <1>5 DEF LogRecordsConfirm
  <2> HIDE DEF entry
  <2>3. results' \in Results
    BY <2>1, <2>2 DEF Results, TypeInv, TypeOK
  <2> QED
    BY <1>5, <2>1, <2>3 DEF LogRecordsConfirm, TypeInv, TypeOK, Announcers,
                            equipmentVars, uxVars, Boxes
<1>6. CASE LogEquipmentFinished
  <2>1. inbox' \in Boxes /\ msg.eq \in Equipment
    BY <1>6, <1>a, ReadsOf, EquipmentFields DEF LogEquipmentFinished, LogReads
  <2>2. finished' \in SUBSET Equipment /\ completed' \in BOOLEAN
    BY <1>6, <2>1 DEF LogEquipmentFinished, AllFinished, TypeInv, TypeOK
  <2> QED
    BY <1>6, <2>1, <2>2 DEF LogEquipmentFinished, TypeInv, TypeOK, Announcers,
                            equipmentVars, uxVars, Boxes
<1>7. CASE LogAskResults
  <2>1. inbox' \in Boxes
    BY <1>7, <1>a, ReadsOf, ExitType DEF LogAskResults, LogReads
  <2>2. endRequested' \in BOOLEAN /\ exiting' \in SUBSET {LogAgent, UX}
    BY <1>7 DEF LogAskResults, TypeInv, TypeOK
  <2>3. /\ served' = results
        /\ UNCHANGED <<stage, equipmentVars, assigned, checked, present, started,
                       finished, completed, results, failed, uxVars, crashes>>
    BY <1>7 DEF LogAskResults
  <2> QED
    BY <2>1, <2>2, <2>3 DEF TypeInv, TypeOK, Announcers, equipmentVars, uxVars, Boxes
<1>8. CASE LogReceiveError
  <2>1. inbox' \in Boxes
    BY <1>8, <1>a, ReadsOf, ExitType DEF LogReceiveError, LogReads
  <2>2. results' \in Results
    BY <1>8 DEF LogReceiveError, Results
  <2> QED
    BY <1>8, <2>1, <2>2 DEF LogReceiveError, TypeInv, TypeOK, Announcers,
                            equipmentVars, uxVars, Boxes
<1>9. CASE LogExit
  BY <1>9, <1>a, ContainerTypes DEF LogExit
<1> QED
  BY <1>1, <1>2, <1>3, <1>4, <1>5, <1>6, <1>7, <1>8, <1>9 DEF LogStep

LEMMA UXTypes ==
  ASSUME TypeInv, UXStep \/ (\E caller \in {LogAgent, UX} : ExitLog(caller))
  PROVE  TypeInv'
<1>1. inbox' \in Boxes
  BY BoxesOf, PlainMessage, PostType, ExitType
     DEF UXStep, UXCheck, UXAskResults, UXEndAuction, ExitLog, Broadcasts
<1>a. /\ checkSent \in BOOLEAN /\ asks \in Nat /\ ended \in BOOLEAN
      /\ exiting \in SUBSET {LogAgent, UX}
  BY DEF TypeInv, TypeOK
<1>2. /\ checkSent' \in BOOLEAN /\ asks' \in Nat /\ ended' \in BOOLEAN
      /\ exiting' \in SUBSET {LogAgent, UX}
  <2>1. CASE UXCheck
    BY <1>a, <2>1 DEF UXCheck
  <2>2. CASE UXAskResults
    BY <1>a, <2>2 DEF UXAskResults
  <2>3. CASE UXEndAuction
    BY <1>a, <2>3 DEF UXEndAuction
  <2>4. CASE \E caller \in {LogAgent, UX} : ExitLog(caller)
    BY <1>a, <2>4 DEF ExitLog, uxVars
  <2> QED
    BY <2>1, <2>2, <2>3, <2>4 DEF UXStep
<1>3. UNCHANGED <<stage, equipmentVars, assigned, logVars, crashes>>
  BY DEF UXStep, UXCheck, UXAskResults, UXEndAuction, ExitLog
<1> QED
  BY <1>1, <1>2, <1>3 DEF TypeInv, TypeOK, Announcers, equipmentVars, logVars, Boxes

(* Every step keeps the types: one lemma above for each kind of agent.      *)
LEMMA NextTypeInv ==
  ASSUME TypeInv, [Next]_vars
  PROVE  TypeInv'
<1>1. CASE Next
  BY <1>1, ContainerTypes, EquipmentTypes, MaterialTypes, LogTypes, UXTypes DEF Next
<1>2. CASE UNCHANGED vars
  BY <1>2 DEF vars, TypeInv, TypeOK, Announcers, equipmentVars, logVars, uxVars
<1> QED
  BY <1>1, <1>2

LEMMA TypeInvariant == Spec => []TypeInv
<1>1. Init => TypeInv
  BY InitTypeInv
<1>2. TypeInv /\ [Next]_vars => TypeInv'
  BY NextTypeInv
<1> QED
  BY <1>1, <1>2, PTL DEF Spec

(* Whatever the interleaving of the agents' loops, every field of every     *)
(* agent and every message on the topic keeps its type.                     *)
THEOREM TypeCorrect == Spec => []TypeOK
<1>1. TypeInv => TypeOK
  BY DEF TypeInv
<1> QED
  BY <1>1, TypeInvariant, PTL

-----------------------------------------------------------------------------
(* No order stands twice in the results.  A material confirms once, because *)
(* it stops reading when it has committed; what it confirmed is on its way  *)
(* to the LOG or in the results, never both and never twice.                *)

Has(q, m) == \E i \in DOMAIN q : q[i].act = "CONFIRM" /\ q[i].mat = m
NoTwin(q) ==
  \A i, j \in DOMAIN q :
    q[i].act = "CONFIRM" /\ q[j].act = "CONFIRM" /\ q[i].mat = q[j].mat => i = j

Undecided(m) == stage[m] \in {"absent", "running"}

Ledger ==
  /\ NoTwin(inbox[LogAgent])
  /\ \A m \in Material :
       Has(inbox[LogAgent], m) \/ m \in InResults(results) => ~Undecided(m)
  /\ \A m \in Material : Has(inbox[LogAgent], m) => m \notin InResults(results)
  /\ OrderHasOneOwner

(* q2 holds no confirmation that q does not hold, and none of them twice.   *)
Thinner(q2, q) ==
  /\ NoTwin(q) => NoTwin(q2)
  /\ \A m \in Material : Has(q2, m) => Has(q, m)

LEMMA ThinnerTransitive ==
  ASSUME NEW p, NEW q, NEW r, Thinner(p, q), Thinner(q, r)
  PROVE  Thinner(p, r)
BY DEF Thinner

LEMMA TailThinner ==
  ASSUME NEW q \in Seq(Message), q # <<>>
  PROVE  /\ Thinner(Tail(q), q)
         /\ Head(q).act = "CONFIRM" =>
              Has(q, Head(q).mat) /\ (NoTwin(q) => ~Has(Tail(q), Head(q).mat))
<1>1. /\ DOMAIN q = 1..Len(q) /\ DOMAIN Tail(q) = 1..(Len(q) - 1)
      /\ Len(q) \in Nat \ {0} /\ Head(q) = q[1]
      /\ \A i \in 1..(Len(q) - 1) : Tail(q)[i] = q[i + 1]
  OBVIOUS
<1>2. \A m \in Material : Has(Tail(q), m) => Has(q, m)
  BY <1>1 DEF Has
<1>3. NoTwin(q) => NoTwin(Tail(q))
  <2> SUFFICES ASSUME NoTwin(q), NEW i \in DOMAIN Tail(q), NEW j \in DOMAIN Tail(q),
                      Tail(q)[i].act = "CONFIRM", Tail(q)[j].act = "CONFIRM",
                      Tail(q)[i].mat = Tail(q)[j].mat
               PROVE  i = j
    BY DEF NoTwin
  <2>1. i + 1 \in DOMAIN q /\ j + 1 \in DOMAIN q
    BY <1>1
  <2>2. i + 1 = j + 1
    BY <1>1, <2>1 DEF NoTwin
  <2> QED
    BY <1>1, <2>2
<1>4. Head(q).act = "CONFIRM" => Has(q, Head(q).mat)
  BY <1>1 DEF Has
<1>5. ASSUME NoTwin(q), Head(q).act = "CONFIRM", Has(Tail(q), Head(q).mat)
      PROVE  FALSE
  <2>1. PICK i \in DOMAIN Tail(q) : Tail(q)[i].act = "CONFIRM" /\ Tail(q)[i].mat = Head(q).mat
    BY <1>5 DEF Has
  <2>2. i + 1 \in DOMAIN q /\ 1 \in DOMAIN q /\ i + 1 # 1
    BY <1>1
  <2> QED
    BY <1>1, <1>5, <2>1, <2>2 DEF NoTwin
<1> QED
  BY <1>2, <1>3, <1>4, <1>5 DEF Thinner

LEMMA AppendThinner ==
  ASSUME NEW q \in Seq(Message), NEW msg \in Message, msg.act # "CONFIRM"
  PROVE  Thinner(Append(q, msg), q)
<1>1. /\ DOMAIN q = 1..Len(q) /\ DOMAIN Append(q, msg) = 1..(Len(q) + 1)
      /\ Len(q) \in Nat
      /\ \A i \in 1..Len(q) : Append(q, msg)[i] = q[i]
      /\ Append(q, msg)[Len(q) + 1] = msg
  OBVIOUS
<1>2. \A i \in DOMAIN Append(q, msg) :
        Append(q, msg)[i].act = "CONFIRM" => i \in DOMAIN q /\ Append(q, msg)[i] = q[i]
  BY <1>1
<1> QED
  BY <1>2 DEF Thinner, Has, NoTwin

LEMMA AppendConfirm ==
  ASSUME NEW q \in Seq(Message), NEW msg \in Message, NoTwin(q), ~Has(q, msg.mat)
  PROVE  /\ NoTwin(Append(q, msg))
         /\ \A m : Has(Append(q, msg), m) => m = msg.mat \/ Has(q, m)
<1>1. /\ DOMAIN q = 1..Len(q) /\ DOMAIN Append(q, msg) = 1..(Len(q) + 1)
      /\ Len(q) \in Nat
      /\ \A i \in 1..Len(q) : Append(q, msg)[i] = q[i]
      /\ Append(q, msg)[Len(q) + 1] = msg
  OBVIOUS
<1>2. \A i \in DOMAIN Append(q, msg) :
        \/ i \in DOMAIN q /\ Append(q, msg)[i] = q[i]
        \/ i = Len(q) + 1 /\ Append(q, msg)[i] = msg
  BY <1>1
<1>3. \A m : Has(Append(q, msg), m) => m = msg.mat \/ Has(q, m)
  BY <1>2 DEF Has
<1>4. NoTwin(Append(q, msg))
  BY <1>2 DEF NoTwin, Has
<1> QED
  BY <1>3, <1>4

(* What a step may do to the LOG's part of the topic without confirming.    *)
LEMMA PostThinner ==
  ASSUME NEW box \in Boxes, NEW readers, NEW msg \in Message,
         msg.act # "CONFIRM" \/ LogAgent \notin readers
  PROVE  Thinner(Post(box, readers, msg)[LogAgent], box[LogAgent])
<1>1. LogAgent \in Agent /\ box[LogAgent] \in Seq(Message)
  BY AgentKinds DEF Boxes
<1>2. CASE LogAgent \in readers /\ stage[LogAgent] # "ended"
  <2>1. Post(box, readers, msg)[LogAgent] = Append(box[LogAgent], msg)
    BY <1>1, <1>2 DEF Post
  <2> QED
    BY <1>1, <1>2, <2>1, AppendThinner
<1>3. CASE ~(LogAgent \in readers /\ stage[LogAgent] # "ended")
  <2>1. Post(box, readers, msg)[LogAgent] = box[LogAgent]
    BY <1>1, <1>3 DEF Post
  <2> QED
    BY <2>1 DEF Thinner
<1> QED
  BY <1>2, <1>3

LEMMA ConsumeThinner ==
  ASSUME inbox \in Boxes, NEW a \in Agent, inbox[a] # <<>>
  PROVE  Thinner(Consume(a)[LogAgent], inbox[LogAgent])
<1>1. LogAgent \in Agent /\ inbox[LogAgent] \in Seq(Message)
  BY AgentKinds DEF Boxes
<1>2. CASE a = LogAgent
  <2>1. Consume(a)[LogAgent] = Tail(inbox[LogAgent])
    BY <1>1, <1>2 DEF Consume, Boxes
  <2> QED
    BY <1>1, <1>2, <2>1, TailThinner
<1>3. CASE a # LogAgent
  <2>1. Consume(a)[LogAgent] = inbox[LogAgent]
    BY <1>1, <1>3 DEF Consume, Boxes
  <2> QED
    BY <2>1 DEF Thinner
<1> QED
  BY <1>2, <1>3

LEMMA LeaveThinner ==
  ASSUME NEW box \in Boxes, NEW a \in Agent
  PROVE  Thinner(Leave(box, a)[LogAgent], box[LogAgent])
<1>1. Leave(box, a)[LogAgent] = <<>> \/ Leave(box, a)[LogAgent] = box[LogAgent]
  BY AgentKinds DEF Leave, Boxes
<1> QED
  BY <1>1 DEF Thinner, Has, NoTwin

(* A step that confirms nothing and records nothing keeps the ledger.       *)
LEMMA QuietStep ==
  ASSUME Ledger, Thinner(inbox'[LogAgent], inbox[LogAgent]), results' = results,
         \A m \in Material : Undecided(m)' => Undecided(m)
  PROVE  Ledger'
BY DEF Ledger, Thinner, OrderHasOneOwner, InResults

LEMMA ReplyThinner ==
  ASSUME TypeInv, NEW a \in Agent, NEW act, Reads(a, act), NEW readers,
         NEW msg \in Message, msg.act # "CONFIRM" \/ LogAgent \notin readers
  PROVE  Thinner(Post(Consume(a), readers, msg)[LogAgent], inbox[LogAgent])
<1>1. Consume(a) \in Boxes /\ inbox[a] # <<>>
  BY ReadsOf DEF Reads
<1>2. Thinner(Consume(a)[LogAgent], inbox[LogAgent])
  BY <1>1, BoxesOf, ConsumeThinner
<1>3. Thinner(Post(Consume(a), readers, msg)[LogAgent], Consume(a)[LogAgent])
  BY <1>1, PostThinner
<1> QED
  BY <1>2, <1>3, ThinnerTransitive

LEMMA ReadThinner ==
  ASSUME TypeInv, NEW a \in Agent, NEW act, Reads(a, act)
  PROVE  Thinner(Consume(a)[LogAgent], inbox[LogAgent])
BY BoxesOf, ConsumeThinner DEF Reads

LEMMA FarewellThinner ==
  ASSUME TypeInv, NEW a \in Agent, NEW readers, NEW msg \in Message,
         msg.act # "CONFIRM" \/ LogAgent \notin readers
  PROVE  Thinner(Leave(Post(inbox, readers, msg), a)[LogAgent], inbox[LogAgent])
<1>1. Post(inbox, readers, msg) \in Boxes
  BY BoxesOf, PostType
<1>2. Thinner(Leave(Post(inbox, readers, msg), a)[LogAgent],
              Post(inbox, readers, msg)[LogAgent])
  BY <1>1, LeaveThinner
<1>3. Thinner(Post(inbox, readers, msg)[LogAgent], inbox[LogAgent])
  BY BoxesOf, PostThinner
<1> QED
  BY <1>2, <1>3, ThinnerTransitive

LEMMA EndingDecides ==
  ASSUME TypeInv, NEW a \in Agent, Ends(a)
  PROVE  \A m \in Material : Undecided(m)' => Undecided(m)
BY StageOf, AgentKinds DEF Ends, Undecided

LEMMA SameStages ==
  ASSUME stage' = stage
  PROVE  \A m \in Material : Undecided(m)' => Undecided(m)
BY DEF Undecided

LEMMA ContainerLedger ==
  ASSUME TypeInv, Ledger, NEW a \in Agent, Launch(a) \/ Crash(a) \/ HandleExit(a)
  PROVE  Ledger'
<1>1. CASE Launch(a)
  <2>1. Thinner(inbox'[LogAgent], inbox[LogAgent]) /\ results' = results
    BY <1>1 DEF Launch, logVars, Thinner
  <2>2. \A m \in Material : Undecided(m)' => Undecided(m)
    BY <1>1, StageOf, AgentKinds DEF Launch, Undecided
  <2> QED
    BY <2>1, <2>2, QuietStep
<1>2. CASE Crash(a)
  BY <1>2, BoxesOf, LeaveThinner, EndingDecides, QuietStep DEF Crash, logVars
<1>3. CASE HandleExit(a)
  BY <1>3, BoxesOf, LeaveThinner, EndingDecides, QuietStep DEF HandleExit, logVars
<1> QED
  BY <1>1, <1>2, <1>3

LEMMA PingLedger ==
  ASSUME TypeInv, Ledger, NEW a \in Agent, NEW answer \in Message,
         answer.act = "PINGANSWER", AnswerPing(a, answer)
  PROVE  Ledger'
BY ReplyThinner, SameStages, QuietStep DEF AnswerPing, logVars

LEMMA EquipmentLedger ==
  ASSUME TypeInv, Ledger, NEW e \in Equipment,
         EquipmentStep(e) \/ AskBest(e) \/ NoMoreBids(e)
  PROVE  Ledger'
<1>a. e \in Agent /\ round[e] \in Nat /\ LogAgent \notin Equipment \cup Material
  BY AgentKinds, AgentsAssumption DEF TypeInv, TypeOK
<1>b. \A act \in EquipmentActions :
        OfEquipment(act, e) \in Message /\ OfEquipment(act, e).act = act
  BY OfEquipmentMessage DEF TypeInv, OfEquipment
<1>1. CASE AnswerPing(e, OfEquipment("PINGANSWER", e))
  BY <1>1, <1>a, <1>b, PingLedger DEF EquipmentActions
<1>2. CASE EquipmentStart(e)
  <2>1. Thinner(inbox'[LogAgent], inbox[LogAgent])
    BY <1>2, <1>a, <1>b, ReplyThinner DEF EquipmentStart, Receives, EquipmentActions
  <2> QED
    BY <1>2, <2>1, SameStages, QuietStep DEF EquipmentStart, logVars
<1>3. CASE EquipmentCounterbid(e)
  <2>1. Thinner(inbox'[LogAgent], inbox[LogAgent])
    BY <1>3, <1>a, ReadThinner DEF EquipmentCounterbid, Receives
  <2> QED
    BY <1>3, <2>1, SameStages, QuietStep DEF EquipmentCounterbid, logVars
<1>4. CASE EquipmentAssigned(e)
  <2>1. Thinner(inbox'[LogAgent], inbox[LogAgent])
    BY <1>4, <1>a, ReadThinner DEF EquipmentAssigned, Receives
  <2> QED
    BY <1>4, <2>1, SameStages, QuietStep DEF EquipmentAssigned, logVars
<1>5. CASE EquipmentConfirm(e)
  <2> DEFINE total == tons[e] + Tons[Next1(e).mat]
             bid == Between("BID", e, NextRound(e), None)
  <2>1. results' = results
    BY <1>5 DEF EquipmentConfirm, logVars
  <2>2. CASE HasEnough(e, total)
    <3>1. Thinner(inbox'[LogAgent], inbox[LogAgent])
      BY <1>5, <1>a, <1>b, <2>2, FarewellThinner DEF EquipmentConfirm, EquipmentActions
    <3>2. Ends(e)
      BY <1>5, <2>2 DEF EquipmentConfirm
    <3> QED
      BY <1>a, <2>1, <3>1, <3>2, EndingDecides, QuietStep
  <2>3. CASE ~HasEnough(e, total)
    <3>1. bid \in Message /\ bid.act = "BID"
      BY <1>a, EquipmentMessage DEF EquipmentActions, NextRound, Between
    <3>2. inbox' = Post(Consume(e), Material, bid) /\ stage' = stage
      BY <1>5, <2>3 DEF EquipmentConfirm
    <3>3. Thinner(inbox'[LogAgent], inbox[LogAgent])
      BY <1>5, <1>a, <3>1, <3>2, ReplyThinner DEF EquipmentConfirm, Receives
    <3> QED
      BY <2>1, <3>2, <3>3, SameStages, QuietStep
  <2> QED
    BY <2>2, <2>3
<1>6. CASE EquipmentConfirmError(e)
  <2>1. Thinner(inbox'[LogAgent], inbox[LogAgent])
    BY <1>6, <1>a, <1>b, ReplyThinner DEF EquipmentConfirmError, Receives, EquipmentActions
  <2> QED
    BY <1>6, <2>1, SameStages, QuietStep DEF EquipmentConfirmError, logVars
<1>7. CASE EquipmentIgnores(e)
  <2>1. Thinner(inbox'[LogAgent], inbox[LogAgent])
    BY <1>7, <1>a, BoxesOf, ConsumeThinner DEF EquipmentIgnores
  <2> QED
    BY <1>7, <2>1, SameStages, QuietStep DEF EquipmentIgnores, logVars
<1>8. CASE HandleExit(e)
  BY <1>8, <1>a, ContainerLedger
<1>9. CASE AskBest(e)
  <2>1. PICK b \in bids[e] :
          inbox' = Post(inbox, NameCovers[b.mat],
                        Between("ASKCONFIRM", e, round[e], b.mat))
    BY <1>9 DEF AskBest
  <2>2. b.mat \in Material
    BY DEF TypeInv, TypeOK, Bid
  <2>3. /\ Between("ASKCONFIRM", e, round[e], b.mat) \in Message
        /\ Between("ASKCONFIRM", e, round[e], b.mat).act # "CONFIRM"
    BY <1>a, <2>2, DealMessage DEF DealActions, Between
  <2>4. Thinner(inbox'[LogAgent], inbox[LogAgent])
    BY <2>1, <2>3, BoxesOf, PostThinner
  <2> QED
    BY <1>9, <2>4, SameStages, QuietStep DEF AskBest, logVars
<1>10. CASE NoMoreBids(e)
  <2>1. Thinner(inbox'[LogAgent], inbox[LogAgent])
    BY <1>10, <1>a, <1>b, FarewellThinner DEF NoMoreBids, EquipmentActions
  <2> QED
    BY <1>10, <1>a, <2>1, EndingDecides, QuietStep DEF NoMoreBids, logVars
<1> QED
  BY <1>1, <1>2, <1>3, <1>4, <1>5, <1>6, <1>7, <1>8, <1>9, <1>10 DEF EquipmentStep

LEMMA MaterialLedger ==
  ASSUME TypeInv, Ledger, NEW m \in Material, MaterialStep(m)
  PROVE  Ledger'
<1> DEFINE msg == Next1(m)
           confirm == Between("CONFIRM", msg.eq, msg.rnd, m)
<1>a. m \in Agent /\ m # LogAgent /\ LogAgent \notin Equipment
  BY AgentKinds, AgentsAssumption
<1>1. CASE AnswerPing(m, OfMaterial("PINGANSWER", m))
  BY <1>1, <1>a, MaterialMessage, PingLedger DEF OfMaterial
<1>2. CASE MaterialBid(m)
  <2>1. msg.eq \in Equipment /\ msg.rnd \in Nat
    BY <1>2, <1>a, ReadsOf, EquipmentFields DEF MaterialBid
  <2>2. /\ Between("ASSIGNED", msg.eq, msg.rnd, m) \in Message
        /\ Between("COUNTERBID", msg.eq, msg.rnd, m) \in Message
    BY <2>1, DealMessage DEF DealActions
  <2>3. Thinner(inbox'[LogAgent], inbox[LogAgent])
    BY <1>2, <1>a, <2>1, <2>2, ReplyThinner, ReadThinner DEF MaterialBid
  <2> QED
    BY <1>2, <2>3, SameStages, QuietStep DEF MaterialBid, logVars
<1>3. CASE MaterialAskConfirm(m)
  <2>1. msg.eq \in Equipment /\ msg.rnd \in Nat /\ Undecided(m)
    BY <1>3, <1>a, ReadsOf, DealFields DEF MaterialAskConfirm, DealActions, Undecided
  <2>2. /\ Between("ASSIGNED", msg.eq, msg.rnd, m) \in Message
        /\ confirm \in Message /\ confirm.mat = m
    BY <2>1, DealMessage DEF DealActions, Between
  <2>3. results' = results
    BY <1>3 DEF MaterialAskConfirm, logVars
  <2>4. CASE /\ inbox' = Post(Consume(m), {msg.eq}, Between("ASSIGNED", msg.eq, msg.rnd, m))
             /\ UNCHANGED stage
    <3>1. Thinner(inbox'[LogAgent], inbox[LogAgent])
      BY <1>3, <1>a, <2>1, <2>2, <2>4, ReplyThinner DEF MaterialAskConfirm
    <3> QED
      BY <2>3, <2>4, <3>1, SameStages, QuietStep
  <2>5. CASE /\ inbox' = Post(Consume(m), {msg.eq, LogAgent}, confirm)
             /\ stage' = [stage EXCEPT ![m] = "announcing"]
    <3> DEFINE q == inbox[LogAgent]
    <3>1. Consume(m)[LogAgent] = q /\ q \in Seq(Message)
      BY <1>a, BoxesOf, AgentKinds DEF Consume, Boxes
    <3>2. inbox'[LogAgent] = q \/ inbox'[LogAgent] = Append(q, confirm)
      BY <2>5, <3>1, AgentKinds DEF Post
    <3>3. NoTwin(q) /\ ~Has(q, m) /\ m \notin InResults(results)
      BY <2>1 DEF Ledger
    <3> HIDE DEF q, confirm
    <3>4. /\ NoTwin(inbox'[LogAgent])
          /\ \A n \in Material : Has(inbox'[LogAgent], n) => n = m \/ Has(q, n)
      BY <2>2, <3>1, <3>2, <3>3, AppendConfirm
    <3>5. ~Undecided(m)' /\ \A n \in Material : Undecided(n)' => Undecided(n)
      BY <1>a, <2>5, StageOf, AgentKinds DEF Undecided
    <3> QED
      BY <2>3, <3>3, <3>4, <3>5 DEF Ledger, OrderHasOneOwner, InResults, q
  <2> QED
    BY <1>3, <2>4, <2>5 DEF MaterialAskConfirm
<1>4. CASE MaterialAnnounce(m)
  <2>1. assigned[m] \in Equipment \X Nat
    BY <1>4, <1>a DEF MaterialAnnounce, TypeInv, TypeOK, Announcers
  <2>2. Between("ASSIGNEDOTHERS", assigned[m][1], assigned[m][2], m) \in Message
    BY <2>1, DealMessage DEF DealActions
  <2>3. Thinner(inbox'[LogAgent], inbox[LogAgent])
    BY <1>4, <1>a, <2>2, FarewellThinner DEF MaterialAnnounce
  <2> QED
    BY <1>4, <1>a, <2>3, EndingDecides, QuietStep DEF MaterialAnnounce, logVars
<1>5. CASE HandleExit(m)
  BY <1>5, <1>a, ContainerLedger
<1> QED
  BY <1>1, <1>2, <1>3, <1>4, <1>5 DEF MaterialStep

(* The one action that writes the results.                                  *)
LEMMA RecordLedger ==
  ASSUME TypeInv, Ledger, LogRecordsConfirm
  PROVE  Ledger'
<1> DEFINE msg == Next1(LogAgent)
           q == inbox[LogAgent]
           entry == [mat |-> msg.mat, rnd |-> msg.rnd]
<1>1. /\ msg.eq \in Equipment /\ msg.mat \in Material
      /\ msg.act = "CONFIRM" /\ q # <<>>
  BY AgentKinds, ReadsOf, DealFields DEF LogRecordsConfirm, LogReads, Reads, DealActions
<1>2. q \in Seq(Message) /\ msg = Head(q) /\ inbox'[LogAgent] = Tail(q)
  BY BoxesOf, AgentKinds DEF LogRecordsConfirm, Consume, Next1, Boxes
<1>3. Thinner(Tail(q), q) /\ Has(q, msg.mat) /\ ~Has(Tail(q), msg.mat)
  BY <1>1, <1>2, TailThinner DEF Ledger
<1>4. msg.mat \notin InResults(results) /\ ~Undecided(msg.mat)
  BY <1>1, <1>3 DEF Ledger
<1>5. /\ results \in [Equipment -> Seq(Bid)]
      /\ results' = [results EXCEPT ![msg.eq] = Append(@, entry)]
      /\ stage' = stage
  BY DEF LogRecordsConfirm, TypeInv, TypeOK, Results
<1>a. entry.mat = msg.mat
  OBVIOUS
<1>b. msg.eq \in Equipment
  BY <1>1
<1> HIDE DEF entry
<1>6. \A e \in Equipment : \A i \in DOMAIN results'[e] :
        \/ i \in DOMAIN results[e] /\ results'[e][i] = results[e][i]
        \/ e = msg.eq /\ i = Len(results[e]) + 1 /\ results'[e][i] = entry
  <2> SUFFICES ASSUME NEW e \in Equipment, NEW i \in DOMAIN results'[e]
               PROVE  \/ i \in DOMAIN results[e] /\ results'[e][i] = results[e][i]
                      \/ e = msg.eq /\ i = Len(results[e]) + 1 /\ results'[e][i] = entry
    OBVIOUS
  <2>1. CASE e # msg.eq
    BY <1>5, <2>1
  <2>2. CASE e = msg.eq
    <3>1. results'[e] = Append(results[e], entry) /\ results[e] \in Seq(Bid)
      BY <1>5, <2>2
    <3>2. /\ DOMAIN results[e] = 1..Len(results[e])
          /\ DOMAIN Append(results[e], entry) = 1..(Len(results[e]) + 1)
          /\ Len(results[e]) \in Nat
          /\ \A k \in 1..Len(results[e]) : Append(results[e], entry)[k] = results[e][k]
          /\ Append(results[e], entry)[Len(results[e]) + 1] = entry
      BY <3>1
    <3> QED
      BY <2>2, <3>1, <3>2
  <2> QED
    BY <2>1, <2>2
<1>7. \A m \in Material : m \in InResults(results)' => m = msg.mat \/ m \in InResults(results)
  BY <1>6, <1>a DEF InResults
<1>8. OrderHasOneOwner'
  <2> SUFFICES ASSUME NEW e \in Equipment, NEW f \in Equipment,
                      NEW i \in DOMAIN results'[e], NEW j \in DOMAIN results'[f],
                      results'[e][i].mat = results'[f][j].mat
               PROVE  e = f /\ i = j
    BY DEF OrderHasOneOwner
  <2>1. \A g \in Equipment : \A k \in DOMAIN results[g] : results[g][k].mat # msg.mat
    BY <1>4 DEF InResults
  <2> QED
    BY <1>6, <1>a, <2>1 DEF Ledger, OrderHasOneOwner
<1>9. \A m \in Material : Undecided(m)' => Undecided(m)
  BY <1>5, SameStages
<1> HIDE DEF q, msg
<1> QED
  BY <1>2, <1>3, <1>4, <1>7, <1>8, <1>9 DEF Ledger, Thinner, q, msg

LEMMA LogLedger ==
  ASSUME TypeInv, Ledger, LogStep
  PROVE  Ledger'
<1>a. LogAgent \in Agent /\ inbox \in Boxes
  BY AgentKinds, BoxesOf
<1>b. \A act \in Broadcasts : Plain(act) \in Message /\ Plain(act).act = act
  BY PlainMessage DEF Plain
<1>c. ASSUME NEW box \in Boxes
      PROVE  Thinner(ExitAgents(box)[LogAgent], box[LogAgent])
  BY <1>b, PostThinner DEF ExitAgents, Broadcasts
<1>1. CASE LogCheck
  <2>1. Thinner(inbox'[LogAgent], inbox[LogAgent])
    BY <1>1, <1>a, <1>b, ReplyThinner DEF LogCheck, LogReads, Broadcasts
  <2> QED
    BY <1>1, <2>1, SameStages, QuietStep DEF LogCheck
<1>2. CASE LogPing
  BY <1>2, <1>a, <1>b, PingLedger DEF LogPing, Broadcasts
<1>3. CASE LogPingAnswer
  <2>1. Thinner(inbox'[LogAgent], inbox[LogAgent])
    BY <1>3, <1>a, ReadThinner DEF LogPingAnswer, LogReads
  <2> QED
    BY <1>3, <2>1, SameStages, QuietStep DEF LogPingAnswer
<1>4. CASE LogStart
  <2>1. Thinner(inbox'[LogAgent], inbox[LogAgent])
    BY <1>4, <1>a, <1>b, PostThinner DEF LogStart, Broadcasts
  <2> QED
    BY <1>4, <2>1, SameStages, QuietStep DEF LogStart
<1>5. CASE LogRecordsConfirm
  BY <1>5, RecordLedger
<1>6. CASE LogEquipmentFinished
  <2>1. Thinner(inbox'[LogAgent], inbox[LogAgent])
    BY <1>6, <1>a, ReadThinner DEF LogEquipmentFinished, LogReads
  <2> QED
    BY <1>6, <2>1, SameStages, QuietStep DEF LogEquipmentFinished
<1>7. CASE LogAskResults
  <2>1. Consume(LogAgent) \in Boxes /\ Thinner(Consume(LogAgent)[LogAgent], inbox[LogAgent])
    BY <1>7, <1>a, ReadsOf, ReadThinner DEF LogAskResults, LogReads
  <2>2. Thinner(inbox'[LogAgent], inbox[LogAgent])
    BY <1>7, <1>c, <2>1, ThinnerTransitive DEF LogAskResults
  <2> QED
    BY <1>7, <2>2, SameStages, QuietStep DEF LogAskResults
<1>8. CASE LogReceiveError
  <2>1. Consume(LogAgent) \in Boxes /\ Thinner(Consume(LogAgent)[LogAgent], inbox[LogAgent])
    BY <1>8, <1>a, ReadsOf, ReadThinner DEF LogReceiveError, LogReads
  <2>2. Thinner(inbox'[LogAgent], inbox[LogAgent])
    BY <1>8, <1>c, <2>1, ThinnerTransitive DEF LogReceiveError
  <2>3. results' = [e \in Equipment |-> <<>>] /\ stage' = stage
    BY <1>8 DEF LogReceiveError
  <2>4. OrderHasOneOwner' /\ \A m \in Material : m \notin InResults(results)'
    BY <2>3 DEF OrderHasOneOwner, InResults
  <2> QED
    BY <2>2, <2>3, <2>4, SameStages DEF Ledger, Thinner
<1>9. CASE LogExit
  BY <1>9, <1>a, ContainerLedger DEF LogExit
<1> QED
  BY <1>1, <1>2, <1>3, <1>4, <1>5, <1>6, <1>7, <1>8, <1>9 DEF LogStep

LEMMA UXLedger ==
  ASSUME TypeInv, Ledger, UXStep \/ (\E caller \in {LogAgent, UX} : ExitLog(caller))
  PROVE  Ledger'
<1>1. \A act \in Broadcasts : Plain(act) \in Message /\ Plain(act).act = act
  BY PlainMessage DEF Plain
<1>2. Thinner(inbox'[LogAgent], inbox[LogAgent])
  BY <1>1, BoxesOf, PostThinner
     DEF UXStep, UXCheck, UXAskResults, UXEndAuction, ExitLog, ExitAgents, Broadcasts
<1>3. results' = results /\ stage' = stage
  BY DEF UXStep, UXCheck, UXAskResults, UXEndAuction, ExitLog, logVars
<1> QED
  BY <1>2, <1>3, SameStages, QuietStep

LEMMA InitLedger == Init => Ledger
BY AgentKinds DEF Init, Ledger, NoTwin, Has, InResults, OrderHasOneOwner, Undecided

LEMMA NextLedger ==
  ASSUME TypeInv, Ledger, [Next]_vars
  PROVE  Ledger'
<1>1. CASE Next
  BY <1>1, ContainerLedger, EquipmentLedger, MaterialLedger, LogLedger, UXLedger DEF Next
<1>2. CASE UNCHANGED vars
  BY <1>2, SameStages, QuietStep DEF vars, logVars, Thinner
<1> QED
  BY <1>1, <1>2

(* Whatever crosses on the topic, dies or has a name that begins another's, *)
(* no order stands twice in the results of the LOG.                         *)
THEOREM NoOrderTwice == Spec => []OrderHasOneOwner
<1>1. Init => Ledger
  BY InitLedger
<1>2. TypeInv /\ Ledger /\ [Next]_vars => Ledger'
  BY NextLedger
<1>3. Ledger => OrderHasOneOwner
  BY DEF Ledger
<1> QED
  BY <1>1, <1>2, <1>3, TypeInvariant, PTL DEF Spec

-----------------------------------------------------------------------------
(* Nothing that has to do with a bid is on the topic before the LOG has     *)
(* started, and the LOG starts when as many agents have answered as the     *)
(* auction has.                                                             *)

(* What a step may put where, whatever its messages say.                    *)
Elems(q) == {q[i] : i \in DOMAIN q}

LEMMA TailElems ==
  ASSUME NEW q \in Seq(Message), q # <<>>
  PROVE  Elems(Tail(q)) \subseteq Elems(q) /\ Head(q) \in Elems(q)
<1>1. /\ DOMAIN q = 1..Len(q) /\ DOMAIN Tail(q) = 1..(Len(q) - 1)
      /\ Len(q) \in Nat \ {0} /\ Head(q) = q[1]
      /\ \A i \in 1..(Len(q) - 1) : Tail(q)[i] = q[i + 1]
  OBVIOUS
<1>2. \A i \in DOMAIN Tail(q) : i + 1 \in DOMAIN q /\ Tail(q)[i] = q[i + 1]
  BY <1>1
<1>3. Elems(Tail(q)) \subseteq Elems(q)
  BY <1>2 DEF Elems
<1>4. 1 \in DOMAIN q
  BY <1>1
<1> QED
  BY <1>1, <1>3, <1>4 DEF Elems

LEMMA AppendElems ==
  ASSUME NEW q \in Seq(Message), NEW msg \in Message
  PROVE  Elems(Append(q, msg)) \subseteq Elems(q) \cup {msg}
<1>1. /\ DOMAIN q = 1..Len(q) /\ DOMAIN Append(q, msg) = 1..(Len(q) + 1)
      /\ Len(q) \in Nat
      /\ \A i \in 1..Len(q) : Append(q, msg)[i] = q[i]
      /\ Append(q, msg)[Len(q) + 1] = msg
  OBVIOUS
<1>2. \A i \in DOMAIN Append(q, msg) :
        (i \in DOMAIN q /\ Append(q, msg)[i] = q[i]) \/ Append(q, msg)[i] = msg
  BY <1>1
<1> QED
  BY <1>2 DEF Elems

LEMMA PostElems ==
  ASSUME NEW box \in Boxes, NEW readers, NEW msg \in Message, NEW b \in Agent
  PROVE  /\ Elems(Post(box, readers, msg)[b]) \subseteq Elems(box[b]) \cup {msg}
         /\ b \notin readers => Post(box, readers, msg)[b] = box[b]
BY AppendElems DEF Post, Boxes

LEMMA ConsumeElems ==
  ASSUME inbox \in Boxes, NEW a \in Agent, inbox[a] # <<>>, NEW b \in Agent
  PROVE  /\ Elems(Consume(a)[b]) \subseteq Elems(inbox[b])
         /\ Next1(a) \in Elems(inbox[a])
         /\ b # a => Consume(a)[b] = inbox[b]
<1>1. inbox[a] \in Seq(Message)
  BY DEF Boxes
<1>2. Consume(a) = [c \in Agent |-> IF c = a THEN Tail(inbox[a]) ELSE inbox[c]]
  BY DEF Consume, Boxes
<1> QED
  BY <1>1, <1>2, TailElems DEF Next1

LEMMA LeaveElems ==
  ASSUME NEW box \in Boxes, NEW a \in Agent, NEW b \in Agent
  PROVE  Elems(Leave(box, a)[b]) \subseteq Elems(box[b])
<1>1. Leave(box, a)[b] = <<>> \/ Leave(box, a)[b] = box[b]
  BY DEF Leave, Boxes
<1> QED
  BY <1>1 DEF Elems

LEMMA UnreadElems == ASSUME NEW a PROVE Unread(a) = Elems(inbox[a])
BY DEF Unread, Elems

-----------------------------------------------------------------------------
(* The inductive invariant.  A message is timely if the auction has started *)
(* when it is about a bid, and if its sender is up when it says so.         *)
Deals == {"START", "BID", "COUNTERBID", "ASKCONFIRM", "CONFIRM"}
CameUp(a) == stage[a] # "absent"

Timely(msg) ==
  /\ msg.act \in Deals => started
  /\ msg.act = "PINGANSWER" => CameUp(Answerer(msg))

TimelyBox(box) == \A b \in Agent : \A msg \in Elems(box[b]) : Timely(msg)

StartInv ==
  /\ \A a \in present : CameUp(a)
  /\ started => Agent \subseteq present
  /\ \A e \in Equipment : bidding[e] => started
  /\ TimelyBox(inbox)

LEMMA PostTimely ==
  ASSUME NEW box \in Boxes, TimelyBox(box), NEW readers,
         NEW msg \in Message, Timely(msg)
  PROVE  TimelyBox(Post(box, readers, msg))
BY PostElems DEF TimelyBox

LEMMA ConsumeTimely ==
  ASSUME TypeInv, StartInv, NEW a \in Agent, inbox[a] # <<>>
  PROVE  Consume(a) \in Boxes /\ TimelyBox(Consume(a)) /\ Timely(Next1(a))
BY BoxesOf, ConsumeType, ConsumeElems DEF TimelyBox, StartInv

LEMMA LeaveTimely ==
  ASSUME NEW box \in Boxes, TimelyBox(box), NEW a \in Agent
  PROVE  TimelyBox(Leave(box, a))
BY LeaveElems DEF TimelyBox

(* What a step may do to the topic, the senders and the start.              *)
LEMMA ReplyTimely ==
  ASSUME TypeInv, StartInv, NEW a \in Agent, NEW act, Reads(a, act), NEW readers,
         NEW msg \in Message, Timely(msg)
  PROVE  TimelyBox(Post(Consume(a), readers, msg))
BY ConsumeTimely, PostTimely DEF Reads

LEMMA FarewellTimely ==
  ASSUME TypeInv, StartInv, NEW a \in Agent, NEW readers,
         NEW msg \in Message, Timely(msg)
  PROVE  TimelyBox(Leave(Post(inbox, readers, msg), a))
BY BoxesOf, PostType, PostTimely, LeaveTimely DEF StartInv

LEMMA TimelyStep ==
  ASSUME TypeInv, StartInv, TypeInv', TimelyBox(inbox'),
         UNCHANGED <<started, present>>,
         \A a \in Agent : CameUp(a) => CameUp(a)',
         \A e \in Equipment : bidding'[e] => started
  PROVE  StartInv'
<1>1. \A b \in Agent : \A msg \in Elems(inbox'[b]) : msg \in Message
  BY DEF Elems, TypeInv, TypeOK
<1>2. \A msg \in Message : msg.act = "PINGANSWER" => Answerer(msg) \in Agent
  BY AgentKinds DEF Answerer, Message
<1>3. ASSUME NEW b \in Agent, NEW msg \in Elems(inbox'[b])
      PROVE  Timely(msg)'
  <2>1. Timely(msg) /\ msg \in Message
    BY <1>1, <1>3 DEF TimelyBox
  <2> QED
    BY <1>2, <2>1 DEF Timely, Answerer
<1>4. present \subseteq Agent
  BY DEF TypeInv, TypeOK
<1> QED
  BY <1>3, <1>4 DEF StartInv, TimelyBox

LEMMA StillUp ==
  ASSUME TypeInv, NEW a \in Agent, NEW s, s # "absent",
         stage' = stage \/ stage' = [stage EXCEPT ![a] = s]
  PROVE  \A b \in Agent : CameUp(b) => CameUp(b)'
BY StageOf DEF CameUp


-----------------------------------------------------------------------------
(* One lemma for each kind of agent.                                        *)

LEMMA ContainerStart ==
  ASSUME TypeInv, StartInv, TypeInv', NEW a \in Agent,
         Launch(a) \/ Crash(a) \/ HandleExit(a)
  PROVE  StartInv'
<1>1. TimelyBox(inbox')
  BY BoxesOf, LeaveTimely DEF Launch, Crash, HandleExit, StartInv
<1>2. /\ stage' = [stage EXCEPT ![a] = "running"] \/ stage' = [stage EXCEPT ![a] = "ended"]
      /\ UNCHANGED <<started, present, bidding>>
  BY DEF Launch, Crash, HandleExit, Ends, equipmentVars, logVars
<1>3. \A b \in Agent : CameUp(b) => CameUp(b)'
  BY <1>2, StillUp
<1> QED
  BY <1>1, <1>2, <1>3, TimelyStep DEF StartInv

LEMMA PingStart ==
  ASSUME TypeInv, StartInv, TypeInv', NEW a \in Agent, NEW answer \in Message,
         answer.act = "PINGANSWER", Answerer(answer) = a, AnswerPing(a, answer)
  PROVE  StartInv'
<1>1. Timely(answer)
  BY ReadsOf DEF AnswerPing, Timely, Deals, CameUp
<1>2. TimelyBox(inbox')
  BY <1>1, ReplyTimely DEF AnswerPing
<1>3. UNCHANGED <<stage, started, present, bidding>>
  BY DEF AnswerPing, equipmentVars, logVars
<1> QED
  BY <1>2, <1>3, TimelyStep DEF StartInv, CameUp

LEMMA EquipmentsStart ==
  ASSUME TypeInv, StartInv, TypeInv', NEW e \in Equipment,
         EquipmentStep(e) \/ AskBest(e) \/ NoMoreBids(e)
  PROVE  StartInv'
<1>a. e \in Agent /\ round[e] \in Nat /\ e # None
  BY AgentKinds, AgentsAssumption DEF TypeInv, TypeOK
<1>b. \A act \in EquipmentActions :
        OfEquipment(act, e) \in Message /\ OfEquipment(act, e).act = act
  BY OfEquipmentMessage DEF TypeInv, OfEquipment
<1>c. \A act \in {"EQUIPMENTFINISHED", "RECIEVEERROR"} : Timely(OfEquipment(act, e))
  BY DEF Timely, OfEquipment, Deals
<1>d. ASSUME NEW act, Reads(e, act)
      PROVE  /\ Consume(e) \in Boxes /\ TimelyBox(Consume(e))
             /\ act \in Deals => started
  BY <1>a, <1>d, ConsumeTimely, ReadsOf DEF Timely, Reads
<1>1. CASE AnswerPing(e, OfEquipment("PINGANSWER", e))
  <2>1. Answerer(OfEquipment("PINGANSWER", e)) = e
    BY <1>a DEF Answerer, OfEquipment
  <2> QED
    BY <1>1, <1>a, <1>b, <2>1, PingStart DEF EquipmentActions
<1>2. CASE EquipmentStart(e)
  <2>1. started
    BY <1>2, <1>d DEF EquipmentStart, Receives, Deals
  <2>2. Timely(OfEquipment("BID", e)) /\ OfEquipment("BID", e) \in Message
    BY <1>b, <2>1 DEF Timely, OfEquipment, EquipmentActions
  <2>3. TimelyBox(inbox')
    BY <1>2, <1>a, <2>2, ReplyTimely DEF EquipmentStart, Receives
  <2>4. UNCHANGED <<stage, started, present>>
    BY <1>2 DEF EquipmentStart, logVars
  <2> QED
    BY <2>1, <2>3, <2>4, TimelyStep DEF CameUp
<1>3. CASE EquipmentCounterbid(e)
  <2>1. started /\ TimelyBox(inbox')
    BY <1>3, <1>d DEF EquipmentCounterbid, Receives, Deals
  <2>2. UNCHANGED <<stage, started, present>>
    BY <1>3 DEF EquipmentCounterbid, logVars
  <2> QED
    BY <2>1, <2>2, TimelyStep DEF CameUp
<1>4. CASE EquipmentAssigned(e)
  <2>1. TimelyBox(inbox')
    BY <1>4, <1>d DEF EquipmentAssigned, Receives
  <2>2. UNCHANGED <<stage, started, present, bidding>>
    BY <1>4 DEF EquipmentAssigned, logVars
  <2> QED
    BY <2>1, <2>2, TimelyStep DEF CameUp, StartInv
<1>5. CASE EquipmentConfirm(e)
  <2> DEFINE total == tons[e] + Tons[Next1(e).mat]
             bid == Between("BID", e, NextRound(e), None)
  <2>1. started /\ UNCHANGED <<started, present>>
    BY <1>5, <1>d DEF EquipmentConfirm, Receives, Deals, logVars
  <2>2. CASE HasEnough(e, total)
    <3>1. TimelyBox(inbox')
      BY <1>5, <1>a, <1>b, <1>c, <2>2, FarewellTimely DEF EquipmentConfirm, EquipmentActions
    <3>2. \A b \in Agent : CameUp(b) => CameUp(b)'
      BY <1>5, <1>a, <2>2, StillUp DEF EquipmentConfirm, Ends
    <3> QED
      BY <2>1, <3>1, <3>2, TimelyStep
  <2>3. CASE ~HasEnough(e, total)
    <3>1. bid \in Message /\ Timely(bid)
      BY <1>a, <2>1, EquipmentMessage DEF EquipmentActions, NextRound, Between, Timely
    <3>2. inbox' = Post(Consume(e), Material, bid) /\ stage' = stage
      BY <1>5, <2>3 DEF EquipmentConfirm
    <3>3. TimelyBox(inbox')
      BY <1>5, <1>a, <3>1, <3>2, ReplyTimely DEF EquipmentConfirm, Receives
    <3> QED
      BY <2>1, <3>2, <3>3, TimelyStep DEF CameUp
  <2> QED
    BY <2>2, <2>3
<1>6. CASE EquipmentConfirmError(e)
  <2>1. TimelyBox(inbox')
    BY <1>6, <1>a, <1>b, <1>c, ReplyTimely
       DEF EquipmentConfirmError, Receives, EquipmentActions
  <2>2. UNCHANGED <<stage, started, present, bidding>>
    BY <1>6 DEF EquipmentConfirmError, equipmentVars, logVars
  <2> QED
    BY <2>1, <2>2, TimelyStep DEF CameUp, StartInv
<1>7. CASE EquipmentIgnores(e)
  <2>1. TimelyBox(inbox')
    BY <1>7, <1>a, ConsumeTimely DEF EquipmentIgnores
  <2>2. UNCHANGED <<stage, started, present, bidding>>
    BY <1>7 DEF EquipmentIgnores, equipmentVars, logVars
  <2> QED
    BY <2>1, <2>2, TimelyStep DEF CameUp, StartInv
<1>8. CASE HandleExit(e)
  BY <1>8, <1>a, ContainerStart
<1>9. CASE AskBest(e)
  <2>1. PICK b \in bids[e] :
          inbox' = Post(inbox, NameCovers[b.mat],
                        Between("ASKCONFIRM", e, round[e], b.mat))
    BY <1>9 DEF AskBest
  <2>2. started /\ UNCHANGED <<stage, started, present, bidding>>
    BY <1>9 DEF AskBest, WaitIsOver, logVars, StartInv
  <2>3. b.mat \in Material
    BY DEF TypeInv, TypeOK, Bid
  <2>4. /\ Between("ASKCONFIRM", e, round[e], b.mat) \in Message
        /\ Timely(Between("ASKCONFIRM", e, round[e], b.mat))
    BY <1>a, <2>2, <2>3, DealMessage DEF DealActions, Between, Timely
  <2>5. TimelyBox(inbox')
    BY <2>1, <2>4, BoxesOf, PostTimely DEF StartInv
  <2> QED
    BY <2>2, <2>5, TimelyStep DEF CameUp, StartInv
<1>10. CASE NoMoreBids(e)
  <2>1. TimelyBox(inbox')
    BY <1>10, <1>a, <1>b, <1>c, FarewellTimely DEF NoMoreBids, EquipmentActions
  <2>2. \A b \in Agent : CameUp(b) => CameUp(b)'
    BY <1>10, <1>a, StillUp DEF NoMoreBids, Ends
  <2>3. UNCHANGED <<started, present, bidding>>
    BY <1>10 DEF NoMoreBids, equipmentVars, logVars
  <2> QED
    BY <2>1, <2>2, <2>3, TimelyStep DEF StartInv
<1> QED
  BY <1>1, <1>2, <1>3, <1>4, <1>5, <1>6, <1>7, <1>8, <1>9, <1>10 DEF EquipmentStep

LEMMA MaterialStart ==
  ASSUME TypeInv, StartInv, TypeInv', NEW m \in Material, MaterialStep(m)
  PROVE  StartInv'
<1> DEFINE msg == Next1(m)
<1>a. m \in Agent /\ m # None
  BY AgentKinds, AgentsAssumption
<1>b. ASSUME NEW act, Reads(m, act)
      PROVE  /\ Consume(m) \in Boxes /\ TimelyBox(Consume(m))
             /\ act \in Deals => started
  BY <1>a, <1>b, ConsumeTimely, ReadsOf DEF Timely, Reads
<1>c. ASSUME NEW act \in DealActions, NEW e \in Equipment, NEW r \in Nat,
             started \/ act \notin Deals
      PROVE  Between(act, e, r, m) \in Message /\ Timely(Between(act, e, r, m))
  BY <1>c, DealMessage DEF DealActions, Between, Timely
<1>1. CASE AnswerPing(m, OfMaterial("PINGANSWER", m))
  <2>1. Answerer(OfMaterial("PINGANSWER", m)) = m
    BY <1>a DEF Answerer, OfMaterial
  <2> QED
    BY <1>1, <1>a, <2>1, MaterialMessage, PingStart DEF OfMaterial
<1>2. CASE MaterialBid(m)
  <2>1. msg.eq \in Equipment /\ msg.rnd \in Nat /\ started
    BY <1>2, <1>a, <1>b, ReadsOf, EquipmentFields DEF MaterialBid, Deals
  <2>2. \A act \in DealActions : /\ Between(act, msg.eq, msg.rnd, m) \in Message
                                 /\ Timely(Between(act, msg.eq, msg.rnd, m))
    BY <1>c, <2>1
  <2>3. TimelyBox(inbox')
    BY <1>2, <1>a, <1>b, <2>2, ReplyTimely DEF MaterialBid, DealActions
  <2>4. UNCHANGED <<stage, started, present, bidding>>
    BY <1>2 DEF MaterialBid, equipmentVars, logVars
  <2> QED
    BY <2>3, <2>4, TimelyStep DEF CameUp, StartInv
<1>3. CASE MaterialAskConfirm(m)
  <2>1. msg.eq \in Equipment /\ msg.rnd \in Nat /\ started
    BY <1>3, <1>a, <1>b, ReadsOf, DealFields DEF MaterialAskConfirm, DealActions, Deals
  <2>2. \A act \in DealActions : /\ Between(act, msg.eq, msg.rnd, m) \in Message
                                 /\ Timely(Between(act, msg.eq, msg.rnd, m))
    BY <1>c, <2>1
  <2>3. TimelyBox(inbox')
    BY <1>3, <1>a, <2>2, ReplyTimely DEF MaterialAskConfirm, DealActions
  <2>4. UNCHANGED <<started, present, bidding>>
    BY <1>3 DEF MaterialAskConfirm, equipmentVars, logVars
  <2>5. \A b \in Agent : CameUp(b) => CameUp(b)'
    BY <1>3, <1>a, StillUp DEF MaterialAskConfirm
  <2> QED
    BY <2>3, <2>4, <2>5, TimelyStep DEF StartInv
<1>4. CASE MaterialAnnounce(m)
  <2>1. assigned[m] \in Equipment \X Nat
    BY <1>4, <1>a DEF MaterialAnnounce, TypeInv, TypeOK, Announcers
  <2>2. /\ Between("ASSIGNEDOTHERS", assigned[m][1], assigned[m][2], m) \in Message
        /\ Timely(Between("ASSIGNEDOTHERS", assigned[m][1], assigned[m][2], m))
    BY <1>c, <2>1 DEF DealActions, Deals
  <2>3. TimelyBox(inbox')
    BY <1>4, <1>a, <2>2, FarewellTimely DEF MaterialAnnounce
  <2>4. UNCHANGED <<started, present, bidding>>
    BY <1>4 DEF MaterialAnnounce, equipmentVars, logVars
  <2>5. \A b \in Agent : CameUp(b) => CameUp(b)'
    BY <1>4, <1>a, StillUp DEF MaterialAnnounce, Ends
  <2> QED
    BY <2>3, <2>4, <2>5, TimelyStep DEF StartInv
<1>5. CASE HandleExit(m)
  BY <1>5, <1>a, ContainerStart
<1> QED
  BY <1>1, <1>2, <1>3, <1>4, <1>5 DEF MaterialStep

-----------------------------------------------------------------------------
(* As many answers as the auction has agents are the answers of all agents. *)
LEMMA CountAgents ==
  /\ IsFiniteSet(Agent)
  /\ Cardinality(Agent) = NumAgents
<1>1. /\ IsFiniteSet({LogAgent}) /\ Cardinality({LogAgent}) = 1
  BY FS_Singleton
<1>2. /\ IsFiniteSet(Equipment) /\ IsFiniteSet(Material)
      /\ Equipment \cap Material = {} /\ {LogAgent} \cap (Equipment \cup Material) = {}
  BY AgentsAssumption
<1>3. /\ Cardinality(Equipment) \in Nat /\ Cardinality(Material) \in Nat
  BY <1>2, FS_CardinalityType
<1>z. /\ Cardinality(Equipment \cap Material) = 0
      /\ Cardinality({LogAgent} \cap (Equipment \cup Material)) = 0
  BY <1>2, FS_EmptySet
<1>4. /\ IsFiniteSet(Equipment \cup Material)
      /\ Cardinality(Equipment \cup Material) =
           Cardinality(Equipment) + Cardinality(Material) - Cardinality(Equipment \cap Material)
  BY <1>2, FS_Union
<1>5. /\ IsFiniteSet({LogAgent} \cup (Equipment \cup Material))
      /\ Cardinality({LogAgent} \cup (Equipment \cup Material)) =
           Cardinality({LogAgent}) + Cardinality(Equipment \cup Material)
             - Cardinality({LogAgent} \cap (Equipment \cup Material))
  BY <1>1, <1>2, <1>4, FS_Union
<1>6. {LogAgent} \cup (Equipment \cup Material) = Agent
  BY DEF Agent
<1>7. /\ Cardinality(Equipment \cup Material) = Cardinality(Equipment) + Cardinality(Material)
      /\ Cardinality(Agent) = 1 + Cardinality(Equipment \cup Material)
  <2>1. Cardinality(Equipment \cup Material) = Cardinality(Equipment) + Cardinality(Material)
    BY <1>3, <1>4, <1>z
  <2>2. Cardinality(Agent) = 1 + Cardinality(Equipment \cup Material) - 0
    BY <1>1, <1>5, <1>6, <1>z
  <2> QED
    BY <1>3, <2>1, <2>2
<1>8. IsFiniteSet(Agent)
  BY <1>5, <1>6
<1> QED
  BY <1>3, <1>7, <1>8 DEF NumAgents

LEMMA AllAnswered ==
  ASSUME NEW up \in SUBSET Agent, Cardinality(up) = NumAgents
  PROVE  Agent \subseteq up
BY CountAgents, FS_Subset

LEMMA PlainTimely ==
  ASSUME NEW act \in {"PING", "CHECK", "ASKRESULTS", "EXIT"}
  PROVE  Plain(act) \in Message /\ Timely(Plain(act))
BY PlainMessage DEF Plain, Timely, Broadcasts, Deals

LEMMA LogStarts ==
  ASSUME TypeInv, StartInv, TypeInv', LogStep
  PROVE  StartInv'
<1> DEFINE msg == Next1(LogAgent)
<1>a. LogAgent \in Agent /\ inbox \in Boxes
  BY AgentKinds, BoxesOf
<1>b. ASSUME NEW act, LogReads(act)
      PROVE  /\ Consume(LogAgent) \in Boxes /\ TimelyBox(Consume(LogAgent))
             /\ Timely(msg) /\ msg \in Message /\ msg.act = act
  BY <1>a, <1>b, ConsumeTimely, ReadsOf DEF LogReads, Reads
<1>c. ASSUME NEW box \in Boxes, TimelyBox(box)
      PROVE  TimelyBox(ExitAgents(box))
  BY <1>c, PlainTimely, PostTimely DEF ExitAgents
<1>1. CASE LogCheck
  <2>1. TimelyBox(inbox') /\ UNCHANGED <<stage, started, present, bidding>>
    BY <1>1, <1>b, PlainTimely, PostTimely DEF LogCheck, equipmentVars
  <2> QED
    BY <2>1, TimelyStep DEF CameUp, StartInv
<1>2. CASE LogPing
  <2>1. Answerer(Plain("PINGANSWER")) = LogAgent
    BY DEF Answerer, Plain
  <2> QED
    BY <1>2, <1>a, <2>1, PlainMessage, PingStart DEF LogPing, Plain, Broadcasts
<1>3. CASE LogPingAnswer
  <2>1. TimelyBox(inbox') /\ CameUp(Answerer(msg))
    BY <1>3, <1>b DEF LogPingAnswer, Timely
  <2>2. /\ UNCHANGED <<stage, started, bidding>>
        /\ present' = present \cup {Answerer(msg)}
    BY <1>3 DEF LogPingAnswer, equipmentVars
  <2> HIDE DEF msg
  <2>3. TimelyBox(inbox)'
    BY <2>1, <2>2 DEF TimelyBox, Timely, CameUp, Answerer
  <2> QED
    BY <2>1, <2>2, <2>3 DEF StartInv, CameUp, Answerer
<1>4. CASE LogStart
  <2>1. /\ started' /\ UNCHANGED <<stage, present, bidding>>
        /\ inbox' = Post(inbox, Equipment, Plain("START"))
    BY <1>4 DEF LogStart, equipmentVars
  <2>2. Agent \subseteq present
    BY <1>4, AllAnswered DEF LogStart, StartIsDue, TypeInv, TypeOK
  <2>3. Plain("START") \in Message /\ Plain("START").act = "START"
    BY PlainMessage DEF Plain, Broadcasts
  <2>4. \A b \in Agent : Elems(inbox'[b]) \subseteq Elems(inbox[b]) \cup {Plain("START")}
    BY <1>a, <2>1, <2>3, PostElems
  <2>5. TimelyBox(inbox)'
    BY <2>1, <2>3, <2>4 DEF StartInv, TimelyBox, Timely, CameUp, Answerer
  <2> QED
    BY <2>1, <2>2, <2>5 DEF StartInv, CameUp
<1>5. CASE LogRecordsConfirm
  <2>1. TimelyBox(inbox') /\ UNCHANGED <<stage, started, present, bidding>>
    BY <1>5, <1>b DEF LogRecordsConfirm, equipmentVars
  <2> QED
    BY <2>1, TimelyStep DEF CameUp, StartInv
<1>6. CASE LogEquipmentFinished
  <2>1. TimelyBox(inbox') /\ UNCHANGED <<stage, started, present, bidding>>
    BY <1>6, <1>b DEF LogEquipmentFinished, equipmentVars
  <2> QED
    BY <2>1, TimelyStep DEF CameUp, StartInv
<1>7. CASE LogAskResults
  <2>1. TimelyBox(inbox') /\ UNCHANGED <<stage, started, present, bidding>>
    BY <1>7, <1>b, <1>c DEF LogAskResults, equipmentVars
  <2> QED
    BY <2>1, TimelyStep DEF CameUp, StartInv
<1>8. CASE LogReceiveError
  <2>1. TimelyBox(inbox') /\ UNCHANGED <<stage, started, present, bidding>>
    BY <1>8, <1>b, <1>c DEF LogReceiveError, equipmentVars
  <2> QED
    BY <2>1, TimelyStep DEF CameUp, StartInv
<1>9. CASE LogExit
  BY <1>9, <1>a, ContainerStart DEF LogExit
<1> QED
  BY <1>1, <1>2, <1>3, <1>4, <1>5, <1>6, <1>7, <1>8, <1>9 DEF LogStep

LEMMA UXStarts ==
  ASSUME TypeInv, StartInv, TypeInv',
         UXStep \/ (\E caller \in {LogAgent, UX} : ExitLog(caller))
  PROVE  StartInv'
<1>1. TimelyBox(inbox')
  BY PlainTimely, BoxesOf, PostTimely
     DEF UXStep, UXCheck, UXAskResults, UXEndAuction, ExitLog, ExitAgents, StartInv
<1>2. UNCHANGED <<stage, started, present, bidding>>
  BY DEF UXStep, UXCheck, UXAskResults, UXEndAuction, ExitLog, equipmentVars, logVars
<1> QED
  BY <1>1, <1>2, TimelyStep DEF CameUp, StartInv

LEMMA InitStart == Init => StartInv
BY DEF Init, StartInv, TimelyBox, Elems

LEMMA NextStart ==
  ASSUME TypeInv, StartInv, [Next]_vars
  PROVE  StartInv'
<1>1. TypeInv'
  BY NextTypeInv
<1>2. CASE Next
  BY <1>1, <1>2, ContainerStart, EquipmentsStart, MaterialStart, LogStarts, UXStarts DEF Next
<1>3. CASE UNCHANGED vars
  BY <1>1, <1>3, TimelyStep DEF vars, logVars, equipmentVars, CameUp, StartInv
<1> QED
  BY <1>2, <1>3

LEMMA StartInvariant == Spec => []StartInv
<1>1. Init => StartInv
  BY InitStart
<1>2. TypeInv /\ StartInv /\ [Next]_vars => StartInv'
  BY NextStart
<1> QED
  BY <1>1, <1>2, TypeInvariant, PTL DEF Spec

(* The LOG starts the auction only when every agent has come up, and no     *)
(* equipment bids before: whatever dies, and however late a container       *)
(* starts, it misses no round of its auction.                               *)
THEOREM EveryoneIsThere == Spec => []NobodyMissesTheStart
<1>1. TypeInv /\ StartInv => NobodyMissesTheStart
  BY DEF StartInv, NobodyMissesTheStart, CameUp
<1> QED
  BY <1>1, TypeInvariant, StartInvariant, PTL
=============================================================================
