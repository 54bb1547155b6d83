----------------------- MODULE AuctionProtocol_proofs -----------------------
(***************************************************************************)
(* Proofs about the protocol of one auction when no agent's name begins    *)
(* another's: only the equipment that was asked is confirmed, no equipment *)
(* ever fails on a confirmation, what the LOG holds for complete names     *)
(* every order that committed, every question is answered, and the auction *)
(* implements Assignment.                                                  *)
(***************************************************************************)
EXTENDS Auction_proofs

(* A question is addressed by the name of the material, as a regular        *)
(* expression: it reaches that material alone if no name begins another's.  *)
DistinctNames == \A m \in Material : NameCovers[m] = {m}

-----------------------------------------------------------------------------
(* What a step does to the part of the topic an agent has still to read.    *)

Sole(q, act, e) ==
  \A i, j \in DOMAIN q :
    q[i].act = act /\ q[i].eq = e /\ q[j].act = act /\ q[j].eq = e => i = j

(* No confirmation of an equipment follows its EQUIPMENTFINISHED.           *)
InOrder(q) ==
  \A i, j \in DOMAIN q :
    q[i].act = "EQUIPMENTFINISHED" /\ q[j].act = "CONFIRM" /\ q[i].eq = q[j].eq => j < i

Questioning == {"ASKCONFIRM", "CONFIRM"}

(* q2 holds messages of q, in their order, and news, which ask nothing.     *)
Calm(q2, q, news) ==
  /\ \A act \in Questioning : \A e \in Equipment : Sole(q, act, e) => Sole(q2, act, e)
  /\ InOrder(q) => InOrder(q2)
  /\ \A msg \in Elems(q2) : msg \in Elems(q) \/ msg \in news

LEMMA CalmTransitive ==
  ASSUME NEW p, NEW q, NEW r, NEW news, Calm(p, q, news), Calm(q, r, news)
  PROVE  Calm(p, r, news)
BY DEF Calm

LEMMA CalmSame ==
  ASSUME NEW q, NEW news
  PROVE  Calm(q, q, news) /\ Calm(<<>>, q, news)
BY DEF Calm, Sole, InOrder, Elems

LEMMA TailCalm ==
  ASSUME NEW q \in Seq(Message), q # <<>>, NEW news
  PROVE  Calm(Tail(q), q, news)
<1>1. /\ DOMAIN q = 1..Len(q) /\ DOMAIN Tail(q) = 1..(Len(q) - 1)
      /\ Len(q) \in Nat \ {0}
      /\ \A i \in 1..(Len(q) - 1) : Tail(q)[i] = q[i + 1]
  OBVIOUS
<1>2. \A i \in DOMAIN Tail(q) : i \in Int /\ i + 1 \in DOMAIN q /\ Tail(q)[i] = q[i + 1]
  BY <1>1
<1>3. ASSUME NEW act, NEW e, Sole(q, act, e)
      PROVE  Sole(Tail(q), act, e)
  <2> SUFFICES ASSUME NEW i \in DOMAIN Tail(q), NEW j \in DOMAIN Tail(q),
                      Tail(q)[i].act = act, Tail(q)[i].eq = e,
                      Tail(q)[j].act = act, Tail(q)[j].eq = e
               PROVE  i = j
    BY DEF Sole
  <2>1. i + 1 = j + 1
    BY <1>2, <1>3 DEF Sole
  <2> QED
    BY <1>2, <2>1
<1>4. ASSUME InOrder(q)
      PROVE  InOrder(Tail(q))
  <2> SUFFICES ASSUME NEW i \in DOMAIN Tail(q), NEW j \in DOMAIN Tail(q),
                      Tail(q)[i].act = "EQUIPMENTFINISHED",
                      Tail(q)[j].act = "CONFIRM", Tail(q)[i].eq = Tail(q)[j].eq
               PROVE  j < i
    BY DEF InOrder
  <2>1. j + 1 < i + 1
    BY <1>2, <1>4 DEF InOrder
  <2> QED
    BY <1>2, <2>1
<1> QED
  BY <1>3, <1>4, TailElems DEF Calm

(* What the first message rules out in the rest.                            *)
LEMMA HeadAlone ==
  ASSUME NEW q \in Seq(Message), q # <<>>, NEW msg \in Elems(Tail(q)),
         msg.eq = Head(q).eq
  PROVE  /\ msg.act = Head(q).act => ~Sole(q, Head(q).act, Head(q).eq)
         /\ Head(q).act = "EQUIPMENTFINISHED" /\ msg.act = "CONFIRM" => ~InOrder(q)
<1>1. /\ DOMAIN q = 1..Len(q) /\ DOMAIN Tail(q) = 1..(Len(q) - 1)
      /\ Len(q) \in Nat \ {0} /\ Head(q) = q[1]
      /\ \A i \in 1..(Len(q) - 1) : Tail(q)[i] = q[i + 1]
  OBVIOUS
<1>2. PICK i \in DOMAIN Tail(q) : Tail(q)[i] = msg
  BY DEF Elems
<1>3. PICK j \in DOMAIN q : j = i + 1 /\ q[j] = msg /\ j # 1 /\ ~(j < 1)
  BY <1>1, <1>2
<1>4. 1 \in DOMAIN q
  BY <1>1
<1> QED
  BY <1>1, <1>3, <1>4 DEF Sole, InOrder

LEMMA AppendParts ==
  ASSUME NEW q \in Seq(Message), NEW msg \in Message
  PROVE  /\ \A i \in DOMAIN Append(q, msg) :
              \/ i \in DOMAIN q /\ Append(q, msg)[i] = q[i]
              \/ i = Len(q) + 1 /\ Append(q, msg)[i] = msg
         /\ \A i \in DOMAIN q : i \in Int /\ i < Len(q) + 1
         /\ Elems(q) \subseteq Elems(Append(q, msg)) /\ msg \in Elems(Append(q, msg))
<1>1. /\ DOMAIN q = 1..Len(q) /\ DOMAIN Append(q, msg) = 1..(Len(q) + 1)
      /\ Len(q) \in Nat
      /\ \A i \in 1..Len(q) : Append(q, msg)[i] = q[i]
      /\ Append(q, msg)[Len(q) + 1] = msg
  OBVIOUS
<1>2. /\ \A i \in DOMAIN Append(q, msg) :
           \/ i \in DOMAIN q /\ Append(q, msg)[i] = q[i]
           \/ i = Len(q) + 1 /\ Append(q, msg)[i] = msg
      /\ \A i \in DOMAIN q : i \in Int /\ i < Len(q) + 1
  BY <1>1
<1>3. \A i \in DOMAIN q : i \in DOMAIN Append(q, msg) /\ Append(q, msg)[i] = q[i]
  BY <1>1
<1>4. Len(q) + 1 \in DOMAIN Append(q, msg)
  BY <1>1
<1> QED
  BY <1>1, <1>2, <1>3, <1>4 DEF Elems

(* A message may join q where q holds none it must be alone with, and       *)
(* nothing that it must precede.                                            *)
LEMMA AppendSole ==
  ASSUME NEW q \in Seq(Message), NEW msg \in Message, NEW act, NEW e,
         Sole(q, act, e),
         msg.act = act /\ msg.eq = e =>
           \A old \in Elems(q) : ~(old.act = act /\ old.eq = e)
  PROVE  Sole(Append(q, msg), act, e)
<1>1. msg.act = act /\ msg.eq = e =>
        \A i \in DOMAIN q : ~(q[i].act = act /\ q[i].eq = e)
  BY DEF Elems
<1> QED
  BY <1>1, AppendParts DEF Sole

LEMMA AppendInOrder ==
  ASSUME NEW q \in Seq(Message), NEW msg \in Message, InOrder(q),
         msg.act = "CONFIRM" =>
           \A old \in Elems(q) : ~(old.act = "EQUIPMENTFINISHED" /\ old.eq = msg.eq)
  PROVE  InOrder(Append(q, msg))
<1>1. msg.act = "CONFIRM" =>
        \A i \in DOMAIN q : ~(q[i].act = "EQUIPMENTFINISHED" /\ q[i].eq = msg.eq)
  BY DEF Elems
<1> SUFFICES ASSUME NEW i \in DOMAIN Append(q, msg), NEW j \in DOMAIN Append(q, msg),
                    Append(q, msg)[i].act = "EQUIPMENTFINISHED",
                    Append(q, msg)[j].act = "CONFIRM",
                    Append(q, msg)[i].eq = Append(q, msg)[j].eq
             PROVE  j < i
  BY DEF InOrder
<1>2. CASE i \in DOMAIN q /\ Append(q, msg)[i] = q[i]
  BY <1>1, <1>2, AppendParts DEF InOrder
<1>3. CASE i = Len(q) + 1 /\ Append(q, msg)[i] = msg
  <2>1. j \in DOMAIN q
    BY <1>3, AppendParts
  <2> QED
    BY <1>3, <2>1, AppendParts
<1> QED
  BY <1>2, <1>3, AppendParts

LEMMA AppendCalm ==
  ASSUME NEW q \in Seq(Message), NEW msg \in Message, msg.act \notin Questioning,
         NEW news, msg \in news
  PROVE  Calm(Append(q, msg), q, news)
<1>1. \A act \in Questioning : \A e \in Equipment :
        Sole(q, act, e) => Sole(Append(q, msg), act, e)
  BY AppendSole
<1>2. InOrder(q) => InOrder(Append(q, msg))
  BY AppendInOrder DEF Questioning
<1> QED
  BY <1>1, <1>2, AppendElems DEF Calm

-----------------------------------------------------------------------------
(* The same for the whole topic.                                            *)

CalmTopic(box, news) == \A b \in Agent : Calm(box[b], inbox[b], news)

LEMMA PostCalm ==
  ASSUME NEW box \in Boxes, NEW news, CalmTopic(box, news), NEW readers,
         NEW msg \in Message, msg.act \notin Questioning, msg \in news
  PROVE  CalmTopic(Post(box, readers, msg), news)
<1> SUFFICES ASSUME NEW b \in Agent
             PROVE  Calm(Post(box, readers, msg)[b], inbox[b], news)
  BY DEF CalmTopic
<1>1. /\ box[b] \in Seq(Message) /\ Calm(box[b], inbox[b], news)
      /\ \/ Post(box, readers, msg)[b] = box[b]
         \/ Post(box, readers, msg)[b] = Append(box[b], msg)
  BY DEF Boxes, Post, CalmTopic
<1>2. Calm(Append(box[b], msg), box[b], news)
  BY <1>1, AppendCalm
<1> QED
  BY <1>1, <1>2, CalmTransitive

LEMMA ConsumeCalm ==
  ASSUME inbox \in Boxes, NEW a \in Agent, inbox[a] # <<>>, NEW news
  PROVE  CalmTopic(Consume(a), news)
<1> SUFFICES ASSUME NEW b \in Agent
             PROVE  Calm(Consume(a)[b], inbox[b], news)
  BY DEF CalmTopic
<1>1. /\ inbox[a] \in Seq(Message)
      /\ Consume(a)[b] = IF b = a THEN Tail(inbox[a]) ELSE inbox[b]
  BY DEF Boxes, Consume
<1> QED
  BY <1>1, TailCalm, CalmSame

LEMMA LeaveCalm ==
  ASSUME NEW box \in Boxes, NEW news, CalmTopic(box, news), NEW a \in Agent
  PROVE  CalmTopic(Leave(box, a), news)
<1>1. \A b \in Agent : Leave(box, a)[b] = <<>> \/ Leave(box, a)[b] = box[b]
  BY DEF Leave, Boxes
<1> QED
  BY <1>1, CalmSame DEF CalmTopic

LEMMA SameCalm == ASSUME NEW news PROVE CalmTopic(inbox, news)
BY CalmSame DEF CalmTopic

(* The LOG has still to read every confirmation it had to read.             *)
Hears(box) ==
  \A msg \in Elems(inbox[LogAgent]) :
    msg.act = "CONFIRM" => msg \in Elems(box[LogAgent])

LEMMA PostHears ==
  ASSUME NEW box \in Boxes, Hears(box), NEW readers, NEW msg \in Message
  PROVE  Hears(Post(box, readers, msg))
<1>1. /\ box[LogAgent] \in Seq(Message)
      /\ \/ Post(box, readers, msg)[LogAgent] = box[LogAgent]
         \/ Post(box, readers, msg)[LogAgent] = Append(box[LogAgent], msg)
  BY AgentKinds DEF Boxes, Post
<1> QED
  BY <1>1, AppendParts DEF Hears

LEMMA ConsumeHears ==
  ASSUME inbox \in Boxes, NEW a \in Agent, inbox[a] # <<>>,
         a # LogAgent \/ Next1(a).act # "CONFIRM"
  PROVE  Hears(Consume(a))
<1>1. CASE a # LogAgent
  BY <1>1, AgentKinds, ConsumeElems DEF Hears
<1>2. CASE a = LogAgent /\ Next1(a).act # "CONFIRM"
  <2> DEFINE q == inbox[LogAgent]
  <2>1. q \in Seq(Message) /\ q # <<>> /\ Consume(a)[LogAgent] = Tail(q) /\ Head(q).act # "CONFIRM"
    BY <1>2 DEF Boxes, Consume, Next1
  <2>2. /\ DOMAIN q = 1..Len(q) /\ DOMAIN Tail(q) = 1..(Len(q) - 1)
        /\ Len(q) \in Nat \ {0} /\ Head(q) = q[1]
        /\ \A i \in 1..(Len(q) - 1) : Tail(q)[i] = q[i + 1]
    BY <2>1
  <2>3. ASSUME NEW i \in DOMAIN q, q[i].act = "CONFIRM"
        PROVE  q[i] \in Elems(Tail(q))
    <3>1. i # 1
      BY <2>1, <2>2, <2>3
    <3>2. i - 1 \in DOMAIN Tail(q) /\ Tail(q)[i - 1] = q[i]
      BY <2>2, <2>3, <3>1
    <3> QED
      BY <3>2 DEF Elems
  <2> QED
    BY <2>1, <2>3 DEF Hears, Elems
<1> QED
  BY <1>1, <1>2

LEMMA LeaveHears ==
  ASSUME NEW box \in Boxes, Hears(box), NEW a \in Agent, a # LogAgent
  PROVE  Hears(Leave(box, a))
<1>1. Leave(box, a)[LogAgent] = box[LogAgent]
  BY AgentKinds DEF Leave, Boxes
<1> QED
  BY <1>1 DEF Hears

LEMMA SameHears == Hears(inbox)
BY DEF Hears

-----------------------------------------------------------------------------
(* The first invariant: who waits for whom.  A question an order has still  *)
(* to answer is the one its equipment waits on, and so is the confirmation  *)
(* an equipment has still to read; an order that has committed answers no   *)
(* question any more, and what the topic says of it is true.                *)

Truthful(msg) ==
  /\ msg.act \in {"CONFIRM", "ASSIGNEDOTHERS"} => assigned[msg.mat] = Name(msg)
  /\ msg.act \notin {"ASSIGNED", "RECIEVEERROR"}

Told == \A a \in Agent : \A msg \in Elems(inbox[a]) : Truthful(msg)

CommitsLast == \A m \in Material : assigned[m] # None => ~Undecided(m)

Questions ==
  \A m \in Material : Undecided(m) =>
    /\ \A e \in Equipment : Sole(inbox[m], "ASKCONFIRM", e)
    /\ \A msg \in Elems(inbox[m]) :
         msg.act = "ASKCONFIRM" /\ stage[msg.eq] # "ended" =>
           pending[msg.eq] = m /\ round[msg.eq] = msg.rnd

Replies ==
  \A e \in Equipment : stage[e] # "ended" =>
    /\ Sole(inbox[e], "CONFIRM", e)
    /\ \A msg \in Elems(inbox[e]) :
         msg.act = "CONFIRM" =>
           msg.eq = e /\ msg.mat = pending[e] /\ msg.rnd = round[e]

AskInv == Told /\ CommitsLast /\ Questions /\ Replies /\ ~failed

Asks(e, m) == \E msg \in Elems(inbox[m]) : msg.act = "ASKCONFIRM" /\ msg.eq = e
Silent(e) == \A m \in Material : Undecided(m) => ~Asks(e, m)
Unanswered(e) == \A msg \in Elems(inbox[e]) : msg.act # "CONFIRM"

LEMMA SilentWhenDecided ==
  ASSUME AskInv, NEW e \in Equipment, stage[e] # "ended",
         pending[e] \in Material => ~Undecided(pending[e])
  PROVE  Silent(e)
BY DEF AskInv, Questions, Silent, Asks

(* A step that neither asks nor confirms, and takes no question back that   *)
(* may still be answered, keeps the invariant.                              *)
LEMMA CalmAsks ==
  ASSUME TypeInv, AskInv, NEW news, CalmTopic(inbox', news),
         \A msg \in news : Truthful(msg) /\ msg.act \notin Questioning,
         UNCHANGED <<assigned, failed>>,
         \A m \in Material : Undecided(m)' => Undecided(m),
         \A e \in Equipment : stage'[e] # "ended" =>
           /\ stage[e] # "ended"
           /\ \/ pending'[e] = pending[e] /\ round'[e] = round[e]
              \/ Silent(e) /\ Unanswered(e)'
  PROVE  AskInv'
<1>a. \A b \in Agent : \A msg \in Elems(inbox'[b]) : msg \in Elems(inbox[b]) \/ msg \in news
  BY DEF CalmTopic, Calm
<1>b. \A b \in Agent : \A act \in Questioning : \A e \in Equipment :
        Sole(inbox[b], act, e) => Sole(inbox'[b], act, e)
  BY DEF CalmTopic, Calm
<1>c. \A b \in Agent : \A msg \in Elems(inbox'[b]) :
        msg.act \in Questioning => msg \in Elems(inbox[b])
  BY <1>a
<1>d. \A b \in Agent : \A msg \in Elems(inbox[b]) : msg \in Message
  BY DEF TypeInv, TypeOK, Elems
<1>e. \A msg \in Message : msg.act \in Questioning => msg.eq \in Equipment
  BY DealFields DEF Questioning, DealActions
<1>1. Told'
  <2> SUFFICES ASSUME NEW a \in Agent, NEW msg \in Elems(inbox'[a])
               PROVE  Truthful(msg)'
    BY DEF Told
  <2>1. Truthful(msg)
    BY <1>a DEF AskInv, Told
  <2> QED
    BY <2>1 DEF Truthful, Name
<1>2. CommitsLast'
  BY DEF AskInv, CommitsLast
<1>3. Questions'
  <2> SUFFICES ASSUME NEW m \in Material, Undecided(m)'
               PROVE  /\ \A e \in Equipment : Sole(inbox'[m], "ASKCONFIRM", e)
                      /\ \A msg \in Elems(inbox'[m]) :
                           msg.act = "ASKCONFIRM" /\ stage'[msg.eq] # "ended" =>
                             pending'[msg.eq] = m /\ round'[msg.eq] = msg.rnd
    BY DEF Questions
  <2>1. m \in Agent /\ Undecided(m)
    BY AgentKinds
  <2>2. \A e \in Equipment : Sole(inbox'[m], "ASKCONFIRM", e)
    BY <1>b, <2>1 DEF AskInv, Questions, Questioning
  <2>3. ASSUME NEW msg \in Elems(inbox'[m]), msg.act = "ASKCONFIRM",
               stage'[msg.eq] # "ended"
        PROVE  pending'[msg.eq] = m /\ round'[msg.eq] = msg.rnd
    <3>1. msg \in Elems(inbox[m]) /\ msg.eq \in Equipment
      BY <1>c, <1>d, <1>e, <2>1, <2>3 DEF Questioning
    <3>2. ~Silent(msg.eq)
      BY <2>1, <2>3, <3>1 DEF Silent, Asks
    <3>3. /\ stage[msg.eq] # "ended"
          /\ pending'[msg.eq] = pending[msg.eq] /\ round'[msg.eq] = round[msg.eq]
      BY <2>3, <3>1, <3>2
    <3> QED
      BY <2>1, <2>3, <3>1, <3>3 DEF AskInv, Questions
  <2> QED
    BY <2>2, <2>3
<1>4. Replies'
  <2> SUFFICES ASSUME NEW e \in Equipment, stage'[e] # "ended"
               PROVE  /\ Sole(inbox'[e], "CONFIRM", e)
                      /\ \A msg \in Elems(inbox'[e]) :
                           msg.act = "CONFIRM" =>
                             msg.eq = e /\ msg.mat = pending'[e] /\ msg.rnd = round'[e]
    BY DEF Replies
  <2>1. e \in Agent /\ stage[e] # "ended"
    BY AgentKinds
  <2>2. Sole(inbox'[e], "CONFIRM", e)
    BY <1>b, <2>1 DEF AskInv, Replies, Questioning
  <2>3. ASSUME NEW msg \in Elems(inbox'[e]), msg.act = "CONFIRM"
        PROVE  msg.eq = e /\ msg.mat = pending'[e] /\ msg.rnd = round'[e]
    <3>1. msg \in Elems(inbox[e])
      BY <1>c, <2>1, <2>3 DEF Questioning
    <3>2. ~Unanswered(e)'
      BY <2>3 DEF Unanswered
    <3>3. pending'[e] = pending[e] /\ round'[e] = round[e]
      BY <3>2
    <3> QED
      BY <2>1, <2>3, <3>1, <3>3 DEF AskInv, Replies
  <2> QED
    BY <2>2, <2>3
<1>5. ~failed'
  BY DEF AskInv
<1> QED
  BY <1>1, <1>2, <1>3, <1>4, <1>5 DEF AskInv

-----------------------------------------------------------------------------
(* The second invariant: what the LOG still hears.  An equipment that has   *)
(* said it is finished has no question left that could be answered, so the  *)
(* LOG reads every confirmation of an equipment before its farewell.        *)

Heard(m) == \E msg \in Elems(inbox[LogAgent]) : msg.act = "CONFIRM" /\ msg.mat = m
Finishing(e) ==
  \/ e \in finished
  \/ \E msg \in Elems(inbox[LogAgent]) : msg.act = "EQUIPMENTFINISHED" /\ msg.eq = e

Farewells == \A e \in Equipment : Finishing(e) => stage[e] = "ended" /\ Silent(e)

ConfirmsFirst ==
  /\ InOrder(inbox[LogAgent])
  /\ \A msg \in Elems(inbox[LogAgent]) : msg.act = "CONFIRM" => msg.eq \notin finished

Recording ==
  /\ Recorded(results) \subseteq Settled
  /\ stage[LogAgent] = "ended"
       \/ \A m \in Committed : Heard(m) \/ <<m, assigned[m]>> \in Recorded(results)

Completion == completed => Equipment \subseteq finished /\ Recorded(results) = Settled

Serving == endRequested => completed /\ Recorded(served) = Settled

LogInv == Farewells /\ ConfirmsFirst /\ Recording /\ Completion /\ Serving

ProtocolInv == AskInv /\ LogInv

LEMMA CalmLog ==
  ASSUME TypeInv, LogInv, NEW news, CalmTopic(inbox', news),
         \A msg \in news :
           /\ msg.act \notin Questioning
           /\ msg.act = "EQUIPMENTFINISHED" => stage'[msg.eq] = "ended" /\ Silent(msg.eq),
         UNCHANGED <<assigned, results, finished, completed, endRequested, served>>,
         \A m \in Material : Undecided(m)' => Undecided(m),
         \A a \in Agent : stage[a] = "ended" => stage'[a] = "ended",
         stage'[LogAgent] = "ended" \/ Hears(inbox')
  PROVE  LogInv'
<1>a. /\ \A b \in Agent : \A msg \in Elems(inbox'[b]) : msg \in Elems(inbox[b]) \/ msg \in news
      /\ InOrder(inbox[LogAgent]) => InOrder(inbox'[LogAgent])
  BY AgentKinds DEF CalmTopic, Calm
<1>b. ASSUME NEW e \in Equipment, Silent(e)
      PROVE  Silent(e)'
  BY <1>a, <1>b, AgentKinds DEF Silent, Asks, Questioning
<1>1. Farewells'
  <2> SUFFICES ASSUME NEW e \in Equipment, Finishing(e)'
               PROVE  stage'[e] = "ended" /\ Silent(e)'
    BY DEF Farewells
  <2>1. CASE Finishing(e)
    BY <1>b, <2>1, AgentKinds DEF LogInv, Farewells
  <2>2. CASE ~Finishing(e)
    <3>1. PICK msg \in news : msg.act = "EQUIPMENTFINISHED" /\ msg.eq = e
      BY <1>a, <2>2, AgentKinds DEF Finishing
    <3> QED
      BY <1>b, <3>1
  <2> QED
    BY <2>1, <2>2
<1>2. ConfirmsFirst'
  BY <1>a, AgentKinds DEF LogInv, ConfirmsFirst, Questioning
<1>3. Recorded(results)' = Recorded(results) /\ Settled' = Settled /\ Committed' = Committed
  BY DEF Recorded, Settled, Committed
<1>4. Recording'
  <2>1. CASE stage'[LogAgent] = "ended"
    BY <1>3, <2>1 DEF LogInv, Recording
  <2>2. CASE stage'[LogAgent] # "ended" /\ Hears(inbox')
    <3>1. \A m \in Committed : Heard(m) \/ <<m, assigned[m]>> \in Recorded(results)
      BY <2>2, AgentKinds DEF LogInv, Recording
    <3>2. \A m : Heard(m) => Heard(m)'
      BY <2>2 DEF Heard, Hears
    <3> QED
      BY <1>3, <3>1, <3>2 DEF LogInv, Recording
  <2> QED
    BY <2>1, <2>2
<1>5. Completion'
  BY <1>3 DEF LogInv, Completion
<1>6. Serving'
  BY <1>3 DEF LogInv, Serving, Recorded
<1> QED
  BY <1>1, <1>2, <1>4, <1>5, <1>6 DEF LogInv

(* The lemma most steps need.                                               *)
Mild(msg) ==
  /\ Truthful(msg)
  /\ msg.act \notin Questioning
  /\ msg.act = "EQUIPMENTFINISHED" => stage'[msg.eq] = "ended" /\ Silent(msg.eq)

OnlyEnds ==
  /\ \A m \in Material : Undecided(m)' => Undecided(m)
  /\ \A a \in Agent : stage[a] = "ended" => stage'[a] = "ended"

LEMMA CalmStep ==
  ASSUME TypeInv, ProtocolInv, NEW news, CalmTopic(inbox', news),
         \A msg \in news : Mild(msg),
         UNCHANGED <<assigned, failed, results, finished, completed, endRequested, served>>,
         OnlyEnds,
         stage'[LogAgent] = "ended" \/ Hears(inbox'),
         \A e \in Equipment : stage'[e] # "ended" =>
           \/ pending'[e] = pending[e] /\ round'[e] = round[e]
           \/ Silent(e) /\ Unanswered(e)'
  PROVE  ProtocolInv'
<1>1. AskInv'
  BY CalmAsks, AgentKinds DEF ProtocolInv, OnlyEnds, Mild
<1>2. LogInv'
  BY CalmLog DEF ProtocolInv, OnlyEnds, Mild
<1> QED
  BY <1>1, <1>2 DEF ProtocolInv

LEMMA EndingOnly ==
  ASSUME TypeInv, NEW a \in Agent,
         \/ stage' = stage
         \/ Ends(a)
         \/ stage[a] = "absent" /\ stage' = [stage EXCEPT ![a] = "running"]
  PROVE  OnlyEnds
BY StageOf, AgentKinds DEF OnlyEnds, Ends, Undecided

-----------------------------------------------------------------------------
(* Steps of containers, and answers to the LOG.                             *)

LEMMA ContainerProtocol ==
  ASSUME TypeInv, ProtocolInv, NEW a \in Agent, Launch(a) \/ Crash(a) \/ HandleExit(a)
  PROVE  ProtocolInv'
<1>1. CalmTopic(inbox', {})
  BY BoxesOf, SameCalm, LeaveCalm DEF Launch, Crash, HandleExit
<1>2. OnlyEnds
  BY EndingOnly DEF Launch, Crash, HandleExit
<1>3. stage'[LogAgent] = "ended" \/ Hears(inbox')
  BY BoxesOf, StageOf, AgentKinds, SameHears, LeaveHears DEF Launch, Crash, HandleExit, Ends
<1>4. UNCHANGED <<equipmentVars, assigned, logVars>>
  BY DEF Launch, Crash, HandleExit
<1> QED
  BY <1>1, <1>2, <1>3, <1>4, CalmStep DEF equipmentVars, logVars

(* An agent that reads one message, not a confirmation at the LOG, and      *)
(* sends another that neither asks nor confirms.                            *)
LEMMA ReplyCalm ==
  ASSUME TypeInv, NEW a \in Agent, NEW act, Reads(a, act),
         a # LogAgent \/ act # "CONFIRM",
         NEW readers, NEW msg \in Message, msg.act \notin Questioning
  PROVE  /\ CalmTopic(Post(Consume(a), readers, msg), {msg})
         /\ Hears(Post(Consume(a), readers, msg))
<1>1. Consume(a) \in Boxes /\ inbox[a] # <<>> /\ Next1(a).act = act
  BY ReadsOf DEF Reads
<1>2. CalmTopic(Consume(a), {msg}) /\ Hears(Consume(a))
  BY <1>1, BoxesOf, ConsumeCalm, ConsumeHears
<1> QED
  BY <1>1, <1>2, PostCalm, PostHears

LEMMA ReadCalm ==
  ASSUME TypeInv, NEW a \in Agent, inbox[a] # <<>>,
         a # LogAgent \/ Next1(a).act # "CONFIRM", NEW news
  PROVE  CalmTopic(Consume(a), news) /\ Hears(Consume(a))
BY BoxesOf, ConsumeCalm, ConsumeHears

LEMMA FarewellCalm ==
  ASSUME TypeInv, NEW a \in Agent, a # LogAgent, NEW readers,
         NEW msg \in Message, msg.act \notin Questioning
  PROVE  /\ CalmTopic(Leave(Post(inbox, readers, msg), a), {msg})
         /\ Hears(Leave(Post(inbox, readers, msg), a))
<1>1. CalmTopic(Post(inbox, readers, msg), {msg}) /\ Hears(Post(inbox, readers, msg))
  BY BoxesOf, SameCalm, SameHears, PostCalm, PostHears
<1> QED
  BY <1>1, BoxesOf, PostType, LeaveCalm, LeaveHears

LEMMA PingProtocol ==
  ASSUME TypeInv, ProtocolInv, NEW a \in Agent, NEW answer \in Message,
         answer.act = "PINGANSWER", AnswerPing(a, answer)
  PROVE  ProtocolInv'
<1>1. CalmTopic(inbox', {answer}) /\ Hears(inbox')
  BY ReplyCalm DEF AnswerPing, Questioning
<1>2. Mild(answer)
  BY DEF Mild, Truthful, Questioning
<1>3. OnlyEnds
  BY EndingOnly DEF AnswerPing
<1>4. UNCHANGED <<equipmentVars, assigned, logVars>>
  BY DEF AnswerPing
<1> QED
  BY <1>1, <1>2, <1>3, <1>4, CalmStep DEF equipmentVars, logVars

-----------------------------------------------------------------------------
(* Steps of an equipment.                                                   *)

(* A confirmation that is read is the one its equipment waits for: the      *)
(* order has committed to it, nothing it asked may still be answered, and   *)
(* no other confirmation is on its way.                                     *)
LEMMA ConfirmRead ==
  ASSUME TypeInv, ProtocolInv, NEW e \in Equipment, Reads(e, "CONFIRM")
  PROVE  /\ pending[e] = Next1(e).mat
         /\ Silent(e)
         /\ \A msg \in Elems(Tail(inbox[e])) : msg.act # "CONFIRM"
<1> DEFINE q == inbox[e]
           msg == Head(q)
<1>1. /\ q \in Seq(Message) /\ q # <<>> /\ stage[e] = "running"
      /\ msg.act = "CONFIRM" /\ msg = Next1(e) /\ e \in Agent
  BY AgentKinds DEF TypeInv, TypeOK, Reads, Next1
<1>2. msg \in Elems(q) /\ msg \in Message /\ Elems(Tail(q)) \subseteq Elems(q)
  BY <1>1, TailElems
<1>3. msg.eq \in Equipment /\ msg.rnd \in Nat /\ msg.mat \in Material
  BY <1>1, <1>2, DealFields DEF DealActions
<1> HIDE DEF q, msg
<1>4. msg.eq = e /\ msg.mat = pending[e] /\ Sole(q, "CONFIRM", e)
  BY <1>1, <1>2 DEF ProtocolInv, AskInv, Replies, q
<1>5. assigned[msg.mat] # None
  <2>1. assigned[msg.mat] = <<msg.eq, msg.rnd>>
    BY <1>1, <1>2 DEF ProtocolInv, AskInv, Told, Truthful, Name, q
  <2>2. None \notin Equipment \X Nat
    BY AgentsAssumption
  <2> QED
    BY <1>3, <2>1, <2>2
<1>6. Silent(e)
  BY <1>1, <1>3, <1>4, <1>5, SilentWhenDecided DEF ProtocolInv, AskInv, CommitsLast
<1>7. ASSUME NEW other \in Elems(Tail(q)), other.act = "CONFIRM"
      PROVE  FALSE
  <2>1. other.eq = e
    BY <1>1, <1>2, <1>7 DEF ProtocolInv, AskInv, Replies, q
  <2> QED
    BY <1>1, <1>4, <1>7, <2>1, HeadAlone DEF msg
<1> QED
  BY <1>1, <1>4, <1>6, <1>7 DEF q

(* An equipment is told that the order it waits for went elsewhere only if  *)
(* it did: the confirmation it waits for cannot be on its way to it.        *)
LEMMA TakenElsewhere ==
  ASSUME TypeInv, ProtocolInv, NEW e \in Equipment, Receives(e, "ASSIGNEDOTHERS"),
         pending[e] = Next1(e).mat
  PROVE  Silent(e) /\ Unanswered(e)
<1> DEFINE msg == Next1(e)
<1>1. /\ msg \in Elems(inbox[e]) /\ msg \in Message
      /\ msg.act = "ASSIGNEDOTHERS" /\ stage[e] = "running" /\ e \in Agent
  BY AgentKinds, BoxesOf, ReadsOf, ConsumeElems DEF Receives, Reads
<1>2. msg.eq \in Equipment /\ msg.rnd \in Nat /\ msg.mat \in Material
  BY <1>1, DealFields DEF DealActions
<1>3. ~ (msg.eq = e /\ msg.rnd = round[e])
  BY <1>1 DEF Receives, AddressedTo, RoundMatches
<1>4. pending[e] = msg.mat
  OBVIOUS
<1> HIDE DEF msg
<1>5. assigned[msg.mat] = <<msg.eq, msg.rnd>>
  BY <1>1 DEF ProtocolInv, AskInv, Told, Truthful, Name
<1>6. assigned[msg.mat] # None
  BY <1>2, <1>5, AgentsAssumption
<1>7. Silent(e)
  BY <1>1, <1>2, <1>4, <1>6, SilentWhenDecided DEF ProtocolInv, AskInv, CommitsLast
<1>8. ASSUME NEW other \in Elems(inbox[e]), other.act = "CONFIRM"
      PROVE  FALSE
  <2>1. other.eq = e /\ other.mat = msg.mat /\ other.rnd = round[e]
    BY <1>1, <1>4, <1>8 DEF ProtocolInv, AskInv, Replies
  <2>2. assigned[other.mat] = <<other.eq, other.rnd>>
    BY <1>1, <1>8 DEF ProtocolInv, AskInv, Told, Truthful, Name
  <2> QED
    BY <1>3, <1>5, <2>1, <2>2
<1> QED
  BY <1>7, <1>8 DEF Unanswered

LEMMA AskBestProtocol ==
  ASSUME TypeInv, ProtocolInv, DistinctNames, NEW e \in Equipment, AskBest(e)
  PROVE  ProtocolInv'
<1>1. PICK b \in bids[e] :
        /\ pending' = [pending EXCEPT ![e] = b.mat]
        /\ inbox' = Post(inbox, NameCovers[b.mat], Between("ASKCONFIRM", e, round[e], b.mat))
  BY DEF AskBest
<1> DEFINE m == b.mat
           ask == Between("ASKCONFIRM", e, round[e], m)
<1>2. /\ m \in Material /\ m \in Agent /\ e \in Agent /\ round[e] \in Nat
      /\ m \notin Equipment /\ m # LogAgent
  BY AgentKinds, AgentsAssumption DEF TypeInv, TypeOK, Bid
<1>3. /\ ask \in Message /\ ask.act = "ASKCONFIRM" /\ ask.eq = e
      /\ ask.mat = m /\ ask.rnd = round[e]
  BY <1>2, DealMessage DEF DealActions, Between
<1>4. stage[e] = "running" /\ pending[e] = None /\ None \notin Material
  BY AgentsAssumption DEF AskBest, WaitIsOver, Agent
<1>5. Silent(e)
  BY <1>4, SilentWhenDecided DEF ProtocolInv
<1>6. inbox' = Post(inbox, {m}, ask)
  BY <1>1, <1>2 DEF DistinctNames
<1>7. /\ pending' = [pending EXCEPT ![e] = m] /\ pending \in [Equipment -> Material \cup {None}]
      /\ UNCHANGED <<stage, round, assigned, logVars>>
  BY <1>1 DEF AskBest, TypeInv, TypeOK
<1> HIDE DEF ask, m
<1>8. /\ \A a \in Agent : a # m => inbox'[a] = inbox[a]
      /\ inbox'[m] = inbox[m] \/ inbox'[m] = Append(inbox[m], ask)
      /\ inbox[m] \in Seq(Message)
  BY <1>2, <1>6, BoxesOf DEF Post, Boxes
<1>9. \A a \in Agent : Elems(inbox'[a]) \subseteq Elems(inbox[a]) \cup {ask}
  BY <1>2, <1>3, <1>8, AppendElems
<1>10. \A a \in Agent : \A msg \in Elems(inbox'[a]) :
         msg.act # "ASKCONFIRM" => msg \in Elems(inbox[a])
  BY <1>3, <1>9
<1>11. Told'
  BY <1>7, <1>10, <1>3, <1>9 DEF ProtocolInv, AskInv, Told, Truthful, Name
<1>12. CommitsLast' /\ ~failed'
  BY <1>7 DEF ProtocolInv, AskInv, CommitsLast, Undecided, logVars
<1>13. Questions'
  <2> SUFFICES ASSUME NEW n \in Material, Undecided(n)
               PROVE  /\ \A f \in Equipment : Sole(inbox'[n], "ASKCONFIRM", f)
                      /\ \A msg \in Elems(inbox'[n]) :
                           msg.act = "ASKCONFIRM" /\ stage[msg.eq] # "ended" =>
                             pending'[msg.eq] = n /\ round[msg.eq] = msg.rnd
    BY <1>7 DEF Questions, Undecided
  <2>1. /\ n \in Agent
        /\ \A f \in Equipment : Sole(inbox[n], "ASKCONFIRM", f)
        /\ \A msg \in Elems(inbox[n]) :
             msg.act = "ASKCONFIRM" /\ stage[msg.eq] # "ended" =>
               pending[msg.eq] = n /\ round[msg.eq] = msg.rnd
        /\ \A msg \in Elems(inbox[n]) : ~(msg.act = "ASKCONFIRM" /\ msg.eq = e)
    BY <1>5, AgentKinds DEF ProtocolInv, AskInv, Questions, Silent, Asks
  <2>2. \A f \in Equipment : Sole(inbox'[n], "ASKCONFIRM", f)
    BY <1>3, <1>8, <2>1, AppendSole
  <2>3. ASSUME NEW msg \in Elems(inbox'[n]), msg.act = "ASKCONFIRM",
               stage[msg.eq] # "ended"
        PROVE  pending'[msg.eq] = n /\ round[msg.eq] = msg.rnd
    <3>1. CASE msg \in Elems(inbox[n])
      <4>1. msg.eq # e /\ pending[msg.eq] = n /\ round[msg.eq] = msg.rnd
        BY <2>1, <2>3, <3>1
      <4>2. msg \in Message
        BY <2>1, <3>1 DEF TypeInv, TypeOK, Elems
      <4>3. msg.eq \in Equipment
        BY <2>3, <4>2, DealFields DEF DealActions
      <4> QED
        BY <1>7, <4>1, <4>3
    <3>2. CASE msg \notin Elems(inbox[n])
      <4>1. msg = ask /\ n = m
        BY <1>8, <1>9, <2>1, <3>2
      <4> QED
        BY <1>3, <1>7, <4>1
    <3> QED
      BY <3>1, <3>2
  <2> QED
    BY <2>2, <2>3
<1>14. Replies'
  <2> SUFFICES ASSUME NEW f \in Equipment, stage[f] # "ended"
               PROVE  /\ Sole(inbox'[f], "CONFIRM", f)
                      /\ \A msg \in Elems(inbox'[f]) :
                           msg.act = "CONFIRM" =>
                             msg.eq = f /\ msg.mat = pending'[f] /\ msg.rnd = round[f]
    BY <1>7 DEF Replies
  <2>1. f \in Agent /\ inbox'[f] = inbox[f]
    BY <1>2, <1>8, AgentKinds
  <2>2. /\ Sole(inbox[f], "CONFIRM", f)
        /\ \A msg \in Elems(inbox[f]) :
             msg.act = "CONFIRM" =>
               msg.eq = f /\ msg.mat = pending[f] /\ msg.rnd = round[f]
    BY DEF ProtocolInv, AskInv, Replies
  <2>3. \A msg \in Elems(inbox[f]) : msg \in Message
    BY <2>1 DEF TypeInv, TypeOK, Elems
  <2>4. \A msg \in Elems(inbox[f]) : msg.act = "CONFIRM" => f # e
    BY <1>4, <2>2, <2>3, DealFields DEF DealActions
  <2> QED
    BY <1>7, <2>1, <2>2, <2>4
<1>15. \A f \in Equipment : Finishing(f)' => Finishing(f) /\ f # e
  <2>1. inbox'[LogAgent] = inbox[LogAgent]
    BY <1>2, <1>8, AgentKinds
  <2> QED
    BY <1>4, <1>7, <2>1 DEF Finishing, ProtocolInv, LogInv, Farewells, logVars
<1>16. Farewells'
  <2> SUFFICES ASSUME NEW f \in Equipment, Finishing(f)'
               PROVE  stage'[f] = "ended" /\ Silent(f)'
    BY DEF Farewells
  <2>1. f # e /\ stage[f] = "ended" /\ Silent(f)
    BY <1>15 DEF ProtocolInv, LogInv, Farewells
  <2> QED
    BY <1>3, <1>7, <1>9, <2>1, AgentKinds DEF Silent, Asks, Undecided
<1>17. ConfirmsFirst' /\ Recording' /\ Completion' /\ Serving'
  <2>1. inbox'[LogAgent] = inbox[LogAgent]
    BY <1>2, <1>8, AgentKinds
  <2> QED
    BY <1>7, <2>1
       DEF ProtocolInv, LogInv, ConfirmsFirst, Recording, Completion, Serving, logVars,
           Recorded, Settled, Committed, Heard
<1> QED
  BY <1>11, <1>12, <1>13, <1>14, <1>16, <1>17 DEF ProtocolInv, AskInv, LogInv

LEMMA EquipmentProtocol ==
  ASSUME TypeInv, ProtocolInv, DistinctNames, NEW e \in Equipment,
         EquipmentStep(e) \/ AskBest(e) \/ NoMoreBids(e)
  PROVE  ProtocolInv'
<1>a. /\ e \in Agent /\ e # LogAgent /\ e \notin Material /\ round[e] \in Nat
      /\ inbox[e] \in Seq(Message)
  BY AgentKinds, AgentsAssumption DEF TypeInv, TypeOK
<1>b. \A act \in EquipmentActions :
        /\ OfEquipment(act, e) \in Message
        /\ OfEquipment(act, e).act = act /\ OfEquipment(act, e).eq = e
  BY OfEquipmentMessage DEF TypeInv, OfEquipment
<1>c. \A b \in Agent : stage[b] = "ended" => b # e \/ stage[e] = "ended"
  OBVIOUS
<1>d. pending \in [Equipment -> Material \cup {None}] /\ round \in [Equipment -> Nat]
  BY DEF TypeInv, TypeOK
<1> DEFINE farewell == OfEquipment("EQUIPMENTFINISHED", e)
<1>e. ASSUME Silent(e), Ends(e)
      PROVE  Mild(farewell) /\ OnlyEnds /\ stage'[e] = "ended"
  <2>1. stage'[e] = "ended" /\ OnlyEnds
    BY <1>a, <1>e, StageOf, EndingOnly DEF Ends
  <2>2. farewell.act = "EQUIPMENTFINISHED" /\ farewell.eq = e
    BY <1>b DEF EquipmentActions
  <2> QED
    BY <1>e, <2>1, <2>2 DEF Mild, Truthful, Questioning
<1>1. CASE AnswerPing(e, OfEquipment("PINGANSWER", e))
  BY <1>1, <1>a, <1>b, PingProtocol DEF EquipmentActions
<1>2. CASE EquipmentStart(e)
  <2> DEFINE bid == OfEquipment("BID", e)
  <2>1. bid \in Message /\ bid.act = "BID"
    BY <1>b DEF EquipmentActions
  <2>2. CalmTopic(inbox', {bid}) /\ Hears(inbox')
    BY <1>2, <1>a, <2>1, ReplyCalm DEF EquipmentStart, Receives, Questioning
  <2>3. Mild(bid)
    BY <2>1 DEF Mild, Truthful, Questioning
  <2>4. UNCHANGED <<stage, round, pending, assigned, logVars>>
    BY <1>2 DEF EquipmentStart
  <2> HIDE DEF bid
  <2> QED
    BY <1>a, <2>2, <2>3, <2>4, EndingOnly, CalmStep DEF logVars
<1>3. CASE EquipmentCounterbid(e)
  <2>1. CalmTopic(inbox', {}) /\ Hears(inbox')
    BY <1>3, <1>a, ReadCalm DEF EquipmentCounterbid, Receives, Reads
  <2>2. UNCHANGED <<stage, round, pending, assigned, logVars>>
    BY <1>3 DEF EquipmentCounterbid
  <2> QED
    BY <1>a, <2>1, <2>2, EndingOnly, CalmStep DEF logVars
<1>4. CASE EquipmentAssigned(e)
  <2>1. CalmTopic(inbox', {}) /\ Hears(inbox')
    BY <1>4, <1>a, ReadCalm DEF EquipmentAssigned, Receives, Reads
  <2>2. UNCHANGED <<stage, round, assigned, logVars>>
    BY <1>4 DEF EquipmentAssigned
  <2>3. Receives(e, "ASSIGNEDOTHERS")
    <3>1. CASE Receives(e, "ASSIGNED")
      <4>1. Next1(e) \in Elems(inbox[e]) /\ Next1(e).act = "ASSIGNED"
        BY <1>a, <3>1, BoxesOf, ConsumeElems DEF Receives, Reads
      <4> QED
        BY <1>a, <4>1 DEF ProtocolInv, AskInv, Told, Truthful
    <3> QED
      BY <1>4, <3>1 DEF EquipmentAssigned
  <2>4. \A f \in Equipment :
          pending'[f] = pending[f] \/ (f = e /\ pending[e] = Next1(e).mat)
    <3>1. \/ pending[e] = Next1(e).mat /\ pending' = [pending EXCEPT ![e] = None]
          \/ pending' = pending
      BY <1>4, Zenon DEF EquipmentAssigned
    <3> QED
      BY <1>d, <3>1
  <2>5. Unanswered(e) => Unanswered(e)'
    BY <1>a, <2>1 DEF CalmTopic, Calm, Unanswered
  <2>6. \A f \in Equipment :
          pending'[f] = pending[f] \/ (Silent(f) /\ Unanswered(f)')
    <3>1. pending[e] = Next1(e).mat => Silent(e) /\ Unanswered(e)
      BY <2>3, TakenElsewhere
    <3> QED
      BY <2>4, <2>5, <3>1, Zenon
  <2> QED
    BY <1>a, <2>1, <2>2, <2>6, EndingOnly, CalmStep DEF logVars
<1>5. CASE EquipmentConfirm(e)
  <2> DEFINE total == tons[e] + Tons[Next1(e).mat]
             bid == Between("BID", e, NextRound(e), None)
  <2>1. Reads(e, "CONFIRM") /\ UNCHANGED <<assigned, logVars>>
    BY <1>5 DEF EquipmentConfirm, Receives
  <2>2. Silent(e) /\ \A msg \in Elems(Tail(inbox[e])) : msg.act # "CONFIRM"
    BY <2>1, ConfirmRead
  <2>3. CASE HasEnough(e, total)
    <3>1. /\ inbox' = Leave(Post(inbox, {LogAgent}, farewell), e) /\ Ends(e)
          /\ UNCHANGED <<round, pending>>
      BY <1>5, <2>3 DEF EquipmentConfirm
    <3>2. farewell \in Message /\ farewell.act \notin Questioning
      BY <1>b DEF EquipmentActions, Questioning
    <3>3. CalmTopic(inbox', {farewell}) /\ Hears(inbox')
      BY <1>a, <3>1, <3>2, FarewellCalm
    <3>4. Mild(farewell) /\ OnlyEnds
      BY <1>e, <2>2, <3>1
    <3> HIDE DEF farewell
    <3> QED
      BY <2>1, <3>1, <3>3, <3>4, CalmStep DEF logVars
  <2>4. CASE ~HasEnough(e, total)
    <3>1. bid \in Message /\ bid.act = "BID"
      BY <1>a, EquipmentMessage DEF EquipmentActions, NextRound, Between
    <3>2. /\ inbox' = Post(Consume(e), Material, bid) /\ stage' = stage
          /\ round' = [round EXCEPT ![e] = NextRound(e)]
          /\ pending' = [pending EXCEPT ![e] = None]
      BY <1>5, <2>4 DEF EquipmentConfirm
    <3> HIDE DEF bid
    <3>3. CalmTopic(inbox', {bid}) /\ Hears(inbox')
      BY <1>a, <2>1, <3>1, <3>2, ReplyCalm DEF Questioning
    <3>4. Mild(bid)
      BY <3>1 DEF Mild, Truthful, Questioning
    <3>5. inbox'[e] = Tail(inbox[e])
      BY <1>a, <3>2, BoxesOf DEF Post, Consume, Boxes
    <3>6. \A f \in Equipment :
            \/ pending'[f] = pending[f] /\ round'[f] = round[f]
            \/ Silent(f) /\ Unanswered(f)'
      BY <1>d, <2>2, <3>2, <3>5 DEF Unanswered
    <3> QED
      BY <1>a, <2>1, <3>2, <3>3, <3>4, <3>6, EndingOnly, CalmStep DEF logVars
  <2> QED
    BY <2>3, <2>4
<1>6. CASE EquipmentConfirmError(e)
  BY <1>6, ConfirmRead DEF EquipmentConfirmError, Receives
<1>7. CASE EquipmentIgnores(e)
  <2>1. CalmTopic(inbox', {}) /\ Hears(inbox')
    BY <1>7, <1>a, ReadCalm DEF EquipmentIgnores
  <2>2. UNCHANGED <<stage, round, pending, assigned, logVars>>
    BY <1>7 DEF EquipmentIgnores, equipmentVars
  <2> QED
    BY <1>a, <2>1, <2>2, EndingOnly, CalmStep DEF logVars
<1>8. CASE HandleExit(e)
  BY <1>8, <1>a, ContainerProtocol
<1>9. CASE AskBest(e)
  BY <1>9, AskBestProtocol
<1>10. CASE NoMoreBids(e)
  <2>1. /\ inbox' = Leave(Post(inbox, {LogAgent}, farewell), e) /\ Ends(e)
        /\ UNCHANGED <<round, pending, assigned, logVars>>
        /\ stage[e] = "running" /\ pending[e] = None
    BY <1>10 DEF NoMoreBids, WaitIsOver, equipmentVars
  <2>2. Silent(e)
    BY <2>1, SilentWhenDecided, AgentsAssumption DEF ProtocolInv, Agent
  <2>3. farewell \in Message /\ farewell.act \notin Questioning
    BY <1>b DEF EquipmentActions, Questioning
  <2>4. CalmTopic(inbox', {farewell}) /\ Hears(inbox')
    BY <1>a, <2>1, <2>3, FarewellCalm
  <2>5. Mild(farewell) /\ OnlyEnds
    BY <1>e, <2>1, <2>2
  <2> HIDE DEF farewell
  <2> QED
    BY <2>1, <2>4, <2>5, CalmStep DEF logVars
<1> QED
  BY <1>1, <1>2, <1>3, <1>4, <1>5, <1>6, <1>7, <1>8, <1>9, <1>10 DEF EquipmentStep

-----------------------------------------------------------------------------
(* Steps of a material.                                                     *)

LEMMA ConfirmProtocol ==
  ASSUME TypeInv, ProtocolInv, NEW m \in Material, MaterialAskConfirm(m)
  PROVE  ProtocolInv'
<1> DEFINE ask == Next1(m)
           e == ask.eq
           r == ask.rnd
           confirm == Between("CONFIRM", e, r, m)
<1>1. /\ ask \in Elems(inbox[m]) /\ ask \in Message /\ ask.act = "ASKCONFIRM"
      /\ stage[m] = "running" /\ Undecided(m)
      /\ m \in Agent /\ m \notin Equipment /\ m # LogAgent
      /\ inbox \in Boxes /\ inbox[m] # <<>>
  BY AgentKinds, AgentsAssumption, BoxesOf, ReadsOf, ConsumeElems
     DEF MaterialAskConfirm, Reads, Undecided
<1>2. /\ e \in Equipment /\ r \in Nat /\ e \in Agent
      /\ e # LogAgent /\ LogAgent \notin Material
  BY <1>1, DealFields, AgentKinds, AgentsAssumption DEF DealActions
<1>3. assigned[m] = None
  BY <1>1 DEF ProtocolInv, AskInv, CommitsLast
<1>4. /\ assigned' = [assigned EXCEPT ![m] = <<e, r>>]
      /\ inbox' = Post(Consume(m), {e, LogAgent}, confirm)
      /\ stage' = [stage EXCEPT ![m] = "announcing"]
      /\ UNCHANGED <<equipmentVars, logVars>>
  BY <1>3 DEF MaterialAskConfirm, Name
<1>5. /\ confirm \in Message /\ confirm.act = "CONFIRM" /\ confirm.eq = e
      /\ confirm.rnd = r /\ confirm.mat = m
  BY <1>2, DealMessage DEF DealActions, Between
<1>6. Asks(e, m) /\ (stage[e] # "ended" => pending[e] = m /\ round[e] = r)
  BY <1>1 DEF Asks, ProtocolInv, AskInv, Questions
<1>7. assigned \in [Material -> (Equipment \X Nat) \cup {None}] /\ stage \in [Agent -> Stage]
  BY DEF TypeInv, TypeOK
<1>8. Consume(m) \in Boxes /\ \A a \in Agent : a # m => Consume(m)[a] = inbox[a]
  BY <1>1, ConsumeType, ConsumeElems
<1> HIDE DEF confirm, ask, e, r
<1>9. /\ \A a \in Agent : a \notin {m, e, LogAgent} => inbox'[a] = inbox[a]
      /\ inbox'[e] = inbox[e] \/ inbox'[e] = Append(inbox[e], confirm)
      /\ inbox'[LogAgent] = IF stage[LogAgent] # "ended"
                            THEN Append(inbox[LogAgent], confirm) ELSE inbox[LogAgent]
      /\ inbox[e] \in Seq(Message) /\ inbox[LogAgent] \in Seq(Message)
  BY <1>1, <1>2, <1>4, <1>8, AgentKinds DEF Post, Boxes
<1>10. \A a \in Agent : Elems(inbox'[a]) \subseteq Elems(inbox[a]) \cup {confirm}
  BY <1>1, <1>4, <1>5, <1>8, PostElems, ConsumeElems
<1>11. \A a \in Agent : \A msg \in Elems(inbox[a]) :
         msg.act \in {"CONFIRM", "ASSIGNEDOTHERS"} => msg.mat \in Material /\ msg.mat # m
  <2> SUFFICES ASSUME NEW a \in Agent, NEW msg \in Elems(inbox[a]),
                      msg.act \in {"CONFIRM", "ASSIGNEDOTHERS"}
               PROVE  msg.mat \in Material /\ msg.mat # m
    OBVIOUS
  <2>1. msg \in Message
    BY <1>1 DEF Boxes, Elems
  <2>2. msg.eq \in Equipment /\ msg.rnd \in Nat /\ msg.mat \in Material
    BY <2>1, DealFields DEF DealActions
  <2>3. assigned[msg.mat] = <<msg.eq, msg.rnd>>
    BY DEF ProtocolInv, AskInv, Told, Truthful, Name
  <2>4. assigned[msg.mat] # None
    BY <2>2, <2>3, AgentsAssumption
  <2> QED
    BY <1>3, <2>2, <2>4
<1>12. Told'
  <2> SUFFICES ASSUME NEW a \in Agent, NEW msg \in Elems(inbox'[a])
               PROVE  Truthful(msg)'
    BY DEF Told
  <2>1. CASE msg \in Elems(inbox[a])
    <3>1. Truthful(msg)
      BY <2>1 DEF ProtocolInv, AskInv, Told
    <3>2. msg.act \in {"CONFIRM", "ASSIGNEDOTHERS"} => assigned'[msg.mat] = assigned[msg.mat]
      BY <1>4, <1>7, <1>11, <2>1
    <3> QED
      BY <3>1, <3>2 DEF Truthful, Name
  <2>2. CASE msg = confirm
    BY <1>4, <1>5, <1>7, <2>2 DEF Truthful, Name
  <2> QED
    BY <1>10, <2>1, <2>2
<1>13. \A n \in Material : Undecided(n)' => n # m /\ Undecided(n)
  BY <1>1, <1>4, <1>7, AgentKinds DEF Undecided
<1>14. CommitsLast' /\ ~failed'
  BY <1>1, <1>4, <1>7, <1>13 DEF ProtocolInv, AskInv, CommitsLast, logVars
<1>15. \A n \in Material : n # m => inbox'[n] = inbox[n]
  BY <1>2, <1>9, AgentKinds, AgentsAssumption
<1>16. \A f \in Equipment : stage'[f] = stage[f]
  BY <1>1, <1>4, <1>7, AgentKinds
<1>17. Questions'
  <2> SUFFICES ASSUME NEW n \in Material, Undecided(n)'
               PROVE  /\ \A f \in Equipment : Sole(inbox'[n], "ASKCONFIRM", f)
                      /\ \A msg \in Elems(inbox'[n]) :
                           msg.act = "ASKCONFIRM" /\ stage'[msg.eq] # "ended" =>
                             pending'[msg.eq] = n /\ round'[msg.eq] = msg.rnd
    BY DEF Questions
  <2>1. inbox'[n] = inbox[n] /\ Undecided(n) /\ n \in Agent
    BY <1>13, <1>15, AgentKinds
  <2>2. \A msg \in Elems(inbox[n]) : msg.act = "ASKCONFIRM" => msg.eq \in Equipment
    BY <1>1, <2>1, DealFields DEF Boxes, Elems, DealActions
  <2> QED
    BY <1>4, <1>16, <2>1, <2>2 DEF ProtocolInv, AskInv, Questions, equipmentVars
<1>18. Replies'
  <2> SUFFICES ASSUME NEW f \in Equipment, stage[f] # "ended"
               PROVE  /\ Sole(inbox'[f], "CONFIRM", f)
                      /\ \A msg \in Elems(inbox'[f]) :
                           msg.act = "CONFIRM" =>
                             msg.eq = f /\ msg.mat = pending[f] /\ msg.rnd = round[f]
    BY <1>4, <1>16 DEF Replies, equipmentVars
  <2>1. /\ Sole(inbox[f], "CONFIRM", f)
        /\ \A msg \in Elems(inbox[f]) :
             msg.act = "CONFIRM" =>
               msg.eq = f /\ msg.mat = pending[f] /\ msg.rnd = round[f]
    BY DEF ProtocolInv, AskInv, Replies
  <2>2. CASE f # e
    <3>1. inbox'[f] = inbox[f]
      BY <1>1, <1>9, <2>2, AgentKinds, AgentsAssumption
    <3> QED
      BY <2>1, <3>1
  <2>3. CASE f = e
    <3>1. \A old \in Elems(inbox[e]) : old.act # "CONFIRM"
      BY <1>2, <1>6, <1>11, <2>1, <2>3
    <3>2. Sole(Append(inbox[e], confirm), "CONFIRM", e)
      BY <1>5, <1>9, <2>1, <2>3, <3>1, AppendSole
    <3>3. \A msg \in Elems(inbox'[e]) : msg.act = "CONFIRM" => msg = confirm
      BY <1>2, <1>10, <3>1
    <3> QED
      BY <1>5, <1>6, <1>9, <2>1, <2>3, <3>2, <3>3
  <2> QED
    BY <2>2, <2>3
<1>19. ~Finishing(e)
  BY <1>1, <1>2, <1>6 DEF ProtocolInv, LogInv, Farewells, Silent
<1>20. Farewells'
  <2> SUFFICES ASSUME NEW f \in Equipment, Finishing(f)'
               PROVE  stage'[f] = "ended" /\ Silent(f)'
    BY DEF Farewells
  <2>1. Finishing(f)
    BY <1>4, <1>5, <1>10, AgentKinds DEF Finishing, logVars
  <2>2. stage[f] = "ended" /\ Silent(f)
    BY <2>1 DEF ProtocolInv, LogInv, Farewells
  <2> QED
    BY <1>13, <1>15, <1>16, <2>2 DEF Silent, Asks
<1>21. ConfirmsFirst'
  <2>1. InOrder(inbox[LogAgent]) /\
          \A old \in Elems(inbox[LogAgent]) : ~(old.act = "EQUIPMENTFINISHED" /\ old.eq = e)
    BY <1>19 DEF ProtocolInv, LogInv, ConfirmsFirst, Finishing
  <2>2. InOrder(Append(inbox[LogAgent], confirm))
    BY <1>5, <1>9, <2>1, AppendInOrder
  <2>3. InOrder(inbox'[LogAgent])
    BY <1>9, <2>1, <2>2
  <2>4. e \notin finished
    BY <1>19 DEF Finishing
  <2>5. ASSUME NEW msg \in Elems(inbox'[LogAgent]), msg.act = "CONFIRM"
        PROVE  msg.eq \notin finished
    BY <1>5, <1>10, <2>4, <2>5, AgentKinds DEF ProtocolInv, LogInv, ConfirmsFirst
  <2> QED
    BY <1>4, <2>3, <2>5 DEF ConfirmsFirst, logVars
<1>22. /\ Committed' = Committed \cup {m} /\ m \notin Committed
       /\ \A n \in Committed : assigned'[n] = assigned[n]
       /\ Settled \subseteq Settled'
       /\ UNCHANGED Recorded(results)
  <2>1. <<e, r>> # None
    BY <1>2, AgentsAssumption
  <2>2. \A n \in Material : assigned'[n] = IF n = m THEN <<e, r>> ELSE assigned[n]
    BY <1>4, <1>7
  <2>3. Committed' = Committed \cup {m} /\ m \notin Committed
    BY <1>3, <2>1, <2>2 DEF Committed
  <2>4. \A n \in Committed : assigned'[n] = assigned[n]
    BY <2>2, <2>3 DEF Committed
  <2>5. UNCHANGED Recorded(results)
    BY <1>4 DEF Recorded, logVars
  <2>6. Settled \subseteq Settled'
    <3>1. \A n \in Committed : n \in Committed' /\ <<n, assigned[n]>> = <<n, assigned'[n]>>
      BY <2>3, <2>4
    <3> QED
      BY <3>1 DEF Settled
  <2> QED
    BY <2>3, <2>4, <2>5, <2>6
<1>23. Recording'
  <2>1. Recorded(results)' \subseteq Settled'
    BY <1>22 DEF ProtocolInv, LogInv, Recording
  <2>2. CASE stage[LogAgent] = "ended"
    <3>1. stage'[LogAgent] = "ended"
      BY <1>1, <1>4, <1>7, <2>2, AgentKinds
    <3> QED
      BY <2>1, <3>1 DEF Recording
  <2>3. CASE stage[LogAgent] # "ended"
    <3>1. \A n \in Committed : Heard(n) \/ <<n, assigned[n]>> \in Recorded(results)
      BY <2>3 DEF ProtocolInv, LogInv, Recording
    <3>2. /\ Elems(inbox[LogAgent]) \subseteq Elems(inbox'[LogAgent])
          /\ confirm \in Elems(inbox'[LogAgent])
      BY <1>5, <1>9, <2>3, AppendParts
    <3>3. Heard(m)' /\ \A n : Heard(n) => Heard(n)'
      BY <1>5, <3>2 DEF Heard
    <3>4. \A n \in Committed' : Heard(n)' \/ <<n, assigned'[n]>> \in Recorded(results)'
      BY <1>22, <3>1, <3>3
    <3> QED
      BY <2>1, <3>4 DEF Recording
  <2> QED
    BY <2>2, <2>3
<1>24. ~completed /\ ~endRequested /\ ~completed' /\ ~endRequested'
  BY <1>2, <1>4, <1>19 DEF ProtocolInv, LogInv, Completion, Serving, Finishing, logVars
<1> QED
  BY <1>12, <1>14, <1>17, <1>18, <1>20, <1>21, <1>23, <1>24
     DEF ProtocolInv, AskInv, LogInv, Completion, Serving

LEMMA MaterialProtocol ==
  ASSUME TypeInv, ProtocolInv, NEW m \in Material, MaterialStep(m)
  PROVE  ProtocolInv'
<1> DEFINE msg == Next1(m)
<1>a. m \in Agent /\ m # LogAgent /\ m \notin Equipment
  BY AgentKinds, AgentsAssumption
<1>1. CASE AnswerPing(m, OfMaterial("PINGANSWER", m))
  BY <1>1, <1>a, MaterialMessage, PingProtocol DEF OfMaterial
<1>2. CASE MaterialBid(m)
  <2> DEFINE offer == Between("COUNTERBID", msg.eq, msg.rnd, m)
  <2>1. msg.eq \in Equipment /\ msg.rnd \in Nat /\ Reads(m, "BID")
    BY <1>2, <1>a, ReadsOf, EquipmentFields DEF MaterialBid
  <2>2. offer \in Message /\ offer.act = "COUNTERBID"
    BY <2>1, DealMessage DEF DealActions, Between
  <2>3. assigned[m] = None
    BY <2>1 DEF ProtocolInv, AskInv, CommitsLast, Undecided, Reads
  <2>4. /\ inbox' = Post(Consume(m), {msg.eq}, offer) \/ inbox' = Consume(m)
        /\ UNCHANGED <<stage, equipmentVars, assigned, logVars>>
    BY <1>2, <2>3 DEF MaterialBid
  <2> HIDE DEF offer
  <2>5. CalmTopic(inbox', {offer}) /\ Hears(inbox')
    BY <1>a, <2>1, <2>2, <2>4, ReplyCalm, ReadCalm DEF Questioning, Reads
  <2>6. Mild(offer)
    BY <2>2 DEF Mild, Truthful, Questioning
  <2> QED
    BY <1>a, <2>4, <2>5, <2>6, EndingOnly, CalmStep DEF equipmentVars, logVars
<1>3. CASE MaterialAskConfirm(m)
  BY <1>3, ConfirmProtocol
<1>4. CASE MaterialAnnounce(m)
  <2> DEFINE news == Between("ASSIGNEDOTHERS", assigned[m][1], assigned[m][2], m)
  <2>1. assigned[m] \in Equipment \X Nat
    BY <1>4, <1>a DEF MaterialAnnounce, TypeInv, TypeOK, Announcers
  <2>2. /\ news \in Message /\ news.act = "ASSIGNEDOTHERS"
        /\ assigned[news.mat] = Name(news)
    BY <2>1, DealMessage DEF DealActions, Between, Name
  <2>3. /\ inbox' = Leave(Post(inbox, Equipment, news), m) /\ Ends(m)
        /\ UNCHANGED <<equipmentVars, assigned, logVars>>
    BY <1>4 DEF MaterialAnnounce
  <2> HIDE DEF news
  <2>4. CalmTopic(inbox', {news}) /\ Hears(inbox')
    BY <1>a, <2>2, <2>3, FarewellCalm DEF Questioning
  <2>5. Mild(news)
    BY <2>2 DEF Mild, Truthful, Questioning
  <2> QED
    BY <1>a, <2>3, <2>4, <2>5, EndingOnly, CalmStep DEF equipmentVars, logVars
<1>5. CASE HandleExit(m)
  BY <1>5, <1>a, ContainerProtocol
<1> QED
  BY <1>1, <1>2, <1>3, <1>4, <1>5 DEF MaterialStep

-----------------------------------------------------------------------------
(* Steps of the LOG and of the UX.                                          *)

LEMMA PlainMild ==
  ASSUME NEW act \in {"PING", "PINGANSWER", "CHECK", "START", "ASKRESULTS", "EXIT"}
  PROVE  /\ Plain(act) \in Message /\ Mild(Plain(act))
         /\ Plain(act).act \notin Questioning
<1>1. Plain(act) \in Message
  BY PlainMessage DEF Broadcasts
<1>2. Plain(act).act = act
  BY DEF Plain
<1> QED
  BY <1>1, <1>2 DEF Mild, Truthful, Questioning

(* The last confirmation is in the results when the LOG reads it.           *)
LEMMA RecordProtocol ==
  ASSUME TypeInv, ProtocolInv, LogRecordsConfirm
  PROVE  ProtocolInv'
<1> DEFINE msg == Next1(LogAgent)
           q == inbox[LogAgent]
           entry == [mat |-> msg.mat, rnd |-> msg.rnd]
           new == <<msg.mat, <<msg.eq, msg.rnd>>>>
<1>1. /\ msg \in Elems(q) /\ msg \in Message /\ msg.act = "CONFIRM"
      /\ q \in Seq(Message) /\ q # <<>> /\ msg = Head(q)
      /\ inbox'[LogAgent] = Tail(q) /\ inbox' = Consume(LogAgent)
  BY AgentKinds, BoxesOf, ReadsOf, ConsumeElems
     DEF LogRecordsConfirm, LogReads, Reads, Boxes, Consume, Next1
<1>2. msg.eq \in Equipment /\ msg.rnd \in Nat /\ msg.mat \in Material
  BY <1>1, DealFields DEF DealActions
<1>3. CalmTopic(inbox', {})
  BY <1>1, BoxesOf, AgentKinds, ConsumeCalm
<1>4. /\ results \in [Equipment -> Seq(Bid)]
      /\ results' = [results EXCEPT ![msg.eq] = Append(@, entry)]
      /\ entry.mat = msg.mat /\ entry.rnd = msg.rnd /\ entry \in Bid
      /\ UNCHANGED <<stage, equipmentVars, assigned, finished, completed,
                     endRequested, failed, served>>
  BY <1>2 DEF LogRecordsConfirm, TypeInv, TypeOK, Results, Bid
<1>5. AskInv'
  BY <1>3, <1>4, CalmAsks DEF ProtocolInv, Undecided, equipmentVars
<1>6. assigned[msg.mat] = <<msg.eq, msg.rnd>> /\ msg.mat \in Committed
  <2>1. assigned[msg.mat] = <<msg.eq, msg.rnd>>
    BY <1>1, AgentKinds DEF ProtocolInv, AskInv, Told, Truthful, Name
  <2>2. <<msg.eq, msg.rnd>> # None
    BY <1>2, AgentsAssumption
  <2> QED
    BY <1>2, <2>1, <2>2 DEF Committed
<1> HIDE DEF entry, msg, q
<1>7. ASSUME NEW e \in Equipment
      PROVE  {<<results'[e][i].mat, <<e, results'[e][i].rnd>>>> : i \in DOMAIN results'[e]}
               = {<<results[e][i].mat, <<e, results[e][i].rnd>>>> : i \in DOMAIN results[e]}
                   \cup (IF e = msg.eq THEN {new} ELSE {})
  <2>1. CASE e # msg.eq
    BY <1>4, <2>1
  <2>2. CASE e = msg.eq
    <3>1. results'[e] = Append(results[e], entry) /\ results[e] \in Seq(Bid)
      BY <1>4, <2>2
    <3>2. /\ DOMAIN results[e] = 1..Len(results[e]) /\ Len(results[e]) \in Nat
          /\ DOMAIN results'[e] = 1..(Len(results[e]) + 1)
          /\ \A k \in 1..Len(results[e]) : results'[e][k] = results[e][k]
          /\ results'[e][Len(results[e]) + 1] = entry
      BY <1>4, <3>1
    <3>3. /\ DOMAIN results'[e] = DOMAIN results[e] \cup {Len(results[e]) + 1}
          /\ \A k \in DOMAIN results[e] : results'[e][k] = results[e][k]
      BY <3>2
    <3>4. <<results'[e][Len(results[e]) + 1].mat, <<e, results'[e][Len(results[e]) + 1].rnd>>>> = new
      BY <1>4, <2>2, <3>2
    <3> HIDE DEF new
    <3> QED
      BY <2>2, <3>3, <3>4
  <2> QED
    BY <2>1, <2>2
<1>8. Recorded(results') = Recorded(results) \cup {new}
  <2> HIDE DEF new
  <2>1. ASSUME NEW x \in Recorded(results') PROVE x \in Recorded(results) \cup {new}
    BY <1>7, <2>1 DEF Recorded
  <2>2. ASSUME NEW x \in Recorded(results) \cup {new} PROVE x \in Recorded(results')
    BY <1>2, <1>7, <2>2 DEF Recorded
  <2> QED
    BY <2>1, <2>2
<1>9. new \in Settled /\ Settled' = Settled /\ Committed' = Committed
  BY <1>4, <1>6 DEF Settled, Committed
<1>10. \A old \in Elems(inbox'[LogAgent]) : old \in Elems(inbox[LogAgent])
  BY <1>3, AgentKinds DEF CalmTopic, Calm
<1>11. Farewells'
  <2>1. \A f \in Equipment : Finishing(f)' => Finishing(f)
    BY <1>4, <1>10 DEF Finishing
  <2>2. \A f \in Equipment : Silent(f) => Silent(f)'
    BY <1>3, <1>4, AgentKinds DEF Silent, Asks, Undecided, CalmTopic, Calm
  <2> QED
    BY <1>4, <2>1, <2>2 DEF ProtocolInv, LogInv, Farewells
<1>12. ConfirmsFirst'
  BY <1>3, <1>4, <1>10, AgentKinds DEF ProtocolInv, LogInv, ConfirmsFirst, CalmTopic, Calm
<1>13. \A n \in Material : Heard(n) => Heard(n)' \/ n = msg.mat
  <2> SUFFICES ASSUME NEW n \in Material, NEW old \in Elems(q),
                      old.act = "CONFIRM", old.mat = n, n # msg.mat
               PROVE  Heard(n)'
    BY DEF Heard, q
  <2>1. /\ DOMAIN q = 1..Len(q) /\ DOMAIN Tail(q) = 1..(Len(q) - 1)
        /\ Len(q) \in Nat \ {0} /\ Head(q) = q[1]
        /\ \A i \in 1..(Len(q) - 1) : Tail(q)[i] = q[i + 1]
    BY <1>1
  <2>2. PICK i \in DOMAIN q : q[i] = old
    BY DEF Elems
  <2>3. i # 1
    BY <1>1, <2>1, <2>2
  <2>4. i - 1 \in DOMAIN Tail(q) /\ Tail(q)[i - 1] = q[i]
    BY <2>1, <2>3
  <2> QED
    BY <1>1, <2>2, <2>4 DEF Heard, Elems
<1>14. Recording'
  <2>1. Recorded(results)' \subseteq Settled'
    BY <1>8, <1>9 DEF ProtocolInv, LogInv, Recording
  <2>2. ASSUME stage[LogAgent] # "ended", NEW n \in Committed
        PROVE  Heard(n)' \/ <<n, assigned'[n]>> \in Recorded(results)'
    <3>1. Heard(n) \/ <<n, assigned[n]>> \in Recorded(results)
      BY <2>2 DEF ProtocolInv, LogInv, Recording
    <3>2. n = msg.mat => <<n, assigned[n]>> = new
      BY <1>6
    <3>3. n \in Material
      BY DEF Committed
    <3> HIDE DEF new
    <3> QED
      BY <1>4, <1>8, <1>13, <3>1, <3>2, <3>3
  <2> QED
    BY <1>4, <1>9, <2>1, <2>2 DEF Recording
<1>15. ~completed
  BY <1>1, <1>2 DEF ProtocolInv, LogInv, ConfirmsFirst, Completion, q
<1>16. ~completed' /\ ~endRequested'
  BY <1>4, <1>15 DEF ProtocolInv, LogInv, Serving
<1> QED
  BY <1>5, <1>11, <1>12, <1>14, <1>16 DEF ProtocolInv, LogInv, Completion, Serving

(* The last farewell completes the auction: the LOG has read every          *)
(* confirmation that was given before it, and none is given after it.       *)
LEMMA FinishedProtocol ==
  ASSUME TypeInv, StartInv, ProtocolInv, LogEquipmentFinished
  PROVE  ProtocolInv'
<1> DEFINE msg == Next1(LogAgent)
           q == inbox[LogAgent]
<1>1. /\ msg \in Elems(q) /\ msg \in Message /\ msg.act = "EQUIPMENTFINISHED"
      /\ q \in Seq(Message) /\ q # <<>> /\ msg = Head(q) /\ stage[LogAgent] = "running"
      /\ inbox'[LogAgent] = Tail(q) /\ inbox' = Consume(LogAgent)
  BY AgentKinds, BoxesOf, ReadsOf, ConsumeElems
     DEF LogEquipmentFinished, LogReads, Reads, Boxes, Consume, Next1
<1>2. msg.eq \in Equipment
  BY <1>1, EquipmentFields
<1>3. CalmTopic(inbox', {}) /\ Hears(inbox')
  BY <1>1, AgentKinds, ReadCalm
<1>4. /\ finished' = finished \cup {msg.eq}
      /\ completed' = (completed \/ AllFinished(finished'))
      /\ UNCHANGED <<stage, equipmentVars, assigned, results, endRequested, failed,
                     served, present, started>>
  BY DEF LogEquipmentFinished
<1>5. AskInv'
  BY <1>3, <1>4, CalmAsks DEF ProtocolInv, Undecided, equipmentVars
<1> HIDE DEF msg, q
<1>6. \A old \in Elems(inbox'[LogAgent]) : old \in Elems(inbox[LogAgent])
  BY <1>3, AgentKinds DEF CalmTopic, Calm
<1>7. Farewells'
  <2>1. \A f \in Equipment : Finishing(f)' => Finishing(f)
    BY <1>1, <1>4, <1>6 DEF Finishing, q
  <2>2. \A f \in Equipment : Silent(f) => Silent(f)'
    BY <1>3, <1>4, AgentKinds DEF Silent, Asks, Undecided, CalmTopic, Calm
  <2> QED
    BY <1>4, <2>1, <2>2 DEF ProtocolInv, LogInv, Farewells
<1>8. ConfirmsFirst'
  <2>1. InOrder(q) /\ InOrder(inbox'[LogAgent])
    BY <1>3, AgentKinds DEF ProtocolInv, LogInv, ConfirmsFirst, CalmTopic, Calm, q
  <2>2. ASSUME NEW other \in Elems(Tail(q)), other.act = "CONFIRM"
        PROVE  other.eq # msg.eq
    BY <1>1, <2>1, <2>2, HeadAlone
  <2> QED
    BY <1>1, <1>4, <1>6, <2>1, <2>2 DEF ProtocolInv, LogInv, ConfirmsFirst
<1>9. /\ Recorded(results)' = Recorded(results) /\ Settled' = Settled
      /\ Committed' = Committed
  BY <1>4 DEF Recorded, Settled, Committed
<1>10. \A m \in Committed : Heard(m)' \/ <<m, assigned[m]>> \in Recorded(results)
  <2>1. \A m : Heard(m) => Heard(m)'
    BY <1>3 DEF Heard, Hears
  <2> QED
    BY <1>1, <2>1 DEF ProtocolInv, LogInv, Recording
<1>11. Recording'
  BY <1>4, <1>9, <1>10 DEF ProtocolInv, LogInv, Recording
<1>12. Completion'
  <2> SUFFICES ASSUME completed'
               PROVE  Equipment \subseteq finished' /\ Recorded(results)' = Settled'
    BY DEF Completion
  <2>1. CASE completed
    BY <1>4, <1>9, <2>1 DEF ProtocolInv, LogInv, Completion
  <2>2. CASE AllFinished(finished')
    <3>1. Equipment \subseteq present
      BY <2>2, AgentKinds DEF AllFinished, StartInv
    <3>2. Equipment \subseteq finished'
      BY <2>2, <3>1 DEF AllFinished, Expected
    <3>3. \A m : ~Heard(m)'
      <4> SUFFICES ASSUME NEW old \in Elems(inbox'[LogAgent]), old.act = "CONFIRM"
                   PROVE  FALSE
        BY DEF Heard
      <4>1. old \in Message
        <5>1. old \in Elems(q) /\ q \in Seq(Message)
          BY <1>1, <1>6 DEF q
        <5> QED
          BY <5>1 DEF Elems
      <4>2. old.eq \in Equipment
        BY <4>1, DealFields DEF DealActions
      <4> QED
        BY <1>8, <3>2, <4>2 DEF ConfirmsFirst
    <3>4. Settled \subseteq Recorded(results)
      BY <1>10, <3>3 DEF Settled
    <3> QED
      BY <1>9, <3>2, <3>4 DEF ProtocolInv, LogInv, Recording
  <2> QED
    BY <1>4, <2>1, <2>2
<1>13. Serving'
  <2>1. Recorded(served)' = Recorded(served)
    BY <1>4 DEF Recorded
  <2> QED
    BY <1>4, <1>9, <2>1 DEF ProtocolInv, LogInv, Serving
<1> QED
  BY <1>5, <1>7, <1>8, <1>11, <1>12, <1>13 DEF ProtocolInv, LogInv

LEMMA LogProtocol ==
  ASSUME TypeInv, StartInv, ProtocolInv, LogStep
  PROVE  ProtocolInv'
<1> DEFINE exit == Plain("EXIT")
<1>a. LogAgent \in Agent /\ inbox \in Boxes
  BY AgentKinds, BoxesOf
<1>b. exit \in Message /\ Mild(exit) /\ exit.act \notin Questioning
  BY PlainMild
<1>c. ASSUME NEW act, act # "CONFIRM", LogReads(act)
      PROVE  /\ Consume(LogAgent) \in Boxes
             /\ \A news : CalmTopic(Consume(LogAgent), news)
             /\ Hears(Consume(LogAgent))
             /\ Next1(LogAgent) \in Elems(inbox[LogAgent])
             /\ Next1(LogAgent).act = act
  BY <1>a, <1>c, ReadsOf, ReadCalm, ConsumeElems DEF LogReads, Reads
<1>d. ASSUME NEW act, act # "CONFIRM", LogReads(act)
      PROVE  /\ CalmTopic(ExitAgents(Consume(LogAgent)), {exit})
             /\ Hears(ExitAgents(Consume(LogAgent)))
  BY <1>b, <1>c, <1>d, PostCalm, PostHears DEF ExitAgents
<1> HIDE DEF exit
<1>1. CASE LogCheck
  <2> DEFINE ping == Plain("PING")
  <2>1. ping \in Message /\ Mild(ping) /\ ping.act \notin Questioning
    BY PlainMild
  <2>2. /\ inbox' = Post(Consume(LogAgent), Agent, ping) /\ LogReads("CHECK")
        /\ UNCHANGED <<stage, equipmentVars, assigned, failed, results, finished,
                       completed, endRequested, served>>
    BY <1>1 DEF LogCheck
  <2> HIDE DEF ping
  <2>3. CalmTopic(inbox', {ping}) /\ Hears(inbox')
    BY <1>c, <2>1, <2>2, PostCalm, PostHears
  <2> QED
    BY <1>a, <2>1, <2>2, <2>3, EndingOnly, CalmStep DEF equipmentVars
<1>2. CASE LogPing
  BY <1>2, <1>a, PlainMessage, PingProtocol DEF LogPing, Plain, Broadcasts
<1>3. CASE LogPingAnswer
  <2>1. /\ CalmTopic(inbox', {}) /\ Hears(inbox')
        /\ UNCHANGED <<stage, equipmentVars, assigned, failed, results, finished,
                       completed, endRequested, served>>
    BY <1>3, <1>c DEF LogPingAnswer
  <2> QED
    BY <1>a, <2>1, EndingOnly, CalmStep DEF equipmentVars
<1>4. CASE LogStart
  <2> DEFINE start == Plain("START")
  <2>1. start \in Message /\ Mild(start) /\ start.act \notin Questioning
    BY PlainMild
  <2>2. /\ inbox' = Post(inbox, Equipment, start)
        /\ UNCHANGED <<stage, equipmentVars, assigned, failed, results, finished,
                       completed, endRequested, served>>
    BY <1>4 DEF LogStart
  <2> HIDE DEF start
  <2>3. CalmTopic(inbox', {start}) /\ Hears(inbox')
    BY <1>a, <2>1, <2>2, SameCalm, SameHears, PostCalm, PostHears
  <2> QED
    BY <1>a, <2>1, <2>2, <2>3, EndingOnly, CalmStep DEF equipmentVars
<1>5. CASE LogRecordsConfirm
  BY <1>5, RecordProtocol
<1>6. CASE LogEquipmentFinished
  BY <1>6, FinishedProtocol
<1>7. CASE LogAskResults
  <2>1. /\ LogReads("ASKRESULTS") /\ served' = results
        /\ UNCHANGED <<stage, equipmentVars, assigned, failed, results, finished,
                       completed>>
    BY <1>7 DEF LogAskResults
  <2>2. \/ inbox' = ExitAgents(Consume(LogAgent)) /\ completed
        \/ inbox' = Consume(LogAgent) /\ endRequested' = endRequested
    BY <1>7 DEF LogAskResults, MayEnd
  <2>3. CalmTopic(inbox', {exit}) /\ Hears(inbox')
    BY <1>c, <1>d, <2>1, <2>2
  <2>4. AskInv'
    BY <1>b, <2>1, <2>3, CalmAsks DEF ProtocolInv, Undecided, Mild, equipmentVars
  <2>5. Farewells' /\ ConfirmsFirst' /\ Recording' /\ Completion'
    <3>1. /\ \A b \in Agent : \A msg \in Elems(inbox'[b]) :
                msg \in Elems(inbox[b]) \/ msg = exit
          /\ InOrder(inbox[LogAgent]) => InOrder(inbox'[LogAgent])
      BY <2>3, AgentKinds DEF CalmTopic, Calm
    <3>2. exit.act = "EXIT"
      BY DEF exit, Plain
    <3>3. \A f \in Equipment : Finishing(f)' => Finishing(f)
      BY <1>a, <2>1, <3>1, <3>2 DEF Finishing
    <3>4. \A f \in Equipment : Silent(f) => Silent(f)'
      BY <2>1, <3>1, <3>2, AgentKinds DEF Silent, Asks, Undecided
    <3>5. Farewells'
      BY <2>1, <3>3, <3>4 DEF ProtocolInv, LogInv, Farewells
    <3>6. ConfirmsFirst'
      BY <1>a, <2>1, <3>1, <3>2 DEF ProtocolInv, LogInv, ConfirmsFirst
    <3>7. /\ Recorded(results)' = Recorded(results) /\ Settled' = Settled
          /\ Committed' = Committed
      BY <2>1 DEF Recorded, Settled, Committed
    <3>8. \A m : Heard(m) => Heard(m)'
      BY <2>3 DEF Heard, Hears
    <3>9. Recording'
      BY <2>1, <3>7, <3>8 DEF ProtocolInv, LogInv, Recording
    <3>10. Completion'
      BY <2>1, <3>7 DEF ProtocolInv, LogInv, Completion
    <3> QED
      BY <3>5, <3>6, <3>9, <3>10
  <2>6. Serving'
    <3>1. /\ Recorded(served)' = Recorded(results) /\ Settled' = Settled
      BY <2>1 DEF Recorded, Settled, Committed
    <3>2. endRequested' => completed
      BY <2>2 DEF ProtocolInv, LogInv, Serving
    <3> QED
      BY <2>1, <3>1, <3>2 DEF ProtocolInv, LogInv, Serving, Completion
  <2> QED
    BY <2>4, <2>5, <2>6 DEF ProtocolInv, LogInv
<1>8. CASE LogReceiveError
  <2>1. Next1(LogAgent) \in Elems(inbox[LogAgent]) /\ Next1(LogAgent).act = "RECIEVEERROR"
    BY <1>8, <1>c DEF LogReceiveError
  <2> QED
    BY <1>a, <2>1 DEF ProtocolInv, AskInv, Told, Truthful
<1>9. CASE LogExit
  BY <1>9, <1>a, ContainerProtocol DEF LogExit
<1> QED
  BY <1>1, <1>2, <1>3, <1>4, <1>5, <1>6, <1>7, <1>8, <1>9 DEF LogStep

LEMMA UXProtocol ==
  ASSUME TypeInv, ProtocolInv, UXStep \/ (\E caller \in {LogAgent, UX} : ExitLog(caller))
  PROVE  ProtocolInv'
<1>1. PICK act \in {"CHECK", "ASKRESULTS", "EXIT"} :
        \E readers : inbox' = Post(inbox, readers, Plain(act))
  BY DEF UXStep, UXCheck, UXAskResults, UXEndAuction, ExitLog, ExitAgents
<1> DEFINE msg == Plain(act)
<1>2. msg \in Message /\ Mild(msg) /\ msg.act \notin Questioning
  BY PlainMild
<1>3. UNCHANGED <<stage, equipmentVars, assigned, logVars>>
  BY DEF UXStep, UXCheck, UXAskResults, UXEndAuction, ExitLog
<1> HIDE DEF msg
<1>4. CalmTopic(inbox', {msg}) /\ Hears(inbox')
  BY <1>1, <1>2, BoxesOf, SameCalm, SameHears, PostCalm, PostHears DEF msg
<1> QED
  BY <1>2, <1>3, <1>4, AgentKinds, EndingOnly, CalmStep DEF equipmentVars, logVars

-----------------------------------------------------------------------------
LEMMA InitProtocol == Init => ProtocolInv
<1> SUFFICES ASSUME Init PROVE ProtocolInv
  OBVIOUS
<1>1. \A a \in Agent : inbox[a] = <<>> /\ Elems(inbox[a]) = {} /\ DOMAIN inbox[a] = {}
  BY DEF Init, Elems
<1>2. AskInv
  BY <1>1, AgentKinds DEF Init, AskInv, Told, CommitsLast, Questions, Replies, Sole
<1>3. Committed = {} /\ Settled = {}
  BY DEF Init, Committed, Settled
<1>4. Recorded(results) = {}
  <2>1. \A e \in Equipment : DOMAIN results[e] = {}
    BY DEF Init
  <2> QED
    BY <2>1 DEF Recorded
<1>5. LogInv
  BY <1>1, <1>3, <1>4, AgentKinds
     DEF Init, LogInv, Farewells, Finishing, ConfirmsFirst, InOrder, Recording,
         Completion, Serving
<1> QED
  BY <1>2, <1>5 DEF ProtocolInv

LEMMA NextProtocol ==
  ASSUME DistinctNames, TypeInv, StartInv, ProtocolInv, [Next]_vars
  PROVE  ProtocolInv'
<1>1. CASE Next
  BY <1>1, ContainerProtocol, EquipmentProtocol, MaterialProtocol, LogProtocol,
     UXProtocol DEF Next
<1>2. CASE UNCHANGED vars
  <2>1. CalmTopic(inbox', {}) /\ Hears(inbox')
    BY <1>2, SameCalm, SameHears DEF vars
  <2>2. UNCHANGED <<stage, equipmentVars, assigned, logVars>>
    BY <1>2 DEF vars
  <2> QED
    BY <2>1, <2>2, AgentKinds, EndingOnly, CalmStep DEF equipmentVars, logVars
<1> QED
  BY <1>1, <1>2

LEMMA ProtocolInvariant == DistinctNames /\ Spec => []ProtocolInv
<1>1. DistinctNames /\ Init => ProtocolInv
  BY InitProtocol
<1>2. DistinctNames /\ TypeInv /\ StartInv /\ ProtocolInv /\ [Next]_vars => ProtocolInv'
  BY NextProtocol
<1>3. CASE DistinctNames
  <2>1. Init => ProtocolInv
    BY <1>1, <1>3
  <2>2. TypeInv /\ StartInv /\ ProtocolInv /\ [Next]_vars => ProtocolInv'
    BY <1>2, <1>3
  <2> QED
    BY <2>1, <2>2, TypeInvariant, StartInvariant, PTL DEF Spec
<1>4. CASE ~DistinctNames
  BY <1>4
<1> QED
  BY <1>3, <1>4

(* If no name begins another's, an equipment is confirmed only what it      *)
(* asked for and still waits for, once and in the round it is in, whatever  *)
(* crosses on the topic and whichever containers die.                       *)
THEOREM OnlyAskedIsConfirmed == DistinctNames /\ Spec => []OnlyTheAskedConfirms
<1>1. TypeInv /\ ProtocolInv => OnlyTheAskedConfirms
  <2> SUFFICES ASSUME TypeInv, ProtocolInv, NEW e \in Equipment, stage[e] = "running"
               PROVE  /\ Cardinality(Confirms(e)) <= 1
                      /\ \A i \in Confirms(e) :
                           inbox[e][i].mat = pending[e] /\ inbox[e][i].rnd = round[e]
    BY DEF OnlyTheAskedConfirms
  <2>1. \A i \in Confirms(e) : inbox[e][i] \in Elems(inbox[e]) /\ i \in DOMAIN inbox[e]
                                 /\ inbox[e][i].act = "CONFIRM"
    BY DEF Confirms, Elems
  <2>2. \A i \in Confirms(e) :
          /\ inbox[e][i].eq = e
          /\ inbox[e][i].mat = pending[e] /\ inbox[e][i].rnd = round[e]
    BY <2>1 DEF ProtocolInv, AskInv, Replies
  <2>3. \A i, j \in Confirms(e) : i = j
    BY <2>1, <2>2 DEF ProtocolInv, AskInv, Replies, Sole
  <2>4. Confirms(e) = {} \/ \E i : Confirms(e) = {i}
    BY <2>3
  <2>5. Cardinality(Confirms(e)) \in {0, 1}
    BY <2>4, FS_EmptySet, FS_Singleton
  <2> QED
    BY <2>2, <2>5
<1> QED
  BY <1>1, TypeInvariant, ProtocolInvariant, PTL

(* If no name begins another's, no equipment ever fails on a confirmation,  *)
(* so that the LOG never throws the results away.                           *)
THEOREM NothingFails == DistinctNames /\ Spec => []~failed
<1>1. ProtocolInv => ~failed
  BY DEF ProtocolInv, AskInv
<1> QED
  BY <1>1, ProtocolInvariant, PTL

(* If no name begins another's, an auction that is complete has been left   *)
(* by every equipment, and its results name exactly the orders that         *)
(* committed, each under the equipment and the round it committed to.       *)
THEOREM ResultsAreComplete == DistinctNames /\ Spec => []CompletedIsComplete
<1>1. ProtocolInv => CompletedIsComplete
  BY DEF ProtocolInv, LogInv, Completion, Farewells, Finishing, CompletedIsComplete
<1> QED
  BY <1>1, ProtocolInvariant, PTL

(* If no name begins another's, the LOG ends the auction of itself only     *)
(* after it has served results that lack no order that committed.           *)
THEOREM NoOrderUnserved == DistinctNames /\ Spec => []ServedIsComplete
<1>1. ProtocolInv => ServedIsComplete
  BY DEF ProtocolInv, LogInv, Serving, ServedIsComplete
<1> QED
  BY <1>1, ProtocolInvariant, PTL

(* Who commits has been asked by an equipment that is not finished, and the *)
(* LOG has read every confirmation by then.                                 *)
LEMMA NothingAfterCompletion ==
  ASSUME TypeInv, ProtocolInv, [Next]_vars, completed
  PROVE  UNCHANGED <<assigned, results>>
<1>a. Equipment \subseteq finished /\ \A e \in Equipment : Silent(e)
  BY DEF ProtocolInv, LogInv, Completion, Farewells, Finishing
<1>b. \A act : LogReads(act) =>
        /\ Next1(LogAgent) \in Elems(inbox[LogAgent]) /\ Next1(LogAgent) \in Message
        /\ Next1(LogAgent).act = act
  BY AgentKinds, BoxesOf, ReadsOf, ConsumeElems DEF LogReads, Reads
<1>1. ASSUME NEW m \in Material, MaterialAskConfirm(m)
      PROVE  FALSE
  <2>1. /\ Next1(m) \in Elems(inbox[m]) /\ Next1(m).act = "ASKCONFIRM"
        /\ Next1(m) \in Message /\ Undecided(m)
    BY <1>1, AgentKinds, BoxesOf, ReadsOf, ConsumeElems
       DEF MaterialAskConfirm, Reads, Undecided
  <2>2. Next1(m).eq \in Equipment
    BY <2>1, DealFields DEF DealActions
  <2> QED
    BY <1>a, <2>1, <2>2 DEF Silent, Asks
<1>2. ~LogRecordsConfirm
  <2>1. ASSUME LogReads("CONFIRM") PROVE FALSE
    <3>1. Next1(LogAgent).eq \in Equipment
      BY <1>b, <2>1, DealFields DEF DealActions
    <3> QED
      BY <1>a, <1>b, <2>1, <3>1 DEF ProtocolInv, LogInv, ConfirmsFirst
  <2> QED
    BY <2>1 DEF LogRecordsConfirm
<1>3. ~LogReceiveError
  BY <1>b, AgentKinds DEF LogReceiveError, ProtocolInv, AskInv, Told, Truthful
<1>4. ASSUME NEW a \in Agent, Launch(a) \/ Crash(a)
      PROVE  UNCHANGED <<assigned, results>>
  BY <1>4 DEF Launch, Crash, logVars
<1>5. ASSUME NEW e \in Equipment, EquipmentStep(e) \/ AskBest(e) \/ NoMoreBids(e)
      PROVE  UNCHANGED <<assigned, results>>
  <2>1. CASE EquipmentConfirm(e)
    BY <2>1 DEF EquipmentConfirm, logVars
  <2>2. CASE EquipmentStep(e) /\ ~EquipmentConfirm(e)
    BY <2>2, Zenon
       DEF EquipmentStep, AnswerPing, EquipmentStart, EquipmentCounterbid,
           EquipmentAssigned, EquipmentConfirmError, EquipmentIgnores, HandleExit, logVars
  <2>3. CASE AskBest(e) \/ NoMoreBids(e)
    BY <2>3 DEF AskBest, NoMoreBids, logVars
  <2> QED
    BY <1>5, <2>1, <2>2, <2>3
<1>6. ASSUME NEW m \in Material, MaterialStep(m)
      PROVE  UNCHANGED <<assigned, results>>
  BY <1>1, <1>6
     DEF MaterialStep, AnswerPing, MaterialBid, MaterialAnnounce, HandleExit, logVars
<1>7. ASSUME LogStep
      PROVE  UNCHANGED <<assigned, results>>
  BY <1>2, <1>3, <1>7
     DEF LogStep, LogCheck, LogPing, LogPingAnswer, LogStart, LogEquipmentFinished,
         LogAskResults, LogExit, AnswerPing, HandleExit, logVars
<1>8. ASSUME UXStep \/ (\E caller \in {LogAgent, UX} : ExitLog(caller))
      PROVE  UNCHANGED <<assigned, results>>
  BY <1>8 DEF UXStep, UXCheck, UXAskResults, UXEndAuction, ExitLog, logVars
<1>9. CASE UNCHANGED vars
  BY <1>9 DEF vars, logVars
<1> QED
  BY <1>4, <1>5, <1>6, <1>7, <1>8, <1>9 DEF Next

(* If no name begins another's, no order commits any more and no result     *)
(* changes once the LOG holds the auction for complete: what the user is    *)
(* served then is final.                                                    *)
THEOREM ResultsAreFinal == DistinctNames /\ Spec => FinalResults
<1>1. TypeInv /\ ProtocolInv /\ [Next]_vars
        => [completed => UNCHANGED <<assigned, results>>]_vars
  BY NothingAfterCompletion
<1> QED
  BY <1>1, TypeInvariant, ProtocolInvariant, PTL DEF Spec, FinalResults

-----------------------------------------------------------------------------
(* Every question is answered, if no container dies, no agent's name begins *)
(* another's, and no round number contains another.                         *)

(* Rounds are found in one another's numbers from 10 on; an equipment has   *)
(* as many rounds as orders commit to it, and the one it is in.             *)
RoundsDiffer ==
  \A r, current \in 0 .. Cardinality(Material) : RoundMatches(r, current) => r = current

-----------------------------------------------------------------------------
(* What a step does to a queue: each message of it stays as it is, but for  *)
(* the first, and news join it.                                             *)

Once(q, msg) == \A i, j \in DOMAIN q : q[i] = msg /\ q[j] = msg => i = j

(* An order offers itself to an equipment before it announces another.      *)
OfferFirst(q) ==
  \A i, j \in DOMAIN q :
    q[i].act = "COUNTERBID" /\ q[j].act = "ASSIGNEDOTHERS" /\ q[i].mat = q[j].mat => i < j

Follows(q2, q, news) ==
  /\ \A msg \in Elems(q2) : msg \in Elems(q) \/ msg \in news
  /\ \A msg : msg \notin news /\ Once(q, msg) => Once(q2, msg)
  /\ (\A msg \in news : msg.act # "COUNTERBID") /\ OfferFirst(q) => OfferFirst(q2)

LEMMA FollowsTransitive ==
  ASSUME NEW p, NEW q, NEW r, NEW news, Follows(p, q, news), Follows(q, r, news)
  PROVE  Follows(p, r, news)
BY DEF Follows

LEMMA FollowsSame ==
  ASSUME NEW q, NEW news
  PROVE  Follows(q, q, news) /\ Follows(<<>>, q, news)
BY DEF Follows, Once, OfferFirst, Elems

LEMMA TailFollows ==
  ASSUME NEW q \in Seq(Message), q # <<>>, NEW news
  PROVE  /\ Follows(Tail(q), q, news)
         /\ \A msg \in Elems(q) : msg \in Elems(Tail(q)) \/ msg = Head(q)
         /\ Once(q, Head(q)) => Head(q) \notin Elems(Tail(q))
         /\ OfferFirst(q) /\ Head(q).act = "ASSIGNEDOTHERS" =>
              \A msg \in Elems(Tail(q)) : msg.act = "COUNTERBID" => msg.mat # Head(q).mat
<1>1. /\ DOMAIN q = 1..Len(q) /\ DOMAIN Tail(q) = 1..(Len(q) - 1)
      /\ Len(q) \in Nat \ {0} /\ Head(q) = q[1]
      /\ \A i \in 1..(Len(q) - 1) : Tail(q)[i] = q[i + 1]
  OBVIOUS
<1>2. \A i \in DOMAIN Tail(q) :
        i \in Int /\ i + 1 \in DOMAIN q /\ Tail(q)[i] = q[i + 1] /\ i + 1 # 1 /\ ~(i + 1 < 1)
  BY <1>1
<1>3. 1 \in DOMAIN q
  BY <1>1
<1>4. ASSUME NEW msg, Once(q, msg)
      PROVE  Once(Tail(q), msg)
  <2> SUFFICES ASSUME NEW i \in DOMAIN Tail(q), NEW j \in DOMAIN Tail(q),
                      Tail(q)[i] = msg, Tail(q)[j] = msg
               PROVE  i = j
    BY DEF Once
  <2>1. i + 1 = j + 1
    BY <1>2, <1>4 DEF Once
  <2> QED
    BY <1>2, <2>1
<1>5. ASSUME OfferFirst(q)
      PROVE  OfferFirst(Tail(q))
  <2> SUFFICES ASSUME NEW i \in DOMAIN Tail(q), NEW j \in DOMAIN Tail(q),
                      Tail(q)[i].act = "COUNTERBID", Tail(q)[j].act = "ASSIGNEDOTHERS",
                      Tail(q)[i].mat = Tail(q)[j].mat
               PROVE  i < j
    BY DEF OfferFirst
  <2>1. i + 1 < j + 1
    BY <1>2, <1>5 DEF OfferFirst
  <2> QED
    BY <1>2, <2>1
<1>6. \A msg \in Elems(Tail(q)) : msg \in Elems(q)
  BY TailElems
<1>7. ASSUME NEW i \in DOMAIN q
      PROVE  q[i] \in Elems(Tail(q)) \/ q[i] = Head(q)
  <2>1. i = 1 \/ (i - 1 \in DOMAIN Tail(q) /\ Tail(q)[i - 1] = q[i])
    BY <1>1
  <2> QED
    BY <1>1, <2>1 DEF Elems
<1>8. Once(q, Head(q)) => Head(q) \notin Elems(Tail(q))
  BY <1>1, <1>2, <1>3 DEF Once, Elems
<1>9. ASSUME OfferFirst(q), Head(q).act = "ASSIGNEDOTHERS", NEW i \in DOMAIN Tail(q),
             Tail(q)[i].act = "COUNTERBID"
      PROVE  Tail(q)[i].mat # Head(q).mat
  BY <1>1, <1>2, <1>3, <1>9 DEF OfferFirst
<1> QED
  BY <1>4, <1>5, <1>6, <1>7, <1>8, <1>9 DEF Follows, Elems

LEMMA AppendFollows ==
  ASSUME NEW q \in Seq(Message), NEW msg \in Message, NEW news, msg \in news
  PROVE  /\ Follows(Append(q, msg), q, news)
         /\ Elems(q) \subseteq Elems(Append(q, msg)) /\ msg \in Elems(Append(q, msg))
         /\ msg \notin Elems(q) => Once(Append(q, msg), msg)
         /\ \/ ~OfferFirst(q)
            \/ \E old \in Elems(q) : old.act = "ASSIGNEDOTHERS" /\ old.mat = msg.mat
            \/ msg.act # "COUNTERBID"
            \/ OfferFirst(Append(q, msg))
<1>1. /\ \A i \in DOMAIN Append(q, msg) :
           \/ i \in DOMAIN q /\ Append(q, msg)[i] = q[i]
           \/ i = Len(q) + 1 /\ Append(q, msg)[i] = msg
      /\ \A i \in DOMAIN q : i \in Int /\ i < Len(q) + 1
      /\ Elems(q) \subseteq Elems(Append(q, msg)) /\ msg \in Elems(Append(q, msg))
      /\ Elems(Append(q, msg)) \subseteq Elems(q) \cup {msg}
  BY AppendParts, AppendElems
<1>2. \A old : old # msg /\ Once(q, old) => Once(Append(q, msg), old)
  BY <1>1 DEF Once
<1>3. msg.act # "COUNTERBID" /\ OfferFirst(q) => OfferFirst(Append(q, msg))
  BY <1>1 DEF OfferFirst
<1>4. msg \notin Elems(q) => Once(Append(q, msg), msg)
  BY <1>1 DEF Once, Elems
<1>5. ASSUME OfferFirst(q), msg.act = "COUNTERBID",
             \A old \in Elems(q) : old.act = "ASSIGNEDOTHERS" => old.mat # msg.mat
      PROVE  OfferFirst(Append(q, msg))
  <2>1. \A i \in DOMAIN q : q[i].act = "ASSIGNEDOTHERS" => q[i].mat # msg.mat
    BY <1>5 DEF Elems
  <2>2. msg.act # "ASSIGNEDOTHERS"
    BY <1>5
  <2> QED
    BY <1>1, <1>5, <2>1, <2>2 DEF OfferFirst
<1> QED
  BY <1>1, <1>2, <1>3, <1>4, <1>5 DEF Follows
-----------------------------------------------------------------------------
(* The same for the topic, of which one agent may have read a message.      *)

FollowsTopic(box, news) == \A b \in Agent : Follows(box[b], inbox[b], news)

Unlost(box, a, read) ==
  \A b \in Agent : \A msg \in Elems(inbox[b]) :
    msg \in Elems(box[b]) \/ (b = a /\ (msg = read \/ stage'[a] = "ended"))

LEMMA PostFollows ==
  ASSUME NEW box \in Boxes, NEW news, FollowsTopic(box, news), NEW readers,
         NEW msg \in Message, msg \in news
  PROVE  FollowsTopic(Post(box, readers, msg), news)
<1> SUFFICES ASSUME NEW b \in Agent
             PROVE  Follows(Post(box, readers, msg)[b], inbox[b], news)
  BY DEF FollowsTopic
<1>1. /\ box[b] \in Seq(Message) /\ Follows(box[b], inbox[b], news)
      /\ \/ Post(box, readers, msg)[b] = box[b]
         \/ Post(box, readers, msg)[b] = Append(box[b], msg)
  BY DEF Boxes, Post, FollowsTopic
<1>2. Follows(Append(box[b], msg), box[b], news)
  BY <1>1, AppendFollows
<1> QED
  BY <1>1, <1>2, FollowsTransitive

LEMMA PostReaches ==
  ASSUME NEW box \in Boxes, NEW readers, NEW msg \in Message, NEW b \in Agent
  PROVE  /\ \A old \in Elems(box[b]) : old \in Elems(Post(box, readers, msg)[b])
         /\ b \in readers /\ stage[b] # "ended" => msg \in Elems(Post(box, readers, msg)[b])
         /\ \A x \in Elems(Post(box, readers, msg)[b]) :
              x \in Elems(box[b]) \/ (x = msg /\ b \in readers)
<1>1. /\ box[b] \in Seq(Message)
      /\ Post(box, readers, msg)[b] =
           IF b \in readers /\ stage[b] # "ended" THEN Append(box[b], msg) ELSE box[b]
  BY DEF Boxes, Post
<1> QED
  BY <1>1, AppendFollows, AppendElems

LEMMA PostUnlost ==
  ASSUME NEW box \in Boxes, NEW readers, NEW msg \in Message, NEW a, NEW read,
         Unlost(box, a, read)
  PROVE  Unlost(Post(box, readers, msg), a, read)
BY PostReaches DEF Unlost

LEMMA ConsumeFollows ==
  ASSUME inbox \in Boxes, NEW a \in Agent, inbox[a] # <<>>, NEW news
  PROVE  FollowsTopic(Consume(a), news) /\ Unlost(Consume(a), a, Next1(a))
<1>1. /\ inbox[a] \in Seq(Message)
      /\ \A b \in Agent : Consume(a)[b] = IF b = a THEN Tail(inbox[a]) ELSE inbox[b]
  BY DEF Boxes, Consume
<1>2. FollowsTopic(Consume(a), news)
  BY <1>1, TailFollows, FollowsSame DEF FollowsTopic
<1>3. \A msg \in Elems(inbox[a]) : msg \in Elems(Tail(inbox[a])) \/ msg = Next1(a)
  BY <1>1, TailFollows DEF Next1
<1> QED
  BY <1>1, <1>2, <1>3 DEF Unlost

LEMMA LeaveFollows ==
  ASSUME NEW box \in Boxes, NEW news, FollowsTopic(box, news), NEW a \in Agent, NEW read,
         Unlost(box, a, read), stage'[a] = "ended"
  PROVE  FollowsTopic(Leave(box, a), news) /\ Unlost(Leave(box, a), a, read)
<1>1. \A b \in Agent : Leave(box, a)[b] = IF b = a THEN <<>> ELSE box[b]
  BY DEF Leave, Boxes
<1> QED
  BY <1>1, FollowsSame DEF FollowsTopic, Unlost

LEMMA SameFollows ==
  ASSUME NEW news, NEW a, NEW read
  PROVE  FollowsTopic(inbox, news) /\ Unlost(inbox, a, read)
BY FollowsSame DEF FollowsTopic, Unlost

(* An agent that reads one message and sends another, ...                   *)
LEMMA ReplyFollows ==
  ASSUME TypeInv, NEW a \in Agent, inbox[a] # <<>>, NEW readers, NEW msg \in Message
  PROVE  /\ FollowsTopic(Post(Consume(a), readers, msg), {msg})
         /\ Unlost(Post(Consume(a), readers, msg), a, Next1(a))
BY BoxesOf, ConsumeType, ConsumeFollows, PostFollows, PostUnlost

(* ... and one that sends a last message and ends.                          *)
LEMMA FarewellFollows ==
  ASSUME TypeInv, NEW a \in Agent, stage'[a] = "ended", NEW readers, NEW msg \in Message, NEW read
  PROVE  /\ FollowsTopic(Leave(Post(inbox, readers, msg), a), {msg})
         /\ Unlost(Leave(Post(inbox, readers, msg), a), a, read)
<1>1. /\ Post(inbox, readers, msg) \in Boxes
      /\ FollowsTopic(Post(inbox, readers, msg), {msg}) /\ Unlost(Post(inbox, readers, msg), a, read)
  BY BoxesOf, SameFollows, PostType, PostFollows, PostUnlost
<1> QED
  BY <1>1, LeaveFollows

-----------------------------------------------------------------------------
(* The invariant.  An equipment makes one offer at most of an order in a    *)
(* round: its bid that the order has still to read, the counterbid that the *)
(* equipment has still to read, an entry of its bids, and its question.     *)

TheBid(e) == Between("BID", e, round[e], None)
Offer(e, m) == Between("COUNTERBID", e, round[e], m)
Holds(a, msg) == msg \in Elems(inbox[a])
Keeps(e, m) == \E b \in bids[e] : b.mat = m
Dealing == {"BID", "COUNTERBID"}

Quiet(e) ==
  /\ bids[e] = {} /\ pending[e] = None
  /\ \A a \in Agent : \A msg \in Elems(inbox[a]) : msg.act \in Dealing => msg.eq # e

(* An equipment bids for the first time when it reads the only START.       *)
StartsOnce ==
  \A e \in Equipment :
    /\ Once(inbox[e], Plain("START"))
    /\ Holds(e, Plain("START")) => started /\ Quiet(e)
    /\ ~started => Quiet(e)

Behind ==
  /\ \A a \in Agent : \A msg \in Elems(inbox[a]) :
       /\ msg.act \in Dealing => msg.rnd <= round[msg.eq]
       /\ msg.act = "COUNTERBID" => msg.eq = a
  /\ \A e \in Equipment : \A b \in bids[e] : stage[e] # "ended" => b.rnd = round[e]

(* Each round but the last has ended with an order.                         *)
RoundsTaken ==
  \A e \in Equipment : \A r \in 0 .. round[e] - 1 : \E m \in Material : assigned[m] = <<e, r>>

OneOfferOf(e, m) ==
  /\ Once(inbox[m], TheBid(e)) /\ Once(inbox[e], Offer(e, m))
  /\ Holds(m, TheBid(e)) => ~Holds(e, Offer(e, m)) /\ ~Keeps(e, m) /\ pending[e] # m
  /\ Holds(e, Offer(e, m)) => ~Keeps(e, m) /\ pending[e] # m
  /\ pending[e] = m => ~Keeps(e, m)

OneOffer == \A e \in Equipment, m \in Material : stage[e] # "ended" => OneOfferOf(e, m)

InTurn == \A e \in Equipment : OfferFirst(inbox[e])

(* Who tells an order to exit tells all equipments.                         *)
Exiting(a) == \E msg \in Elems(inbox[a]) : msg.act = "EXIT"
ExitsForAll ==
  \A m \in Material, e \in Equipment : Exiting(m) => stage[e] = "ended" \/ Exiting(e)

(* An order that an equipment may still ask will answer, or its denial is   *)
(* on its way, or the equipment exits.                                      *)
Denial(e, m) ==
  \E msg \in Elems(inbox[e]) : msg.act = "ASSIGNEDOTHERS" /\ msg.mat = m /\ AddressedTo(e, msg)
Announcing(e, m) == stage[m] = "announcing" /\ assigned[m][1] # e
Vouched(e, m) == Undecided(m) \/ Announcing(e, m) \/ Denial(e, m) \/ Exiting(e)
Offered(e, m) == Holds(e, Offer(e, m)) \/ Keeps(e, m)
PromisesTo(e) == \A m \in Material : Offered(e, m) => Vouched(e, m)

Asked(e, m) ==
  Undecided(m) /\ \E msg \in Elems(inbox[m]) : msg.act = "ASKCONFIRM" /\ Name(msg) = <<e, round[e]>>
Answered(e) == \E msg \in Elems(inbox[e]) : Answers(e, msg)
Expects(e, m) == Answered(e) \/ Asked(e, m) \/ Announcing(e, m) \/ Exiting(e)
Awaits(e) == \A m \in Material : pending[e] = m => Expects(e, m)
NoneIsForgotten == \A e \in Equipment : stage[e] # "ended" => PromisesTo(e) /\ Awaits(e)

OfferInv == StartsOnce /\ Behind /\ RoundsTaken /\ OneOffer /\ InTurn
WaitInv == ExitsForAll /\ NoneIsForgotten
AnswerInv == OfferInv /\ WaitInv
-----------------------------------------------------------------------------
(* What keeps the first part: offers.                                       *)

LEMMA CalmStarts ==
  ASSUME StartsOnce, NEW news, FollowsTopic(inbox', news), Plain("START") \notin news,
         started' = started,
         \A e \in Equipment : Quiet(e) => bids'[e] = {} /\ pending'[e] = None,
         \A msg \in news : msg.act \in Dealing => started /\ ~Holds(msg.eq, Plain("START"))'
  PROVE  StartsOnce'
<1> SUFFICES ASSUME NEW e \in Equipment
             PROVE  /\ Once(inbox'[e], Plain("START"))
                    /\ Holds(e, Plain("START"))' => started' /\ Quiet(e)'
                    /\ ~started' => Quiet(e)'
  BY DEF StartsOnce, Holds, Plain
<1>1. /\ e \in Agent /\ Once(inbox[e], Plain("START"))
      /\ Holds(e, Plain("START")) => started /\ Quiet(e)
      /\ ~started => Quiet(e)
  BY AgentKinds DEF StartsOnce
<1>2. Once(inbox'[e], Plain("START"))
  BY <1>1 DEF FollowsTopic, Follows
<1>3. Holds(e, Plain("START"))' => Holds(e, Plain("START"))
  BY <1>1 DEF FollowsTopic, Follows, Holds, Plain
<1>4. ASSUME Quiet(e), ~started \/ Holds(e, Plain("START"))'
      PROVE  Quiet(e)'
  <2>1. ASSUME NEW a \in Agent, NEW msg \in Elems(inbox'[a]), msg.act \in Dealing
        PROVE  msg.eq # e
    <3>1. msg \in Elems(inbox[a]) \/ msg \in news
      BY DEF FollowsTopic, Follows
    <3> QED
      BY <1>4, <2>1, <3>1 DEF Quiet
  <2> QED
    BY <1>4, <2>1 DEF Quiet
<1> QED
  BY <1>1, <1>2, <1>3, <1>4

LEMMA DealingFields ==
  ASSUME TypeInv, NEW a \in Agent, NEW msg \in Elems(inbox[a])
  PROVE  /\ msg \in Message
         /\ msg.act \in Dealing => msg.eq \in Equipment /\ msg.rnd \in Nat
<1>1. msg \in Message
  BY DEF TypeInv, TypeOK, Elems
<1> QED
  BY <1>1, DealFields, EquipmentFields DEF Dealing, DealActions

(* Offers are passed on by equipments and orders; in all other steps they   *)
(* are at most dropped.                                                     *)
LEMMA SameOffer ==
  ASSUME NEW e \in Equipment, NEW m \in Material, OneOfferOf(e, m),
         NEW news, FollowsTopic(inbox', news),
         TheBid(e) \notin news, Offer(e, m) \notin news,
         round'[e] = round[e], Keeps(e, m)' => Keeps(e, m), pending'[e] = m => pending[e] = m
  PROVE  OneOfferOf(e, m)'
<1>1. /\ e \in Agent /\ m \in Agent /\ m # None
  BY AgentKinds, AgentsAssumption
<1>2. TheBid(e)' = TheBid(e) /\ Offer(e, m)' = Offer(e, m)
  BY DEF TheBid, Offer, Between
<1>3. Holds(m, TheBid(e))' => Holds(m, TheBid(e))
  BY <1>1, <1>2 DEF Holds, FollowsTopic, Follows
<1>4. Holds(e, Offer(e, m))' => Holds(e, Offer(e, m))
  BY <1>1, <1>2 DEF Holds, FollowsTopic, Follows
<1>5. Once(inbox'[m], TheBid(e)) /\ Once(inbox'[e], Offer(e, m))
  BY <1>1 DEF OneOfferOf, FollowsTopic, Follows
<1> QED
  BY <1>2, <1>3, <1>4, <1>5 DEF OneOfferOf

LEMMA RoundsKept ==
  ASSUME TypeInv, RoundsTaken, round' = round,
         \A m \in Material : assigned[m] # None => assigned'[m] = assigned[m]
  PROVE  RoundsTaken'
<1> SUFFICES ASSUME NEW e \in Equipment, NEW r \in 0 .. round[e] - 1
             PROVE  \E m \in Material : assigned'[m] = <<e, r>>
  BY DEF RoundsTaken
<1>1. PICK m \in Material : assigned[m] = <<e, r>>
  BY DEF RoundsTaken
<1>2. round[e] \in Nat
  BY DEF TypeInv, TypeOK
<1>3. <<e, r>> # None
  BY <1>2, AgentsAssumption
<1> QED
  BY <1>1, <1>3

LEMMA BehindKept ==
  ASSUME TypeInv, Behind, NEW news, FollowsTopic(inbox', news),
         \A e \in Equipment : round'[e] \in Nat /\ round[e] <= round'[e],
         \A a \in Agent : \A msg \in Elems(inbox'[a]) \cap news :
           /\ msg.act \in Dealing => msg.rnd <= round'[msg.eq]
           /\ msg.act = "COUNTERBID" => msg.eq = a,
         \A e \in Equipment : \A b \in bids'[e] : stage'[e] # "ended" => b.rnd = round'[e]
  PROVE  Behind'
<1> SUFFICES ASSUME NEW a \in Agent, NEW msg \in Elems(inbox'[a])
             PROVE  /\ msg.act \in Dealing => msg.rnd <= round'[msg.eq]
                    /\ msg.act = "COUNTERBID" => msg.eq = a
  BY DEF Behind
<1>1. CASE msg \in news
  BY <1>1
<1>2. CASE msg \in Elems(inbox[a])
  <2>1. msg.act \in Dealing => msg.rnd <= round[msg.eq] /\ msg.eq \in Equipment /\ msg.rnd \in Nat
    BY <1>2, DealingFields DEF Behind
  <2>2. \A e \in Equipment : round[e] \in Nat
    BY DEF TypeInv, TypeOK
  <2>3. msg.act = "COUNTERBID" => msg.eq = a
    BY <1>2 DEF Behind
  <2> QED
    BY <2>1, <2>2, <2>3
<1> QED
  BY <1>1, <1>2 DEF FollowsTopic, Follows

LEMMA CalmOffers ==
  ASSUME TypeInv, OfferInv, NEW news, FollowsTopic(inbox', news),
         \A msg \in news : msg.act \notin Dealing,
         round' = round, \A m \in Material : assigned[m] # None => assigned'[m] = assigned[m],
         \A e \in Equipment :
           /\ stage[e] = "ended" => stage'[e] = "ended"
           /\ bids'[e] \subseteq bids[e] /\ pending'[e] \in {pending[e], None}
  PROVE  Behind' /\ RoundsTaken' /\ OneOffer' /\ InTurn'
<1>1. Behind'
  <2>1. \A e \in Equipment : round[e] \in Nat
    BY DEF TypeInv, TypeOK
  <2>2. \A e \in Equipment : \A b \in bids'[e] : stage'[e] # "ended" => b.rnd = round'[e]
    BY DEF OfferInv, Behind
  <2> QED
    BY <2>1, <2>2, BehindKept DEF OfferInv, Dealing
<1>2. RoundsTaken'
  BY RoundsKept DEF OfferInv
<1>3. OneOffer'
  <2> SUFFICES ASSUME NEW e \in Equipment, NEW m \in Material, stage'[e] # "ended"
               PROVE  OneOfferOf(e, m)'
    BY DEF OneOffer
  <2>1. TheBid(e) \notin news /\ Offer(e, m) \notin news
    BY DEF TheBid, Offer, Between, Dealing
  <2>2. Keeps(e, m)' => Keeps(e, m)
    BY DEF Keeps
  <2>3. pending'[e] = m => pending[e] = m
    BY AgentKinds, AgentsAssumption
  <2> QED
    BY <2>1, <2>2, <2>3, SameOffer DEF OfferInv, OneOffer
<1>4. InTurn'
  BY AgentKinds DEF OfferInv, InTurn, FollowsTopic, Follows, Dealing
<1> QED
  BY <1>1, <1>2, <1>3, <1>4

-----------------------------------------------------------------------------
(* What keeps the second part: waiting.                                     *)

Replying == {"CONFIRM", "ASSIGNED", "ASSIGNEDOTHERS", "EXIT"}
Listens(e) ==
  /\ round'[e] = round[e]
  /\ \A msg \in Elems(inbox[e]) :
       msg.act \in Replying /\ AddressedTo(e, msg) => msg \in Elems(inbox'[e])

(* An order that may answer e still may, or lets e know.                    *)
GoesOn(e, m) ==
  /\ Undecided(m) => Undecided(m)' \/ Announcing(e, m)' \/ Exiting(m)
  /\ Announcing(e, m) => Announcing(e, m)' \/ Denial(e, m)'

LEMMA ListensOn ==
  ASSUME NEW e \in Equipment, Listens(e)
  PROVE  /\ Exiting(e) => Exiting(e)'
         /\ \A m \in Material : Denial(e, m) => Denial(e, m)'
         /\ pending'[e] = pending[e] /\ Answered(e) => Answered(e)'
<1>1. \A msg : AddressedTo(e, msg)' = AddressedTo(e, msg)
  BY DEF Listens, AddressedTo
<1>2. \A msg : msg.act = "EXIT" => AddressedTo(e, msg)
  BY DEF AddressedTo
<1> QED
  BY <1>1, <1>2 DEF Listens, Replying, Exiting, Denial, Answered, Answers

LEMMA StaysVouched ==
  ASSUME ExitsForAll, NEW e \in Equipment, NEW m \in Material, stage[e] # "ended", Vouched(e, m),
         GoesOn(e, m), Exiting(e) => Exiting(e)', Denial(e, m) => Denial(e, m)'
  PROVE  Vouched(e, m)'
BY DEF ExitsForAll, GoesOn, Vouched

LEMMA StaysExpected ==
  ASSUME ExitsForAll, NEW e \in Equipment, NEW m \in Material, stage[e] # "ended", Expects(e, m),
         pending'[e] = m, round'[e] = round[e],
         GoesOn(e, m), Exiting(e) => Exiting(e)', Answered(e) => Answered(e)',
         Undecided(m)' =>
           \A msg \in Elems(inbox[m]) : msg.act = "ASKCONFIRM" => msg \in Elems(inbox'[m])
  PROVE  Expects(e, m)'
<1>1. Asked(e, m) => Expects(e, m)'
  <2> SUFFICES ASSUME Asked(e, m) PROVE Expects(e, m)'
    OBVIOUS
  <2>1. CASE Undecided(m)'
    BY <2>1 DEF Asked, Expects, Name
  <2>2. CASE Announcing(e, m)'
    BY <2>2 DEF Expects
  <2>3. CASE Exiting(m)
    BY <2>3 DEF ExitsForAll, Expects
  <2> QED
    BY <2>1, <2>2, <2>3 DEF GoesOn, Asked
<1>2. Announcing(e, m) => Expects(e, m)'
  <2>1. Denial(e, m)' => Answered(e)'
    BY DEF Denial, Answered, Answers
  <2> QED
    BY <2>1 DEF GoesOn, Expects
<1> QED
  BY <1>1, <1>2 DEF Expects

(* An equipment that loses nothing it must read, and asks nobody.           *)
LEMMA CalmWaits ==
  ASSUME TypeInv, WaitInv, NEW e \in Equipment, stage[e] # "ended", Listens(e),
         \A m \in Material :
           /\ GoesOn(e, m)
           /\ Offered(e, m)' => Offered(e, m) \/ Vouched(e, m)'
           /\ Undecided(m)' =>
                \A msg \in Elems(inbox[m]) : msg.act = "ASKCONFIRM" => msg \in Elems(inbox'[m]),
         pending'[e] \in {pending[e], None}
  PROVE  PromisesTo(e)' /\ Awaits(e)'
<1>1. PromisesTo(e) /\ Awaits(e) /\ ExitsForAll
  BY DEF WaitInv, NoneIsForgotten
<1>2. PromisesTo(e)'
  BY <1>1, ListensOn, StaysVouched DEF PromisesTo
<1>3. ASSUME NEW m \in Material, pending'[e] = m
      PROVE  Expects(e, m)'
  <2>1. pending[e] = m /\ m # None
    BY <1>3, AgentKinds, AgentsAssumption
  <2>2. Expects(e, m) /\ GoesOn(e, m)
    BY <1>1, <2>1 DEF Awaits
  <2> QED
    BY <1>1, <1>3, <2>1, <2>2, ListensOn, StaysExpected DEF Listens
<1> QED
  BY <1>2, <1>3 DEF Awaits
-----------------------------------------------------------------------------
(* What an agent reads is of no concern to who waits.                       *)

Harmless(a, read) ==
  \/ stage'[a] = "ended"
  \/ /\ a \in Equipment => ~(read.act \in Replying /\ AddressedTo(a, read))
     /\ a \in Material => read.act # "ASKCONFIRM"

LEMMA ReaderWaits ==
  ASSUME TypeInv, WaitInv, NEW a, NEW read, Unlost(inbox', a, read),
         NEW e \in Equipment, stage[e] # "ended", stage'[e] # "ended", round'[e] = round[e],
         a = e => ~(read.act \in Replying /\ AddressedTo(e, read)),
         a \in Material /\ Undecided(a)' => read.act # "ASKCONFIRM",
         \A m \in Material : GoesOn(e, m) /\ (Offered(e, m)' => Offered(e, m) \/ Vouched(e, m)'),
         pending'[e] \in {pending[e], None}
  PROVE  PromisesTo(e)' /\ Awaits(e)'
<1>1. Listens(e)
  BY AgentKinds DEF Listens, Unlost
<1>2. ASSUME NEW m \in Material, Undecided(m)', NEW msg \in Elems(inbox[m]), msg.act = "ASKCONFIRM"
      PROVE  msg \in Elems(inbox'[m])
  BY <1>2, AgentKinds DEF Unlost, Undecided
<1> QED
  BY <1>1, <1>2, CalmWaits

LEMMA HarmlessWaits ==
  ASSUME TypeInv, WaitInv, NEW a, NEW read, Unlost(inbox', a, read), Harmless(a, read),
         NEW e \in Equipment, stage[e] # "ended", stage'[e] # "ended", round'[e] = round[e],
         \A m \in Material : GoesOn(e, m) /\ (Offered(e, m)' => Offered(e, m) \/ Vouched(e, m)'),
         pending'[e] \in {pending[e], None}
  PROVE  PromisesTo(e)' /\ Awaits(e)'
<1>1. a = e => ~(read.act \in Replying /\ AddressedTo(e, read))
  BY DEF Harmless
<1>2. a \in Material /\ Undecided(a)' => read.act # "ASKCONFIRM"
  BY DEF Harmless, Undecided
<1> QED
  BY <1>1, <1>2, ReaderWaits

(* An exit reaches all whom it must reach, and stays until it is read.      *)
LEMMA ExitsStay ==
  ASSUME ExitsForAll, NEW a, NEW read, Unlost(inbox', a, read), Harmless(a, read),
         \A b \in Agent : stage[b] = "ended" => stage'[b] = "ended",
         \A m \in Material, e \in Equipment :
           Exiting(m)' => Exiting(m) \/ stage'[e] = "ended" \/ Exiting(e)'
  PROVE  ExitsForAll'
<1> SUFFICES ASSUME NEW m \in Material, NEW e \in Equipment, Exiting(m), ~Exiting(e)',
                    stage'[e] # "ended"
             PROVE  FALSE
  BY DEF ExitsForAll
<1>1. PICK msg \in Elems(inbox[e]) : msg.act = "EXIT"
  BY AgentKinds DEF ExitsForAll, Exiting
<1>2. msg = read /\ e = a
  BY <1>1, AgentKinds DEF Unlost, Exiting
<1> QED
  BY <1>1, <1>2 DEF Harmless, Replying, AddressedTo

(* A step that offers, asks, and answers nothing.                           *)
Kept(a) ==
  /\ UNCHANGED <<round, bids, pending, assigned>>
  /\ \A b \in Agent : stage[b] = "ended" => stage'[b] = "ended"
  /\ \A m \in Material :
       /\ Undecided(m) => Undecided(m)' \/ Exiting(m)
       /\ stage[m] = "announcing" => stage'[m] = "announcing"

LEMMA OrdinaryStep ==
  ASSUME TypeInv, AnswerInv, NEW news, FollowsTopic(inbox', news),
         \A msg \in news : msg.act \notin Dealing /\ msg.act # "START",
         NEW a, NEW read, Unlost(inbox', a, read), Harmless(a, read), Kept(a),
         started' = started,
         \A m \in Material, e \in Equipment :
           Exiting(m)' => Exiting(m) \/ stage'[e] = "ended" \/ Exiting(e)'
  PROVE  AnswerInv'
<1>1. StartsOnce'
  BY CalmStarts DEF AnswerInv, OfferInv, Kept, Quiet, Plain
<1>2. Behind' /\ RoundsTaken' /\ OneOffer' /\ InTurn'
  BY AgentKinds, CalmOffers DEF AnswerInv, Kept
<1>3. ExitsForAll'
  BY ExitsStay DEF AnswerInv, WaitInv, Kept
<1>4. ASSUME NEW e \in Equipment, stage'[e] # "ended"
      PROVE  PromisesTo(e)' /\ Awaits(e)'
  <2>1. e \in Agent /\ stage[e] # "ended"
    BY <1>4, AgentKinds DEF Kept
  <2>2. ASSUME NEW m \in Material
        PROVE  GoesOn(e, m) /\ (Offered(e, m)' => Offered(e, m))
    <3>1. GoesOn(e, m)
      BY DEF Kept, GoesOn, Announcing
    <3>2. Offer(e, m)' = Offer(e, m) /\ Offer(e, m) \notin news
      BY DEF Kept, Offer, Between, Dealing
    <3>3. Holds(e, Offer(e, m))' => Holds(e, Offer(e, m))
      BY <2>1, <3>2 DEF Holds, FollowsTopic, Follows
    <3>4. Keeps(e, m)' => Keeps(e, m)
      BY DEF Kept, Keeps
    <3> QED
      BY <3>1, <3>3, <3>4 DEF Offered
  <2> QED
    BY <1>4, <2>1, <2>2, HarmlessWaits DEF AnswerInv, Kept
<1> QED
  BY <1>1, <1>2, <1>3, <1>4 DEF AnswerInv, OfferInv, WaitInv, NoneIsForgotten
LEMMA NoNewExits ==
  ASSUME NEW news, FollowsTopic(inbox', news), \A msg \in news : msg.act # "EXIT"
  PROVE  \A b \in Agent : Exiting(b)' => Exiting(b)
BY DEF FollowsTopic, Follows, Exiting

LEMMA ContainerAnswers ==
  ASSUME TypeInv, AnswerInv, MaxCrashes = 0, NEW a \in Agent,
         Launch(a) \/ Crash(a) \/ HandleExit(a)
  PROVE  AnswerInv'
<1>1. CASE Launch(a)
  <2> DEFINE read == Plain("PING")
  <2>1. /\ FollowsTopic(inbox', {}) /\ Unlost(inbox', a, read)
        /\ stage[a] = "absent" /\ stage' = [stage EXCEPT ![a] = "running"]
        /\ UNCHANGED <<round, bids, pending, assigned, started>>
    BY <1>1, SameFollows DEF Launch, equipmentVars, logVars
  <2>2. Kept(a)
    BY <2>1, StageOf, AgentKinds DEF Kept, Undecided
  <2>3. Harmless(a, read)
    BY DEF Harmless, Plain, Replying
  <2> HIDE DEF read
  <2> QED
    BY <2>1, <2>2, <2>3, NoNewExits, AgentKinds, OrdinaryStep
<1>2. CASE HandleExit(a)
  <2>1. /\ stage' = [stage EXCEPT ![a] = "ended"] /\ stage'[a] = "ended" /\ inbox' = Leave(inbox, a)
        /\ UNCHANGED <<round, bids, pending, assigned, started>> /\ stage[a] = "running"
        /\ Exiting(a)
    BY <1>2, StageOf, BoxesOf, ReadsOf, ConsumeElems
       DEF HandleExit, Ends, Reads, Exiting, equipmentVars, logVars
  <2>2. FollowsTopic(inbox', {}) /\ Unlost(inbox', a, Next1(a))
    BY <2>1, BoxesOf, SameFollows, LeaveFollows
  <2>3. Kept(a)
    BY <2>1, StageOf, AgentKinds DEF Kept, Undecided
  <2> QED
    BY <2>1, <2>2, <2>3, NoNewExits, AgentKinds, OrdinaryStep DEF Harmless
<1>3. CASE Crash(a)
  BY <1>3 DEF Crash, TypeInv, TypeOK
<1> QED
  BY <1>1, <1>2, <1>3

LEMMA SameKept ==
  ASSUME UNCHANGED <<stage, round, bids, pending, assigned>>, NEW a
  PROVE  Kept(a)
BY DEF Kept, Undecided

(* An agent that reads one message and sends none, or one that offers       *)
(* nothing and ends nobody.                                                 *)
LEMMA ReplyAnswers ==
  ASSUME TypeInv, AnswerInv, NEW a \in Agent, inbox[a] # <<>>,
         Harmless(a, Next1(a)),
         UNCHANGED <<stage, round, bids, pending, assigned, started>>,
         NEW readers, NEW msg \in Message,
         msg.act \notin Dealing /\ msg.act # "START" /\ msg.act # "EXIT",
         inbox' \in {Consume(a), Post(Consume(a), readers, msg)}
  PROVE  AnswerInv'
<1>1. FollowsTopic(inbox', {msg}) /\ Unlost(inbox', a, Next1(a))
  BY BoxesOf, ConsumeFollows, ReplyFollows
<1> QED
  BY <1>1, SameKept, NoNewExits, AgentKinds, OrdinaryStep

LEMMA PingAnswers ==
  ASSUME TypeInv, AnswerInv, NEW a \in Agent, NEW answer \in Message,
         answer.act = "PINGANSWER", AnswerPing(a, answer)
  PROVE  AnswerInv'
<1>1. Harmless(a, Next1(a)) /\ inbox[a] # <<>>
  BY DEF AnswerPing, Reads, Harmless, Replying
<1> QED
  BY <1>1, ReplyAnswers DEF AnswerPing, Dealing, equipmentVars, logVars

(* An equipment that ends.                                                  *)
LEMMA FarewellAnswers ==
  ASSUME TypeInv, AnswerInv, NEW e \in Equipment, Ends(e),
         UNCHANGED <<round, bids, pending, assigned, started>>,
         NEW readers, NEW msg \in Message, msg.act = "EQUIPMENTFINISHED",
         inbox' = Leave(Post(inbox, readers, msg), e)
  PROVE  AnswerInv'
<1>1. e \in Agent /\ stage' = [stage EXCEPT ![e] = "ended"] /\ stage'[e] = "ended"
  BY AgentKinds, StageOf DEF Ends
<1>2. FollowsTopic(inbox', {msg}) /\ Unlost(inbox', e, msg)
  BY <1>1, FarewellFollows
<1>3. Kept(e)
  BY <1>1, StageOf, AgentKinds, AgentsAssumption DEF Kept, Undecided
<1> QED
  BY <1>1, <1>2, <1>3, NoNewExits, AgentKinds, OrdinaryStep DEF Harmless, Dealing

-----------------------------------------------------------------------------
(* Steps of the LOG and of the UX.                                          *)

(* A call for exit reaches every equipment, whoever calls.                  *)
LEMMA ExitCalls ==
  ASSUME TypeInv, AnswerInv, NEW a, a \notin Equipment \cup Material,
         UNCHANGED <<stage, round, bids, pending, assigned, started>>,
         NEW box \in Boxes, NEW read, FollowsTopic(box, {Plain("EXIT")}), Unlost(box, a, read),
         inbox' = ExitAgents(box)
  PROVE  AnswerInv'
<1> DEFINE exit == Plain("EXIT")
<1>1. exit \in Message /\ exit.act = "EXIT"
  BY PlainMild DEF Plain
<1>2. inbox' = Post(box, Equipment \cup Material, exit)
  BY DEF ExitAgents
<1>3. FollowsTopic(inbox', {exit}) /\ Unlost(inbox', a, read)
  BY <1>1, <1>2, PostFollows, PostUnlost
<1> HIDE DEF exit
<1>4. ASSUME NEW e \in Equipment
      PROVE  stage'[e] = "ended" \/ Exiting(e)'
  BY <1>1, <1>2, AgentKinds, PostReaches DEF Exiting
<1> QED
  BY <1>1, <1>3, <1>4, SameKept, OrdinaryStep DEF Harmless, Dealing
(* The LOG starts the auction once, before any equipment has bid.           *)
LEMMA LogStartAnswers ==
  ASSUME TypeInv, AnswerInv, LogStart
  PROVE  AnswerInv'
<1> DEFINE start == Plain("START")
<1>1. start \in Message /\ start.act = "START"
  BY PlainMild DEF Plain
<1>2. /\ inbox' = Post(inbox, Equipment, start) /\ ~started /\ started'
      /\ UNCHANGED <<stage, round, bids, pending, assigned>>
  BY DEF LogStart, StartIsDue, equipmentVars
<1>3. FollowsTopic(inbox', {start}) /\ Unlost(inbox', LogAgent, Plain("PING"))
  BY <1>1, <1>2, BoxesOf, SameFollows, PostFollows, PostUnlost
<1> HIDE DEF start
<1>4. StartsOnce'
  <2> SUFFICES ASSUME NEW e \in Equipment
               PROVE  Once(inbox'[e], start) /\ Quiet(e)'
    BY <1>2 DEF StartsOnce, start, Plain
  <2>1. e \in Agent /\ Quiet(e) /\ start \notin Elems(inbox[e]) /\ inbox[e] \in Seq(Message)
    BY <1>2, AgentKinds, BoxesOf DEF AnswerInv, OfferInv, StartsOnce, Holds, start, Boxes
  <2>2. Once(inbox[e], start)
    BY <2>1 DEF Once, Elems
  <2>3. inbox'[e] = inbox[e] \/ inbox'[e] = Append(inbox[e], start)
    BY <1>2, <2>1 DEF Post
  <2>4. Once(inbox'[e], start)
    BY <1>1, <2>1, <2>2, <2>3, AppendFollows
  <2>5. Quiet(e)'
    BY <1>1, <1>2, <1>3, <2>1 DEF Quiet, Dealing, FollowsTopic, Follows
  <2> QED
    BY <2>4, <2>5
<1>5. Behind' /\ RoundsTaken' /\ OneOffer' /\ InTurn'
  BY <1>1, <1>2, <1>3, CalmOffers DEF AnswerInv, Dealing
<1>6. Kept(LogAgent) /\ Harmless(LogAgent, Plain("PING"))
  BY <1>2, SameKept, AgentsAssumption DEF Harmless
<1>7. ExitsForAll'
  BY <1>1, <1>2, <1>3, <1>6, NoNewExits, AgentKinds, ExitsStay DEF AnswerInv, WaitInv, Kept
<1>8. ASSUME NEW e \in Equipment, stage[e] # "ended"
      PROVE  PromisesTo(e)' /\ Awaits(e)'
  <2>1. ASSUME NEW m \in Material
        PROVE  GoesOn(e, m) /\ (Offered(e, m)' => Offered(e, m))
    <3>1. GoesOn(e, m)
      BY <1>2 DEF GoesOn, Announcing, Undecided
    <3>2. Offer(e, m)' = Offer(e, m) /\ Offer(e, m) # start
      BY <1>1, <1>2 DEF Offer, Between
    <3>3. Offered(e, m)' => Offered(e, m)
      BY <1>2, <1>3, <3>2, AgentKinds DEF Offered, Holds, Keeps, FollowsTopic, Follows
    <3> QED
      BY <3>1, <3>3
  <2> QED
    BY <1>2, <1>3, <1>6, <1>8, <2>1, HarmlessWaits DEF AnswerInv
<1> QED
  BY <1>2, <1>4, <1>5, <1>7, <1>8 DEF AnswerInv, OfferInv, WaitInv, NoneIsForgotten

LEMMA LogAnswers ==
  ASSUME TypeInv, ProtocolInv, AnswerInv, MaxCrashes = 0, LogStep
  PROVE  AnswerInv'
<1>a. LogAgent \in Agent /\ LogAgent \notin Equipment \cup Material
  BY AgentKinds, AgentsAssumption
<1>b. \A act : LogReads(act) => inbox[LogAgent] # <<>> /\ Harmless(LogAgent, Next1(LogAgent))
  BY <1>a DEF LogReads, Reads, Harmless
<1> DEFINE ping == Plain("PING")
<1>c. ping \in Message /\ ping.act \notin Dealing /\ ping.act # "START" /\ ping.act # "EXIT"
  BY PlainMild DEF Plain, Dealing
<1> HIDE DEF ping
<1>1. CASE LogCheck
  <2>1. /\ UNCHANGED <<stage, round, bids, pending, assigned, started>>
        /\ LogReads("CHECK") /\ inbox' = Post(Consume(LogAgent), Agent, ping)
    BY <1>1 DEF LogCheck, equipmentVars, ping
  <2> QED
    BY <1>a, <1>b, <1>c, <2>1, ReplyAnswers
<1>2. CASE LogPing
  BY <1>2, <1>a, PlainMessage, PingAnswers DEF LogPing, Plain, Broadcasts
<1>3. CASE LogPingAnswer \/ LogRecordsConfirm \/ LogEquipmentFinished
  <2>1. /\ UNCHANGED <<stage, round, bids, pending, assigned, started>>
        /\ \E act : LogReads(act) /\ inbox' = Consume(LogAgent)
    BY <1>3 DEF LogPingAnswer, LogRecordsConfirm, LogEquipmentFinished, equipmentVars
  <2> QED
    BY <1>a, <1>b, <1>c, <2>1, ReplyAnswers
<1>4. CASE LogStart
  BY <1>4, LogStartAnswers
<1>5. CASE LogAskResults
  <2>1. /\ UNCHANGED <<stage, round, bids, pending, assigned, started>>
        /\ LogReads("ASKRESULTS")
        /\ inbox' = ExitAgents(Consume(LogAgent)) \/ inbox' = Consume(LogAgent)
    BY <1>5 DEF LogAskResults, equipmentVars
  <2>2. /\ Consume(LogAgent) \in Boxes /\ FollowsTopic(Consume(LogAgent), {Plain("EXIT")})
        /\ Unlost(Consume(LogAgent), LogAgent, Next1(LogAgent))
    BY <1>a, <1>b, <2>1, BoxesOf, ConsumeType, ConsumeFollows
  <2>3. CASE inbox' = ExitAgents(Consume(LogAgent))
    BY <1>a, <2>1, <2>2, <2>3, ExitCalls
  <2>4. CASE inbox' = Consume(LogAgent)
    BY <1>a, <1>b, <1>c, <2>1, <2>4, ReplyAnswers
  <2> QED
    BY <2>1, <2>3, <2>4
<1>6. CASE LogReceiveError
  <2>1. Next1(LogAgent) \in Elems(inbox[LogAgent]) /\ Next1(LogAgent).act = "RECIEVEERROR"
    BY <1>6, <1>a, BoxesOf, ConsumeElems DEF LogReceiveError, LogReads, Reads
  <2> QED
    BY <1>a, <2>1 DEF ProtocolInv, AskInv, Told, Truthful
<1>7. CASE LogExit
  BY <1>7, <1>a, ContainerAnswers DEF LogExit
<1> QED
  BY <1>1, <1>2, <1>3, <1>4, <1>5, <1>6, <1>7 DEF LogStep

LEMMA UXAnswers ==
  ASSUME TypeInv, AnswerInv, UXStep \/ (\E caller \in {LogAgent, UX} : ExitLog(caller))
  PROVE  AnswerInv'
<1>a. LogAgent \in Agent /\ LogAgent \notin Equipment \cup Material
  BY AgentKinds, AgentsAssumption
<1>b. UNCHANGED <<stage, round, bids, pending, assigned, started>>
  BY DEF UXStep, UXCheck, UXAskResults, UXEndAuction, ExitLog, equipmentVars, logVars
<1>1. CASE UXEndAuction
  BY <1>1, <1>a, <1>b, BoxesOf, SameFollows, ExitCalls DEF UXEndAuction
<1>2. CASE ~UXEndAuction
  <2>1. PICK act \in {"CHECK", "ASKRESULTS", "EXIT"} :
          inbox' = Post(inbox, {LogAgent}, Plain(act))
    BY <1>2 DEF UXStep, UXCheck, UXAskResults, ExitLog
  <2> DEFINE msg == Plain(act)
  <2>2. msg \in Message /\ msg.act \notin Dealing /\ msg.act # "START"
    BY PlainMild DEF Plain, Dealing
  <2> HIDE DEF msg
  <2>3. FollowsTopic(inbox', {msg}) /\ Unlost(inbox', LogAgent, msg)
    BY <2>1, <2>2, BoxesOf, SameFollows, PostFollows, PostUnlost DEF msg
  <2>4. \A m \in Material : inbox'[m] = inbox[m]
    BY <1>a, <2>1, BoxesOf, AgentKinds DEF Post, Boxes
  <2> QED
    BY <1>a, <1>b, <2>2, <2>3, <2>4, SameKept, OrdinaryStep DEF Harmless, Exiting
<1> QED
  BY <1>1, <1>2
-----------------------------------------------------------------------------
(* Steps of an equipment.                                                   *)

(* No equipment gets further than there are orders.                         *)
LEMMA RoundBound ==
  ASSUME TypeInv, RoundsTaken, NEW e \in Equipment
  PROVE  round[e] \in 0 .. Cardinality(Material)
<1> DEFINE n == Cardinality(Material)
           rounds == 0 .. round[e] - 1
           taker == [r \in rounds |-> CHOOSE m \in Material : assigned[m] = <<e, r>>]
<1>1. round[e] \in Nat /\ n \in Nat /\ IsFiniteSet(Material)
  BY AgentsAssumption, FS_CardinalityType DEF TypeInv, TypeOK
<1>2. \A r \in rounds : taker[r] \in Material /\ assigned[taker[r]] = <<e, r>>
  BY DEF RoundsTaken
<1>3. taker \in [rounds -> Material]
  BY <1>2
<1>4. IsFiniteSet(rounds) /\ Cardinality(rounds) = round[e]
  <2>1. /\ 0 \in Int /\ round[e] - 1 \in Int
    BY <1>1
  <2>2. /\ IsFiniteSet(rounds)
        /\ Cardinality(rounds) = IF 0 > round[e] - 1 THEN 0 ELSE round[e] - 1 - 0 + 1
    BY <2>1, FS_Interval
  <2> QED
    BY <1>1, <2>2
<1> HIDE DEF taker, rounds, n
<1>5. n < round[e] => \E r, s \in rounds : r # s /\ taker[r] = taker[s]
  BY <1>1, <1>3, <1>4, FS_PigeonHole DEF n
<1>6. \A r, s \in rounds : taker[r] = taker[s] => r = s
  <2> SUFFICES ASSUME NEW r \in rounds, NEW s \in rounds, taker[r] = taker[s]
               PROVE  r = s
    OBVIOUS
  <2>1. <<e, r>> = <<e, s>>
    BY <1>2
  <2> QED
    BY <2>1
<1> QED
  BY <1>1, <1>5, <1>6 DEF n

LEMMA NoneOnce == ASSUME NEW q, NEW msg, msg \notin Elems(q) PROVE Once(q, msg)
BY DEF Once, Elems

LEMMA PostOnce ==
  ASSUME NEW box \in Boxes, NEW readers, NEW msg \in Message, NEW b \in Agent,
         msg \notin Elems(box[b])
  PROVE  Once(Post(box, readers, msg)[b], msg)
<1>1. /\ box[b] \in Seq(Message)
      /\ Post(box, readers, msg)[b] \in {box[b], Append(box[b], msg)}
  BY DEF Boxes, Post
<1> QED
  BY <1>1, NoneOnce, AppendFollows

LEMMA StartIsPlain == ASSUME NEW msg \in Message, msg.act = "START" PROVE msg = Plain("START")
BY DEF Message, Plain, EquipmentActions, DealActions

LEMMA HeadOf ==
  ASSUME TypeInv, NEW a \in Agent, inbox[a] # <<>>
  PROVE  /\ Next1(a) \in Elems(inbox[a]) /\ Next1(a) \in Message
         /\ Once(inbox[a], Next1(a)) => Next1(a) \notin Elems(Consume(a)[a])
<1>1. inbox[a] \in Seq(Message) /\ Consume(a)[a] = Tail(inbox[a])
  BY BoxesOf DEF Boxes, Consume
<1>2. Next1(a) \in Elems(inbox[a])
  BY <1>1, TailElems DEF Next1
<1>3. Next1(a) \in Message
  BY <1>1, <1>2 DEF Elems
<1>4. Once(inbox[a], Next1(a)) => Next1(a) \notin Elems(Tail(inbox[a]))
  BY <1>1, TailFollows DEF Next1
<1> QED
  BY <1>1, <1>2, <1>3, <1>4

(* The waits of an equipment that offers and asks no more than it did, when *)
(* no order decides or ends.                                                *)
LEMMA QuietWaits ==
  ASSUME TypeInv, WaitInv, NEW a, NEW read, Unlost(inbox', a, read), Harmless(a, read),
         NEW e \in Equipment, stage[e] # "ended", UNCHANGED <<stage, assigned>>,
         round'[e] = round[e], pending'[e] \in {pending[e], None},
         \A m \in Material : Offered(e, m)' => Offered(e, m) \/ Vouched(e, m)'
  PROVE  PromisesTo(e)' /\ Awaits(e)'
<1>1. \A m \in Material : GoesOn(e, m)
  BY DEF GoesOn, Announcing, Undecided
<1> QED
  BY <1>1, HarmlessWaits

LEMMA OfferedBefore ==
  ASSUME NEW e \in Equipment, NEW m \in Material, NEW news, FollowsTopic(inbox', news),
         Offer(e, m) \notin news, round'[e] = round[e],
         Keeps(e, m)' => Offered(e, m)
  PROVE  Offered(e, m)' => Offered(e, m)
<1>1. Offer(e, m)' = Offer(e, m) /\ e \in Agent
  BY AgentKinds DEF Offer, Between
<1> QED
  BY <1>1 DEF Offered, Holds, FollowsTopic, Follows
LEMMA EquipmentStartAnswers ==
  ASSUME TypeInv, AnswerInv, NEW e \in Equipment, EquipmentStart(e)
  PROVE  AnswerInv'
<1> DEFINE bid == OfEquipment("BID", e)
<1>1. /\ e \in Agent /\ e \notin Material /\ inbox[e] # <<>>
      /\ Next1(e) = Plain("START") /\ stage[e] = "running"
      /\ inbox' = Post(Consume(e), Material, bid)
      /\ UNCHANGED <<stage, round, bids, pending, assigned, started>>
  <2>1. /\ Next1(e).act = "START" /\ inbox[e] # <<>> /\ stage[e] = "running" /\ e \in Agent
        /\ inbox' = Post(Consume(e), Material, bid)
        /\ UNCHANGED <<stage, round, bids, pending, assigned, started>>
    BY AgentKinds DEF EquipmentStart, Receives, Reads, logVars
  <2> QED
    BY <2>1, HeadOf, StartIsPlain, AgentsAssumption
<1>2. bid \in Message /\ bid = TheBid(e) /\ bid.act = "BID" /\ bid.eq = e /\ bid.rnd = round[e]
  BY OfEquipmentMessage DEF TypeInv, OfEquipment, TheBid, Between, EquipmentActions
<1>3. FollowsTopic(inbox', {bid}) /\ Unlost(inbox', e, Next1(e))
  BY <1>1, <1>2, ReplyFollows
<1>4. Holds(e, Plain("START")) /\ Quiet(e) /\ started /\ Once(inbox[e], Plain("START"))
  BY <1>1, HeadOf DEF AnswerInv, OfferInv, StartsOnce, Holds
<1>5. Consume(e) \in Boxes /\ \A a \in Agent : a # e => Consume(e)[a] = inbox[a]
  BY <1>1, BoxesOf, ConsumeType, ConsumeElems
<1> HIDE DEF bid
<1>6. inbox'[e] = Consume(e)[e]
  BY <1>1, <1>5 DEF Post, Boxes
<1>7. StartsOnce'
  <2>1. Plain("START") \notin Elems(inbox'[e])
    BY <1>1, <1>4, <1>6, HeadOf
  <2>2. bid # Plain("START")
    BY <1>2 DEF Plain
  <2> QED
    BY <1>1, <1>2, <1>3, <1>4, <2>1, <2>2, CalmStarts
       DEF AnswerInv, OfferInv, Quiet, Holds, Plain
<1>8. Behind'
  <2>1. \A f \in Equipment : round[f] \in Nat
    BY DEF TypeInv, TypeOK
  <2> QED
    BY <1>1, <1>2, <1>3, <2>1, BehindKept DEF AnswerInv, OfferInv, Behind
<1>9. RoundsTaken'
  BY <1>1, RoundsKept DEF AnswerInv, OfferInv
<1>10. OneOffer'
  <2> SUFFICES ASSUME NEW f \in Equipment, NEW m \in Material, stage[f] # "ended"
               PROVE  OneOfferOf(f, m)'
    BY <1>1 DEF OneOffer
  <2>0. OneOfferOf(f, m) /\ m \in Agent /\ m # e /\ m # None
    BY <1>1, AgentKinds, AgentsAssumption DEF AnswerInv, OfferInv, OneOffer
  <2>1. CASE f # e
    <3>1. TheBid(f) # bid /\ Offer(f, m) # bid
      BY <1>2, <2>1 DEF TheBid, Offer, Between
    <3>2. round'[f] = round[f] /\ (Keeps(f, m)' => Keeps(f, m)) /\ pending' = pending
      BY <1>1 DEF Keeps
    <3> QED
      BY <1>3, <2>0, <3>1, <3>2, SameOffer
  <2>2. CASE f = e
    <3>1. bid \notin Elems(inbox[m]) /\ Offer(e, m) \notin Elems(inbox[e])
      BY <1>1, <1>2, <1>4, <2>0 DEF Quiet, Dealing, Offer, Between
    <3>2. Once(inbox'[m], bid)
      BY <1>1, <1>2, <1>5, <2>0, <3>1, PostOnce
    <3>3. Offer(e, m) \notin Elems(inbox'[e])
      BY <1>1, <1>2, <1>3, <3>1 DEF FollowsTopic, Follows, Offer, Between
    <3>4. Once(inbox'[e], Offer(e, m))
      BY <3>3, NoneOnce
    <3>5. TheBid(e)' = bid /\ Offer(e, m)' = Offer(e, m)
      BY <1>1, <1>2 DEF TheBid, Offer, Between
    <3>6. ~Keeps(e, m)' /\ pending'[e] # m
      BY <1>1, <1>4, <2>0 DEF Quiet, Keeps
    <3> QED
      BY <2>2, <3>2, <3>3, <3>4, <3>5, <3>6 DEF OneOfferOf, Holds
  <2> QED
    BY <2>1, <2>2
<1>11. InTurn'
  BY <1>2, <1>3, AgentKinds DEF AnswerInv, OfferInv, InTurn, FollowsTopic, Follows
<1>12. Harmless(e, Next1(e))
  BY <1>1 DEF Harmless, Plain, Replying
<1>13. ExitsForAll'
  BY <1>1, <1>2, <1>3, <1>12, NoNewExits, AgentKinds, ExitsStay DEF AnswerInv, WaitInv
<1>14. ASSUME NEW f \in Equipment, stage[f] # "ended"
       PROVE  PromisesTo(f)' /\ Awaits(f)'
  <2>1. \A m \in Material : Offer(f, m) # bid /\ (Keeps(f, m)' => Offered(f, m))
    BY <1>1, <1>2 DEF Offer, Between, Keeps, Offered
  <2> QED
    BY <1>1, <1>3, <1>12, <1>14, <2>1, OfferedBefore, QuietWaits DEF AnswerInv
<1> QED
  BY <1>1, <1>7, <1>8, <1>9, <1>10, <1>11, <1>13, <1>14
     DEF AnswerInv, OfferInv, WaitInv, NoneIsForgotten

LEMMA EquipmentCounterbidAnswers ==
  ASSUME TypeInv, AnswerInv, RoundsDiffer, NEW e \in Equipment, EquipmentCounterbid(e)
  PROVE  AnswerInv'
<1> DEFINE msg == Next1(e)
           m0 == msg.mat
<1>1. /\ e \in Agent /\ inbox[e] # <<>> /\ msg.act = "COUNTERBID" /\ AddressedTo(e, msg)
      /\ stage[e] = "running" /\ inbox' = Consume(e)
      /\ UNCHANGED <<stage, round, pending, assigned, started>>
      /\ \/ bids' = [bids EXCEPT ![e] = @ \cup {[mat |-> m0, rnd |-> msg.rnd]}]
         \/ bids' = bids
  BY AgentKinds DEF EquipmentCounterbid, Receives, Reads, logVars
<1>2. msg \in Elems(inbox[e]) /\ msg \in Message
  BY <1>1, HeadOf
<1>3. /\ msg.eq = e /\ m0 \in Material /\ msg.rnd = round[e]
      /\ msg = Offer(e, m0)
  <2>1. msg.eq = e /\ m0 \in Material /\ msg.rnd \in Nat
    BY <1>1, <1>2, DealFields DEF DealActions, AnswerInv, OfferInv, Behind
  <2>2. msg.rnd <= round[e] /\ round[e] \in 0 .. Cardinality(Material)
    BY <1>1, <1>2, <2>1, RoundBound DEF AnswerInv, OfferInv, Behind, Dealing
  <2>3. RoundMatches(msg.rnd, round[e])
    BY <1>1 DEF AddressedTo
  <2>4. msg.rnd \in 0 .. Cardinality(Material)
    <3>1. Cardinality(Material) \in Nat
      BY AgentsAssumption, FS_CardinalityType
    <3> QED
      BY <2>1, <2>2, <3>1
  <2>5. msg.rnd = round[e]
    BY <2>2, <2>3, <2>4 DEF RoundsDiffer
  <2>6. msg = [act |-> msg.act, eq |-> msg.eq, rnd |-> msg.rnd, mat |-> msg.mat]
    BY <1>2 DEF Message
  <2> QED
    BY <1>1, <2>1, <2>5, <2>6 DEF Offer, Between
<1>4. FollowsTopic(inbox', {}) /\ Unlost(inbox', e, msg)
  BY <1>1, BoxesOf, ConsumeFollows
<1>5. \A f \in Equipment : \A b \in bids'[f] :
        b \in bids[f] \/ (f = e /\ b.mat = m0 /\ b.rnd = round[e])
  BY <1>1, <1>3 DEF TypeInv, TypeOK
<1>6. msg \notin Elems(inbox'[e])
  <2>1. Once(inbox[e], msg)
    BY <1>1, <1>3 DEF AnswerInv, OfferInv, OneOffer, OneOfferOf
  <2> QED
    BY <1>1, <2>1, HeadOf
<1> HIDE DEF msg, m0
<1>7. StartsOnce'
  <2>1. ~Quiet(e)
    BY <1>1, <1>2, <1>3 DEF Quiet, Dealing
  <2>2. \A f \in Equipment : Quiet(f) => bids'[f] = {} /\ pending'[f] = None
    BY <1>1, <1>5, <2>1 DEF Quiet
  <2> QED
    BY <1>1, <1>4, <2>2, CalmStarts DEF AnswerInv, OfferInv
<1>8. Behind'
  <2>1. \A f \in Equipment : round[f] \in Nat
    BY DEF TypeInv, TypeOK
  <2>2. \A f \in Equipment : \A b \in bids'[f] : stage'[f] # "ended" => b.rnd = round'[f]
    BY <1>1, <1>5 DEF AnswerInv, OfferInv, Behind
  <2> QED
    BY <1>1, <1>4, <2>1, <2>2, BehindKept DEF AnswerInv, OfferInv
<1>9. RoundsTaken'
  BY <1>1, RoundsKept DEF AnswerInv, OfferInv
<1>10. OneOffer'
  <2> SUFFICES ASSUME NEW f \in Equipment, NEW m \in Material, stage[f] # "ended"
               PROVE  OneOfferOf(f, m)'
    BY <1>1 DEF OneOffer
  <2>0. OneOfferOf(f, m)
    BY DEF AnswerInv, OfferInv, OneOffer
  <2>1. CASE ~(f = e /\ m = m0)
    <3>1. Keeps(f, m)' => Keeps(f, m)
      BY <1>5, <2>1 DEF Keeps
    <3> QED
      BY <1>1, <1>4, <2>0, <3>1, SameOffer
  <2>2. CASE f = e /\ m = m0
    <3>1. /\ Once(inbox[m], TheBid(e)) /\ ~Holds(m, TheBid(e)) /\ pending[e] # m
      BY <1>2, <1>3, <2>0, <2>2 DEF OneOfferOf, Holds
    <3>2. m \in Agent /\ TheBid(e)' = TheBid(e) /\ Offer(e, m)' = msg
      BY <1>1, <1>3, <2>2, AgentKinds DEF TheBid, Offer, Between
    <3>3. ~Holds(m, TheBid(e))' /\ Once(inbox'[m], TheBid(e))
      BY <1>4, <3>1, <3>2 DEF Holds, FollowsTopic, Follows
    <3>4. ~Holds(e, Offer(e, m))' /\ Once(inbox'[e], Offer(e, m)')
      BY <1>6, <3>2, NoneOnce DEF Holds
    <3> QED
      BY <1>1, <2>2, <3>1, <3>2, <3>3, <3>4 DEF OneOfferOf
  <2> QED
    BY <2>1, <2>2
<1>11. InTurn'
  BY <1>4, AgentKinds DEF AnswerInv, OfferInv, InTurn, FollowsTopic, Follows
<1>12. Harmless(e, msg)
  BY <1>1, AgentsAssumption DEF Harmless, Replying
<1>13. ExitsForAll'
  BY <1>1, <1>4, <1>12, NoNewExits, AgentKinds, ExitsStay DEF AnswerInv, WaitInv
<1>14. ASSUME NEW f \in Equipment, stage[f] # "ended"
       PROVE  PromisesTo(f)' /\ Awaits(f)'
  <2>1. \A m \in Material : Keeps(f, m)' => Offered(f, m)
    BY <1>2, <1>3, <1>5 DEF Keeps, Offered, Holds
  <2> QED
    BY <1>1, <1>4, <1>12, <1>14, <2>1, OfferedBefore, QuietWaits DEF AnswerInv
<1> QED
  BY <1>1, <1>7, <1>8, <1>9, <1>10, <1>11, <1>13, <1>14
     DEF AnswerInv, OfferInv, WaitInv, NoneIsForgotten
(* In a round an equipment has one bid of an order at most.                 *)
LEMMA OneBid ==
  ASSUME TypeInv, Behind, NEW e \in Equipment, stage[e] # "ended",
         NEW b \in bids[e], NEW c \in bids[e], b.mat = c.mat
  PROVE  b = c
<1>1. b \in Bid /\ c \in Bid /\ b.rnd = c.rnd
  BY DEF TypeInv, TypeOK, Behind
<1>2. b = [mat |-> b.mat, rnd |-> b.rnd] /\ c = [mat |-> c.mat, rnd |-> c.rnd]
  BY <1>1 DEF Bid
<1> QED
  BY <1>1, <1>2

(* Who hears that an order is taken will not ask it any more.               *)
LEMMA EquipmentAssignedAnswers ==
  ASSUME TypeInv, ProtocolInv, AnswerInv, NEW e \in Equipment, EquipmentAssigned(e)
  PROVE  AnswerInv'
<1> DEFINE msg == Next1(e)
<1>1. /\ e \in Agent /\ inbox[e] # <<>> /\ AddressedTo(e, msg)
      /\ msg.act \in {"ASSIGNED", "ASSIGNEDOTHERS"}
      /\ stage[e] = "running" /\ inbox' = Consume(e)
      /\ UNCHANGED <<stage, round, assigned, started>>
  BY AgentKinds DEF EquipmentAssigned, Receives, Reads, logVars
<1>2. msg \in Elems(inbox[e]) /\ msg \in Message /\ msg.act = "ASSIGNEDOTHERS"
      /\ msg.mat \in Material
  <2>1. msg \in Elems(inbox[e]) /\ msg \in Message
    BY <1>1, HeadOf
  <2>2. msg.act = "ASSIGNEDOTHERS"
    BY <1>1, <2>1 DEF ProtocolInv, AskInv, Told, Truthful
  <2> QED
    BY <2>1, <2>2, DealFields DEF DealActions
<1>3. FollowsTopic(inbox', {}) /\ Unlost(inbox', e, msg)
  BY <1>1, BoxesOf, ConsumeFollows
<1>a. PICK m0 \in Material : m0 = msg.mat
  BY <1>2
<1>4. \/ /\ pending[e] = m0 /\ bids' = bids
         /\ pending' = [pending EXCEPT ![e] = None]
      \/ /\ pending[e] # m0 /\ pending' = pending
         /\ \E gone \in SUBSET {b \in bids[e] : b.mat = m0} :
              /\ {b \in bids[e] : b.mat = m0} # {} => gone # {}
              /\ bids' = [bids EXCEPT ![e] = @ \ gone]
  BY <1>a, Zenon DEF EquipmentAssigned
<1>5. /\ \A f \in Equipment : bids'[f] \subseteq bids[f] /\ pending'[f] \in {pending[f], None}
      /\ \A f \in Equipment : f # e => pending'[f] = pending[f]
      /\ \A b \in bids[e] : b.mat # m0 => b \in bids'[e]
  BY <1>4 DEF TypeInv, TypeOK
<1>6. ~Offered(e, m0)'
  <2>1. ~Holds(e, Offer(e, m0))'
    <3>1. inbox[e] \in Seq(Message) /\ inbox'[e] = Tail(inbox[e]) /\ msg = Head(inbox[e])
      BY <1>1, BoxesOf DEF Boxes, Consume, Next1
    <3>2. \A old \in Elems(Tail(inbox[e])) : old.act = "COUNTERBID" => old.mat # m0
      BY <1>1, <1>2, <1>a, <3>1, TailFollows DEF AnswerInv, OfferInv, InTurn
    <3> QED
      BY <3>1, <3>2 DEF Holds, Offer, Between
  <2>2. ~Keeps(e, m0)'
    <3>1. CASE pending[e] = m0
      BY <1>1, <1>2, <1>4, <3>1 DEF AnswerInv, OfferInv, OneOffer, OneOfferOf, Keeps
    <3>2. CASE pending[e] # m0
      <4>1. PICK gone \in SUBSET {b \in bids[e] : b.mat = m0} :
              /\ {b \in bids[e] : b.mat = m0} # {} => gone # {}
              /\ bids' = [bids EXCEPT ![e] = @ \ gone]
        BY <1>4, <3>2
      <4>2. bids'[e] = bids[e] \ gone
        BY <4>1 DEF TypeInv, TypeOK
      <4>3. \A b, c \in bids[e] : b.mat = m0 /\ c.mat = m0 => b = c
        BY <1>1, OneBid DEF AnswerInv, OfferInv
      <4> QED
        BY <4>1, <4>2, <4>3 DEF Keeps
    <3> QED
      BY <3>1, <3>2
  <2> QED
    BY <2>1, <2>2 DEF Offered
<1> HIDE DEF msg
<1>7. StartsOnce'
  BY <1>1, <1>3, <1>5, CalmStarts DEF AnswerInv, OfferInv, Quiet
<1>8. Behind' /\ RoundsTaken' /\ OneOffer' /\ InTurn'
  BY <1>1, <1>3, <1>5, CalmOffers DEF AnswerInv
<1>9. ASSUME NEW b \in Agent, Exiting(b), b # LogAgent
      PROVE  Exiting(b)'
  BY <1>1, <1>2, <1>3, <1>9 DEF Exiting, Unlost
<1>10. ExitsForAll'
  <2>1. \A b \in Agent : Exiting(b)' => Exiting(b)
    BY <1>3, NoNewExits
  <2>2. \A f \in Equipment : f \in Agent /\ f # LogAgent
    BY AgentKinds, AgentsAssumption
  <2> QED
    BY <1>1, <1>9, <2>1, <2>2, AgentKinds DEF AnswerInv, WaitInv, ExitsForAll
<1>11. ASSUME NEW f \in Equipment, stage[f] # "ended", f # e
       PROVE  PromisesTo(f)' /\ Awaits(f)'
  <2>1. \A m \in Material : Keeps(f, m)' => Offered(f, m)
    BY <1>5 DEF Keeps, Offered
  <2>2. \A m \in Material : GoesOn(f, m) /\ (Offered(f, m)' => Offered(f, m))
    BY <1>1, <1>3, <1>11, <2>1, OfferedBefore DEF GoesOn, Announcing, Undecided
  <2> QED
    BY <1>1, <1>2, <1>3, <1>5, <1>11, <2>2, ReaderWaits DEF AnswerInv
<1>12. /\ \A m \in Material : GoesOn(e, m)
       /\ Exiting(e) => Exiting(e)'
       /\ \A m \in Material : m # m0 /\ Denial(e, m) => Denial(e, m)'
       /\ \A m \in Material : \A old \in Elems(inbox[m]) : old \in Elems(inbox'[m])
  <2>1. \A m \in Material : GoesOn(e, m)
    BY <1>1 DEF GoesOn, Announcing, Undecided
  <2>2. Exiting(e) => Exiting(e)'
    BY <1>1, <1>9, AgentsAssumption
  <2>3. \A m \in Material : m \in Agent /\ m # e
    BY AgentKinds, AgentsAssumption
  <2>4. ASSUME NEW m \in Material, m # m0, Denial(e, m)
        PROVE  Denial(e, m)'
    <3>1. PICK old \in Elems(inbox[e]) :
            old.act = "ASSIGNEDOTHERS" /\ old.mat = m /\ AddressedTo(e, old)
      BY <2>4 DEF Denial
    <3>2. old # msg
      BY <1>a, <2>4, <3>1
    <3>3. old \in Elems(inbox'[e]) /\ AddressedTo(e, old)'
      BY <1>1, <1>3, <3>1, <3>2 DEF Unlost, AddressedTo
    <3> QED
      BY <3>1, <3>3 DEF Denial
  <2> QED
    BY <1>1, <1>3, <2>1, <2>2, <2>3, <2>4 DEF Unlost
<1>13. PromisesTo(e)'
  <2> SUFFICES ASSUME NEW m \in Material, Offered(e, m)'
               PROVE  Vouched(e, m)'
    BY DEF PromisesTo
  <2>1. m # m0
    BY <1>6
  <2>2. Keeps(e, m)' => Offered(e, m)
    BY <1>5 DEF Keeps, Offered
  <2>3. Offered(e, m)
    BY <1>1, <1>3, <2>2, OfferedBefore
  <2>4. Vouched(e, m)
    BY <1>1, <2>3 DEF AnswerInv, WaitInv, NoneIsForgotten, PromisesTo
  <2> QED
    BY <1>1, <1>12, <2>1, <2>4, StaysVouched DEF AnswerInv, WaitInv
<1>14. Awaits(e)'
  <2> SUFFICES ASSUME NEW m \in Material, pending'[e] = m
               PROVE  Expects(e, m)'
    BY DEF Awaits
  <2>1. m # m0 /\ pending[e] = m
    <3>1. m # None
      BY AgentKinds, AgentsAssumption
    <3> QED
      BY <1>4, <3>1 DEF TypeInv, TypeOK
  <2>2. Expects(e, m)
    BY <1>1, <2>1 DEF AnswerInv, WaitInv, NoneIsForgotten, Awaits
  <2>3. Answered(e) => Answered(e)'
    <3> SUFFICES ASSUME NEW old \in Elems(inbox[e]), Answers(e, old)
                 PROVE  Answered(e)'
      BY DEF Answered
    <3>1. old.mat = m /\ old # msg
      BY <1>a, <2>1 DEF Answers
    <3>2. old \in Elems(inbox'[e]) /\ AddressedTo(e, old)' = AddressedTo(e, old)
      BY <1>1, <1>3, <3>1 DEF Unlost, AddressedTo
    <3> QED
      BY <2>1, <3>1, <3>2 DEF Answered, Answers
  <2> QED
    BY <1>1, <1>12, <2>1, <2>2, <2>3, StaysExpected DEF AnswerInv, WaitInv
<1> QED
  BY <1>1, <1>7, <1>8, <1>10, <1>11, <1>13, <1>14
     DEF AnswerInv, OfferInv, WaitInv, NoneIsForgotten
(* The order that e waits for has answered: e bids in a new round, of which *)
(* nothing is on the topic, or it ends.                                     *)
LEMMA EquipmentConfirmAnswers ==
  ASSUME TypeInv, ProtocolInv, AnswerInv, NEW e \in Equipment, EquipmentConfirm(e)
  PROVE  AnswerInv'
<1> DEFINE msg == Next1(e)
           total == tons[e] + Tons[msg.mat]
           bid == Between("BID", e, round[e] + 1, None)
           farewell == OfEquipment("EQUIPMENTFINISHED", e)
<1>1. /\ e \in Agent /\ e \notin Material /\ inbox[e] # <<>> /\ msg.act = "CONFIRM"
      /\ stage[e] = "running" /\ pending[e] = msg.mat /\ UNCHANGED <<assigned, started>>
  BY AgentKinds, AgentsAssumption DEF EquipmentConfirm, Receives, Reads, logVars
<1>2. msg \in Elems(inbox[e]) /\ msg \in Message
  BY <1>1, HeadOf
<1>3. msg.eq = e /\ msg.rnd = round[e] /\ msg.mat \in Material /\ assigned[msg.mat] = <<e, round[e]>>
  BY <1>1, <1>2, DealFields
     DEF DealActions, ProtocolInv, AskInv, Replies, Told, Truthful, Name
<1>4. CASE HasEnough(e, total)
  <2>1. /\ inbox' = Leave(Post(inbox, {LogAgent}, farewell), e) /\ Ends(e)
        /\ UNCHANGED <<round, bids, pending>>
    BY <1>4 DEF EquipmentConfirm
  <2>2. farewell \in Message /\ farewell.act = "EQUIPMENTFINISHED"
    BY OfEquipmentMessage DEF TypeInv, OfEquipment, EquipmentActions
  <2> QED
    BY <1>1, <2>1, <2>2, FarewellAnswers
<1>5. CASE ~HasEnough(e, total)
  <2>1. /\ inbox' = Post(Consume(e), Material, bid) /\ stage' = stage
        /\ round' = [round EXCEPT ![e] = round[e] + 1]
        /\ bids' = [bids EXCEPT ![e] = {}] /\ pending' = [pending EXCEPT ![e] = None]
    BY <1>5 DEF EquipmentConfirm, NextRound
  <2>2. /\ \A f \in Equipment : round[f] \in Nat
        /\ round'[e] = round[e] + 1 /\ bids'[e] = {} /\ pending'[e] = None
        /\ \A f \in Equipment : f # e =>
             round'[f] = round[f] /\ bids'[f] = bids[f] /\ pending'[f] = pending[f]
    BY <2>1 DEF TypeInv, TypeOK
  <2>3. bid \in Message /\ bid.act = "BID" /\ bid.eq = e /\ bid.rnd = round[e] + 1
    BY <2>2, EquipmentMessage DEF EquipmentActions, Between
  <2>4. FollowsTopic(inbox', {bid}) /\ Unlost(inbox', e, msg)
    BY <1>1, <2>1, <2>3, ReplyFollows
  <2>5. /\ Consume(e) \in Boxes
        /\ \A a \in Agent : a # e => Consume(e)[a] = inbox[a]
        /\ inbox'[e] = Consume(e)[e]
    <3>1. Consume(e) \in Boxes /\ \A a \in Agent : a # e => Consume(e)[a] = inbox[a]
      BY <1>1, BoxesOf, ConsumeType, ConsumeElems
    <3> QED
      BY <1>1, <2>1, <3>1 DEF Post, Boxes
  <2>6. PICK fresh : fresh = bid
    OBVIOUS
  <2>7. ASSUME NEW a \in Agent, NEW old \in Elems(inbox[a]), old.act \in Dealing, old.eq = e
        PROVE  old.rnd # round[e] + 1
    BY <2>2, <2>7, DealingFields DEF AnswerInv, OfferInv, Behind
  <2>8. TheBid(e)' = fresh
    BY <2>2, <2>6 DEF TheBid, Between
  <2>9. \A m \in Material : ~Holds(e, Offer(e, m))'
    <3> SUFFICES ASSUME NEW m \in Material, Holds(e, Offer(e, m))'
                 PROVE  FALSE
      OBVIOUS
    <3>1. PICK old \in Elems(inbox'[e]) :
            old.act = "COUNTERBID" /\ old.eq = e /\ old.rnd = round[e] + 1
      BY <2>2 DEF Holds, Offer, Between
    <3>2. old \in Elems(inbox[e])
      BY <1>1, <2>3, <2>4, <3>1 DEF FollowsTopic, Follows
    <3> QED
      BY <1>1, <2>7, <3>1, <3>2 DEF Dealing
  <2> HIDE DEF bid, msg
  <2>10. StartsOnce'
    <3>1. ~Quiet(e)
      BY <1>1, <1>3, AgentKinds, AgentsAssumption DEF Quiet
    <3>2. started /\ ~Holds(e, Plain("START"))
      BY <3>1 DEF AnswerInv, OfferInv, StartsOnce
    <3>3. ~Holds(e, Plain("START"))' /\ bid # Plain("START")
      BY <1>1, <2>3, <2>4, <3>2 DEF Holds, FollowsTopic, Follows, Plain
    <3>4. \A f \in Equipment : Quiet(f) => bids'[f] = {} /\ pending'[f] = None
      BY <2>2 DEF Quiet
    <3> QED
      BY <1>1, <2>3, <2>4, <3>2, <3>3, <3>4, CalmStarts DEF AnswerInv, OfferInv
  <2>11. Behind'
    <3>1. \A f \in Equipment : round'[f] \in Nat /\ round[f] <= round'[f]
      BY <2>2
    <3>2. \A f \in Equipment : \A b \in bids'[f] : stage'[f] # "ended" => b.rnd = round'[f]
      BY <2>1, <2>2 DEF AnswerInv, OfferInv, Behind
    <3> QED
      BY <2>2, <2>3, <2>4, <3>1, <3>2, BehindKept DEF AnswerInv, OfferInv
  <2>12. RoundsTaken'
    <3> SUFFICES ASSUME NEW f \in Equipment, NEW r \in 0 .. round'[f] - 1
                 PROVE  \E m \in Material : assigned[m] = <<f, r>>
      BY <1>1 DEF RoundsTaken
    <3>1. CASE r \in 0 .. round[f] - 1
      BY <3>1 DEF AnswerInv, OfferInv, RoundsTaken
    <3>2. CASE f = e /\ r = round[e]
      BY <1>3, <3>2
    <3> QED
      BY <2>2, <3>1, <3>2
  <2>13. OneOffer'
    <3> SUFFICES ASSUME NEW f \in Equipment, NEW m \in Material, stage[f] # "ended"
                 PROVE  OneOfferOf(f, m)'
      BY <2>1 DEF OneOffer
    <3>0. OneOfferOf(f, m) /\ m \in Agent /\ m # e /\ m # None
      BY <1>1, AgentKinds, AgentsAssumption DEF AnswerInv, OfferInv, OneOffer
    <3>1. CASE f # e
      <4>1. TheBid(f) # bid /\ Offer(f, m) # bid
        BY <2>3, <3>1 DEF TheBid, Offer, Between
      <4>2. round'[f] = round[f] /\ (Keeps(f, m)' => Keeps(f, m)) /\ pending'[f] = pending[f]
        BY <2>2, <3>1 DEF Keeps
      <4> QED
        BY <2>4, <3>0, <4>1, <4>2, SameOffer
    <3>2. CASE f = e
      <4>1. bid \notin Elems(inbox[m])
        BY <2>3, <2>7, <3>0 DEF Dealing
      <4>2. Once(inbox'[m], fresh)
        BY <2>1, <2>3, <2>5, <2>6, <3>0, <4>1, PostOnce
      <4>3. ~Holds(e, Offer(e, m))' /\ Once(inbox'[e], Offer(e, m)')
        BY <2>9, NoneOnce DEF Holds
      <4>4. ~Keeps(e, m)' /\ pending'[e] # m
        BY <2>2, <3>0 DEF Keeps
      <4> QED
        BY <2>8, <3>2, <4>2, <4>3, <4>4 DEF OneOfferOf
    <3> QED
      BY <3>1, <3>2
  <2>14. InTurn'
    BY <2>3, <2>4, AgentKinds DEF AnswerInv, OfferInv, InTurn, FollowsTopic, Follows
  <2>15. ExitsForAll'
    <3>1. \A a \in Agent : Exiting(a)' => Exiting(a)
      BY <2>3, <2>4, NoNewExits
    <3>2. \A a \in Agent : Exiting(a) => Exiting(a)'
      BY <1>1, <2>1, <2>4 DEF Unlost, Exiting
    <3> QED
      BY <2>1, <3>1, <3>2, AgentKinds DEF AnswerInv, WaitInv, ExitsForAll
  <2>16. ASSUME NEW f \in Equipment, stage[f] # "ended"
         PROVE  PromisesTo(f)' /\ Awaits(f)'
    <3>1. CASE f # e
      <4>1. \A m \in Material : Offer(f, m) # bid /\ (Keeps(f, m)' => Offered(f, m))
        BY <2>2, <2>3, <3>1 DEF Offer, Between, Keeps, Offered
      <4>2. \A m \in Material : GoesOn(f, m) /\ (Offered(f, m)' => Offered(f, m))
        BY <1>1, <2>1, <2>2, <2>4, <3>1, <4>1, OfferedBefore DEF GoesOn, Announcing, Undecided
      <4> QED
        BY <1>1, <2>1, <2>2, <2>4, <2>16, <3>1, <4>2, ReaderWaits DEF AnswerInv
    <3>2. CASE f = e
      <4>1. \A m \in Material : ~Offered(e, m)'
        BY <2>2, <2>9 DEF Offered, Keeps
      <4>2. \A m \in Material : pending'[e] # m
        BY <2>2, AgentKinds, AgentsAssumption
      <4> QED
        BY <3>2, <4>1, <4>2 DEF PromisesTo, Awaits
    <3> QED
      BY <3>1, <3>2
  <2> QED
    BY <2>1, <2>10, <2>11, <2>12, <2>13, <2>14, <2>15, <2>16
       DEF AnswerInv, OfferInv, WaitInv, NoneIsForgotten
<1> QED
  BY <1>4, <1>5
(* Who asks has kept the offer of an order that will answer.                *)
LEMMA AskBestAnswers ==
  ASSUME TypeInv, AnswerInv, DistinctNames, NEW e \in Equipment, AskBest(e)
  PROVE  AnswerInv'
<1>1. PICK b \in bids[e] :
        /\ bids' = [bids EXCEPT ![e] = bids[e] \ {b}]
        /\ pending' = [pending EXCEPT ![e] = b.mat]
        /\ inbox' = Post(inbox, NameCovers[b.mat], Between("ASKCONFIRM", e, round[e], b.mat))
  BY DEF AskBest
<1>2. PICK m0 \in Material : m0 = b.mat
  BY DEF TypeInv, TypeOK, Bid
<1>3. PICK ask : ask = Between("ASKCONFIRM", e, round[e], m0)
  OBVIOUS
<1>4. /\ ask \in Message /\ ask.act = "ASKCONFIRM" /\ ask.eq = e /\ ask.rnd = round[e]
      /\ ask.mat = m0 /\ inbox' = Post(inbox, {m0}, ask)
      /\ m0 \in Agent /\ e \in Agent /\ e # m0
  <2>1. round[e] \in Nat
    BY DEF TypeInv, TypeOK
  <2> QED
    BY <1>1, <1>2, <1>3, <2>1, DealMessage, AgentKinds, AgentsAssumption
       DEF DistinctNames, DealActions, Between
<1>5. /\ UNCHANGED <<stage, round, assigned, started>>
      /\ stage[e] = "running" /\ pending[e] = None
  BY DEF AskBest, WaitIsOver, logVars
<1>6. /\ bids'[e] = bids[e] \ {b} /\ pending'[e] = m0
      /\ \A f \in Equipment : f # e => bids'[f] = bids[f] /\ pending'[f] = pending[f]
  BY <1>1, <1>2 DEF TypeInv, TypeOK
<1>7. FollowsTopic(inbox', {ask}) /\ Unlost(inbox', e, ask)
  BY <1>4, BoxesOf, SameFollows, PostFollows, PostUnlost
<1>8. Keeps(e, m0) /\ ~Keeps(e, m0)'
  <2>1. Keeps(e, m0)
    BY <1>2 DEF Keeps
  <2>2. \A c \in bids[e] : c.mat = m0 => c = b
    BY <1>2, <1>5, OneBid DEF AnswerInv, OfferInv
  <2> QED
    BY <1>6, <2>1, <2>2 DEF Keeps
<1>9. StartsOnce'
  <2>1. ~Quiet(e)
    BY DEF Quiet
  <2>2. \A f \in Equipment : Quiet(f) => bids'[f] = {} /\ pending'[f] = None
    BY <1>6, <2>1 DEF Quiet
  <2>3. ask.act \notin Dealing /\ Plain("START") \notin {ask}
    BY <1>4 DEF Dealing, Plain
  <2> QED
    BY <1>5, <1>7, <2>2, <2>3, CalmStarts DEF AnswerInv, OfferInv
<1>10. Behind'
  <2>1. \A f \in Equipment : round[f] \in Nat
    BY DEF TypeInv, TypeOK
  <2>2. \A f \in Equipment : \A c \in bids'[f] : stage'[f] # "ended" => c.rnd = round'[f]
    BY <1>5, <1>6 DEF AnswerInv, OfferInv, Behind
  <2>3. ask.act \notin Dealing /\ ask.act # "COUNTERBID"
    BY <1>4 DEF Dealing
  <2>4. \A f \in Equipment : round'[f] \in Nat /\ round[f] <= round'[f]
    BY <1>5, <2>1
  <2> QED
    BY <1>7, <2>2, <2>3, <2>4, BehindKept DEF AnswerInv, OfferInv
<1>11. RoundsTaken'
  BY <1>5, RoundsKept DEF AnswerInv, OfferInv
<1>12. OneOffer'
  <2> SUFFICES ASSUME NEW f \in Equipment, NEW m \in Material, stage[f] # "ended"
               PROVE  OneOfferOf(f, m)'
    BY <1>5 DEF OneOffer
  <2>0. OneOfferOf(f, m)
    BY DEF AnswerInv, OfferInv, OneOffer
  <2>a. TheBid(f) # ask /\ Offer(f, m) # ask
    BY <1>4 DEF TheBid, Offer, Between
  <2>1. CASE ~(f = e /\ m = m0)
    <3>1. (Keeps(f, m)' => Keeps(f, m)) /\ (pending'[f] = m => pending[f] = m)
      BY <1>6, <2>1 DEF Keeps
    <3> QED
      BY <1>5, <1>7, <2>0, <2>a, <3>1, SameOffer
  <2>2. CASE f = e /\ m = m0
    <3>1. /\ Once(inbox[m], TheBid(e)) /\ Once(inbox[e], Offer(e, m))
          /\ ~Holds(m, TheBid(e)) /\ ~Holds(e, Offer(e, m))
      BY <1>8, <2>0, <2>2 DEF OneOfferOf
    <3>2. m \in Agent /\ TheBid(e)' = TheBid(e) /\ Offer(e, m)' = Offer(e, m)
      BY <1>4, <1>5, <2>2 DEF TheBid, Offer, Between
    <3>3. /\ Once(inbox'[m], TheBid(e)) /\ Once(inbox'[e], Offer(e, m))
          /\ ~Holds(m, TheBid(e))' /\ ~Holds(e, Offer(e, m))'
      BY <1>4, <1>7, <2>a, <2>2, <3>1, <3>2 DEF Holds, FollowsTopic, Follows
    <3> QED
      BY <1>8, <2>2, <3>2, <3>3 DEF OneOfferOf
  <2> QED
    BY <2>1, <2>2
<1>13. InTurn'
  BY <1>4, <1>7, AgentKinds DEF AnswerInv, OfferInv, InTurn, FollowsTopic, Follows
<1>14. Harmless(e, ask)
  BY <1>4, AgentsAssumption DEF Harmless, Replying
<1>15. ExitsForAll'
  BY <1>4, <1>5, <1>7, <1>14, NoNewExits, AgentKinds, ExitsStay DEF AnswerInv, WaitInv
<1>16. \A f \in Equipment, m \in Material :
         /\ GoesOn(f, m)
         /\ Offered(f, m)' => Offered(f, m)
  <2> SUFFICES ASSUME NEW f \in Equipment, NEW m \in Material
               PROVE  GoesOn(f, m) /\ (Offered(f, m)' => Offered(f, m))
    OBVIOUS
  <2>1. Offer(f, m) # ask /\ (Keeps(f, m)' => Offered(f, m))
    BY <1>4, <1>6 DEF Offer, Between, Keeps, Offered
  <2> QED
    BY <1>5, <1>7, <2>1, OfferedBefore DEF GoesOn, Announcing, Undecided
<1>17. ASSUME NEW f \in Equipment, stage[f] # "ended", f # e
       PROVE  PromisesTo(f)' /\ Awaits(f)'
  BY <1>5, <1>6, <1>7, <1>14, <1>16, <1>17, HarmlessWaits DEF AnswerInv
<1>18. Listens(e)
  BY <1>4, <1>5, <1>7, AgentKinds DEF Listens, Unlost, Replying
<1>19. PromisesTo(e)'
  <2>1. PromisesTo(e)
    BY <1>5 DEF AnswerInv, WaitInv, NoneIsForgotten
  <2> QED
    BY <1>5, <1>16, <1>18, <2>1, ListensOn, StaysVouched DEF PromisesTo, AnswerInv, WaitInv
<1>20. Awaits(e)'
  <2>1. Vouched(e, m0)
    BY <1>5, <1>8 DEF AnswerInv, WaitInv, NoneIsForgotten, PromisesTo, Offered
  <2>2. CASE Undecided(m0)
    <3>1. ask \in Elems(inbox'[m0])
      BY <1>4, <2>2, BoxesOf, PostReaches DEF Undecided
    <3>2. Undecided(m0)' /\ Name(ask) = <<e, round'[e]>>
      BY <1>4, <1>5, <2>2 DEF Undecided, Name
    <3>3. Asked(e, m0)'
      BY <1>4, <3>1, <3>2 DEF Asked
    <3> QED
      BY <1>6, <3>3 DEF Awaits, Expects
  <2>3. CASE Announcing(e, m0)
    <3>1. Announcing(e, m0)'
      BY <1>5, <2>3 DEF Announcing
    <3> QED
      BY <1>6, <3>1 DEF Awaits, Expects
  <2>4. CASE Denial(e, m0)
    <3>1. Denial(e, m0)'
      BY <1>18, <2>4, ListensOn
    <3>2. Answered(e)'
      BY <1>6, <3>1 DEF Denial, Answered, Answers
    <3> QED
      BY <1>6, <3>2 DEF Awaits, Expects
  <2>5. CASE Exiting(e)
    <3>1. Exiting(e)'
      BY <1>18, <2>5, ListensOn
    <3> QED
      BY <1>6, <3>1 DEF Awaits, Expects
  <2> QED
    BY <2>1, <2>2, <2>3, <2>4, <2>5 DEF Vouched
<1> QED
  BY <1>5, <1>9, <1>10, <1>11, <1>12, <1>13, <1>15, <1>17, <1>19, <1>20
     DEF AnswerInv, OfferInv, WaitInv, NoneIsForgotten
-----------------------------------------------------------------------------
(* Steps of a material.                                                     *)

LEMMA UndecidedIsFree ==
  ASSUME TypeInv, ProtocolInv, NEW m \in Material, Undecided(m)
  PROVE  /\ assigned[m] = None
         /\ \A a \in Agent : \A msg \in Elems(inbox[a]) :
              msg.act \in {"CONFIRM", "ASSIGNEDOTHERS"} => msg.mat # m
<1>1. assigned[m] = None
  BY DEF ProtocolInv, AskInv, CommitsLast
<1>2. ASSUME NEW a \in Agent, NEW msg \in Elems(inbox[a]),
             msg.act \in {"CONFIRM", "ASSIGNEDOTHERS"}
      PROVE  msg.mat # m
  <2>1. msg \in Message
    BY DEF TypeInv, TypeOK, Elems
  <2>2. msg.eq \in Equipment /\ msg.rnd \in Nat
    BY <1>2, <2>1, DealFields DEF DealActions
  <2>3. assigned[msg.mat] = <<msg.eq, msg.rnd>>
    BY <1>2 DEF ProtocolInv, AskInv, Told, Truthful, Name
  <2> QED
    BY <1>1, <2>2, <2>3, AgentsAssumption
<1> QED
  BY <1>1, <1>2

(* An order that bids is made to offers itself, while it is free.           *)
LEMMA MaterialBidAnswers ==
  ASSUME TypeInv, ProtocolInv, AnswerInv, NEW m \in Material, MaterialBid(m)
  PROVE  AnswerInv'
<1> DEFINE msg == Next1(m)
<1>1. /\ m \in Agent /\ m \notin Equipment /\ inbox[m] # <<>> /\ msg.act = "BID"
      /\ stage[m] = "running" /\ Undecided(m)
      /\ UNCHANGED <<stage, round, bids, pending, assigned, started>>
  BY AgentKinds, AgentsAssumption DEF MaterialBid, Reads, Undecided, equipmentVars, logVars
<1>2. msg \in Elems(inbox[m]) /\ msg \in Message
  BY <1>1, HeadOf
<1>3. msg.eq \in Equipment /\ msg.rnd \in Nat /\ msg.rnd <= round[msg.eq]
  BY <1>1, <1>2, EquipmentFields DEF AnswerInv, OfferInv, Behind, Dealing
<1>4. PICK e \in Equipment, r \in Nat : e = msg.eq /\ r = msg.rnd
  BY <1>3
<1>5. PICK offer : offer = Between("COUNTERBID", e, r, m)
  OBVIOUS
<1>6. /\ offer \in Message /\ offer.act = "COUNTERBID" /\ offer.eq = e
      /\ offer.rnd = r /\ offer.mat = m /\ e \in Agent /\ e # m
  BY <1>1, <1>5, DealMessage, AgentKinds DEF DealActions, Between
<1>7. inbox' = Post(Consume(m), {e}, offer) \/ inbox' = Consume(m)
  BY <1>1, <1>4, <1>5, UndecidedIsFree DEF MaterialBid
<1>8. Harmless(m, msg)
  BY <1>1 DEF Harmless
<1>9. CASE inbox' = Consume(m)
  <2>1. Plain("PING") \in Message /\ Plain("PING").act = "PING"
    BY PlainMild DEF Plain
  <2> QED
    BY <1>1, <1>8, <1>9, <2>1, ReplyAnswers DEF Dealing
<1>10. CASE inbox' = Post(Consume(m), {e}, offer)
  <2>1. FollowsTopic(inbox', {offer}) /\ Unlost(inbox', m, msg)
    BY <1>1, <1>6, <1>10, ReplyFollows
  <2>2. /\ Consume(m) \in Boxes
        /\ \A a \in Agent : a # m => Consume(m)[a] = inbox[a]
        /\ \A a \in Agent : a # e => inbox'[a] = Consume(m)[a]
        /\ inbox'[e] \in {inbox[e], Append(inbox[e], offer)} /\ inbox[e] \in Seq(Message)
    <3>1. Consume(m) \in Boxes /\ \A a \in Agent : a # m => Consume(m)[a] = inbox[a]
      BY <1>1, BoxesOf, ConsumeType, ConsumeElems
    <3>2. inbox[e] \in Seq(Message)
      BY <1>6, BoxesOf DEF Boxes
    <3>3. \A a \in Agent : a # e => inbox'[a] = Consume(m)[a]
      BY <1>10, <3>1 DEF Post, Boxes
    <3>4. inbox'[e] \in {Consume(m)[e], Append(Consume(m)[e], offer)}
      BY <1>6, <1>10 DEF Post
    <3> QED
      BY <1>6, <3>1, <3>2, <3>3, <3>4
  <2>3. \A a \in Agent : a # e => offer \notin Elems(inbox'[a]) \/ offer \in Elems(inbox[a])
    BY <1>1, <1>10, <2>2, BoxesOf, ConsumeElems
  <2>4. msg = Between("BID", e, r, None)
    BY <1>1, <1>2, <1>4 DEF Message, Broadcasts, DealActions, Between
  <2> HIDE DEF msg
  <2>5. StartsOnce'
    <3>1. ~Quiet(e)
      BY <1>1, <1>2, <1>4 DEF Quiet, Dealing
    <3>2. started /\ ~Holds(e, Plain("START"))
      BY <3>1 DEF AnswerInv, OfferInv, StartsOnce
    <3>3. offer # Plain("START") /\ ~Holds(e, Plain("START"))'
      BY <1>6, <2>1, <3>2 DEF Holds, FollowsTopic, Follows, Plain
    <3> QED
      BY <1>1, <1>6, <2>1, <3>2, <3>3, CalmStarts DEF AnswerInv, OfferInv, Quiet
  <2>6. Behind'
    <3>1. \A f \in Equipment : round'[f] \in Nat /\ round[f] <= round'[f]
      BY <1>1 DEF TypeInv, TypeOK
    <3>2. \A f \in Equipment : \A b \in bids'[f] : stage'[f] # "ended" => b.rnd = round'[f]
      BY <1>1 DEF AnswerInv, OfferInv, Behind
    <3>3. \A a \in Agent : offer \in Elems(inbox'[a]) => a = e
      BY <1>6, <2>3 DEF AnswerInv, OfferInv, Behind
    <3>4. offer.rnd <= round'[offer.eq]
      BY <1>1, <1>3, <1>4, <1>6
    <3> QED
      BY <1>6, <2>1, <3>1, <3>2, <3>3, <3>4, BehindKept DEF AnswerInv, OfferInv
  <2>7. RoundsTaken'
    BY <1>1, RoundsKept DEF AnswerInv, OfferInv
  <2>8. OneOffer'
    <3> SUFFICES ASSUME NEW f \in Equipment, NEW n \in Material, stage[f] # "ended"
                 PROVE  OneOfferOf(f, n)'
      BY <1>1 DEF OneOffer
    <3>0. OneOfferOf(f, n)
      BY DEF AnswerInv, OfferInv, OneOffer
    <3>1. CASE Offer(f, n) # offer
      <4>1. TheBid(f) # offer
        BY <1>6 DEF TheBid, Between
      <4>2. (Keeps(f, n)' => Keeps(f, n)) /\ pending' = pending /\ round' = round
        BY <1>1 DEF Keeps
      <4> QED
        BY <2>1, <3>0, <3>1, <4>1, <4>2, SameOffer
    <3>2. CASE Offer(f, n) = offer
      <4>1. f = e /\ n = m /\ r = round[e] /\ msg = TheBid(e)
        BY <1>6, <2>4, <3>2 DEF Offer, Between, TheBid
      <4>2. /\ Once(inbox[m], msg) /\ ~Holds(e, offer) /\ ~Keeps(e, m) /\ pending[e] # m
        BY <1>2, <3>0, <3>2, <4>1 DEF OneOfferOf, Holds
      <4>3. msg \notin Elems(inbox'[m])
        BY <1>1, <1>6, <2>2, <4>2, HeadOf DEF msg
      <4>4. Once(inbox'[e], offer)
        BY <1>6, <1>10, <2>2, <4>2, PostOnce DEF Holds
      <4>5. TheBid(e)' = msg /\ Offer(e, m)' = offer
        BY <1>1, <3>2, <4>1 DEF TheBid, Offer, Between
      <4>6. PICK bid : bid = msg
        OBVIOUS
      <4>7. ~Holds(m, TheBid(e))' /\ Once(inbox'[m], TheBid(e)')
        BY <4>3, <4>5, NoneOnce DEF Holds
      <4>8. ~Keeps(e, m)' /\ pending'[e] # m
        BY <1>1, <4>2 DEF Keeps
      <4> QED
        BY <4>1, <4>4, <4>5, <4>7, <4>8 DEF OneOfferOf
    <3> QED
      BY <3>1, <3>2
  <2>9. InTurn'
    <3> SUFFICES ASSUME NEW f \in Equipment
                 PROVE  OfferFirst(inbox'[f])
      BY DEF InTurn
    <3>1. f \in Agent /\ f # m /\ OfferFirst(inbox[f])
      BY <1>1, AgentKinds DEF AnswerInv, OfferInv, InTurn
    <3>2. CASE f # e
      BY <2>2, <3>1, <3>2
    <3>3. CASE f = e
      <4>1. \A old \in Elems(inbox[e]) : ~(old.act = "ASSIGNEDOTHERS" /\ old.mat = offer.mat)
        BY <1>1, <1>6, UndecidedIsFree
      <4>2. OfferFirst(Append(inbox[e], offer))
        BY <1>6, <2>2, <3>1, <3>3, <4>1, AppendFollows
      <4> QED
        BY <2>2, <3>1, <3>3, <4>2
    <3> QED
      BY <3>2, <3>3
  <2>10. ExitsForAll'
    BY <1>1, <1>6, <1>8, <2>1, NoNewExits, AgentKinds, ExitsStay DEF AnswerInv, WaitInv
  <2>11. ASSUME NEW f \in Equipment, stage[f] # "ended"
         PROVE  PromisesTo(f)' /\ Awaits(f)'
    <3>1. ASSUME NEW n \in Material
          PROVE  Offered(f, n)' => Offered(f, n) \/ Vouched(f, n)'
      <4>1. Keeps(f, n)' => Offered(f, n)
        BY <1>1 DEF Keeps, Offered
      <4>2. CASE Offer(f, n) # offer
        BY <1>1, <2>1, <4>1, <4>2, OfferedBefore
      <4>3. CASE Offer(f, n) = offer
        <5>1. n = m
          BY <1>6, <4>3 DEF Offer, Between
        <5>2. Undecided(m)'
          BY <1>1 DEF Undecided
        <5> QED
          BY <5>1, <5>2 DEF Vouched
      <4> QED
        BY <4>2, <4>3
    <3> QED
      BY <1>1, <1>8, <2>1, <2>11, <3>1, QuietWaits DEF AnswerInv
  <2> QED
    BY <1>1, <2>5, <2>6, <2>7, <2>8, <2>9, <2>10, <2>11
       DEF AnswerInv, OfferInv, WaitInv, NoneIsForgotten
<1> QED
  BY <1>7, <1>9, <1>10
(* An order answers the first question it reads, and passes over all        *)
(* others.                                                                  *)
LEMMA MaterialConfirmAnswers ==
  ASSUME TypeInv, ProtocolInv, AnswerInv, NEW m \in Material, MaterialAskConfirm(m)
  PROVE  AnswerInv'
<1> DEFINE ask == Next1(m)
<1>1. /\ m \in Agent /\ m \notin Equipment /\ inbox[m] # <<>> /\ ask.act = "ASKCONFIRM"
      /\ stage[m] = "running" /\ Undecided(m)
      /\ UNCHANGED <<round, bids, pending, started>>
  BY AgentKinds, AgentsAssumption
     DEF MaterialAskConfirm, Reads, Undecided, equipmentVars, logVars
<1>2. ask \in Elems(inbox[m]) /\ ask \in Message
  BY <1>1, HeadOf
<1>3. ask.eq \in Equipment /\ ask.rnd \in Nat
  BY <1>1, <1>2, DealFields DEF DealActions
<1>4. PICK e \in Equipment, r \in Nat : e = ask.eq /\ r = ask.rnd
  BY <1>3
<1>5. PICK confirm : confirm = Between("CONFIRM", e, r, m)
  OBVIOUS
<1>6. /\ confirm \in Message /\ confirm.act = "CONFIRM" /\ confirm.eq = e
      /\ confirm.rnd = r /\ confirm.mat = m /\ e \in Agent /\ e # m
  BY <1>1, <1>5, DealMessage, AgentKinds DEF DealActions, Between
<1>7. /\ assigned[m] = None
      /\ assigned' = [assigned EXCEPT ![m] = <<e, r>>]
      /\ inbox' = Post(Consume(m), {e, LogAgent}, confirm)
      /\ stage' = [stage EXCEPT ![m] = "announcing"]
  BY <1>1, <1>4, <1>5, UndecidedIsFree DEF MaterialAskConfirm, Name
<1>8. /\ assigned'[m] = <<e, r>> /\ \A n \in Material : n # m => assigned'[n] = assigned[n]
      /\ stage'[m] = "announcing" /\ \A a \in Agent : a # m => stage'[a] = stage[a]
  BY <1>1, <1>7 DEF TypeInv, TypeOK
<1>9. FollowsTopic(inbox', {confirm}) /\ Unlost(inbox', m, ask)
  BY <1>1, <1>6, <1>7, ReplyFollows
<1>10. stage[e] # "ended" => pending[e] = m /\ round[e] = r
  BY <1>1, <1>2, <1>4 DEF ProtocolInv, AskInv, Questions
<1> HIDE DEF ask
<1>11. StartsOnce'
  BY <1>1, <1>6, <1>9, CalmStarts DEF AnswerInv, OfferInv, Quiet, Dealing, Plain
<1>12. Behind' /\ RoundsTaken' /\ OneOffer' /\ InTurn'
  <2>1. \A n \in Material : assigned[n] # None => assigned'[n] = assigned[n]
    BY <1>7, <1>8
  <2>2. \A f \in Equipment :
          /\ stage[f] = "ended" => stage'[f] = "ended"
          /\ bids'[f] \subseteq bids[f] /\ pending'[f] \in {pending[f], None}
    BY <1>1, <1>8, AgentKinds
  <2>3. confirm.act \notin Dealing
    BY <1>6 DEF Dealing
  <2> QED
    BY <1>1, <1>9, <2>1, <2>2, <2>3, CalmOffers DEF AnswerInv
<1>13. ExitsForAll'
  <2>1. \A a \in Agent : Exiting(a)' => Exiting(a)
    BY <1>6, <1>9, NoNewExits
  <2>2. ASSUME NEW f \in Equipment, Exiting(f)
        PROVE  Exiting(f)'
    BY <1>1, <1>9, <2>2, AgentKinds DEF Exiting, Unlost
  <2> QED
    BY <1>1, <1>8, <2>1, <2>2, AgentKinds DEF AnswerInv, WaitInv, ExitsForAll
<1>14. ASSUME NEW f \in Equipment, NEW n \in Material
       PROVE  Offered(f, n)' => Offered(f, n)
  <2>1. Offer(f, n) # confirm /\ (Keeps(f, n)' => Offered(f, n))
    BY <1>1, <1>6 DEF Offer, Between, Keeps, Offered
  <2> QED
    BY <1>1, <1>9, <2>1, OfferedBefore
<1>15. ASSUME NEW f \in Equipment, NEW n \in Material, n # m \/ f # e
       PROVE  GoesOn(f, n)
  <2>1. CASE n # m
    <3>1. stage'[n] = stage[n] /\ assigned'[n] = assigned[n]
      BY <1>8, <2>1, AgentKinds
    <3> QED
      BY <3>1 DEF GoesOn, Undecided, Announcing
  <2>2. CASE n = m /\ f # e
    BY <1>1, <1>8, <2>2 DEF GoesOn, Undecided, Announcing
  <2> QED
    BY <1>15, <2>1, <2>2
<1>16. ASSUME NEW f \in Equipment, stage'[f] # "ended", f # e
       PROVE  PromisesTo(f)' /\ Awaits(f)'
  <2>1. stage[f] # "ended" /\ m # f /\ ~Undecided(m)'
    BY <1>1, <1>8, <1>16, AgentKinds DEF Undecided
  <2>2. \A n \in Material : GoesOn(f, n) /\ (Offered(f, n)' => Offered(f, n) \/ Vouched(f, n)')
    BY <1>14, <1>15, <1>16
  <2> QED
    BY <1>1, <1>9, <1>16, <2>1, <2>2, ReaderWaits DEF AnswerInv
<1>17. ASSUME stage'[e] # "ended"
       PROVE  PromisesTo(e)' /\ Awaits(e)'
  <2>1. /\ stage[e] # "ended" /\ pending[e] = m /\ round[e] = r
        /\ pending'[e] = m /\ round'[e] = r
    BY <1>1, <1>6, <1>8, <1>10, <1>17
  <2>2. Listens(e)
    BY <1>1, <1>6, <1>9 DEF Listens, Unlost
  <2>3. ASSUME NEW n \in Material, Offered(e, n)'
        PROVE  Vouched(e, n)'
    <3>1. Offered(e, n)
      BY <1>14, <2>3
    <3>2. n # m
      BY <2>1, <3>1 DEF AnswerInv, OfferInv, OneOffer, OneOfferOf, Offered
    <3>3. Vouched(e, n)
      BY <2>1, <3>1 DEF AnswerInv, WaitInv, NoneIsForgotten, PromisesTo
    <3> QED
      BY <1>15, <2>1, <2>2, <3>2, <3>3, ListensOn, StaysVouched DEF AnswerInv, WaitInv
  <2>4. confirm \in Elems(inbox'[e])
    <3>1. Consume(m) \in Boxes
      BY <1>1, BoxesOf, ConsumeType
    <3> QED
      BY <1>6, <1>7, <2>1, <3>1, PostReaches
  <2>5. Answers(e, confirm)'
    BY <1>6, <2>1 DEF Answers, AddressedTo, RoundMatches
  <2>6. Answered(e)'
    BY <2>4, <2>5 DEF Answered
  <2> QED
    BY <2>3, <2>6 DEF PromisesTo, Awaits, Expects
<1> QED
  BY <1>11, <1>12, <1>13, <1>16, <1>17 DEF AnswerInv, OfferInv, WaitInv, NoneIsForgotten

(* An order that has committed tells everyone, before its container ends.   *)
LEMMA MaterialAnnounceAnswers ==
  ASSUME TypeInv, ProtocolInv, AnswerInv, NEW m \in Material, MaterialAnnounce(m)
  PROVE  AnswerInv'
<1>1. /\ m \in Agent /\ m \notin Equipment /\ stage[m] = "announcing" /\ ~Undecided(m)
      /\ stage' = [stage EXCEPT ![m] = "ended"]
      /\ UNCHANGED <<round, bids, pending, assigned, started>>
  BY AgentKinds, AgentsAssumption
     DEF MaterialAnnounce, Ends, Undecided, equipmentVars, logVars
<1>2. PICK e \in Equipment, r \in Nat : assigned[m] = <<e, r>>
  <2>1. assigned[m] \in Equipment \X Nat
    BY <1>1 DEF TypeInv, TypeOK, Announcers
  <2> QED
    BY <2>1
<1>3. PICK news : news = Between("ASSIGNEDOTHERS", e, r, m)
  OBVIOUS
<1>4. /\ news \in Message /\ news.act = "ASSIGNEDOTHERS" /\ news.eq = e
      /\ news.rnd = r /\ news.mat = m
  BY <1>3, DealMessage DEF DealActions, Between
<1>5. inbox' = Leave(Post(inbox, Equipment, news), m)
  BY <1>2, <1>3 DEF MaterialAnnounce
<1>6. stage'[m] = "ended" /\ \A a \in Agent : a # m => stage'[a] = stage[a]
  BY <1>1 DEF TypeInv, TypeOK
<1>7. FollowsTopic(inbox', {news}) /\ Unlost(inbox', m, news)
  BY <1>1, <1>4, <1>5, <1>6, FarewellFollows
<1>8. Harmless(m, news)
  BY <1>6 DEF Harmless
<1>9. StartsOnce'
  <2>1. news.act \notin Dealing /\ Plain("START") \notin {news}
    BY <1>4 DEF Dealing, Plain
  <2>2. \A f \in Equipment : Quiet(f) => bids'[f] = {} /\ pending'[f] = None
    BY <1>1 DEF Quiet
  <2> QED
    BY <1>1, <1>7, <2>1, <2>2, CalmStarts DEF AnswerInv, OfferInv
<1>10. Behind' /\ RoundsTaken' /\ OneOffer' /\ InTurn'
  <2>1. \A f \in Equipment :
          /\ stage[f] = "ended" => stage'[f] = "ended"
          /\ bids'[f] \subseteq bids[f] /\ pending'[f] \in {pending[f], None}
    BY <1>1, <1>6, AgentKinds
  <2>2. news.act \notin Dealing
    BY <1>4 DEF Dealing
  <2> QED
    BY <1>1, <1>7, <2>1, <2>2, CalmOffers DEF AnswerInv
<1>11. ExitsForAll'
  BY <1>4, <1>6, <1>7, <1>8, NoNewExits, AgentKinds, ExitsStay DEF AnswerInv, WaitInv
<1>12. ASSUME NEW f \in Equipment, stage'[f] # "ended"
       PROVE  PromisesTo(f)' /\ Awaits(f)'
  <2>1. f \in Agent /\ f # m /\ stage[f] # "ended"
    BY <1>1, <1>6, <1>12, AgentKinds
  <2>2. news \in Elems(inbox'[f])
    <3>1. Post(inbox, Equipment, news) \in Boxes
      BY <1>4, BoxesOf, PostType
    <3>2. inbox'[f] = Post(inbox, Equipment, news)[f]
      BY <1>5, <2>1, <3>1 DEF Leave, Boxes
    <3> QED
      BY <1>4, <2>1, <3>2, BoxesOf, PostReaches
  <2>3. ASSUME Announcing(f, m)
        PROVE  Denial(f, m)'
    <3>1. e # f
      BY <1>2, <2>3 DEF Announcing
    <3> QED
      BY <1>4, <2>2, <3>1 DEF Denial, AddressedTo
  <2>4. ASSUME NEW n \in Material
        PROVE  GoesOn(f, n) /\ (Offered(f, n)' => Offered(f, n))
    <3>1. GoesOn(f, n)
      <4>1. CASE n = m
        BY <1>1, <2>3, <4>1 DEF GoesOn
      <4>2. CASE n # m
        <5>1. stage'[n] = stage[n]
          BY <1>6, <4>2, AgentKinds
        <5> QED
          BY <1>1, <5>1 DEF GoesOn, Undecided, Announcing
      <4> QED
        BY <4>1, <4>2
    <3>2. Offer(f, n) # news /\ (Keeps(f, n)' => Offered(f, n))
      BY <1>1, <1>4 DEF Offer, Between, Keeps, Offered
    <3> QED
      BY <1>1, <1>7, <3>1, <3>2, OfferedBefore
  <2> QED
    BY <1>1, <1>7, <1>8, <1>12, <2>1, <2>4, HarmlessWaits DEF AnswerInv
<1> QED
  BY <1>9, <1>10, <1>11, <1>12 DEF AnswerInv, OfferInv, WaitInv, NoneIsForgotten
-----------------------------------------------------------------------------
LEMMA EquipmentAnswers ==
  ASSUME TypeInv, ProtocolInv, AnswerInv, DistinctNames, RoundsDiffer, MaxCrashes = 0,
         NEW e \in Equipment, EquipmentStep(e) \/ AskBest(e) \/ NoMoreBids(e)
  PROVE  AnswerInv'
<1>1. /\ e \in Agent
      /\ \A act \in {"PINGANSWER", "EQUIPMENTFINISHED"} :
           OfEquipment(act, e) \in Message /\ OfEquipment(act, e).act = act
  BY AgentKinds, OfEquipmentMessage DEF TypeInv, OfEquipment, EquipmentActions
<1>2. CASE AnswerPing(e, OfEquipment("PINGANSWER", e))
  BY <1>1, <1>2, PingAnswers
<1>3. CASE EquipmentConfirmError(e)
  BY <1>3, ConfirmRead DEF EquipmentConfirmError, Receives
<1>4. CASE EquipmentIgnores(e)
  <2>1. Plain("PING") \in Message /\ Plain("PING").act = "PING"
    BY PlainMild DEF Plain
  <2>2. /\ inbox[e] # <<>> /\ inbox' = Consume(e) /\ ~AddressedTo(e, Next1(e))
        /\ UNCHANGED <<stage, round, bids, pending, assigned, started>>
    BY <1>4 DEF EquipmentIgnores, equipmentVars, logVars
  <2>3. Harmless(e, Next1(e))
    BY <2>2, AgentsAssumption DEF Harmless
  <2> QED
    BY <1>1, <2>1, <2>2, <2>3, ReplyAnswers DEF Dealing
<1>5. CASE NoMoreBids(e)
  <2>1. /\ inbox' = Leave(Post(inbox, {LogAgent}, OfEquipment("EQUIPMENTFINISHED", e)), e)
        /\ Ends(e) /\ UNCHANGED <<round, bids, pending, assigned, started>>
    BY <1>5 DEF NoMoreBids, equipmentVars, logVars
  <2> QED
    BY <1>1, <2>1, FarewellAnswers
<1> QED
  BY <1>1, <1>2, <1>3, <1>4, <1>5, EquipmentStartAnswers, EquipmentCounterbidAnswers,
     EquipmentAssignedAnswers, EquipmentConfirmAnswers, AskBestAnswers, ContainerAnswers
     DEF EquipmentStep

LEMMA MaterialAnswers ==
  ASSUME TypeInv, ProtocolInv, AnswerInv, MaxCrashes = 0, NEW m \in Material, MaterialStep(m)
  PROVE  AnswerInv'
<1>1. CASE AnswerPing(m, OfMaterial("PINGANSWER", m))
  BY <1>1, AgentKinds, MaterialMessage, PingAnswers DEF OfMaterial
<1> QED
  BY <1>1, AgentKinds, MaterialBidAnswers, MaterialConfirmAnswers, MaterialAnnounceAnswers,
     ContainerAnswers DEF MaterialStep

LEMMA InitAnswers == Init => AnswerInv
<1> SUFFICES ASSUME Init PROVE AnswerInv
  OBVIOUS
<1>1. /\ \A a \in Agent : inbox[a] = <<>> /\ Elems(inbox[a]) = {} /\ DOMAIN inbox[a] = {}
      /\ \A e \in Equipment : round[e] = 0 /\ bids[e] = {} /\ pending[e] = None
      /\ ~started
  BY AgentKinds DEF Init, Elems
<1>2. \A m \in Material : m # None
  BY AgentKinds, AgentsAssumption
<1>3. StartsOnce /\ OneOffer /\ InTurn
  BY <1>1, <1>2, AgentKinds
     DEF StartsOnce, OneOffer, OneOfferOf, InTurn, OfferFirst, Once, Holds, Quiet, Keeps
<1>4. Behind /\ RoundsTaken
  <2>1. 0 .. 0 - 1 = {}
    OBVIOUS
  <2> QED
    BY <1>1, <2>1 DEF Behind, RoundsTaken
<1>5. WaitInv
  BY <1>1, <1>2, AgentKinds
     DEF WaitInv, ExitsForAll, Exiting, NoneIsForgotten, PromisesTo, Awaits, Offered, Holds, Keeps
<1> QED
  BY <1>3, <1>4, <1>5 DEF AnswerInv, OfferInv

LEMMA NextAnswers ==
  ASSUME DistinctNames, RoundsDiffer, MaxCrashes = 0,
         TypeInv, ProtocolInv, AnswerInv, [Next]_vars
  PROVE  AnswerInv'
<1>1. CASE Next
  BY <1>1, ContainerAnswers, EquipmentAnswers, MaterialAnswers, LogAnswers, UXAnswers DEF Next
<1>2. CASE UNCHANGED vars
  <2>1. FollowsTopic(inbox', {}) /\ Unlost(inbox', LogAgent, Plain("PING"))
    BY <1>2, SameFollows DEF vars
  <2>2. UNCHANGED <<stage, round, bids, pending, assigned, started>>
    BY <1>2 DEF vars, equipmentVars, logVars
  <2>3. Harmless(LogAgent, Plain("PING"))
    BY AgentsAssumption DEF Harmless
  <2> QED
    BY <2>1, <2>2, <2>3, NoNewExits, AgentKinds, SameKept, OrdinaryStep
<1> QED
  BY <1>1, <1>2

LEMMA AnswerInvariant ==
  DistinctNames /\ RoundsDiffer /\ MaxCrashes = 0 /\ Spec => []AnswerInv
<1>1. CASE DistinctNames /\ RoundsDiffer /\ MaxCrashes = 0
  <2>1. TypeInv /\ ProtocolInv /\ AnswerInv /\ [Next]_vars => AnswerInv'
    BY <1>1, NextAnswers
  <2>2. Spec => []ProtocolInv
    BY <1>1, ProtocolInvariant
  <2> QED
    BY <2>1, <2>2, InitAnswers, TypeInvariant, PTL DEF Spec
<1>2. CASE ~(DistinctNames /\ RoundsDiffer /\ MaxCrashes = 0)
  BY <1>2
<1> QED
  BY <1>1, <1>2

(* If no name begins another's, no round is found in another's number and   *)
(* no container dies, an equipment that waits for an order is never         *)
(* forgotten: its question, its answer, the order's announcement or an exit *)
(* is on its way, although an order ends with questions it has not read.    *)
THEOREM EveryQuestionIsAnswered ==
  DistinctNames /\ RoundsDiffer /\ MaxCrashes = 0 /\ Spec => []AskIsAnswered
<1>1. TypeInv /\ AnswerInv => AskIsAnswered
  <2> SUFFICES ASSUME TypeInv, AnswerInv,
                      NEW e \in Equipment, stage[e] = "running", pending[e] # None
               PROVE  LET m == pending[e]
                      IN \/ \E msg \in Unread(e) : Answers(e, msg)
                         \/ /\ stage[m] \in {"absent", "running"}
                            /\ \E msg \in Unread(m) :
                                 msg.act = "ASKCONFIRM" /\ Name(msg) = <<e, round[e]>>
                         \/ stage[m] = "announcing" /\ assigned[m][1] # e
                         \/ ExitIsComing(e)
    BY DEF AskIsAnswered
  <2>1. pending[e] \in Material
    BY DEF TypeInv, TypeOK
  <2>2. Expects(e, pending[e])
    BY <2>1 DEF AnswerInv, WaitInv, NoneIsForgotten, Awaits
  <2> QED
    BY <2>2, UnreadElems
       DEF Expects, Answered, Asked, Undecided, Announcing, Exiting, ExitIsComing
<1> QED
  BY <1>1, TypeInvariant, AnswerInvariant, PTL

-----------------------------------------------------------------------------
(* The auction implements Assignment, if no container dies, nobody ends it  *)
(* from outside and no agent's name begins another's.  The invariant says   *)
(* what the guard of Assign needs: an order is asked by a line it may be    *)
(* processed on, that is still there, and that wants more.                  *)

Undisturbed == DistinctNames /\ MaxCrashes = 0 /\ UXEnds = FALSE

Fits(b, msg) ==
  /\ msg.act = "COUNTERBID" => msg.eq = b /\ b \in Allowed[msg.mat]
  /\ msg.act = "ASKCONFIRM" => msg.mat = b /\ msg.eq \in Allowed[b]
  /\ msg.act = "EXIT" /\ b \in Equipment => completed

EachFits == \A b \in Agent : \A msg \in Elems(inbox[b]) : Fits(b, msg)

BidsAllowed == \A e \in Equipment : \A b \in bids[e] : e \in Allowed[b.mat]

AskersStay ==
  \A m \in Material : Undecided(m) =>
    \A msg \in Elems(inbox[m]) : msg.act = "ASKCONFIRM" => stage[msg.eq] # "ended"

(* One order a round: those of earlier rounds, and the one e waits for.     *)
Owns(e, m) == assigned[m] # None /\ assigned[m][1] = e
OneARound ==
  \A e \in Equipment, m \in Material : Owns(e, m) =>
    \/ assigned[m][2] < round[e]
    \/ assigned[m] = <<e, round[e]>> /\ pending[e] = m

StillWants ==
  \A e \in Equipment : stage[e] # "ended" /\ round[e] > 0 => tons[e] < Target[e]

TurnInv == EachFits /\ BidsAllowed /\ AskersStay /\ OneARound /\ StillWants

-----------------------------------------------------------------------------
(* What a step brings to the topic: one message, to its readers.            *)
Brings(box, readers, msg) ==
  \A b \in Agent : \A old \in Elems(box[b]) :
    old \in Elems(inbox[b]) \/ (old = msg /\ b \in readers)

LEMMA PostBrings ==
  ASSUME NEW box \in Boxes, NEW readers, NEW msg \in Message, Brings(box, readers, msg)
  PROVE  Brings(Post(box, readers, msg), readers, msg)
BY PostElems DEF Brings

LEMMA LeaveBrings ==
  ASSUME NEW box \in Boxes, NEW readers, NEW msg, Brings(box, readers, msg), NEW a \in Agent
  PROVE  Brings(Leave(box, a), readers, msg)
BY LeaveElems DEF Brings

LEMMA ReadBrings ==
  ASSUME TypeInv, NEW a \in Agent, inbox[a] # <<>>, NEW readers, NEW msg
  PROVE  /\ Brings(Consume(a), readers, msg) /\ Consume(a) \in Boxes
         /\ msg \in Message => Brings(Post(Consume(a), readers, msg), readers, msg)
<1>1. Consume(a) \in Boxes /\ Brings(Consume(a), readers, msg)
  BY BoxesOf, ConsumeType, ConsumeElems DEF Brings
<1> QED
  BY <1>1, PostBrings

LEMMA SendBrings ==
  ASSUME TypeInv, NEW a \in Agent, NEW readers, NEW msg
  PROVE  /\ Brings(inbox, readers, msg) /\ Brings(Leave(inbox, a), readers, msg)
         /\ msg \in Message =>
              /\ Brings(Post(inbox, readers, msg), readers, msg)
              /\ Brings(Leave(Post(inbox, readers, msg), a), readers, msg)
<1>1. Brings(inbox, readers, msg) /\ inbox \in Boxes
  BY BoxesOf DEF Brings
<1>2. Brings(Leave(inbox, a), readers, msg)
  BY <1>1, LeaveBrings
<1> QED
  BY <1>1, <1>2, PostBrings, PostType, LeaveBrings

(* The parts of the invariant that are about the topic.                     *)
LEMMA TopicTurn ==
  ASSUME TypeInv, TurnInv, NEW readers, NEW msg \in Message, Brings(inbox', readers, msg),
         \A b \in readers : b \in Agent => Fits(b, msg)',
         msg.act = "ASKCONFIRM" => stage'[msg.eq] # "ended",
         completed => completed',
         \A m \in Material : Undecided(m)' => Undecided(m),
         \A e \in Equipment : stage'[e] = "ended" => stage[e] = "ended" \/ Silent(e)
  PROVE  EachFits' /\ AskersStay'
<1>1. EachFits'
  <2> SUFFICES ASSUME NEW b \in Agent, NEW old \in Elems(inbox'[b]) PROVE Fits(b, old)'
    BY DEF EachFits
  <2>1. CASE old \in Elems(inbox[b])
    BY <2>1 DEF TurnInv, EachFits, Fits
  <2>2. CASE old = msg /\ b \in readers
    BY <2>2
  <2> QED
    BY <2>1, <2>2 DEF Brings
<1>2. AskersStay'
  <2> SUFFICES ASSUME NEW m \in Material, Undecided(m)',
                      NEW old \in Elems(inbox'[m]), old.act = "ASKCONFIRM"
               PROVE  stage'[old.eq] # "ended"
    BY DEF AskersStay
  <2>1. m \in Agent /\ Undecided(m)
    BY AgentKinds
  <2>2. CASE old \in Elems(inbox[m])
    <3>1. stage[old.eq] # "ended"
      BY <2>1, <2>2 DEF TurnInv, AskersStay
    <3>2. old \in Message
      BY <2>1, <2>2 DEF TypeInv, TypeOK, Elems
    <3>3. old.eq \in Equipment
      BY <3>2, DealFields DEF DealActions
    <3>4. ~Silent(old.eq)
      BY <2>1, <2>2 DEF Silent, Asks
    <3> QED
      BY <3>1, <3>3, <3>4
  <2>3. CASE old = msg /\ m \in readers
    BY <2>3
  <2> QED
    BY <2>1, <2>2, <2>3 DEF Brings
<1> QED
  BY <1>1, <1>2

-----------------------------------------------------------------------------
(* What Assignment sees of a step.                                          *)

Onward == TurnInv' /\ [Abstract!Next]_(Abstract!vars)

LEMMA UnseenStep ==
  ASSUME TypeInv, UNCHANGED assigned,
         \A e \in Equipment :
           /\ stage'[e] = "ended" <=> stage[e] = "ended"
           /\ tons'[e] + OnItsWay(e)' = tons[e] + OnItsWay(e)
  PROVE  UNCHANGED Abstract!vars
BY DEF Abstract!vars

LEMMA ClosingStep ==
  ASSUME TypeInv, UNCHANGED assigned, NEW e \in Equipment, stage[e] # "ended", Ends(e),
         \A f \in Equipment : tons'[f] + OnItsWay(f)' = tons[f] + OnItsWay(f)
  PROVE  Abstract!Close(e)
<1>1. e \in Agent /\ stage' = [stage EXCEPT ![e] = "ended"] /\ stage \in [Agent -> Stage]
  BY AgentKinds, StageOf DEF Ends
<1>2. \A f \in Equipment : stage'[f] = IF f = e THEN "ended" ELSE stage[f]
  BY <1>1, AgentKinds
<1>3. [f \in Equipment |-> stage'[f] = "ended"]
        = [[f \in Equipment |-> stage[f] = "ended"] EXCEPT ![e] = TRUE]
  BY <1>2
<1> QED
  BY <1>3 DEF Abstract!Close

(* Steps that change nothing but the topic, entries of bids, and stages of  *)
(* agents that are no equipments.                                           *)
LEMMA IdleTurn ==
  ASSUME TypeInv, TurnInv, NEW readers, NEW msg \in Message, Brings(inbox', readers, msg),
         \A b \in readers : b \in Agent => Fits(b, msg)',
         msg.act # "ASKCONFIRM",
         completed => completed',
         UNCHANGED <<round, pending, tons, assigned>>,
         BidsAllowed',
         \A m \in Material : Undecided(m)' => Undecided(m),
         \A e \in Equipment : stage'[e] = "ended" <=> stage[e] = "ended"
  PROVE  Onward
<1>1. EachFits' /\ AskersStay'
  BY TopicTurn
<1>2. OneARound' /\ StillWants'
  BY DEF TurnInv, OneARound, Owns, StillWants
<1>3. UNCHANGED Abstract!vars
  BY UnseenStep DEF OnItsWay
<1> QED
  BY <1>1, <1>2, <1>3 DEF Onward, TurnInv

-----------------------------------------------------------------------------
(* The steps.                                                               *)

LEMMA ContainerTurn ==
  ASSUME TypeInv, ProtocolInv, TurnInv, Undisturbed, NEW a \in Agent,
         Launch(a) \/ Crash(a) \/ HandleExit(a)
  PROVE  Onward
<1> DEFINE none == Plain("PING")
<1>1. /\ none \in Message /\ none.act = "PING"
      /\ \A b : Fits(b, none)'
  BY PlainMild DEF Plain, Fits
<1>2. ~Crash(a)
  BY DEF Crash, Undisturbed, TypeInv, TypeOK
<1>3. /\ Brings(inbox', {}, none)
      /\ UNCHANGED <<round, pending, tons, assigned, completed, bids>>
      /\ \/ stage' = [stage EXCEPT ![a] = "running"] /\ stage[a] = "absent"
         \/ stage' = [stage EXCEPT ![a] = "ended"] /\ HandleExit(a)
  <2>1. inbox' = inbox \/ inbox' = Leave(inbox, a)
    BY <1>2 DEF Launch, HandleExit
  <2>2. Brings(inbox', {}, none)
    BY <2>1, SendBrings
  <2> QED
    BY <1>2, <2>2 DEF Launch, HandleExit, Ends, equipmentVars, logVars
<1>4. HandleExit(a) => a \notin Equipment
  <2> SUFFICES ASSUME HandleExit(a), a \in Equipment PROVE FALSE
    OBVIOUS
  <2>1. /\ Next1(a) \in Elems(inbox[a]) /\ Next1(a).act = "EXIT"
        /\ stage[a] = "running"
    BY BoxesOf, ConsumeElems DEF HandleExit, Reads
  <2>2. completed
    BY <2>1 DEF TurnInv, EachFits, Fits
  <2> QED
    BY <2>1, <2>2 DEF ProtocolInv, LogInv, Completion, Farewells, Finishing
<1>5. \A e \in Equipment : stage'[e] = "ended" <=> stage[e] = "ended"
  BY <1>3, <1>4, StageOf, AgentKinds
<1>6. \A m \in Material : Undecided(m)' => Undecided(m)
  BY <1>3, StageOf, AgentKinds DEF Undecided
<1>7. BidsAllowed'
  BY <1>3 DEF TurnInv, BidsAllowed
<1> HIDE DEF none
<1> QED
  BY <1>1, <1>3, <1>5, <1>6, <1>7, IdleTurn

(* A step that only answers, tells, or is told.                             *)
LEMMA TellingTurn ==
  ASSUME TypeInv, TurnInv, NEW readers, NEW msg \in Message, Brings(inbox', readers, msg),
         \A b \in readers : b \in Agent => Fits(b, msg)', msg.act # "ASKCONFIRM",
         UNCHANGED <<stage, equipmentVars, assigned>>, completed => completed'
  PROVE  Onward
<1>1. UNCHANGED <<round, pending, tons, bids>>
  BY DEF equipmentVars
<1>2. BidsAllowed'
  BY <1>1 DEF TurnInv, BidsAllowed
<1> QED
  BY <1>1, <1>2, IdleTurn DEF Undecided

LEMMA PingTurn ==
  ASSUME TypeInv, TurnInv, NEW a \in Agent, NEW answer \in Message,
         answer.act = "PINGANSWER", AnswerPing(a, answer)
  PROVE  Onward
<1>1. Brings(inbox', {LogAgent}, answer)
  BY ReadBrings DEF AnswerPing, Reads
<1>2. UNCHANGED <<stage, equipmentVars, assigned, completed>>
  BY DEF AnswerPing, logVars
<1> QED
  BY <1>1, <1>2, TellingTurn DEF Fits

LEMMA LogTurn ==
  ASSUME TypeInv, ProtocolInv, TurnInv, Undisturbed, LogStep
  PROVE  Onward
<1>a. /\ LogAgent \in Agent /\ LogAgent \notin Equipment
      /\ \A act : LogReads(act) =>
           inbox[LogAgent] # <<>> /\ Next1(LogAgent) \in Elems(inbox[LogAgent])
             /\ Next1(LogAgent).act = act
  BY AgentKinds, AgentsAssumption, BoxesOf, ConsumeElems DEF LogReads, Reads
<1>b. \A act \in {"PING", "START", "EXIT", "PINGANSWER"} :
        Plain(act) \in Message /\ Plain(act).act = act
  BY PlainMessage DEF Plain, Broadcasts
<1>1. CASE LogCheck
  <2>1. Brings(inbox', Agent, Plain("PING"))
    BY <1>1, <1>a, <1>b, ReadBrings DEF LogCheck
  <2>2. UNCHANGED <<stage, equipmentVars, assigned, completed>>
    BY <1>1 DEF LogCheck
  <2> QED
    BY <1>b, <2>1, <2>2, TellingTurn DEF Fits
<1>2. CASE LogPing
  BY <1>2, <1>a, <1>b, PingTurn DEF LogPing
<1>3. CASE LogStart
  <2>1. Brings(inbox', Equipment, Plain("START"))
    BY <1>3, <1>a, <1>b, SendBrings DEF LogStart
  <2>2. UNCHANGED <<stage, equipmentVars, assigned, completed>>
    BY <1>3 DEF LogStart
  <2> QED
    BY <1>b, <2>1, <2>2, TellingTurn DEF Fits
<1>4. CASE LogPingAnswer \/ LogRecordsConfirm \/ LogEquipmentFinished
  <2>1. Brings(inbox', {}, Plain("PING"))
    BY <1>4, <1>a, ReadBrings DEF LogPingAnswer, LogRecordsConfirm, LogEquipmentFinished
  <2>2. UNCHANGED <<stage, equipmentVars, assigned>>
    BY <1>4 DEF LogPingAnswer, LogRecordsConfirm, LogEquipmentFinished
  <2>3. completed' = completed \/ (completed' = (completed \/ AllFinished(finished')))
    BY <1>4 DEF LogPingAnswer, LogRecordsConfirm, LogEquipmentFinished
  <2>4. completed => completed'
    BY <2>3
  <2> QED
    BY <1>b, <2>1, <2>2, <2>4, TellingTurn
<1>5. CASE LogAskResults
  <2>1. UNCHANGED <<stage, equipmentVars, assigned, completed>>
    BY <1>5 DEF LogAskResults
  <2>2. CASE MayEnd
    <3>1. Brings(inbox', Equipment \cup Material, Plain("EXIT"))
      BY <1>5, <1>a, <1>b, <2>2, ReadBrings DEF LogAskResults, ExitAgents
    <3> QED
      BY <1>b, <2>1, <2>2, <3>1, TellingTurn DEF Fits, MayEnd
  <2>3. CASE ~MayEnd
    <3>1. Brings(inbox', {}, Plain("PING"))
      BY <1>5, <1>a, <2>3, ReadBrings DEF LogAskResults
    <3> QED
      BY <1>b, <2>1, <3>1, TellingTurn
  <2> QED
    BY <2>2, <2>3
<1>6. CASE LogReceiveError
  BY <1>6, <1>a DEF LogReceiveError, ProtocolInv, AskInv, Told, Truthful
<1>7. CASE LogExit
  BY <1>7, <1>a, ContainerTurn DEF LogExit
<1> QED
  BY <1>1, <1>2, <1>3, <1>4, <1>5, <1>6, <1>7 DEF LogStep

LEMMA UXTurn ==
  ASSUME TypeInv, TurnInv, Undisturbed, UXStep \/ (\E caller \in {LogAgent, UX} : ExitLog(caller))
  PROVE  Onward
<1>1. PICK act \in {"CHECK", "ASKRESULTS", "EXIT"} : inbox' = Post(inbox, {LogAgent}, Plain(act))
  BY DEF UXStep, UXCheck, UXAskResults, UXEndAuction, ExitLog, Undisturbed
<1>2. Plain(act) \in Message /\ Plain(act).act = act
  BY PlainMessage DEF Plain, Broadcasts
<1>3. UNCHANGED <<stage, equipmentVars, assigned, completed>>
  BY DEF UXStep, UXCheck, UXAskResults, UXEndAuction, ExitLog, Undisturbed, logVars
<1>4. Brings(inbox', {LogAgent}, Plain(act))
  BY <1>1, <1>2, AgentKinds, SendBrings
<1>5. Fits(LogAgent, Plain(act))'
  BY <1>2, AgentsAssumption DEF Fits
<1> QED
  BY <1>2, <1>3, <1>4, <1>5, TellingTurn

-----------------------------------------------------------------------------
(* Steps of a material: it offers itself, and Assign when it commits.       *)

LEMMA CommitTurn ==
  ASSUME TypeInv, ProtocolInv, TurnInv, NEW m \in Material, MaterialAskConfirm(m)
  PROVE  Onward
<1> DEFINE ask == Next1(m)
<1>1. /\ ask \in Elems(inbox[m]) /\ ask \in Message /\ ask.act = "ASKCONFIRM"
      /\ stage[m] = "running" /\ Undecided(m) /\ inbox[m] # <<>>
      /\ m \in Agent /\ m \notin Equipment /\ m # None
  BY AgentKinds, AgentsAssumption, BoxesOf, ReadsOf, ConsumeElems
     DEF MaterialAskConfirm, Reads, Undecided
<1>a. PICK e \in Equipment, r \in Nat : e = ask.eq /\ r = ask.rnd
  BY <1>1, DealFields DEF DealActions
<1> DEFINE confirm == Between("CONFIRM", e, r, m)
<1>2. e \in Equipment /\ r \in Nat /\ e # None /\ <<e, r>> # None
  BY AgentKinds, AgentsAssumption
<1>3. assigned[m] = None
  BY <1>1 DEF ProtocolInv, AskInv, CommitsLast
<1>4. /\ assigned' = [assigned EXCEPT ![m] = <<e, r>>]
      /\ inbox' = Post(Consume(m), {e, LogAgent}, confirm)
      /\ stage' = [stage EXCEPT ![m] = "announcing"]
      /\ UNCHANGED <<round, pending, tons, bids, completed>>
  BY <1>3, <1>a DEF MaterialAskConfirm, Name, equipmentVars, logVars
<1>5. confirm \in Message /\ confirm.act = "CONFIRM"
  BY <1>2, DealMessage DEF DealActions, Between
<1>6. stage[e] # "ended" /\ e \in Allowed[m]
  BY <1>1, <1>a DEF TurnInv, EachFits, Fits, AskersStay
<1>7. pending[e] = m /\ round[e] = r
  BY <1>1, <1>6, <1>a DEF ProtocolInv, AskInv, Questions
<1>8. /\ assigned \in [Material -> (Equipment \X Nat) \cup {None}] /\ stage \in [Agent -> Stage]
      /\ round \in [Equipment -> Nat] /\ tons \in [Equipment -> Nat]
  BY DEF TypeInv, TypeOK
<1> HIDE DEF confirm, ask
<1>9. /\ \A n \in Material : assigned'[n] = IF n = m THEN <<e, r>> ELSE assigned[n]
      /\ \A f \in Equipment : stage'[f] = stage[f]
      /\ \A n \in Material : Undecided(n)' => Undecided(n)
  BY <1>1, <1>4, <1>8, AgentKinds DEF Undecided
<1>10. EachFits' /\ AskersStay'
  <2>1. Brings(inbox', {e, LogAgent}, confirm)
    BY <1>1, <1>4, <1>5, ReadBrings
  <2> QED
    BY <1>4, <1>5, <1>9, <2>1, TopicTurn DEF Fits
<1>11. OneARound'
  <2> SUFFICES ASSUME NEW f \in Equipment, NEW n \in Material, Owns(f, n)'
               PROVE  \/ assigned'[n][2] < round[f]
                      \/ assigned'[n] = <<f, round[f]>> /\ pending[f] = n
    BY <1>4 DEF OneARound
  <2>1. CASE n = m
    <3>1. f = e
      BY <1>9, <2>1 DEF Owns
    <3> QED
      BY <1>7, <1>9, <2>1, <3>1
  <2>2. CASE n # m
    BY <1>9, <2>2 DEF TurnInv, OneARound, Owns
  <2> QED
    BY <2>1, <2>2
<1>12. BidsAllowed' /\ StillWants'
  BY <1>4, <1>9 DEF TurnInv, BidsAllowed, StillWants
<1>13. Abstract!IsFirst(e) \/ tons[e] < Target[e]
  <2> SUFFICES ASSUME NEW n \in Material, assigned[n] # None, assigned[n][1] = e
               PROVE  tons[e] < Target[e]
    BY <1>2 DEF Abstract!IsFirst
  <2>1. n # m /\ Owns(e, n)
    BY <1>3 DEF Owns
  <2>2. assigned[n][2] < round[e]
    BY <1>2, <1>7, <2>1 DEF TurnInv, OneARound
  <2>3. round[e] > 0
    BY <1>2, <1>8, <2>2
  <2> QED
    BY <1>2, <1>6, <2>3 DEF TurnInv, StillWants
<1>14. /\ \A f \in Equipment : OnItsWay(f)' = IF f = e THEN Tons[m] ELSE OnItsWay(f)
       /\ OnItsWay(e) = 0
  <2>1. OnItsWay(e) = 0 /\ OnItsWay(e)' = Tons[m]
    BY <1>1, <1>2, <1>3, <1>4, <1>6, <1>7, <1>9 DEF OnItsWay
  <2>2. ASSUME NEW f \in Equipment, f # e PROVE OnItsWay(f)' = OnItsWay(f)
    <3>1. pending[f] \in Material \cup {None} /\ <<f, round[f]>> # None
      BY <1>2, <1>8, AgentsAssumption DEF TypeInv, TypeOK
    <3>2. CASE pending[f] = m
      BY <1>3, <1>4, <1>9, <2>2, <3>1, <3>2 DEF OnItsWay
    <3>3. CASE pending[f] # m
      BY <1>4, <1>9, <3>1, <3>3 DEF OnItsWay
    <3> QED
      BY <3>2, <3>3
  <2> QED
    BY <2>1, <2>2
<1>15. Abstract!Assign(m, e)
  <2>1. Tons[m] \in Nat /\ tons[e] \in Nat
    BY <1>2, <1>8, DataAssumption
  <2>2. [n \in Material |-> IF assigned'[n] = None THEN None ELSE assigned'[n][1]]
          = [[n \in Material |-> IF assigned[n] = None THEN None ELSE assigned[n][1]]
               EXCEPT ![m] = e]
    <3>1. assigned'[m] # None /\ assigned'[m][1] = e
      BY <1>2, <1>9
    <3>2. \A n \in Material : n # m => assigned'[n] = assigned[n]
      BY <1>9
    <3> QED
      BY <3>1, <3>2
  <2>3. [f \in Equipment |-> tons'[f] + OnItsWay(f)']
          = [[f \in Equipment |-> tons[f] + OnItsWay(f)] EXCEPT ![e] = @ + Tons[m]]
    <3> DEFINE Mapped == [f \in Equipment |-> tons[f] + OnItsWay(f)]
    <3>1. \A f \in Equipment :
            tons'[f] + OnItsWay(f)' = IF f = e THEN Mapped[f] + Tons[m] ELSE Mapped[f]
      BY <1>4, <1>14, <2>1
    <3> QED
      BY <3>1
  <2>4. [f \in Equipment |-> stage'[f] = "ended"] = [f \in Equipment |-> stage[f] = "ended"]
    BY <1>9
  <2>5. [f \in Equipment |-> tons[f] + OnItsWay(f)][e] = tons[e]
    BY <1>2, <1>14, <2>1
  <2> QED
    BY <1>2, <1>3, <1>6, <1>13, <2>2, <2>3, <2>4, <2>5 DEF Abstract!Assign
<1> QED
  BY <1>2, <1>10, <1>11, <1>12, <1>15 DEF Onward, TurnInv, Abstract!Next

LEMMA MaterialTurn ==
  ASSUME TypeInv, ProtocolInv, TurnInv, Undisturbed, NEW m \in Material, MaterialStep(m)
  PROVE  Onward
<1>a. m \in Agent /\ m \notin Equipment
  BY AgentKinds, AgentsAssumption
<1>1. CASE AnswerPing(m, OfMaterial("PINGANSWER", m))
  BY <1>1, <1>a, MaterialMessage, PingTurn DEF OfMaterial
<1>2. CASE MaterialBid(m)
  <2>1. /\ Next1(m) \in Message /\ Next1(m).act = "BID" /\ inbox[m] # <<>>
        /\ UNCHANGED <<stage, equipmentVars, assigned, completed>>
    BY <1>2, <1>a, ReadsOf DEF MaterialBid, Reads, logVars
  <2>2. PICK e \in Equipment, r \in Nat : e = Next1(m).eq /\ r = Next1(m).rnd
    BY <2>1, EquipmentFields
  <2>3. /\ \A act \in DealActions : Between(act, e, r, m) \in Message
        /\ \A act : /\ Between(act, e, r, m).act = act /\ Between(act, e, r, m).eq = e
                    /\ Between(act, e, r, m).mat = m
    BY <2>2, DealMessage DEF Between
  <2>4. Plain("PING") \in Message /\ Plain("PING").act = "PING"
    BY PlainMessage DEF Plain, Broadcasts
  <2>5. PICK readers, msg :
          /\ msg \in Message /\ Brings(inbox', readers, msg)
          /\ msg.act # "ASKCONFIRM" /\ \A b \in readers : b \in Agent => Fits(b, msg)'
    <3>1. CASE assigned[m] # None
      <4>1. inbox' = Post(Consume(m), {e}, Between("ASSIGNED", e, r, m))
        BY <1>2, <2>2, <3>1 DEF MaterialBid
      <4>2. Brings(inbox', {e}, Between("ASSIGNED", e, r, m))
        BY <1>a, <2>1, <2>3, <4>1, ReadBrings DEF DealActions
      <4> QED
        BY <2>3, <4>2 DEF Fits, DealActions
    <3>2. CASE assigned[m] = None /\ e \in Allowed[m]
      <4>1. inbox' = Post(Consume(m), {e}, Between("COUNTERBID", e, r, m))
        BY <1>2, <2>2, <3>2 DEF MaterialBid
      <4>2. Brings(inbox', {e}, Between("COUNTERBID", e, r, m))
        BY <1>a, <2>1, <2>3, <4>1, ReadBrings DEF DealActions
      <4>3. Fits(e, Between("COUNTERBID", e, r, m))'
        BY <2>3, <3>2 DEF Fits
      <4> QED
        BY <2>3, <4>2, <4>3 DEF DealActions
    <3>3. CASE assigned[m] = None /\ e \notin Allowed[m]
      <4>1. inbox' = Consume(m)
        BY <1>2, <2>2, <3>3 DEF MaterialBid
      <4>2. Brings(inbox', {}, Plain("PING"))
        BY <1>a, <2>1, <4>1, ReadBrings
      <4> QED
        BY <2>4, <4>2
    <3> QED
      BY <3>1, <3>2, <3>3
  <2> QED
    BY <2>1, <2>5, TellingTurn
<1>3. CASE MaterialAskConfirm(m)
  BY <1>3, CommitTurn
<1>4. CASE MaterialAnnounce(m)
  <2> DEFINE told == Between("ASSIGNEDOTHERS", assigned[m][1], assigned[m][2], m)
  <2>1. /\ inbox' = Leave(Post(inbox, Equipment, told), m) /\ Ends(m)
        /\ UNCHANGED <<round, pending, tons, bids, assigned, completed>>
    BY <1>4 DEF MaterialAnnounce, equipmentVars, logVars
  <2>2. assigned[m] \in Equipment \X Nat
    BY <1>4, <1>a DEF MaterialAnnounce, TypeInv, TypeOK, Announcers
  <2>3. told \in Message /\ told.act = "ASSIGNEDOTHERS"
    BY <2>2, DealMessage DEF DealActions, Between
  <2> HIDE DEF told
  <2>4. Brings(inbox', Equipment, told)
    BY <1>a, <2>1, <2>3, SendBrings
  <2>5. /\ \A e \in Equipment : stage'[e] = stage[e]
        /\ \A n \in Material : Undecided(n)' => Undecided(n)
    BY <1>a, <2>1, StageOf, AgentKinds DEF Ends, Undecided
  <2>6. BidsAllowed'
    BY <2>1 DEF TurnInv, BidsAllowed
  <2> QED
    BY <2>1, <2>3, <2>4, <2>5, <2>6, IdleTurn DEF Fits
<1>5. CASE HandleExit(m)
  BY <1>5, <1>a, ContainerTurn
<1> QED
  BY <1>1, <1>2, <1>3, <1>4, <1>5 DEF MaterialStep

-----------------------------------------------------------------------------
(* Steps of an equipment: it asks, counts what it is confirmed, and closes. *)

LEMMA NothingOnItsWay ==
  ASSUME TypeInv, NEW e \in Equipment,
         pending[e] = None \/ assigned[pending[e]] # <<e, round[e]>>
  PROVE  OnItsWay(e) = 0
BY DEF OnItsWay

(* A material that is confirmed is the last e has been given.               *)
LEMMA ConfirmTurn ==
  ASSUME TypeInv, ProtocolInv, TurnInv, NEW e \in Equipment, EquipmentConfirm(e)
  PROVE  Onward
<1>1. /\ e \in Agent /\ stage[e] = "running" /\ inbox[e] # <<>>
      /\ Next1(e) \in Elems(inbox[e]) /\ Next1(e) \in Message /\ Next1(e).act = "CONFIRM"
  BY AgentKinds, BoxesOf, ReadsOf, ConsumeElems DEF EquipmentConfirm, Receives, Reads
<1>2. PICK m \in Material : m = Next1(e).mat
  BY <1>1, DealFields DEF DealActions
<1>3. pending[e] = m /\ Silent(e)
  BY <1>2, ConfirmRead DEF EquipmentConfirm, Receives
<1>4. assigned[m] = <<e, round[e]>>
  <2>1. Next1(e).eq = e /\ Next1(e).rnd = round[e]
    BY <1>1 DEF ProtocolInv, AskInv, Replies
  <2> QED
    BY <1>1, <1>2, <2>1 DEF ProtocolInv, AskInv, Told, Truthful, Name
<1>5. /\ round \in [Equipment -> Nat] /\ tons \in [Equipment -> Nat] /\ stage \in [Agent -> Stage]
      /\ bids \in [Equipment -> SUBSET Bid] /\ pending \in [Equipment -> Material \cup {None}]
      /\ Tons[m] \in Nat /\ Target[e] \in Nat /\ m # None
  BY DataAssumption, AgentsAssumption DEF TypeInv, TypeOK, Agent
<1>6. OnItsWay(e) = Tons[m]
  BY <1>1, <1>3, <1>4, <1>5 DEF OnItsWay
<1> DEFINE total == tons[e] + Tons[m]
<1>7. tons' = [tons EXCEPT ![e] = total] /\ UNCHANGED <<assigned, completed>>
  BY <1>2 DEF EquipmentConfirm, logVars
<1>8. CASE HasEnough(e, total)
  <2> DEFINE farewell == OfEquipment("EQUIPMENTFINISHED", e)
  <2>1. /\ inbox' = Leave(Post(inbox, {LogAgent}, farewell), e) /\ Ends(e)
        /\ UNCHANGED <<round, bidding, bids, pending>>
    BY <1>2, <1>8 DEF EquipmentConfirm
  <2>2. farewell \in Message /\ farewell.act = "EQUIPMENTFINISHED"
    BY OfEquipmentMessage DEF EquipmentActions, OfEquipment, TypeInv
  <2> HIDE DEF farewell
  <2>3. Brings(inbox', {LogAgent}, farewell)
    BY <1>1, <2>1, <2>2, SendBrings
  <2>4. /\ \A f \in Equipment : stage'[f] = IF f = e THEN "ended" ELSE stage[f]
        /\ \A n \in Material : Undecided(n)' => Undecided(n)
    BY <1>1, <1>5, <2>1, AgentKinds DEF Ends, Undecided
  <2>5. EachFits' /\ AskersStay'
    BY <1>3, <1>7, <2>2, <2>3, <2>4, TopicTurn DEF Fits
  <2>6. BidsAllowed' /\ OneARound' /\ StillWants'
    BY <1>5, <1>7, <2>1, <2>4 DEF TurnInv, BidsAllowed, OneARound, Owns, StillWants
  <2>7. \A f \in Equipment : tons'[f] + OnItsWay(f)' = tons[f] + OnItsWay(f)
    <3>1. OnItsWay(e)' = 0
      BY <2>4 DEF OnItsWay
    <3>2. tons'[e] + OnItsWay(e)' = tons[e] + OnItsWay(e)
      BY <1>5, <1>6, <1>7, <3>1
    <3>3. ASSUME NEW f \in Equipment, f # e PROVE tons'[f] = tons[f] /\ OnItsWay(f)' = OnItsWay(f)
      BY <1>5, <1>7, <2>1, <2>4, <3>3 DEF OnItsWay
    <3> QED
      BY <3>2, <3>3
  <2>8. Abstract!Close(e)
    BY <1>1, <1>7, <2>1, <2>7, ClosingStep
  <2> QED
    BY <2>5, <2>6, <2>8 DEF Onward, TurnInv, Abstract!Next
<1>9. CASE ~HasEnough(e, total)
  <2> DEFINE bid == Between("BID", e, NextRound(e), None)
  <2>1. /\ round' = [round EXCEPT ![e] = NextRound(e)] /\ bids' = [bids EXCEPT ![e] = {}]
        /\ pending' = [pending EXCEPT ![e] = None] /\ stage' = stage
        /\ inbox' = Post(Consume(e), Material, bid)
    BY <1>2, <1>9 DEF EquipmentConfirm
  <2>2. NextRound(e) = round[e] + 1 /\ NextRound(e) \in Nat /\ total < Target[e]
    BY <1>5, <1>9 DEF NextRound, HasEnough
  <2>3. bid \in Message /\ bid.act = "BID"
    BY <2>2, EquipmentMessage DEF EquipmentActions, Between
  <2> HIDE DEF bid
  <2>4. Brings(inbox', Material, bid)
    BY <1>1, <2>1, <2>3, ReadBrings
  <2>5. EachFits' /\ AskersStay'
    BY <1>7, <2>1, <2>3, <2>4, TopicTurn DEF Fits, Undecided
  <2>6. BidsAllowed'
    BY <1>5, <2>1 DEF TurnInv, BidsAllowed
  <2>7. OneARound'
    <3> SUFFICES ASSUME NEW f \in Equipment, NEW n \in Material, Owns(f, n)
                 PROVE  \/ assigned[n][2] < round'[f]
                        \/ assigned[n] = <<f, round'[f]>> /\ pending'[f] = n
      BY <1>7 DEF OneARound, Owns
    <3>1. \/ assigned[n][2] < round[f]
          \/ assigned[n] = <<f, round[f]>> /\ pending[f] = n
      BY DEF TurnInv, OneARound
    <3>2. assigned[n][2] \in Nat
      BY DEF Owns, TypeInv, TypeOK
    <3>3. CASE f = e
      BY <1>5, <2>1, <2>2, <3>1, <3>2, <3>3
    <3>4. CASE f # e
      BY <1>5, <2>1, <3>1, <3>4
    <3> QED
      BY <3>3, <3>4
  <2>8. StillWants'
    BY <1>5, <1>7, <2>1, <2>2 DEF TurnInv, StillWants
  <2>9. \A f \in Equipment : tons'[f] + OnItsWay(f)' = tons[f] + OnItsWay(f)
    <3>1. OnItsWay(e)' = 0
      BY <1>5, <2>1 DEF OnItsWay
    <3>2. tons'[e] + OnItsWay(e)' = tons[e] + OnItsWay(e)
      BY <1>5, <1>6, <1>7, <3>1
    <3>3. ASSUME NEW f \in Equipment, f # e PROVE tons'[f] = tons[f] /\ OnItsWay(f)' = OnItsWay(f)
      BY <1>5, <1>7, <2>1, <3>3 DEF OnItsWay
    <3> QED
      BY <3>2, <3>3
  <2>10. UNCHANGED Abstract!vars
    BY <1>7, <2>1, <2>9, UnseenStep
  <2> QED
    BY <2>5, <2>6, <2>7, <2>8, <2>10 DEF Onward, TurnInv
<1> QED
  BY <1>8, <1>9

LEMMA AskBestTurn ==
  ASSUME TypeInv, ProtocolInv, TurnInv, Undisturbed, NEW e \in Equipment, AskBest(e)
  PROVE  Onward
<1>1. PICK b \in bids[e] :
        /\ bids' = [bids EXCEPT ![e] = @ \ {b}]
        /\ pending' = [pending EXCEPT ![e] = b.mat]
        /\ inbox' = Post(inbox, NameCovers[b.mat], Between("ASKCONFIRM", e, round[e], b.mat))
  BY DEF AskBest
<1>2. /\ round[e] \in Nat /\ bids \in [Equipment -> SUBSET Bid]
      /\ pending \in [Equipment -> Material \cup {None}]
  BY DEF TypeInv, TypeOK
<1>3. PICK m \in Material : m = b.mat /\ m # None /\ e \in Allowed[m]
  BY <1>2, AgentsAssumption DEF Bid, Agent, TurnInv, BidsAllowed
<1>4. PICK ask \in Message :
        /\ ask.act = "ASKCONFIRM" /\ ask.eq = e /\ ask.mat = m
        /\ inbox' = Post(inbox, {m}, ask)
  BY <1>1, <1>2, <1>3, DealMessage DEF DealActions, Between, Undisturbed, DistinctNames
<1>5. /\ stage[e] = "running" /\ pending[e] = None
      /\ UNCHANGED <<stage, round, tons, assigned, completed>>
  BY DEF AskBest, WaitIsOver, logVars
<1>6. Brings(inbox', {m}, ask)
  BY <1>4, AgentKinds, SendBrings
<1>7. EachFits' /\ AskersStay'
  BY <1>3, <1>4, <1>5, <1>6, TopicTurn DEF Fits, Undecided
<1>8. BidsAllowed'
  BY <1>1, <1>2 DEF TurnInv, BidsAllowed
<1>9. \A n \in Material : Owns(e, n) => assigned[n][2] < round[e]
  BY <1>5, AgentKinds, AgentsAssumption DEF TurnInv, OneARound
<1>10. OneARound' /\ StillWants'
  BY <1>1, <1>2, <1>5, <1>9 DEF TurnInv, OneARound, Owns, StillWants
<1>11. OnItsWay(e) = 0 /\ OnItsWay(e)' = 0
  <2>1. assigned[m] # <<e, round[e]>>
    <3> SUFFICES ASSUME assigned[m] = <<e, round[e]>> PROVE FALSE
      OBVIOUS
    <3>1. Owns(e, m)
      BY <1>2, AgentsAssumption DEF Owns
    <3> QED
      BY <1>2, <1>9, <3>1
  <2> QED
    BY <1>1, <1>2, <1>3, <1>5, <2>1 DEF OnItsWay
<1>12. \A f \in Equipment : OnItsWay(f)' = OnItsWay(f)
  <2>1. ASSUME NEW f \in Equipment, f # e PROVE OnItsWay(f)' = OnItsWay(f)
    BY <1>1, <1>2, <1>5, <2>1 DEF OnItsWay
  <2> QED
    BY <1>11, <2>1
<1>13. UNCHANGED Abstract!vars
  BY <1>5, <1>12, UnseenStep
<1> QED
  BY <1>7, <1>8, <1>10, <1>13 DEF Onward, TurnInv

(* Only an order that went elsewhere is taken off the one e waits for.      *)
LEMMA AssignedTurn ==
  ASSUME TypeInv, ProtocolInv, TurnInv, NEW e \in Equipment, EquipmentAssigned(e)
  PROVE  Onward
<1>1. /\ e \in Agent /\ inbox[e] # <<>> /\ stage[e] = "running"
      /\ Next1(e) \in Elems(inbox[e]) /\ Next1(e) \in Message
      /\ Next1(e).act \in {"ASSIGNED", "ASSIGNEDOTHERS"} /\ AddressedTo(e, Next1(e))
      /\ UNCHANGED <<stage, round, tons, assigned, completed>> /\ inbox' = Consume(e)
  BY AgentKinds, BoxesOf, ReadsOf, ConsumeElems DEF EquipmentAssigned, Receives, Reads, logVars
<1>2. Next1(e).act = "ASSIGNEDOTHERS" /\ assigned[Next1(e).mat] = <<Next1(e).eq, Next1(e).rnd>>
  BY <1>1 DEF ProtocolInv, AskInv, Told, Truthful, Name
<1>3. PICK m \in Material : m = Next1(e).mat
  BY <1>2, <1>1, DealFields DEF DealActions
<1>4. assigned[m] # <<e, round[e]>>
  <2>1. ~ (Next1(e).eq = e /\ Next1(e).rnd = round[e])
    BY <1>1, <1>2 DEF AddressedTo, RoundMatches
  <2> QED
    BY <1>2, <1>3, <2>1
<1>5. /\ bids \in [Equipment -> SUBSET Bid] /\ pending \in [Equipment -> Material \cup {None}]
      /\ m # None
  BY AgentsAssumption DEF TypeInv, TypeOK, Agent
<1>6. Plain("PING") \in Message /\ Plain("PING").act = "PING" /\ Brings(inbox', {}, Plain("PING"))
  BY <1>1, ReadBrings, PlainMessage DEF Plain, Broadcasts
<1>7. CASE pending[e] = m
  <2>1. pending' = [pending EXCEPT ![e] = None] /\ bids' = bids
    BY <1>3, <1>7 DEF EquipmentAssigned
  <2>2. EachFits' /\ AskersStay'
    BY <1>1, <1>6, TopicTurn DEF Undecided
  <2>3. BidsAllowed' /\ StillWants'
    BY <1>1, <2>1 DEF TurnInv, BidsAllowed, StillWants
  <2>4. OneARound'
    BY <1>1, <1>4, <1>5, <1>7, <2>1 DEF TurnInv, OneARound, Owns
  <2>5. \A f \in Equipment : OnItsWay(f)' = OnItsWay(f)
    <3>1. OnItsWay(e)' = OnItsWay(e)
      BY <1>1, <1>4, <1>5, <1>7, <2>1 DEF OnItsWay
    <3>2. ASSUME NEW f \in Equipment, f # e PROVE OnItsWay(f)' = OnItsWay(f)
      BY <1>1, <1>5, <2>1, <3>2 DEF OnItsWay
    <3> QED
      BY <3>1, <3>2
  <2>6. UNCHANGED Abstract!vars
    BY <1>1, <2>5, UnseenStep
  <2> QED
    BY <2>2, <2>3, <2>4, <2>6 DEF Onward, TurnInv
<1>8. CASE pending[e] # m
  <2>1. pending' = pending /\ \E gone : bids' = [bids EXCEPT ![e] = @ \ gone]
    BY <1>3, <1>8 DEF EquipmentAssigned
  <2>2. BidsAllowed'
    BY <1>5, <2>1 DEF TurnInv, BidsAllowed
  <2> QED
    BY <1>1, <1>6, <2>1, <2>2, IdleTurn DEF Undecided
<1> QED
  BY <1>7, <1>8

LEMMA NoMoreBidsTurn ==
  ASSUME TypeInv, ProtocolInv, TurnInv, NEW e \in Equipment, NoMoreBids(e)
  PROVE  Onward
<1> DEFINE farewell == OfEquipment("EQUIPMENTFINISHED", e)
<1>1. /\ e \in Agent /\ stage[e] = "running" /\ pending[e] = None /\ Ends(e)
      /\ inbox' = Leave(Post(inbox, {LogAgent}, farewell), e)
      /\ UNCHANGED <<round, pending, tons, bids, assigned, completed>>
  BY AgentKinds DEF NoMoreBids, WaitIsOver, equipmentVars, logVars
<1>2. Silent(e)
  BY <1>1, SilentWhenDecided, AgentKinds, AgentsAssumption DEF ProtocolInv
<1>3. farewell \in Message /\ farewell.act = "EQUIPMENTFINISHED"
  BY OfEquipmentMessage DEF EquipmentActions, OfEquipment, TypeInv
<1> HIDE DEF farewell
<1>4. Brings(inbox', {LogAgent}, farewell)
  BY <1>1, <1>3, SendBrings
<1>5. /\ \A f \in Equipment : stage'[f] = IF f = e THEN "ended" ELSE stage[f]
      /\ \A n \in Material : Undecided(n)' => Undecided(n)
  BY <1>1, StageOf, AgentKinds DEF Ends, Undecided
<1>6. EachFits' /\ AskersStay'
  BY <1>1, <1>2, <1>3, <1>4, <1>5, TopicTurn DEF Fits
<1>7. BidsAllowed' /\ OneARound' /\ StillWants'
  BY <1>1, <1>5 DEF TurnInv, BidsAllowed, OneARound, Owns, StillWants
<1>8. \A f \in Equipment : OnItsWay(f)' = OnItsWay(f)
  BY <1>1, <1>5 DEF OnItsWay
<1>9. Abstract!Close(e)
  BY <1>1, <1>8, ClosingStep
<1> QED
  BY <1>6, <1>7, <1>9 DEF Onward, TurnInv, Abstract!Next

LEMMA EquipmentTurn ==
  ASSUME TypeInv, ProtocolInv, TurnInv, Undisturbed, NEW e \in Equipment,
         EquipmentStep(e) \/ AskBest(e) \/ NoMoreBids(e)
  PROVE  Onward
<1>a. /\ e \in Agent /\ \A act \in {"PINGANSWER", "BID"} :
                          OfEquipment(act, e) \in Message /\ OfEquipment(act, e).act = act
  BY AgentKinds, OfEquipmentMessage DEF EquipmentActions, OfEquipment, TypeInv
<1>b. Plain("PING") \in Message /\ Plain("PING").act = "PING"
  BY PlainMessage DEF Plain, Broadcasts
<1>1. CASE AnswerPing(e, OfEquipment("PINGANSWER", e))
  BY <1>1, <1>a, PingTurn
<1>2. CASE EquipmentStart(e)
  <2>1. /\ UNCHANGED <<stage, round, pending, tons, bids, assigned, completed>>
        /\ Brings(inbox', Material, OfEquipment("BID", e))
    BY <1>2, <1>a, ReadBrings DEF EquipmentStart, Receives, Reads, logVars
  <2>2. BidsAllowed'
    BY <2>1 DEF TurnInv, BidsAllowed
  <2> QED
    BY <1>a, <2>1, <2>2, IdleTurn DEF Fits, Undecided
<1>3. CASE EquipmentCounterbid(e)
  <2>1. /\ inbox[e] # <<>> /\ Next1(e) \in Elems(inbox[e]) /\ Next1(e).act = "COUNTERBID"
        /\ UNCHANGED <<stage, round, pending, tons, assigned, completed>> /\ inbox' = Consume(e)
    BY <1>3, <1>a, BoxesOf, ConsumeElems DEF EquipmentCounterbid, Receives, Reads, logVars
  <2>2. e \in Allowed[Next1(e).mat]
    BY <1>a, <2>1 DEF TurnInv, EachFits, Fits
  <2>3. BidsAllowed'
    <3>1. CASE bids' = bids
      BY <3>1 DEF TurnInv, BidsAllowed
    <3>2. CASE bids' = [bids EXCEPT ![e] = @ \cup {[mat |-> Next1(e).mat, rnd |-> Next1(e).rnd]}]
      <4>1. bids \in [Equipment -> SUBSET Bid]
        BY DEF TypeInv, TypeOK
      <4>2. ASSUME NEW f \in Equipment, NEW b \in bids'[f]
            PROVE  b \in bids[f] \/ (f = e /\ b.mat = Next1(e).mat)
        BY <3>2, <4>1, <4>2
      <4> QED
        BY <2>2, <4>2 DEF TurnInv, BidsAllowed
    <3> QED
      BY <1>3, <3>1, <3>2 DEF EquipmentCounterbid
  <2>4. Brings(inbox', {}, Plain("PING"))
    BY <1>a, <2>1, ReadBrings
  <2> QED
    BY <1>b, <2>1, <2>3, <2>4, IdleTurn DEF Undecided
<1>4. CASE EquipmentConfirmError(e)
  BY <1>4, ConfirmRead DEF EquipmentConfirmError, Receives
<1>5. CASE EquipmentIgnores(e)
  <2>1. /\ UNCHANGED <<stage, equipmentVars, assigned, completed>>
        /\ Brings(inbox', {}, Plain("PING"))
    BY <1>5, <1>a, ReadBrings DEF EquipmentIgnores, logVars
  <2> QED
    BY <1>b, <2>1, TellingTurn
<1>6. CASE HandleExit(e)
  BY <1>6, <1>a, ContainerTurn
<1> QED
  BY <1>1, <1>2, <1>3, <1>4, <1>5, <1>6, ConfirmTurn, AskBestTurn, AssignedTurn,
     NoMoreBidsTurn DEF EquipmentStep

-----------------------------------------------------------------------------
LEMMA InitTurn == Init => TurnInv /\ Abstract!Init
<1> SUFFICES ASSUME Init PROVE TurnInv /\ Abstract!Init
  OBVIOUS
<1>1. /\ \A a \in Agent : Elems(inbox[a]) = {} /\ stage[a] = "absent"
      /\ \A e \in Equipment : /\ round[e] = 0 /\ bids[e] = {} /\ pending[e] = None /\ tons[e] = 0
                              /\ stage[e] = "absent"
      /\ \A m \in Material : assigned[m] = None
  BY AgentKinds DEF Init, Elems
<1>2. TurnInv
  BY <1>1, AgentKinds DEF TurnInv, EachFits, BidsAllowed, AskersStay, OneARound, Owns, StillWants
<1>3. Abstract!Init
  <2>1. /\ \A m \in Material : (IF assigned[m] = None THEN None ELSE assigned[m][1]) = None
        /\ \A e \in Equipment : tons[e] + OnItsWay(e) = 0 /\ (stage[e] = "ended") = FALSE
    BY <1>1 DEF OnItsWay
  <2> QED
    BY <2>1 DEF Abstract!Init
<1> QED
  BY <1>2, <1>3

LEMMA NextTurn ==
  ASSUME TypeInv, ProtocolInv, TurnInv, Undisturbed, [Next]_vars
  PROVE  Onward
<1>1. CASE Next
  BY <1>1, ContainerTurn, EquipmentTurn, MaterialTurn, LogTurn, UXTurn DEF Next
<1>2. CASE UNCHANGED vars
  <2>1. /\ UNCHANGED <<stage, equipmentVars, assigned, completed>> /\ inbox' = inbox
        /\ Plain("PING") \in Message /\ Plain("PING").act = "PING"
    BY <1>2, PlainMessage DEF vars, logVars, Plain, Broadcasts
  <2>2. Brings(inbox', {}, Plain("PING"))
    BY <2>1, AgentKinds, SendBrings
  <2> QED
    BY <2>1, <2>2, TellingTurn
<1> QED
  BY <1>1, <1>2

(* If no name begins another's, no container dies and the UX does not end   *)
(* the auction, what its agents do with their messages is what Assignment   *)
(* says, step by step: an order that commits goes to a line it may be       *)
(* processed on, that is still there, and that has not reached its tonnage  *)
(* unless the order is its first.                                           *)
THEOREM AuctionIsAssignment == Undisturbed /\ Spec => Abstract!Steps
<1>1. CASE Undisturbed
  <2>1. TypeInv /\ ProtocolInv /\ TurnInv /\ [Next]_vars
          => TurnInv' /\ [Abstract!Next]_(Abstract!vars)
    BY <1>1, NextTurn DEF Onward
  <2>2. Spec => []ProtocolInv
    BY <1>1, ProtocolInvariant DEF Undisturbed
  <2> QED
    BY <2>1, <2>2, InitTurn, TypeInvariant, PTL DEF Spec, Abstract!Steps
<1>2. CASE ~Undisturbed
  BY <1>2
<1> QED
  BY <1>1, <1>2
=============================================================================
