------------------------- MODULE AuctionProperties -------------------------
(***************************************************************************)
(* What one auction promises: to the user who reads its results, to the    *)
(* equipments that wait for an answer, and to the operator who wants every *)
(* container of it gone.                                                   *)
(***************************************************************************)
EXTENDS Auction, FiniteSetsExt

Stage == {"absent", "running", "announcing", "ended"}
Bid == [mat : Material, rnd : Nat]
Results == [Equipment -> Seq(Bid)]

(* Every variable keeps the type of the field of the agent it stands for.   *)
TypeOK ==
  /\ inbox \in [Agent -> Seq(Message)]
  /\ stage \in [Agent -> Stage]
  /\ round \in [Equipment -> Nat]
  /\ bidding \in [Equipment -> BOOLEAN]
  /\ bids \in [Equipment -> SUBSET Bid]
  /\ pending \in [Equipment -> Material \cup {None}]
  /\ tons \in [Equipment -> Nat]
  /\ assigned \in [Material -> (Equipment \X Nat) \cup {None}]
  /\ checked \in BOOLEAN /\ started \in BOOLEAN /\ completed \in BOOLEAN
  /\ endRequested \in BOOLEAN /\ failed \in BOOLEAN
  /\ present \in SUBSET Agent
  /\ finished \in SUBSET Equipment
  /\ results \in Results
  /\ served \in Results \cup {None}
  /\ exiting \in SUBSET {LogAgent, UX}
  /\ checkSent \in BOOLEAN /\ asks \in Nat /\ ended \in BOOLEAN
  /\ crashes \in Nat

-----------------------------------------------------------------------------
InResults(res) ==
  UNION {{res[e][i].mat : i \in DOMAIN res[e]} : e \in Equipment}
Committed == {m \in Material : assigned[m] # None}
Confirms(a) == {i \in DOMAIN inbox[a] : inbox[a][i].act = "CONFIRM"}
ExitIsComing(a) == \E msg \in Unread(a) : msg.act = "EXIT"
AllEnded == \A a \in Agent : stage[a] = "ended"

(* No order stands twice in the results the LOG serves, be it under two     *)
(* equipments or twice under one: what several equipments asked for and     *)
(* several answers crossed on the topic is still planned once.              *)
OrderHasOneOwner ==
  \A e, f \in Equipment : \A i \in DOMAIN results[e], j \in DOMAIN results[f] :
    results[e][i].mat = results[f][j].mat => e = f /\ i = j

(* Every confirmation an equipment has still to read answers the question   *)
(* it waits on, in the round it is in, and there is at most one of them:    *)
(* handle_confirm never meets a sender that was not asked.                  *)
OnlyTheAskedConfirms ==
  \A e \in Equipment : stage[e] = "running" =>
    /\ Cardinality(Confirms(e)) <= 1
    /\ \A i \in Confirms(e) :
         inbox[e][i].mat = pending[e] /\ inbox[e][i].rnd = round[e]

(* An equipment that waits for a material is never forgotten: the question  *)
(* is on its way to a living material, or an answer is on its way back, or  *)
(* the material took another equipment and is about to tell everyone, or    *)
(* the equipment is being told to exit.  A material ends as soon as it has  *)
(* committed, so the questions it leaves unread depend on its announcement. *)
Answers(e, msg) ==
  /\ msg.mat = pending[e]
  /\ msg.act \in {"CONFIRM", "ASSIGNED", "ASSIGNEDOTHERS"}
  /\ AddressedTo(e, msg)

AskIsAnswered ==
  \A e \in Equipment :
    stage[e] = "running" /\ pending[e] # None =>
      LET m == pending[e]
      IN \/ \E msg \in Unread(e) : Answers(e, msg)
         \/ /\ stage[m] \in {"absent", "running"}
            /\ \E msg \in Unread(m) : msg.act = "ASKCONFIRM" /\ Name(msg) = <<e, round[e]>>
         \/ stage[m] = "announcing" /\ assigned[m][1] # e
         \/ ExitIsComing(e)

Recorded(res) ==
  UNION {{<<res[e][i].mat, <<e, res[e][i].rnd>>>> : i \in DOMAIN res[e]} : e \in Equipment}
Settled == {<<m, assigned[m]>> : m \in Committed}

(* When the LOG holds the auction for complete every equipment has left it  *)
(* and the results name exactly the orders that committed, each under the   *)
(* equipment and the round it committed to.                                 *)
CompletedIsComplete ==
  completed => /\ \A e \in Equipment : stage[e] = "ended"
               /\ Recorded(results) = Settled

(* The LOG ends an auction by itself only after it has served results that  *)
(* lack no order: a user who asked too early, and asks again, loses none.   *)
ServedIsComplete == endRequested => Recorded(served) = Settled

(* From completion on no order commits any more and no result changes.      *)
FinalResults == [][completed => UNCHANGED <<assigned, results>>]_vars

(* No equipment bids before the LOG, every equipment and every material     *)
(* have come up: a late container misses no round of the auction.           *)
NobodyMissesTheStart ==
  (\E e \in Equipment : bidding[e]) => \A a \in Agent : stage[a] # "absent"

(* Left to itself, an auction comes to its completion: equipments never     *)
(* wait on one another for ever.                                            *)
AuctionCompletes == <>completed

(* Once the UX, or the LOG after the results or after an error, has ended   *)
(* the auction, every container of it terminates, whenever it came up.      *)
EndReachesAll == (ended \/ endRequested \/ failed) ~> AllEnded

(* An auction that nobody ends from outside implements Assignment: an order *)
(* is given when its material commits, and a line closes when its agent has *)
(* announced that it is finished and leaves the topic.  A line is given the *)
(* weight of an order when the order commits, and its agent counts it when  *)
(* it reads the confirmation: in between it is on its way.                  *)
OnItsWay(e) ==
  LET m == pending[e]
  IN IF stage[e] # "ended" /\ m # None /\ assigned[m] = <<e, round[e]>> THEN Tons[m] ELSE 0

Abstract == INSTANCE Assignment WITH
  owner <- [m \in Material |-> IF assigned[m] = None THEN None ELSE assigned[m][1]],
  load <- [e \in Equipment |-> tons[e] + OnItsWay(e)],
  closed <- [e \in Equipment |-> stage[e] = "ended"]

ImplementsAssignment == Abstract!Spec

(* handle_assigned "removes the material from the list of bids": an         *)
(* equipment that reads that a material is taken keeps no bid of it.        *)
AssignedLeavesNoBid ==
  [][\A e \in Equipment :
       EquipmentAssigned(e) /\ pending[e] # Next1(e).mat
         => \A b \in bids'[e] : b.mat # Next1(e).mat]_vars
=============================================================================
