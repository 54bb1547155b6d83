------------------------ MODULE ClientAndContainers ------------------------
(***************************************************************************)
(* Two parts of the short term planning that share no state: the pages of  *)
(* the users (AuctionClient), and the containers (Containers).  The initial *)
(* state chooses which of them a behaviour is about; the variables of the   *)
(* other one stay None.                                                    *)
(***************************************************************************)
EXTENDS Naturals, FiniteSets

CONSTANTS
  None,
  Page, Name, AgentKind, FirstField, Limits,               \* of the pages
  Worker, Parent, Replica, Topic, ParentOf, TopicOf,             \* of the containers
  WorkerLimit, MaxAllowed, MaxRequests, MaxOutages

VARIABLES
  part,
  limits, field, page, told, op, clicks, general, auctionTopics, inbox, exits, agents, log, callbacks, used,
  remote, container, reachable, topics, requests, asked, launch, sweep, cursor, outages

clientVars == <<limits, field, page, told, op, clicks, general, auctionTopics, inbox, exits, agents, log, callbacks, used>>
containerVars == <<remote, container, reachable, topics, requests, asked, launch, sweep, cursor, outages>>
vars == <<part, clientVars, containerVars>>

Client == INSTANCE AuctionClient WITH Replica <- AgentKind, topics <- auctionTopics
Docker == INSTANCE Containers

ASSUME ShortTermAssumption == Client!ClientAssumption /\ Docker!ContainersAssumption

NoClient ==
  /\ limits = None /\ field = None /\ page = None /\ told = None /\ op = None /\ clicks = None
  /\ general = None /\ auctionTopics = None /\ inbox = None /\ exits = None /\ agents = None
  /\ log = None /\ callbacks = None /\ used = None
NoDocker ==
  /\ remote = None /\ container = None /\ reachable = None /\ topics = None /\ requests = None
  /\ asked = None /\ launch = None /\ sweep = None /\ cursor = None /\ outages = None

IsClient == part = "client"
IsDocker == part = "docker"

Init ==
  \/ part = "client" /\ Client!Init /\ NoDocker
  \/ part = "docker" /\ Docker!Init /\ NoClient

Next ==
  \/ IsClient /\ Client!Next /\ UNCHANGED <<part, containerVars>>
  \/ IsDocker /\ Docker!Next /\ UNCHANGED <<part, clientVars>>

(* The fairness of both parts.                                              *)
Launching(p) == IsDocker /\ Docker!Launching(p) /\ UNCHANGED <<part, clientVars>>
ListTopics(p) == IsDocker /\ Docker!ListTopics(p) /\ UNCHANGED <<part, clientVars>>
Sweeping(p) == IsDocker /\ Docker!Sweeping(p) /\ UNCHANGED <<part, clientVars>>
Find(w) == IsDocker /\ Docker!Find(w) /\ UNCHANGED <<part, clientVars>>
TimePasses(w, n) == IsDocker /\ Docker!TimePasses(w, n) /\ UNCHANGED <<part, clientVars>>
Work(p) == IsClient /\ Client!Work(p) /\ UNCHANGED <<part, containerVars>>

Fairness ==
  /\ \A p \in Page : WF_vars(Work(p))
  /\ \A p \in Parent : WF_vars(Launching(p)) /\ SF_vars(ListTopics(p)) /\ WF_vars(Sweeping(p))
  /\ \A w \in Worker : WF_vars(Find(w)) /\ \A n \in Replica : WF_vars(TimePasses(w, n))

Spec == Init /\ [][Next]_vars /\ Fairness

-----------------------------------------------------------------------------
(* Every variable keeps its type.                                           *)
ClientAndContainersTypeOK ==
  (IsClient => Client!ClientTypeOK) /\ (IsDocker => Docker!ContainersTypeOK)

(* A page learns the state and the results of its own auction only.         *)
LearnsOfItsAuction == IsClient => Client!LearnsOfItsAuction

(* A replica does not run twice in the fleet.                               *)
OneContainerPerReplica == IsDocker => Docker!OneContainerPerReplica

(* Starting an auction comes to an end.                                     *)
StartEnds ==
  \A p \in Page :
    (IsClient /\ op[p].at \in {"poll", "listen"}) ~> (IsClient /\ op[p] = Client!Idle)

(* A replica that has started is not kept for ever when its topic is gone.  *)
LonelyReplicasEnd ==
  \A w \in Worker, n \in Replica :
    (IsDocker /\ Docker!Lonely(w, n)) ~> (IsDocker /\ ~Docker!Lonely(w, n))
=============================================================================
