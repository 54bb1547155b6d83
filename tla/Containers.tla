----------------------------- MODULE Containers -----------------------------
(***************************************************************************)
(* The containers of the agents: the base agents (parents) launch replicas *)
(* on the local Docker daemon or on a fleet of workers, and sweep away the  *)
(* replicas nobody needs.                                                  *)
(* (ShortTermPlanning/dynreact/shortterm/common/handler.py, remote_pool.py, *)
(*  agents/agent.py, agents/equipment.py)                                  *)
(*                                                                         *)
(* Every listing is a step of its own; between two of them replicas end,   *)
(* workers are lost and found, topics are deleted, and other parents       *)
(* launch.  Ages are stages: young, older than the topic grace, older than *)
(* the maximal age.  Owner labels are exact, since a name begins with the  *)
(* kind of its agent.  A daemon creates a container within the call, or    *)
(* never: a create that takes effect after its caller has given it up is   *)
(* not modelled.                                                           *)
(***************************************************************************)
EXTENDS Integers, FiniteSets

CONSTANTS
  None,
  Worker,       \* the workers of the profile; worker_endpoints
  Parent,       \* base agents
  Replica,      \* names of replicas
  Topic,        \* topics of auctions
  ParentOf,     \* [Replica -> Parent]
  TopicOf,      \* [Replica -> Topic]
  WorkerLimit,  \* DYNREACT_WORKER_LIMIT
  MaxAllowed,   \* containers a parent may own
  MaxRequests,  \* bound: CREATE messages
  MaxOutages    \* bound: workers lost

ContainersAssumption ==
  /\ IsFiniteSet(Worker)
  /\ ParentOf \in [Replica -> Parent] /\ TopicOf \in [Replica -> Topic]
  /\ WorkerLimit \in Nat \ {0} /\ MaxAllowed \in Nat /\ MaxRequests \in Nat /\ MaxOutages \in Nat

VARIABLES
  remote,      \* a fleet is configured; otherwise the local daemon, as a fleet of one
  container,   \* [worker -> [replica -> its container, or None]]
  reachable,   \* workers
  topics,      \* existing topics
  requests,    \* CREATE messages the parent has not read
  asked,       \* how many replicas have been asked for
  launch,      \* what a parent is launching
  sweep,       \* what a parent is sweeping
  cursor,      \* [parent -> where its next placement starts]
  outages

dockerVars == <<container, reachable, outages>>
vars == <<remote, dockerVars, topics, requests, asked, launch, sweep, cursor>>

Idle == [at |-> "idle"]
Stage == {"young", "grace", "old"}
Status == {"created", "running", "exited"}
New == [status |-> "created", age |-> "young", kept |-> FALSE]

(* worker_endpoints: the order in which workers are listed.                 *)
Order == CHOOSE o \in [Worker -> 0 .. Cardinality(Worker) - 1] :
           \A v, w \in Worker : o[v] = o[w] => v = w
Fleet == IF remote THEN Worker ELSE {w \in Worker : Order[w] = 0}

Holders(n) == {w \in Fleet : container[w][n] # None}
Owned(p) == {e \in Fleet \X Replica : ParentOf[e[2]] = p /\ container[e[1]][e[2]] # None}
Active(w) == {n \in Replica : container[w][n] # None /\ container[w][n].status \in {"created", "running"}}

(* RemoteDockerPool.list: one worker that cannot be inspected is an error.  *)
SkipsLost == TRUE
CanList == Fleet \subseteq reachable

Starting(p, what) == launch' = [launch EXCEPT ![p] = what]
LaunchEnds(p) == Starting(p, Idle)
Unreserved == UNCHANGED <<remote, topics, asked, sweep>>

-----------------------------------------------------------------------------
(* launch_container.  An exception ends the handler; the message has been   *)
(* committed, and the CREATE is lost.                                       *)
Take(p, n) ==
  /\ launch[p] = Idle /\ sweep[p] = Idle
  /\ n \in requests[p]
  /\ requests' = [requests EXCEPT ![p] = @ \ {n}]
  /\ IF CanList /\ Cardinality(Owned(p)) + 1 <= MaxAllowed
     THEN Starting(p, [at |-> "match", name |-> n])
     ELSE LaunchEnds(p)
  /\ UNCHANGED <<dockerVars, cursor>> /\ Unreserved

(* The daemon is asked by name.  Locally a container found is removed;      *)
(* remotely a running one is taken for the replica, a stopped one is an     *)
(* error, and so are two.                                                   *)
Known(n) == {w \in Holders(n) : w \in reachable}

Match(p) ==
  /\ launch[p].at = "match"
  /\ LET n == launch[p].name IN
     IF CanList /\ (~remote \/ Known(n) = {})
     THEN /\ container' = [w \in Worker |-> IF w \in Known(n) THEN [container[w] EXCEPT ![n] = None]
                                            ELSE container[w]]
          /\ Starting(p, [at |-> "place", name |-> n])
     ELSE UNCHANGED container /\ LaunchEnds(p)
  /\ UNCHANGED <<reachable, outages, requests, cursor>> /\ Unreserved

(* RemoteDockerPool.run: look on every worker again, then take the one with *)
(* the fewest containers below the limit, and the next in turn among these. *)
Turn(p, w) == (Order[w] - cursor[p]) % Cardinality(Worker)
BelowLimit(w) == Cardinality(Active(w)) < WorkerLimit
Candidates == {w \in Fleet : BelowLimit(w)}
Before(p, w, v) ==
  \/ Cardinality(Active(w)) < Cardinality(Active(v))
  \/ Cardinality(Active(w)) = Cardinality(Active(v)) /\ Turn(p, w) <= Turn(p, v)

Place(p) ==
  /\ launch[p].at = "place"
  /\ LET n == launch[p].name IN
     \/ /\ ~remote
        /\ Starting(p, [at |-> "run", name |-> n, worker |-> CHOOSE w \in Fleet : TRUE])
     \/ /\ remote /\ CanList /\ Known(n) = {} /\ Candidates # {}
        /\ Starting(p, [at |-> "run", name |-> n,
                        worker |-> CHOOSE w \in Candidates : \A v \in Candidates : Before(p, w, v)])
     \/ /\ remote /\ ~(CanList /\ Known(n) = {} /\ Candidates # {})
        /\ LaunchEnds(p)
  /\ UNCHANGED <<dockerVars, requests, cursor>> /\ Unreserved

(* containers.run creates the container and then starts it.  The worker     *)
(* refuses the name, or cannot be reached; or its answer is lost.           *)
Run(p) ==
  /\ launch[p].at = "run"
  /\ LET n == launch[p].name
         w == launch[p].worker
     IN IF w \in reachable /\ container[w][n] = None
        THEN /\ container' = [container EXCEPT ![w][n] = New]
             /\ LaunchEnds(p) \/ Starting(p, [at |-> "start", name |-> n, worker |-> w])
        ELSE UNCHANGED container /\ LaunchEnds(p)
  /\ UNCHANGED <<reachable, outages, requests, cursor>> /\ Unreserved

(* The start fails, and the container stays as it was created unless the    *)
(* daemon removes it; or it runs, and the answer may be lost.               *)
IsCreated(w, n) == container[w][n] # None /\ container[w][n].status = "created"

Start(p) ==
  /\ launch[p].at = "start"
  /\ LET n == launch[p].name
         w == launch[p].worker
     IN \/ /\ w \in reachable /\ IsCreated(w, n)
           /\ container' = [container EXCEPT ![w][n].status = "running"]
           /\ \/ cursor' = [cursor EXCEPT ![p] = IF remote THEN (Order[w] + 1) % Cardinality(Worker) ELSE @]
              \/ UNCHANGED cursor
        \/ /\ \/ container' = container
              \/ w \in reachable /\ IsCreated(w, n) /\ container' = [container EXCEPT ![w][n] = None]
           /\ UNCHANGED cursor
  /\ LaunchEnds(p)
  /\ UNCHANGED <<reachable, outages, requests>> /\ Unreserved

-----------------------------------------------------------------------------
(* reap_if_due and DockerManager.reap: the topics are listed (None when the *)
(* broker does not answer), then the containers, then each is judged by the *)
(* listing.                                                                 *)
ListTopics(p) ==
  /\ launch[p] = Idle /\ sweep[p] = Idle
  /\ \E known \in {topics, None} : sweep' = [sweep EXCEPT ![p] = [at |-> "list", topics |-> known]]
  /\ UNCHANGED <<remote, dockerVars, topics, requests, asked, launch, cursor>>

Listed(p) == {<<e[1], e[2], container[e[1]][e[2]]>> : e \in Owned(p)}

ListContainers(p) ==
  /\ sweep[p].at = "list"
  /\ sweep' = [sweep EXCEPT ![p] =
       IF CanList THEN [at |-> "remove", topics |-> @.topics, left |-> Listed(p)] ELSE Idle]
  /\ UNCHANGED <<remote, dockerVars, topics, requests, asked, launch, cursor>>

IsExited(c) == c.status = "exited" /\ ~c.kept
IsStuck(c) == c.status = "running" /\ c.age = "old"
Orphaned(known, n) == known # None /\ TopicOf[n] \notin known
IsOrphan(known, n, c) == c.status = "running" /\ Orphaned(known, n) /\ c.age # "young"
ExitedOrOrphan(known, n, c) == IsExited(c) \/ IsOrphan(known, n, c)
IsUseless(known, n, c) == IsExited(c) \/ IsStuck(c) \/ IsOrphan(known, n, c)

(* A worker that is lost now is skipped until the next sweep.               *)
Remove(p) ==
  /\ sweep[p].at = "remove"
  /\ IF sweep[p].left = {}
     THEN sweep' = [sweep EXCEPT ![p] = Idle] /\ UNCHANGED container
     ELSE \E e \in sweep[p].left :
            /\ sweep' = [sweep EXCEPT ![p].left = @ \ {e}]
            /\ container' = IF e[1] \in reachable /\ IsUseless(sweep[p].topics, e[2], e[3])
                            THEN [container EXCEPT ![e[1]][e[2]] = None] ELSE container
  /\ UNCHANGED <<remote, reachable, outages, topics, requests, asked, launch, cursor>>

-----------------------------------------------------------------------------
(* The surroundings: pages ask for replicas of an auction, which gives it a *)
(* topic, and delete topics; replicas end, and are removed by the daemon    *)
(* unless it fails; time passes; workers are lost and found.                *)
Ask(n) ==
  /\ asked < MaxRequests
  /\ asked' = asked + 1
  /\ requests' = [requests EXCEPT ![ParentOf[n]] = @ \cup {n}]
  /\ topics' = topics \cup {TopicOf[n]}
  /\ UNCHANGED <<remote, dockerVars, launch, sweep, cursor>>

DeleteTopic(t) ==
  /\ t \in topics /\ topics' = topics \ {t}
  /\ UNCHANGED <<remote, dockerVars, requests, asked, launch, sweep, cursor>>

Exit(w, n) ==
  /\ container[w][n] # None /\ container[w][n].status = "running"
  /\ \/ container' = [container EXCEPT ![w][n] = None]
     \/ container' = [container EXCEPT ![w][n].status = "exited", ![w][n].kept = TRUE]
  /\ UNCHANGED <<remote, reachable, outages, topics, requests, asked, launch, sweep, cursor>>

Older(c) ==
  IF c.status = "exited" THEN [c EXCEPT !.kept = FALSE]
  ELSE IF c.status = "running" THEN [c EXCEPT !.age = IF @ = "young" THEN "grace" ELSE "old"]
  ELSE c

TimePasses(w, n) ==
  /\ container[w][n] # None /\ Older(container[w][n]) # container[w][n]
  /\ container' = [container EXCEPT ![w][n] = Older(@)]
  /\ UNCHANGED <<remote, reachable, outages, topics, requests, asked, launch, sweep, cursor>>

Lose(w) ==
  /\ remote /\ w \in reachable /\ outages < MaxOutages
  /\ outages' = outages + 1
  /\ reachable' = reachable \ {w}
  /\ UNCHANGED <<remote, container, topics, requests, asked, launch, sweep, cursor>>

Find(w) ==
  /\ w \notin reachable
  /\ reachable' = reachable \cup {w}
  /\ UNCHANGED <<remote, container, outages, topics, requests, asked, launch, sweep, cursor>>

-----------------------------------------------------------------------------
Init ==
  /\ remote \in BOOLEAN
  /\ container = [w \in Worker |-> [n \in Replica |-> None]]
  /\ reachable = Worker /\ outages = 0
  /\ topics = {} /\ requests = [p \in Parent |-> {}] /\ asked = 0
  /\ launch = [p \in Parent |-> Idle] /\ sweep = [p \in Parent |-> Idle]
  /\ cursor = [p \in Parent |-> 0]

Launching(p) == (\E n \in Replica : Take(p, n)) \/ Match(p) \/ Place(p) \/ Run(p) \/ Start(p)
Sweeping(p) == ListContainers(p) \/ Remove(p)
Surroundings ==
  \/ \E n \in Replica : Ask(n)
  \/ \E t \in Topic : DeleteTopic(t)
  \/ \E w \in Worker, n \in Replica : Exit(w, n) \/ TimePasses(w, n)
  \/ \E w \in Worker : Lose(w) \/ Find(w)

Next == (\E p \in Parent : Launching(p) \/ ListTopics(p) \/ Sweeping(p)) \/ Surroundings

(* A parent's loop never ends: what it has begun goes on, and it sweeps     *)
(* whenever it is due, time and again.  Time passes, and a lost worker is   *)
(* found.                                                                   *)
Fairness ==
  /\ \A p \in Parent : WF_vars(Launching(p)) /\ SF_vars(ListTopics(p)) /\ WF_vars(Sweeping(p))
  /\ \A w \in Worker : WF_vars(Find(w)) /\ \A n \in Replica : WF_vars(TimePasses(w, n))

Spec == Init /\ [][Next]_vars /\ Fairness

-----------------------------------------------------------------------------
(* Every variable keeps its type.                                           *)
ContainersTypeOK ==
  /\ \A w \in Worker, n \in Replica :
       container[w][n] # None => container[w][n].status \in Status /\ container[w][n].age \in Stage
  /\ reachable \subseteq Worker /\ topics \subseteq Topic
  /\ \A p \in Parent :
       /\ requests[p] \subseteq {n \in Replica : ParentOf[n] = p}
       /\ launch[p].at \in {"idle", "match", "place", "run", "start"} /\ sweep[p].at \in {"idle", "list", "remove"}

(* Whatever times out, is asked for again or cannot be reached meanwhile,   *)
(* a replica does not run twice in the fleet (remote_pool.py: "an unknown   *)
(* worker may already hold a previous attempt").                            *)
OneContainerPerReplica == \A n \in Replica : Cardinality(Holders(n)) <= 1

(* A replica that has started, and whose topic is gone for good, is not     *)
(* kept for ever, although nobody can tell it to exit any more.  One that   *)
(* has been created and never started is: no rule of the reaper names it.   *)
Lonely(w, n) ==
  container[w][n] # None /\ container[w][n].status # "created" /\ TopicOf[n] \notin topics
LonelyReplicasEnd ==
  \A w \in Worker, n \in Replica : Lonely(w, n) ~> ~Lonely(w, n)
=============================================================================
