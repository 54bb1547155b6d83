--------------------- MODULE ClientAndContainers_proofs ---------------------
(***************************************************************************)
(* Proofs about the pages and the containers of the short term planning,   *)
(* for any number of pages, names, workers, parents and replicas.           *)
(***************************************************************************)
EXTENDS ClientAndContainers, FiniteSetTheorems, SequenceTheorems, TLAPS

-----------------------------------------------------------------------------
(* The containers.                                                         *)
Container == [status : Docker!Status, age : Docker!Stage, kept : BOOLEAN]
Known == (SUBSET Topic) \cup {None}
Sweep ==
  {Docker!Idle} \cup [at : {"list"}, topics : Known]
  \cup [at : {"remove"}, topics : Known, left : SUBSET (Worker \X Replica \X Container)]

DockerTypes ==
  /\ remote \in BOOLEAN /\ reachable \subseteq Worker /\ topics \subseteq Topic
  /\ container \in [Worker -> [Replica -> Container \cup {None}]]
  /\ DOMAIN requests = Parent /\ requests = [p \in Parent |-> requests[p]]
  /\ DOMAIN launch = Parent /\ launch = [p \in Parent |-> launch[p]]
  /\ sweep \in [Parent -> Sweep]

(* A parent launches replicas of its own.                                   *)
OwnReplicas ==
  \A p \in Parent :
    /\ requests[p] \subseteq {n \in Replica : ParentOf[n] = p}
    /\ \/ launch[p] = Docker!Idle
       \/ /\ launch[p].at \in {"match", "place", "run", "start"}
          /\ launch[p].name \in Replica /\ ParentOf[launch[p].name] = p

(* While a parent is about to run a replica in a fleet no worker holds it.  *)
NotHeld ==
  \A p \in Parent : remote /\ launch[p].at = "run" => Docker!Holders(launch[p].name) = {}

DockerInv == DockerTypes /\ OwnReplicas /\ NotHeld /\ Docker!OneContainerPerReplica

(* The operators on sets that Containers takes over are the same.           *)
LEMMA SameCardinality ==
  ASSUME NEW S
  PROVE  Docker!Cardinality(S) = Cardinality(S)
BY DEF Docker!Cardinality, Cardinality

LEMMA SameFinite ==
  ASSUME NEW S
  PROVE  Docker!IsFiniteSet(S) = IsFiniteSet(S)
BY DEF Docker!IsFiniteSet, IsFiniteSet

(* The order of the workers is one: at most one of them is the first.       *)
LEMMA OneFirst ==
  ASSUME NEW v \in Worker, NEW w \in Worker, Docker!Order[v] = Docker!Order[w]
  PROVE  v = w
<1> DEFINE N == Cardinality(Worker)
           Inj(o) == o \in [Worker -> 0 .. N - 1] /\ \A x, y \in Worker : o[x] = o[y] => x = y
<1>1. IsFiniteSet(Worker) /\ N \in Nat
  BY ShortTermAssumption, SameFinite, FS_CardinalityType DEF Docker!ContainersAssumption
<1>2. PICK f \in Bijection(1 .. N, Worker) : TRUE
  BY <1>1, FS_CardinalityType DEF ExistsBijection
<1> DEFINE g == [x \in Worker |-> (CHOOSE i \in 1 .. N : f[i] = x) - 1]
<1>3. \A x \in Worker : \E i \in 1 .. N : f[i] = x
  BY <1>2, Zenon DEF Bijection, Surjection
<1>4. \A x \in Worker : (CHOOSE i \in 1 .. N : f[i] = x) \in 1 .. N /\ f[CHOOSE i \in 1 .. N : f[i] = x] = x
  BY <1>3, Zenon
<1>5. g \in [Worker -> 0 .. N - 1]
  BY <1>1, <1>4
<1>6. \A x, y \in Worker : g[x] = g[y] => x = y
  <2>1. SUFFICES ASSUME NEW x \in Worker, NEW y \in Worker, g[x] = g[y] PROVE x = y
    OBVIOUS
  <2>2. (CHOOSE i \in 1 .. N : f[i] = x) = (CHOOSE i \in 1 .. N : f[i] = y)
    BY <2>1, <1>1, <1>4
  <2>3. QED
    BY <2>2, <1>4, Zenon
<1>7. \E o : Inj(o)
  BY <1>5, <1>6, Zenon
<1>8. Docker!Order = CHOOSE o \in [Worker -> 0 .. N - 1] : \A x, y \in Worker : o[x] = o[y] => x = y
  BY SameCardinality DEF Docker!Order
<1>9. Inj(Docker!Order)
  BY <1>7, <1>8, Zenon
<1>10. QED
  BY <1>9

(* So a local daemon is a fleet of one.                                     *)
LEMMA LocalFleet ==
  ASSUME ~remote', NEW n \in Replica
  PROVE  Cardinality(Docker!Holders(n)') <= 1
<1>1. Docker!Holders(n)' \subseteq {w \in Worker : Docker!Order[w] = 0}
  BY DEF Docker!Holders, Docker!Fleet
<1>2. CASE Docker!Holders(n)' = {}
  BY <1>2, FS_EmptySet
<1>3. CASE Docker!Holders(n)' # {}
  <2>1. PICK w \in Docker!Holders(n)' : TRUE
    BY <1>3
  <2>2. Docker!Holders(n)' = {w}
    BY <2>1, <1>1, OneFirst, Zenon
  <2>3. QED
    BY <2>2, FS_Singleton
<1>4. QED
  BY <1>2, <1>3

LEMMA FewerHolders ==
  ASSUME NEW A, NEW B, IsFiniteSet(B), A \subseteq B, Cardinality(B) <= 1
  PROVE  Cardinality(A) <= 1
BY FS_Subset, FS_CardinalityType

(* A step that adds no holder of a replica keeps what is said of holders.   *)
LEMMA NoNewHolder ==
  ASSUME DockerInv, remote' = remote,
         \A w \in Worker, n \in Replica : container'[w][n] # None => container[w][n] # None
  PROVE  /\ \A n \in Replica : Docker!Holders(n)' \subseteq Docker!Holders(n)
         /\ Docker!OneContainerPerReplica'
<1>1. \A n \in Replica : Docker!Holders(n)' \subseteq Docker!Holders(n)
  BY DEF Docker!Holders, Docker!Fleet
<1>2. \A n \in Replica : IsFiniteSet(Docker!Holders(n))
  BY ShortTermAssumption, SameFinite, FS_Subset DEF Docker!ContainersAssumption, Docker!Holders, Docker!Fleet
<1>3. \A n \in Replica : Cardinality(Docker!Holders(n)') <= 1
  BY <1>1, <1>2, FewerHolders, SameCardinality DEF DockerInv, Docker!OneContainerPerReplica
<1>4. QED
  BY <1>1, <1>3, SameCardinality DEF Docker!OneContainerPerReplica

(* Every step of a parent keeps the invariant.                              *)
LEMMA LaunchingKeeps ==
  ASSUME DockerInv, NEW p \in Parent, Docker!Launching(p)
  PROVE  DockerInv'
<1> USE DEF DockerInv
<1>1. CASE \E n \in Replica : Docker!Take(p, n)
  <2>1. PICK n \in Replica : Docker!Take(p, n)
    BY <1>1
  <2>2. /\ DockerTypes' /\ container' = container /\ remote' = remote
    BY <2>1 DEF DockerTypes, Docker!Take, Docker!Starting, Docker!LaunchEnds, Docker!Unreserved, Docker!dockerVars
  <2>3. \A q \in Parent : launch'[q] = launch[q] \/ (q = p /\ (launch'[q] = Docker!Idle \/ launch'[q] = [at |-> "match", name |-> n]))
    BY <2>1 DEF DockerTypes, Docker!Take, Docker!Starting, Docker!LaunchEnds
  <2>4. \A q \in Parent : requests'[q] \subseteq requests[q]
    BY <2>1 DEF DockerTypes, Docker!Take
  <2>5. n \in requests[p]
    BY <2>1 DEF Docker!Take
  <2>6. OwnReplicas'
    BY <2>3, <2>4, <2>5 DEF OwnReplicas, Docker!Idle
  <2>7. NotHeld' /\ Docker!OneContainerPerReplica'
    BY <2>2, <2>3, NoNewHolder DEF NotHeld, Docker!Idle, Docker!Holders, Docker!Fleet
  <2>8. QED
    BY <2>2, <2>6, <2>7
<1>2. CASE Docker!Match(p)
  <2>1. /\ DockerTypes' /\ remote' = remote /\ requests' = requests
        /\ \A w \in Worker, n \in Replica : container'[w][n] # None => container[w][n] # None
    <3>1. /\ remote' = remote /\ requests' = requests /\ reachable' = reachable
          /\ topics' = topics /\ sweep' = sweep
      BY <1>2 DEF Docker!Match, Docker!Unreserved
    <3>2. DOMAIN launch' = Parent /\ launch' = [q \in Parent |-> launch'[q]]
      BY <1>2 DEF DockerTypes, Docker!Match, Docker!Starting, Docker!LaunchEnds
    <3>3. \/ container' = container
          \/ container' = [w \in Worker |-> IF w \in Docker!Known(launch[p].name)
                                           THEN [container[w] EXCEPT ![launch[p].name] = None]
                                           ELSE container[w]]
      BY <1>2 DEF Docker!Match
    <3>4. /\ container' \in [Worker -> [Replica -> Container \cup {None}]]
          /\ \A w \in Worker, n \in Replica : container'[w][n] # None => container[w][n] # None
      BY <3>3 DEF DockerTypes
    <3>5. QED
      BY <3>1, <3>2, <3>4 DEF DockerTypes
  <2>2. \A q \in Parent : launch'[q] = launch[q]
          \/ (q = p /\ (launch'[q] = Docker!Idle \/ launch'[q] = [at |-> "place", name |-> launch[p].name]))
    BY <1>2 DEF DockerTypes, Docker!Match, Docker!Starting, Docker!LaunchEnds
  <2>3. OwnReplicas'
    BY <1>2, <2>1, <2>2 DEF OwnReplicas, Docker!Idle, Docker!Match
  <2>4. NotHeld' /\ Docker!OneContainerPerReplica'
    BY <2>1, <2>2, NoNewHolder DEF NotHeld, OwnReplicas, Docker!Idle
  <2>5. QED
    BY <2>1, <2>3, <2>4
<1>3. CASE Docker!Place(p)
  <2>1. /\ DockerTypes' /\ remote' = remote /\ requests' = requests /\ container' = container
    BY <1>3 DEF DockerTypes, Docker!Place, Docker!Starting, Docker!LaunchEnds, Docker!Unreserved, Docker!dockerVars
  <2>2. \A q \in Parent \ {p} : launch'[q] = launch[q]
    BY <1>3 DEF DockerTypes, Docker!Place, Docker!Starting, Docker!LaunchEnds
  <2>3. \/ launch'[p] = Docker!Idle
        \/ /\ launch'[p].at = "run" /\ launch'[p].name = launch[p].name
           /\ remote => Docker!CanList /\ Docker!Known(launch[p].name) = {}
    BY <1>3 DEF DockerTypes, Docker!Place, Docker!Starting, Docker!LaunchEnds
  <2>4. OwnReplicas'
    BY <1>3, <2>1, <2>2, <2>3 DEF OwnReplicas, Docker!Idle, Docker!Place
  <2>5. Docker!CanList /\ Docker!Known(launch[p].name) = {} => Docker!Holders(launch[p].name) = {}
    BY DEF Docker!CanList, Docker!Known, Docker!Holders
  <2>6. NotHeld' /\ Docker!OneContainerPerReplica'
    BY <2>1, <2>2, <2>3, <2>5, NoNewHolder DEF NotHeld, Docker!Idle, Docker!Holders, Docker!Fleet
  <2>7. QED
    BY <2>1, <2>4, <2>6
<1>4. CASE Docker!Run(p)
  <2>0. launch[p].name \in Replica /\ ParentOf[launch[p].name] = p
    BY <1>4 DEF OwnReplicas, Docker!Idle, Docker!Run
  <2>1. PICK n \in Replica : n = launch[p].name /\ ParentOf[n] = p
    BY <2>0
  <2>2. PICK w : w = launch[p].worker
    OBVIOUS
  <2>3. /\ remote' = remote /\ requests' = requests /\ UNCHANGED <<reachable, topics, sweep>>
        /\ \/ launch' = [launch EXCEPT ![p] = Docker!Idle]
           \/ launch' = [launch EXCEPT ![p] = [at |-> "start", name |-> n, worker |-> w]]
        /\ \/ container' = container
           \/ w \in Worker /\ container' = [container EXCEPT ![w][n] = Docker!New]
    BY <1>4, <2>1, <2>2 DEF DockerTypes, Docker!Run, Docker!Starting, Docker!LaunchEnds, Docker!Unreserved
  <2>4. DockerTypes'
    <3>1. Docker!New \in Container
      BY DEF Container, Docker!New, Docker!Stage, Docker!Status
    <3>2. container' \in [Worker -> [Replica -> Container \cup {None}]]
      BY <3>1, <2>3 DEF DockerTypes
    <3>3. DOMAIN launch' = Parent /\ launch' = [q \in Parent |-> launch'[q]]
      BY <2>3 DEF DockerTypes
    <3>4. QED
      BY <3>2, <3>3, <2>3 DEF DockerTypes
  <2>5. /\ launch'[p] = Docker!Idle \/ (launch'[p].at = "start" /\ launch'[p].name = launch[p].name)
        /\ \A q \in Parent \ {p} : launch'[q] = launch[q]
    BY <2>1, <2>3 DEF DockerTypes
  <2>6. OwnReplicas'
    BY <2>0, <2>3, <2>5 DEF OwnReplicas
  <2>7. \A v \in Worker, k \in Replica : container'[v][k] # None => container[v][k] # None \/ (v = w /\ k = n)
    BY <2>3 DEF DockerTypes
  <2>8. \A k \in Replica \ {n} : Docker!Holders(k)' \subseteq Docker!Holders(k)
    BY <2>3, <2>7 DEF Docker!Holders, Docker!Fleet
  <2>9. NotHeld'
    BY <2>0, <2>1, <2>3, <2>5, <2>8 DEF NotHeld, OwnReplicas, Docker!Idle
  <2>10. \A k \in Replica : IsFiniteSet(Docker!Holders(k)) /\ Cardinality(Docker!Holders(k)) <= 1
    BY ShortTermAssumption, SameFinite, SameCardinality, FS_Subset
       DEF Docker!ContainersAssumption, Docker!Holders, Docker!Fleet, Docker!OneContainerPerReplica
  <2>11. \A k \in Replica \ {n} : Cardinality(Docker!Holders(k)') <= 1
    BY <2>8, <2>10, FewerHolders
  <2>12. Cardinality(Docker!Holders(n)') <= 1
    <3>1. CASE ~remote
      BY <3>1, <2>3, LocalFleet
    <3>2. CASE remote
      <4>1. Docker!Holders(n) = {}
        BY <1>4, <3>2, <2>1 DEF NotHeld, Docker!Run
      <4>2. Docker!Holders(n)' \subseteq {w}
        BY <4>1, <2>3, <2>7 DEF Docker!Holders, Docker!Fleet
      <4>3. IsFiniteSet({w}) /\ Cardinality({w}) = 1
        BY FS_Singleton, Zenon
      <4>4. QED
        BY <4>2, <4>3, FewerHolders
    <3>3. QED
      BY <3>1, <3>2 DEF DockerTypes
  <2>13. QED
    BY <2>4, <2>6, <2>9, <2>11, <2>12, SameCardinality DEF Docker!OneContainerPerReplica
<1>5. CASE Docker!Start(p)
  <2>1. /\ remote' = remote /\ requests' = requests /\ UNCHANGED <<reachable, topics, sweep>>
        /\ launch' = [launch EXCEPT ![p] = Docker!Idle]
    BY <1>5 DEF Docker!Start, Docker!Starting, Docker!LaunchEnds, Docker!Unreserved
  <2>2. PICK n, w : n = launch[p].name /\ w = launch[p].worker
    OBVIOUS
  <2>3. n \in Replica
    BY <1>5, <2>2 DEF OwnReplicas, Docker!Idle, Docker!Start
  <2>4. \/ container' = container
        \/ Docker!IsCreated(w, n) /\ container' = [container EXCEPT ![w][n].status = "running"]
        \/ container' = [container EXCEPT ![w][n] = None]
    BY <1>5, <2>2 DEF Docker!Start
  <2>5. /\ container' \in [Worker -> [Replica -> Container \cup {None}]]
        /\ \A v \in Worker, k \in Replica : container'[v][k] # None => container[v][k] # None
    <3>1. CASE container' = container \/ container' = [container EXCEPT ![w][n] = None]
      BY <3>1 DEF DockerTypes
    <3>2. CASE Docker!IsCreated(w, n) /\ container' = [container EXCEPT ![w][n].status = "running"]
      <4>1. CASE w \notin Worker
        BY <3>2, <4>1 DEF DockerTypes
      <4>2. CASE w \in Worker
        <5>1. container[w][n] \in Container
          BY <2>3, <3>2, <4>2 DEF DockerTypes, Docker!IsCreated
        <5>2. [container[w][n] EXCEPT !.status = "running"] \in Container
          BY <5>1 DEF Container, Docker!Status
        <5>3. container' = [container EXCEPT ![w][n] = [container[w][n] EXCEPT !.status = "running"]]
          BY <2>3, <3>2, <4>2 DEF DockerTypes
        <5>4. QED
          BY <2>3, <3>2, <4>2, <5>2, <5>3 DEF DockerTypes, Docker!IsCreated
      <4>3. QED
        BY <4>1, <4>2
    <3>3. QED
      BY <2>4, <3>1, <3>2
  <2>6. DockerTypes' /\ OwnReplicas'
    <3>1. DOMAIN launch' = Parent /\ launch' = [q \in Parent |-> launch'[q]]
      BY <2>1 DEF DockerTypes
    <3>2. OwnReplicas'
      BY <2>1 DEF DockerTypes, OwnReplicas
    <3>3. QED
      BY <2>1, <2>5, <3>1, <3>2 DEF DockerTypes
  <2>7. NotHeld' /\ Docker!OneContainerPerReplica'
    <3>1. \A q \in Parent : launch'[q] = launch[q] \/ launch'[q] = Docker!Idle
      BY <2>1 DEF DockerTypes
    <3>2. (\A k \in Replica : Docker!Holders(k)' \subseteq Docker!Holders(k)) /\ Docker!OneContainerPerReplica'
      BY <2>1, <2>5, NoNewHolder
    <3>3. QED
      BY <2>1, <3>1, <3>2 DEF NotHeld, OwnReplicas, Docker!Idle
  <2>8. QED
    BY <2>6, <2>7
<1>6. QED
  BY <1>1, <1>2, <1>3, <1>4, <1>5 DEF Docker!Launching

LEMMA OthersKeep ==
  ASSUME DockerInv, UNCHANGED <<remote, launch>>, DockerTypes', OwnReplicas',
         \A w \in Worker, n \in Replica : container'[w][n] # None => container[w][n] # None
  PROVE  DockerInv'
<1>1. NotHeld'
  BY NoNewHolder DEF DockerInv, NotHeld, OwnReplicas, Docker!Idle
<1>2. QED
  BY <1>1, NoNewHolder DEF DockerInv

LEMMA SweepingKeeps ==
  ASSUME DockerInv, NEW p \in Parent, Docker!ListTopics(p) \/ Docker!Sweeping(p)
  PROVE  DockerInv'
<1>1. CASE Docker!ListTopics(p)
  <2>1. PICK known \in {topics, None} : sweep' = [sweep EXCEPT ![p] = [at |-> "list", topics |-> known]]
    BY <1>1 DEF Docker!ListTopics
  <2>2. [at |-> "list", topics |-> known] \in Sweep
    <3>1. known \in Known
      BY <2>1 DEF DockerInv, DockerTypes, Known
    <3>2. QED
      BY <3>1 DEF Sweep
  <2>3. sweep' \in [Parent -> Sweep]
    BY <2>1, <2>2 DEF DockerInv, DockerTypes
  <2>4. DockerTypes' /\ OwnReplicas' /\ UNCHANGED <<remote, launch, container>>
    BY <1>1, <2>3 DEF DockerInv, DockerTypes, OwnReplicas, Docker!ListTopics, Docker!dockerVars
  <2>5. QED
    BY <2>4, OthersKeep
<1>2. CASE Docker!ListContainers(p)
  <2>1. Docker!Listed(p) \subseteq Worker \X Replica \X Container
    BY DEF DockerInv, DockerTypes, Docker!Listed, Docker!Owned, Docker!Fleet
  <2>2. DockerTypes' /\ OwnReplicas' /\ UNCHANGED <<remote, launch, container>>
    BY <1>2, <2>1 DEF DockerInv, DockerTypes, OwnReplicas, Docker!ListContainers, Sweep, Known, Docker!dockerVars, Docker!Idle
  <2>3. QED
    BY <2>2, OthersKeep
<1>3. CASE Docker!Remove(p)
  <2>1. sweep[p] \in [at : {"remove"}, topics : Known, left : SUBSET (Worker \X Replica \X Container)]
    BY <1>3 DEF DockerInv, DockerTypes, Docker!Remove, Sweep, Docker!Idle
  <2>2. \A e \in sweep[p].left :
          /\ e[1] \in Worker /\ e[2] \in Replica
          /\ [sweep[p] EXCEPT !.left = @ \ {e}] \in Sweep
    BY <2>1 DEF Sweep
  <2>3. Docker!Idle \in Sweep
    BY DEF Sweep
  <2>4. \E s \in Sweep : sweep' = [sweep EXCEPT ![p] = s]
    BY <1>3, <2>2, <2>3 DEF Docker!Remove
  <2>5. \/ container' = container
        \/ \E w \in Worker, n \in Replica : container' = [container EXCEPT ![w][n] = None]
    BY <1>3, <2>2 DEF Docker!Remove
  <2>6. sweep' \in [Parent -> Sweep]
    BY <2>4 DEF DockerInv, DockerTypes
  <2>7. /\ container' \in [Worker -> [Replica -> Container \cup {None}]]
        /\ \A w \in Worker, n \in Replica : container'[w][n] # None => container[w][n] # None
    BY <2>5 DEF DockerInv, DockerTypes
  <2>8. DockerTypes' /\ OwnReplicas' /\ UNCHANGED <<remote, launch>>
    BY <1>3, <2>6, <2>7 DEF DockerInv, DockerTypes, OwnReplicas, Docker!Remove
  <2>9. QED
    BY <2>7, <2>8, OthersKeep
<1>4. QED
  BY <1>1, <1>2, <1>3 DEF Docker!Sweeping

LEMMA SurroundingsKeep ==
  ASSUME DockerInv, Docker!Surroundings
  PROVE  DockerInv'
<1>1. CASE \E n \in Replica : Docker!Ask(n)
  <2>1. PICK n \in Replica : Docker!Ask(n)
    BY <1>1
  <2>2. TopicOf[n] \in Topic /\ ParentOf[n] \in Parent
    BY ShortTermAssumption DEF Docker!ContainersAssumption
  <2>3. DockerTypes' /\ OwnReplicas' /\ UNCHANGED <<remote, launch, container>>
    BY <2>1, <2>2 DEF DockerInv, DockerTypes, OwnReplicas, Docker!Ask, Docker!dockerVars
  <2>4. QED
    BY <2>3, OthersKeep
<1>2. CASE \E t \in Topic : Docker!DeleteTopic(t)
  <2>1. DockerTypes' /\ OwnReplicas' /\ UNCHANGED <<remote, launch, container>>
    BY <1>2 DEF DockerInv, DockerTypes, OwnReplicas, Docker!DeleteTopic, Docker!dockerVars
  <2>2. QED
    BY <2>1, OthersKeep
<1>3. CASE \E w \in Worker, n \in Replica : Docker!Exit(w, n) \/ Docker!TimePasses(w, n)
  <2>1. PICK w \in Worker, n \in Replica : Docker!Exit(w, n) \/ Docker!TimePasses(w, n)
    BY <1>3
  <2>2. container[w][n] \in Container
    BY <2>1 DEF DockerInv, DockerTypes, Docker!Exit, Docker!TimePasses
  <2>3. Docker!Older(container[w][n]) \in Container
    BY <2>2 DEF Container, Docker!Stage, Docker!Status, Docker!Older
  <2>4. [container[w][n] EXCEPT !.status = "exited", !.kept = TRUE] \in Container
    BY <2>2 DEF Container, Docker!Stage, Docker!Status
  <2>5. \E c \in Container \cup {None} : container' = [container EXCEPT ![w][n] = c]
    <3>1. CASE Docker!TimePasses(w, n)
      BY <3>1, <2>3 DEF Docker!TimePasses
    <3>2. CASE Docker!Exit(w, n)
      <4>1. CASE container' = [container EXCEPT ![w][n] = None]
        BY <4>1
      <4>2. CASE container' = [container EXCEPT ![w][n].status = "exited", ![w][n].kept = TRUE]
        <5>1. container' = [container EXCEPT ![w][n] = [container[w][n] EXCEPT !.status = "exited", !.kept = TRUE]]
          BY <4>2, <2>2 DEF DockerInv, DockerTypes, Container
        <5>2. QED
          BY <5>1, <2>4
      <4>3. QED
        BY <3>2, <4>1, <4>2 DEF Docker!Exit
    <3>3. QED
      BY <2>1, <3>1, <3>2
  <2>6. container' \in [Worker -> [Replica -> Container \cup {None}]]
    BY <2>5 DEF DockerInv, DockerTypes
  <2>7. DockerTypes' /\ OwnReplicas' /\ UNCHANGED <<remote, launch>>
    BY <2>1, <2>6 DEF DockerInv, DockerTypes, OwnReplicas, Docker!Exit, Docker!TimePasses
  <2>8. \A v \in Worker, k \in Replica : container'[v][k] # None => container[v][k] # None
    BY <2>1, <2>2, <2>5 DEF DockerInv, DockerTypes, Docker!Exit, Docker!TimePasses
  <2>9. QED
    BY <2>7, <2>8, OthersKeep
<1>4. CASE \E w \in Worker : Docker!Lose(w) \/ Docker!Find(w)
  <2>1. DockerTypes' /\ OwnReplicas' /\ UNCHANGED <<remote, launch, container>>
    BY <1>4 DEF DockerInv, DockerTypes, OwnReplicas, Docker!Lose, Docker!Find
  <2>2. QED
    BY <2>1, OthersKeep
<1>5. QED
  BY <1>1, <1>2, <1>3, <1>4 DEF Docker!Surroundings

LEMMA DockerStep ==
  ASSUME DockerInv, [Docker!Next]_containerVars
  PROVE  DockerInv'
<1>1. CASE Docker!Next
  BY <1>1, LaunchingKeeps, SweepingKeeps, SurroundingsKeep DEF Docker!Next
<1>2. CASE UNCHANGED containerVars
  BY <1>2 DEF containerVars, DockerInv, DockerTypes, OwnReplicas, NotHeld, Docker!Holders, Docker!Fleet,
              Docker!OneContainerPerReplica
<1>3. QED
  BY <1>1, <1>2

LEMMA DockerStart ==
  ASSUME Docker!Init
  PROVE  DockerInv
<1>1. DockerTypes /\ OwnReplicas /\ NotHeld
  BY DEF DockerTypes, OwnReplicas, NotHeld, Docker!Init, Docker!Idle, Sweep
<1>2. \A n \in Replica : Docker!Holders(n) = {}
  BY DEF Docker!Init, Docker!Holders, Docker!Fleet
<1>3. QED
  BY <1>1, <1>2, FS_EmptySet, SameCardinality DEF DockerInv, Docker!OneContainerPerReplica

LEMMA DockerTyped ==
  ASSUME DockerInv
  PROVE  Docker!ContainersTypeOK
BY DEF DockerInv, DockerTypes, OwnReplicas, Docker!ContainersTypeOK, Container, Sweep, Docker!Idle

-----------------------------------------------------------------------------
(* The pages.                                                              *)
Shown == [status : {"I", "L", "G", "R", "E"}, filled : BOOLEAN, shows : SUBSET Client!Button]
Learned == [name : Name \cup {None}, from : Name \cup {None}]
Asking == [what : {"CHECK"}, agents : Nat] \cup [what : {"ISAUCTIONACTIVE", "ASKRESULTS", "EXIT"}]
Answer == [action : {"AUCTIONSTARTED", "RESULTS"}, from : Name, started : BOOLEAN, expected : Nat, present : Nat]
Last == (Nat \X Nat) \cup {None}
Polling == [at : {"poll"}, silent : Nat, stable : Nat, last : Last]
Listening == [at : {"listen"}, silent : Nat, stable : Nat, last : Last, heard : Answer \cup {None}]
Operation == {Client!Idle} \cup [at : {"results"}] \cup Polling \cup Listening
LogState == [expected : Nat, present : SUBSET Client!Kind, started : BOOLEAN]

PageTypes ==
  /\ field \in [Page -> Name] /\ page \in [Page -> Shown] /\ told \in [Page -> Learned]
  /\ op \in [Page -> Operation]
KafkaTypes ==
  /\ general \subseteq Name \X Client!Kind /\ auctionTopics \subseteq Name
  /\ inbox \in [Name -> Seq(Asking)]
  /\ exits \in [Name -> SUBSET (Client!Kind \cup Client!ToldByPage)]
  /\ callbacks \in Seq(Answer)
AgentTypes ==
  /\ agents \subseteq Name \X Client!Kind /\ used \subseteq Name
  /\ log \in [Name -> LogState]

(* A name is used once: no LOG comes up beside or in the place of another.  *)
UsedOnce ==
  \A n \in Name :
    /\ <<n, "LOG">> \in general \cup agents \/ log[n].started => n \in used
    /\ <<n, "LOG">> \in general => <<n, "LOG">> \notin agents /\ ~log[n].started

(* What is said, heard and shown of a start is true.                        *)
True(m) == m.started => log[m.from].started
Spoken == \A i \in 1 .. Len(callbacks) : True(callbacks[i])
Honest ==
  /\ Spoken
  /\ \A p \in Page : op[p].at = "listen" /\ op[p].heard # None =>
       op[p].heard.from = field[p] /\ True(op[p].heard)
ShownTruly ==
  \A p \in Page :
    /\ told[p].from = told[p].name
    /\ page[p].status = "G" => told[p].name \in Name /\ log[told[p].name].started

ClientInv == PageTypes /\ KafkaTypes /\ AgentTypes /\ UsedOnce /\ Honest /\ ShownTruly

LEMMA SameCardinalityThere ==
  ASSUME NEW S
  PROVE  Client!Cardinality(S) = Cardinality(S)
BY DEF Client!Cardinality, Cardinality

LEMMA FewKinds ==
  ASSUME NEW S \in SUBSET Client!Kind
  PROVE  Client!Cardinality(S) \in Nat
<1>1. Client!Kind \subseteq {"LOG", "EQUIPMENT", "MATERIAL"}
  BY ShortTermAssumption DEF Client!ClientAssumption, Client!Kind
<1>2. IsFiniteSet({"LOG", "EQUIPMENT", "MATERIAL"})
  <2>1. IsFiniteSet({"LOG"})
    BY FS_Singleton, Zenon
  <2>2. IsFiniteSet({"LOG"} \cup {"EQUIPMENT"})
    BY <2>1, FS_AddElement, Zenon
  <2>3. IsFiniteSet(({"LOG"} \cup {"EQUIPMENT"}) \cup {"MATERIAL"})
    BY <2>2, FS_AddElement, Zenon
  <2>4. QED
    BY <2>3
<1>3. IsFiniteSet(S)
  BY <1>1, <1>2, FS_Subset
<1>4. QED
  BY <1>3, FS_CardinalityType, SameCardinalityThere

(* A message to a LOG.                                                      *)
LEMMA Sent ==
  ASSUME ClientInv, NEW n \in Name, NEW m \in Asking, Client!Send(n, m)
  PROVE  inbox' \in [Name -> Seq(Asking)]
BY DEF ClientInv, KafkaTypes, Client!Send

(* A step that leaves the agents alone keeps UsedOnce.                      *)
Quiet == UNCHANGED <<agents, log, used>>

LEMMA ClickKeeps ==
  ASSUME ClientInv, NEW p \in Page, Client!Click(p)
  PROVE  ClientInv'
<1> USE DEF ClientInv
<1>0. field[p] \in Name /\ page[p] \in Shown /\ op[p] = Client!Idle
  BY DEF PageTypes, Client!Click, Client!Type, Client!Create, Client!Start, Client!Refresh, Client!End, Client!Restart,
         Client!Clickable
<1>1. CASE Client!Type(p)
  <2>1. PageTypes' /\ KafkaTypes' /\ AgentTypes' /\ UsedOnce'
    BY <1>1 DEF PageTypes, KafkaTypes, AgentTypes, UsedOnce, Client!Type, Client!kafkaVars
  <2>2. ShownTruly'
    BY <1>1 DEF ShownTruly, Client!Type
  <2>3. Honest'
    BY <1>0, <1>1 DEF Honest, Spoken, True, PageTypes, Client!Type, Client!kafkaVars, Client!Idle
  <2>4. QED
    BY <2>1, <2>2, <2>3
<1>2. CASE Client!Create(p)
  <2>1. /\ UNCHANGED <<field, told, op, inbox, exits, agents, log>> /\ callbacks' = <<>>
        /\ \/ general' = {} /\ UNCHANGED <<page, auctionTopics, used>>
           \/ /\ auctionTopics' = auctionTopics \cup {field[p]}
              /\ field[p] \notin used /\ used' = used \cup {field[p]}
              /\ \E some \in SUBSET Client!Kind : general' = {field[p]} \X some
              /\ page' = page \/ Client!Shows(p, "L", TRUE, {"start", "end", "restart"}, {"submit"})
    BY <1>2 DEF Client!Create, Client!Purged, Client!Asked
  <2>2. PageTypes'
    <3>1. [status |-> "L", filled |-> TRUE,
           shows |-> (page[p].shows \cup {"start", "end", "restart"}) \ {"submit"}] \in Shown
      BY <1>0 DEF Shown, Client!Button
    <3>2. page' \in [Page -> Shown]
      BY <2>1, <3>1 DEF PageTypes, Client!Shows
    <3>3. QED
      BY <2>1, <3>2 DEF PageTypes
  <2>3. KafkaTypes' /\ AgentTypes'
    <3>1. general' \subseteq Name \X Client!Kind
      BY <1>0, <2>1 DEF KafkaTypes
    <3>2. callbacks' \in Seq(Answer)
      BY <2>1
    <3>3. QED
      BY <1>0, <2>1, <3>1, <3>2 DEF KafkaTypes, AgentTypes
  <2>4. UsedOnce'
    <3>1. \A n \in Name : <<n, "LOG">> \in general' => n \notin used /\ n \in used'
      <4>1. CASE general' = {}
        BY <4>1
      <4>2. CASE /\ field[p] \notin used /\ used' = used \cup {field[p]}
                 /\ \E some \in SUBSET Client!Kind : general' = {field[p]} \X some
        <5>1. PICK some \in SUBSET Client!Kind : general' = {field[p]} \X some
          BY <4>2
        <5>2. \A n \in Name : <<n, "LOG">> \in general' => n = field[p]
          BY <5>1
        <5>3. QED
          BY <4>2, <5>2
      <4>3. QED
        BY <2>1, <4>1, <4>2, Zenon
    <3>2. UNCHANGED <<agents, log>> /\ used \subseteq used'
      BY <2>1
    <3>3. QED
      BY <3>1, <3>2, Zenon DEF UsedOnce
  <2>5. Honest'
    BY <2>1 DEF Honest, Spoken, True
  <2>6. ShownTruly'
    BY <1>0, <2>1 DEF ShownTruly, PageTypes, Client!Shows
  <2>7. QED
    BY <2>2, <2>3, <2>4, <2>5, <2>6
<1>3. CASE Client!Start(p)
  <2>1. [what |-> "CHECK", agents |-> Client!NumAgents(p)] \in Asking
    BY FewKinds DEF Asking, Client!NumAgents
  <2>2. inbox' \in [Name -> Seq(Asking)]
    BY <1>0, <1>3, <2>1, Sent DEF Client!Start
  <2>3. [at |-> "poll", silent |-> 0, stable |-> 0, last |-> None] \in Operation
    BY DEF Operation, Polling, Last
  <2>4. PageTypes'
    BY <1>3, <2>3 DEF PageTypes, Client!Start
  <2>5. KafkaTypes' /\ AgentTypes' /\ UsedOnce' /\ ShownTruly'
    BY <1>3, <2>2 DEF KafkaTypes, AgentTypes, UsedOnce, ShownTruly, Client!Start
  <2>6. Honest'
    BY <1>3 DEF Honest, Spoken, True, PageTypes, Client!Start
  <2>7. QED
    BY <2>4, <2>5, <2>6
<1>4. CASE Client!Refresh(p)
  <2>1. [what |-> "ASKRESULTS"] \in Asking
    BY DEF Asking
  <2>2. inbox' \in [Name -> Seq(Asking)]
    BY <1>0, <1>4, <2>1, Sent DEF Client!Refresh
  <2>3. [at |-> "results"] \in Operation
    BY DEF Operation
  <2>4. PageTypes'
    BY <1>4, <2>3 DEF PageTypes, Client!Refresh
  <2>5. KafkaTypes' /\ AgentTypes' /\ UsedOnce' /\ ShownTruly'
    BY <1>4, <2>2 DEF KafkaTypes, AgentTypes, UsedOnce, ShownTruly, Client!Refresh
  <2>6. Honest'
    BY <1>4 DEF Honest, Spoken, True, PageTypes, Client!Refresh
  <2>7. QED
    BY <2>4, <2>5, <2>6
<1>5. ASSUME Client!Ends(field[p]) \/ UNCHANGED <<exits, inbox>>,
             UNCHANGED <<field, told, op, general, auctionTopics, callbacks, agents, log, used>>,
             NEW status \in {"E", "I"}, NEW plus \in SUBSET Client!Button, NEW minus \in SUBSET Client!Button,
             Client!Shows(p, status, FALSE, plus, minus)
      PROVE  ClientInv'
  <2>1. [what |-> "EXIT"] \in Asking
    BY DEF Asking
  <2>2. inbox' \in [Name -> Seq(Asking)]
    BY <1>0, <1>5, <2>1, Sent DEF Client!Ends, KafkaTypes
  <2>3. exits' \in [Name -> SUBSET (Client!Kind \cup Client!ToldByPage)]
    BY <1>0, <1>5 DEF Client!Ends, KafkaTypes
  <2>4. [status |-> status, filled |-> FALSE, shows |-> (page[p].shows \cup plus) \ minus] \in Shown
    BY <1>0 DEF Shown
  <2>5. PageTypes'
    BY <1>5, <2>4 DEF PageTypes, Client!Shows
  <2>6. KafkaTypes' /\ AgentTypes' /\ UsedOnce' /\ Honest'
    BY <1>5, <2>2, <2>3 DEF KafkaTypes, AgentTypes, UsedOnce, Honest, Spoken, True
  <2>7. ShownTruly'
    BY <1>5 DEF ShownTruly, PageTypes, Client!Shows
  <2>8. QED
    BY <2>5, <2>6, <2>7
<1>6. CASE Client!End(p)
  BY <1>5, <1>6 DEF Client!End, Client!Button
<1>7. CASE Client!Restart(p)
  BY <1>5, <1>7 DEF Client!Restart, Client!Button
<1>8. QED
  BY <1>1, <1>2, <1>3, <1>4, <1>6, <1>7 DEF Client!Click

LEMMA WorkKeeps ==
  ASSUME ClientInv, NEW p \in Page, Client!Work(p)
  PROVE  ClientInv'
<1> USE DEF ClientInv
<1>0. field[p] \in Name /\ page[p] \in Shown /\ told[p] \in Learned /\ op[p] \in Operation
  BY DEF PageTypes
<1>1. op[p].at = "listen" => op[p] \in Listening
  BY <1>0 DEF Operation, Polling, Client!Idle
<1>2. CASE Client!Poll(p)
  <2>1. [what |-> "ISAUCTIONACTIVE"] \in Asking
    BY DEF Asking
  <2>2. inbox' \in [Name -> Seq(Asking)]
    BY <1>0, <1>2, <2>1, Sent DEF Client!Poll
  <2>3. op[p] \in Polling
    BY <1>0, <1>2 DEF Operation, Listening, Client!Idle, Client!Poll
  <2>4. [at |-> "listen", silent |-> op[p].silent, stable |-> op[p].stable, last |-> op[p].last, heard |-> None] \in Operation
    BY <2>3 DEF Operation, Polling, Listening
  <2>5. op' = [op EXCEPT ![p] = [at |-> "listen", silent |-> op[p].silent, stable |-> op[p].stable,
                                 last |-> op[p].last, heard |-> None]]
    BY <1>2 DEF PageTypes, Client!Poll
  <2>6. PageTypes'
    BY <1>2, <2>4, <2>5 DEF PageTypes, Client!Poll
  <2>7. KafkaTypes' /\ AgentTypes' /\ UsedOnce' /\ ShownTruly'
    BY <1>2, <2>2 DEF KafkaTypes, AgentTypes, UsedOnce, ShownTruly, Client!Poll
  <2>8. Honest'
    BY <1>2, <2>5 DEF Honest, Spoken, True, PageTypes, Client!Poll
  <2>9. QED
    BY <2>6, <2>7, <2>8
<1>3. ASSUME callbacks # <<>>, callbacks' = Tail(callbacks)
      PROVE  /\ Head(callbacks) \in Answer /\ True(Head(callbacks))
             /\ callbacks' \in Seq(Answer)
             /\ \A i \in 1 .. Len(callbacks') : i + 1 \in 1 .. Len(callbacks) /\ callbacks'[i] = callbacks[i + 1]
  BY <1>3 DEF KafkaTypes, Honest, Spoken
<1>4. CASE Client!Hear(p)
  <2>1. /\ callbacks # <<>> /\ callbacks' = Tail(callbacks) /\ op[p] \in Listening
        /\ \/ op' = op
           \/ op' = [op EXCEPT ![p] = [op[p] EXCEPT !.heard = Head(callbacks)]] /\ Head(callbacks).from = field[p]
    BY <1>1, <1>4 DEF PageTypes, Client!Hear, Client!IsFor, Client!ForMe
  <2>2. [op[p] EXCEPT !.heard = Head(callbacks)] \in Listening
    BY <1>3, <2>1 DEF Listening
  <2>3. PageTypes'
    BY <1>4, <2>1, <2>2 DEF PageTypes, Operation, Client!Hear
  <2>4. KafkaTypes' /\ AgentTypes' /\ UsedOnce' /\ ShownTruly'
    BY <1>3, <1>4, <2>1 DEF KafkaTypes, AgentTypes, UsedOnce, ShownTruly, Client!Hear
  <2>5. \A i \in 1 .. Len(callbacks') : True(callbacks'[i])
    BY <1>3, <2>1 DEF Honest, Spoken
  <2>6. \A q \in Page : op'[q].at = "listen" /\ op'[q].heard # None => op'[q].heard.from = field[q] /\ True(op'[q].heard)
    BY <1>3, <2>1 DEF Honest, Spoken, PageTypes, Listening
  <2>7. Honest'
    BY <1>4, <2>5, <2>6 DEF Honest, Spoken, True, Client!Hear
  <2>8. QED
    BY <2>3, <2>4, <2>7
<1>5. ASSUME NEW status \in {"I", "L", "G", "R", "E"}, NEW filled \in BOOLEAN,
             NEW plus \in SUBSET Client!Button, NEW minus \in SUBSET Client!Button,
             Client!Shows(p, status, filled, plus, minus)
      PROVE  /\ page' \in [Page -> Shown]
             /\ page'[p].status = status /\ \A q \in Page \ {p} : page'[q] = page[q]
  <2>1. [status |-> status, filled |-> filled, shows |-> (page[p].shows \cup plus) \ minus] \in Shown
    BY <1>0 DEF Shown
  <2>2. QED
    BY <1>5, <2>1 DEF PageTypes, Client!Shows
<1>6. page[p].filled \in BOOLEAN /\ Client!Idle \in Operation /\ Client!Idle.at = "idle"
  BY <1>0 DEF Shown, Operation, Client!Idle
(* The operation of p is over, and p has learned nothing.                  *)
<1>7. ASSUME NEW status \in {"R", "E"}, page' \in [Page -> Shown],
             page'[p].status = status, \A q \in Page \ {p} : page'[q] = page[q],
             op' = [op EXCEPT ![p] = Client!Idle], UNCHANGED <<field, told, clicks, agents, log, used>>,
             callbacks' \in {callbacks, <<>>}, KafkaTypes', UsedOnce'
      PROVE  ClientInv'
  <2>1. PageTypes' /\ AgentTypes'
    BY <1>6, <1>7 DEF PageTypes, AgentTypes
  <2>2. Honest'
    BY <1>6, <1>7 DEF PageTypes, Honest, Spoken, True
  <2>3. ShownTruly'
    BY <1>7 DEF ShownTruly, PageTypes
  <2>4. QED
    BY <1>7, <2>1, <2>2, <2>3
<1>8. ASSUME NEW m \in Answer, Client!Learns(p, m), m.from = field[p]
      PROVE  told' \in [Page -> Learned] /\ told'[p].name = field[p] /\ told'[p].from = field[p]
             /\ \A q \in Page \ {p} : told'[q] = told[q]
  <2>1. told' = [told EXCEPT ![p] = [name |-> field[p], from |-> m.from]]
    BY <1>8 DEF Client!Learns
  <2>2. [name |-> field[p], from |-> m.from] \in Learned
    BY <1>0, <1>8 DEF Learned
  <2>3. QED
    BY <1>8, <2>1, <2>2 DEF PageTypes
(* A start that failed.                                                    *)
<1>9. ASSUME Client!StartFails(p), UNCHANGED <<field, clicks, agents, log, used>>
      PROVE  ClientInv'
  <2>1. page' \in [Page -> Shown] /\ page'[p].status = "E" /\ \A q \in Page \ {p} : page'[q] = page[q]
    BY <1>5, <1>6, <1>9 DEF Client!StartFails, Client!Button
  <2>2. callbacks' \in Seq(Answer) /\ general' = {}
    BY <1>9 DEF Client!StartFails
  <2>3. KafkaTypes' /\ UsedOnce'
    BY <1>0, <1>9, <2>2 DEF KafkaTypes, UsedOnce, Client!StartFails
  <2>4. QED
    BY <1>7, <1>9, <2>1, <2>3 DEF Client!StartFails
(* The next poll.                                                          *)
<1>10. ASSUME NEW silent \in Nat, NEW stable \in Nat, NEW last \in Last,
              Client!Again(p, silent, stable, last), UNCHANGED <<field, clicks, agents, log, used>>
       PROVE  ClientInv'
  <2>1. [at |-> "poll", silent |-> silent, stable |-> stable, last |-> last] \in Operation
    BY DEF Operation, Polling
  <2>2. PageTypes'
    BY <1>10, <2>1 DEF PageTypes, Client!Again
  <2>3. KafkaTypes' /\ AgentTypes' /\ UsedOnce' /\ ShownTruly'
    BY <1>10 DEF KafkaTypes, AgentTypes, UsedOnce, ShownTruly, Client!Again, Client!kafkaVars
  <2>4. Honest'
    BY <1>10 DEF Honest, Spoken, True, PageTypes, Client!Again, Client!kafkaVars
  <2>5. QED
    BY <2>2, <2>3, <2>4
<1>11. CASE Client!Evaluate(p)
  <2>1. op[p] \in Listening /\ UNCHANGED <<field, clicks, agents, log, used>>
    BY <1>1, <1>11 DEF Client!Evaluate
  <2>2. op[p].silent \in Nat /\ op[p].stable \in Nat /\ op[p].last \in Last
    BY <2>1 DEF Listening
  <2>3. PICK m : m = op[p].heard
    OBVIOUS
  <2>4. m = None \/ (m \in Answer /\ m.from = field[p] /\ True(m))
    BY <2>1, <2>3 DEF Listening, Honest
  <2>5. CASE m = None
    <3>1. Client!StartFails(p) \/ Client!Again(p, Client!SilentAfter(p), op[p].stable, op[p].last)
      BY <1>11, <2>3, <2>5 DEF Client!Evaluate
    <3>2. Client!SilentAfter(p) \in Nat
      BY <2>2 DEF Client!SilentAfter
    <3>3. QED
      BY <1>9, <1>10, <2>1, <2>2, <3>1, <3>2
  <2>6. CASE m # None /\ ~m.started
    <3>1. \/ Client!StartFails(p)
          \/ Client!Again(p, 0, Client!StableAfter(p, m), Client!Progress(m))
      BY <1>11, <2>3, <2>6 DEF Client!Evaluate
    <3>2. Client!StableAfter(p, m) \in Nat
      BY <2>2 DEF Client!StableAfter
    <3>3. Client!Progress(m) \in Last
      BY <2>4, <2>6 DEF Client!Progress, Last, Answer
    <3>4. QED
      BY <1>9, <1>10, <2>1, <2>2, <3>1, <3>2, <3>3
  <2>7. CASE m # None /\ m.started
    <3>1. /\ Client!Shows(p, "G", page[p].filled, {"refresh", "end"}, {"start", "restart"})
          /\ Client!Learns(p, m) /\ op' = [op EXCEPT ![p] = Client!Idle] /\ UNCHANGED Client!kafkaVars
      BY <1>11, <2>3, <2>7 DEF Client!Evaluate
    <3>2. page' \in [Page -> Shown] /\ \A q \in Page \ {p} : page'[q] = page[q]
      BY <1>5, <1>6, <3>1 DEF Client!Button
    <3>3. /\ told' \in [Page -> Learned] /\ told'[p].name = field[p] /\ told'[p].from = field[p]
          /\ \A q \in Page \ {p} : told'[q] = told[q]
      BY <1>8, <2>4, <2>7, <3>1
    <3>4. log[field[p]].started
      BY <2>4, <2>7 DEF True
    <3>5. PageTypes' /\ KafkaTypes' /\ AgentTypes' /\ UsedOnce'
      BY <1>6, <2>1, <3>1, <3>2, <3>3 DEF PageTypes, KafkaTypes, AgentTypes, UsedOnce, Client!kafkaVars
    <3>6. Honest'
      BY <1>6, <2>1, <3>1 DEF Honest, Spoken, True, PageTypes, Client!kafkaVars
    <3>7. ShownTruly'
      BY <1>0, <2>1, <3>2, <3>3, <3>4 DEF ShownTruly
    <3>8. QED
      BY <3>5, <3>6, <3>7
  <2>8. QED
    BY <2>5, <2>6, <2>7
<1>12. CASE Client!HearResults(p)
  <2>1. /\ callbacks # <<>> /\ callbacks' = Tail(callbacks)
        /\ UNCHANGED <<field, clicks, general, auctionTopics, inbox, exits, agents, log, used>>
        /\ \/ UNCHANGED <<told, page, op>>
           \/ /\ Head(callbacks).from = field[p] /\ Client!Learns(p, Head(callbacks))
              /\ Client!Shows(p, "R", page[p].filled, {}, {})
              /\ op' = [op EXCEPT ![p] = Client!Idle]
    BY <1>12 DEF Client!HearResults, Client!IsFor, Client!ForMe
  <2>2. KafkaTypes' /\ AgentTypes' /\ UsedOnce'
    BY <1>3, <2>1 DEF KafkaTypes, AgentTypes, UsedOnce
  <2>3. \A i \in 1 .. Len(callbacks') : True(callbacks'[i])
    BY <1>3, <2>1 DEF Honest, Spoken
  <2>4. \A q \in Page : op'[q] = op[q] \/ op'[q] = Client!Idle
    BY <2>1 DEF PageTypes
  <2>5. Honest'
    BY <1>6, <2>1, <2>3, <2>4 DEF Honest, Spoken, True
  <2>6. CASE UNCHANGED <<told, page, op>>
    <3>1. PageTypes' /\ ShownTruly'
      BY <2>1, <2>6 DEF PageTypes, ShownTruly
    <3>2. QED
      BY <2>2, <2>5, <3>1
  <2>7. CASE /\ Head(callbacks).from = field[p] /\ Client!Learns(p, Head(callbacks))
             /\ Client!Shows(p, "R", page[p].filled, {}, {})
             /\ op' = [op EXCEPT ![p] = Client!Idle]
    <3>1. page' \in [Page -> Shown] /\ page'[p].status = "R" /\ \A q \in Page \ {p} : page'[q] = page[q]
      <4>1. Client!Shows(p, "R", page[p].filled, {}, {})
        BY <2>7
      <4>2. QED
        BY <1>5, <1>6, <4>1
    <3>2. /\ told' \in [Page -> Learned] /\ told'[p].name = field[p] /\ told'[p].from = field[p]
          /\ \A q \in Page \ {p} : told'[q] = told[q]
      BY <1>3, <1>8, <2>1, <2>7
    <3>3. PageTypes'
      BY <1>6, <2>1, <3>1, <3>2 DEF PageTypes
    <3>4. ShownTruly'
      BY <2>1, <3>1, <3>2 DEF ShownTruly
    <3>5. QED
      BY <2>2, <2>5, <3>3, <3>4
  <2>8. QED
    BY <2>1, <2>6, <2>7, Zenon
<1>13. CASE Client!NoResults(p)
  <2>1. page' \in [Page -> Shown] /\ page'[p].status = "R" /\ \A q \in Page \ {p} : page'[q] = page[q]
    BY <1>5, <1>6, <1>13 DEF Client!NoResults
  <2>2. KafkaTypes' /\ UsedOnce'
    BY <1>13 DEF KafkaTypes, UsedOnce, Client!NoResults, Client!kafkaVars
  <2>3. QED
    BY <1>7, <1>13, <2>1, <2>2 DEF Client!NoResults, Client!kafkaVars
<1>14. QED
  BY <1>2, <1>4, <1>11, <1>12, <1>13 DEF Client!Work

LEMMA AgentsKeep ==
  ASSUME ClientInv, Client!AgentStep
  PROVE  ClientInv'
<1> USE DEF ClientInv
<1>0. "LOG" \in Client!Kind
  BY DEF Client!Kind
(* A step of the agents that takes no start back.                          *)
<1>1. ASSUME UNCHANGED <<field, page, told, op>>, KafkaTypes', AgentTypes', UsedOnce',
             \A n \in Name : log[n].started => log'[n].started,
             Spoken'
      PROVE  ClientInv'
  <2>1. PageTypes'
    BY <1>1 DEF PageTypes
  <2>2. \A p \in Page : op[p].at = "listen" /\ op[p].heard # None =>
          op[p].heard.from = field[p] /\ field[p] \in Name
    BY DEF PageTypes, Honest
  <2>3. Honest'
    BY <1>1, <2>2 DEF Honest, True
  <2>4. ShownTruly'
    BY <1>1 DEF ShownTruly
  <2>5. QED
    BY <1>1, <2>1, <2>3, <2>4
<1>2. ASSUME callbacks' = callbacks, AgentTypes', \A n \in Name : log[n].started => log'[n].started
      PROVE  Spoken'
  <2>1. \A i \in 1 .. Len(callbacks) : callbacks[i] \in Answer /\ callbacks[i].from \in Name
    <3>1. \A i \in 1 .. Len(callbacks) : callbacks[i] \in Answer
      BY DEF KafkaTypes
    <3>2. QED
      BY <3>1 DEF Answer
  <2>2. QED
    BY <1>2, <2>1 DEF Honest, Spoken, True
<1>3. ASSUME NEW n \in Name, NEW k \in Client!Kind, Client!Launch(n, k)
      PROVE  ClientInv'
  <2>1. /\ <<n, k>> \in general /\ general' = general \ {<<n, k>>} /\ agents' = agents \cup {<<n, k>>}
        /\ log' = IF k = "LOG" THEN [log EXCEPT ![n] = Client!NewLog] ELSE log
        /\ UNCHANGED <<field, page, told, op, clicks, auctionTopics, inbox, exits, callbacks, used>>
    BY <1>3 DEF Client!Launch
  <2>2. Client!NewLog \in LogState /\ ~Client!NewLog.started
    BY DEF Client!NewLog, LogState
  <2>3. KafkaTypes' /\ AgentTypes'
    BY <2>1, <2>2 DEF KafkaTypes, AgentTypes
  <2>4. \A x \in Name : log'[x] = log[x] \/ (x = n /\ k = "LOG" /\ ~log[n].started /\ ~log'[n].started)
    BY <2>1, <2>2 DEF UsedOnce, AgentTypes
  <2>5. \A x \in Name : log[x].started = log'[x].started
    BY <2>2, <2>3, <2>4 DEF AgentTypes, LogState
  <2>6. UsedOnce'
    BY <2>1, <2>5 DEF UsedOnce
  <2>7. QED
    BY <1>1, <1>2, <2>1, <2>3, <2>5, <2>6
<1>4. ASSUME NEW n \in Name, NEW s \in LogState, log' = [log EXCEPT ![n] = s],
             log[n].started => s.started, s.started => log[n].started \/ <<n, "LOG">> \in agents,
             UNCHANGED <<field, page, told, op, clicks, general, auctionTopics, exits, agents, used>>,
             inbox' \in [Name -> Seq(Asking)], callbacks' = callbacks
      PROVE  ClientInv'
  <2>1. KafkaTypes' /\ AgentTypes'
    BY <1>4 DEF KafkaTypes, AgentTypes
  <2>2. \A x \in Name : log'[x] = IF x = n THEN s ELSE log[x]
    BY <1>4 DEF AgentTypes
  <2>3. UsedOnce'
    BY <1>4, <2>2 DEF UsedOnce
  <2>4. \A x \in Name : log[x].started => log'[x].started
    BY <1>4, <2>2
  <2>5. QED
    BY <1>1, <1>2, <1>4, <2>1, <2>3, <2>4
<1>5. ASSUME NEW n \in Name, NEW k \in Client!Kind, Client!AnswersPing(n, k)
      PROVE  ClientInv'
  <2>1. [log[n] EXCEPT !.present = @ \cup {k}] \in LogState
        /\ [log[n] EXCEPT !.present = @ \cup {k}].started = log[n].started
    BY DEF AgentTypes, LogState
  <2>2. log' = [log EXCEPT ![n] = [log[n] EXCEPT !.present = @ \cup {k}]]
    BY <1>5 DEF Client!AnswersPing, AgentTypes
  <2>3. QED
    BY <1>4, <1>5, <2>1, <2>2 DEF Client!AnswersPing, Client!kafkaVars, KafkaTypes
<1>6. ASSUME NEW n \in Name, Client!GivesStart(n)
      PROVE  ClientInv'
  <2>1. [log[n] EXCEPT !.started = TRUE] \in LogState /\ [log[n] EXCEPT !.started = TRUE].started
    BY DEF AgentTypes, LogState
  <2>2. log' = [log EXCEPT ![n] = [log[n] EXCEPT !.started = TRUE]]
    BY <1>6 DEF Client!GivesStart, AgentTypes
  <2>3. QED
    BY <1>4, <1>6, <2>1, <2>2 DEF Client!GivesStart, Client!kafkaVars, KafkaTypes
(* An agent that leaves leaves the rest as it is.                          *)
<1>7. ASSUME NEW gone, agents' = agents \ {gone}, inbox' \in [Name -> Seq(Asking)],
             UNCHANGED <<field, page, told, op, general, auctionTopics, exits, callbacks, log, used>>
      PROVE  ClientInv'
  <2>1. KafkaTypes' /\ AgentTypes'
    BY <1>7 DEF KafkaTypes, AgentTypes
  <2>2. UsedOnce'
    BY <1>7 DEF UsedOnce
  <2>3. QED
    BY <1>1, <1>2, <1>7, <2>1, <2>2
<1>8. ASSUME NEW n \in Name, Client!LogReads(n)
      PROVE  ClientInv'
  <2>1. /\ inbox[n] # <<>> /\ inbox' = [inbox EXCEPT ![n] = Tail(inbox[n])]
        /\ UNCHANGED <<field, page, told, op, clicks, general, auctionTopics, exits, used>>
    BY <1>8 DEF Client!LogReads, KafkaTypes
  <2>2. inbox[n] \in Seq(Asking) /\ Head(inbox[n]) \in Asking /\ inbox' \in [Name -> Seq(Asking)]
    BY <2>1 DEF KafkaTypes
  <2>3. log[n] \in LogState
    BY DEF AgentTypes
  <2> DEFINE said(action) == [action |-> action, from |-> n, started |-> log[n].started,
                              expected |-> log[n].expected, present |-> Client!Cardinality(log[n].present)]
  <2>4. \/ Head(inbox[n]).what = "CHECK" /\ log' = [log EXCEPT ![n].expected = Head(inbox[n]).agents] /\ UNCHANGED <<callbacks, agents>>
        \/ \E action \in {"AUCTIONSTARTED", "RESULTS"} : callbacks' = Append(callbacks, said(action)) /\ UNCHANGED <<log, agents>>
        \/ agents' = agents \ {<<n, "LOG">>} /\ UNCHANGED <<log, callbacks>>
    BY <1>8 DEF Client!LogReads
  <2>5. CASE Head(inbox[n]).what = "CHECK" /\ log' = [log EXCEPT ![n].expected = Head(inbox[n]).agents] /\ UNCHANGED <<callbacks, agents>>
    <3>1. Head(inbox[n]).agents \in Nat
      BY <2>2, <2>5 DEF Asking
    <3>2. PICK x \in Nat : x = Head(inbox[n]).agents
      BY <3>1
    <3>3. [log[n] EXCEPT !.expected = x] \in LogState /\ [log[n] EXCEPT !.expected = x].started = log[n].started
      BY <2>3 DEF LogState
    <3>4. log' = [log EXCEPT ![n] = [log[n] EXCEPT !.expected = x]]
      BY <2>5, <3>2 DEF AgentTypes
    <3>5. QED
      BY <1>4, <2>1, <2>2, <2>5, <3>3, <3>4
  <2>6. CASE \E action \in {"AUCTIONSTARTED", "RESULTS"} : callbacks' = Append(callbacks, said(action)) /\ UNCHANGED <<log, agents>>
    <3>1. PICK action \in {"AUCTIONSTARTED", "RESULTS"} : callbacks' = Append(callbacks, said(action)) /\ UNCHANGED <<log, agents>>
      BY <2>6
    <3>2. Client!Cardinality(log[n].present) \in Nat
      BY <2>3, FewKinds DEF LogState
    <3>3. said(action) \in Answer /\ True(said(action))
      BY <2>3, <3>2 DEF Answer, LogState, True
    <3> HIDE DEF said
    <3>4. PICK a : a = said(action)
      OBVIOUS
    <3>5. callbacks' = Append(callbacks, a) /\ a \in Answer /\ True(a) /\ log' = log
      BY <3>1, <3>3, <3>4
    <3>6. callbacks' \in Seq(Answer)
      BY <3>5 DEF KafkaTypes
    <3>7. Spoken'
      <4>1. \A i \in 1..Len(callbacks') : callbacks'[i] = a \/ (i \in 1..Len(callbacks) /\ callbacks'[i] = callbacks[i])
        BY <3>5 DEF KafkaTypes
      <4>2. \A i \in 1..Len(callbacks) : True(callbacks[i])
        BY DEF Honest, Spoken
      <4>3. \A i \in 1..Len(callbacks') : True(callbacks'[i])
        BY <3>5, <4>1, <4>2
      <4>4. QED
        BY <3>5, <4>3 DEF Spoken, True
    <3>8. KafkaTypes' /\ AgentTypes' /\ UsedOnce'
      BY <2>1, <2>2, <3>1, <3>6 DEF KafkaTypes, AgentTypes, UsedOnce
    <3>9. QED
      BY <1>1, <2>1, <3>1, <3>7, <3>8
  <2>7. CASE agents' = agents \ {<<n, "LOG">>} /\ UNCHANGED <<log, callbacks>>
    BY <1>7, <2>1, <2>2, <2>7
  <2>8. QED
    BY <2>4, <2>5, <2>6, <2>7
<1>9. ASSUME NEW n \in Name, NEW k \in Client!Kind, Client!AgentExits(n, k)
      PROVE  ClientInv'
  BY <1>7, <1>9 DEF Client!AgentExits, Client!kafkaVars, KafkaTypes
<1>10. QED
  BY <1>3, <1>5, <1>6, <1>8, <1>9 DEF Client!AgentStep

LEMMA ClientStep ==
  ASSUME ClientInv, [Client!Next]_clientVars
  PROVE  ClientInv'
<1>1. CASE Client!Next
  BY <1>1, ClickKeeps, WorkKeeps, AgentsKeep DEF Client!Next
<1>2. CASE UNCHANGED clientVars
  BY <1>2 DEF clientVars, ClientInv, PageTypes, KafkaTypes, AgentTypes, UsedOnce, Honest, Spoken, True, ShownTruly
<1>3. QED
  BY <1>1, <1>2

(* The counters of a start stay below its limits: Evaluate counts further   *)
(* only when it asks again.                                                 *)
Within ==
  /\ limits \in Limits
  /\ \A p \in Page : op[p].at \in {"poll", "listen"} =>
       op[p].silent \in 0 .. (limits.silent - 1) /\ op[p].stable \in 0 .. (limits.stable - 1)

LEMMA WithinStep ==
  ASSUME ClientInv, Within, [Client!Next]_clientVars
  PROVE  Within'
<1> DEFINE Counts(o) ==
      o.at \in {"poll", "listen"} => o.silent \in 0 .. (limits.silent - 1) /\ o.stable \in 0 .. (limits.stable - 1)
<1>0. limits' = limits
  BY DEF Client!Next, Client!Click, Client!Work, Client!AgentStep, clientVars
<1>1. limits.silent \in Nat \ {0} /\ limits.stable \in Nat \ {0}
  BY ShortTermAssumption DEF Within, Client!ClientAssumption
<1>2. \A p \in Page : Counts(op[p]) /\ op[p] \in Operation
  BY DEF Within, ClientInv, PageTypes
<1>3. ASSUME NEW p \in Page, NEW o, Counts(o), op' = op \/ op' = [op EXCEPT ![p] = o]
      PROVE  Within'
  <2>1. \A q \in Page : op'[q] = op[q] \/ op'[q] = o
    BY <1>3 DEF ClientInv, PageTypes
  <2>2. \A q \in Page : Counts(op'[q])
    BY <1>2, <1>3, <2>1
  <2>3. QED
    BY <1>0, <2>2 DEF Within
<1>4. ASSUME NEW p \in Page, op' = op
      PROVE  Within'
  BY <1>2, <1>3, <1>4
<1>5. Counts(Client!Idle) /\ Counts([at |-> "results"])
  BY DEF Client!Idle
<1>6. ASSUME NEW p \in Page, Client!Click(p)
      PROVE  Within'
  <2>1. Counts([at |-> "poll", silent |-> 0, stable |-> 0, last |-> None])
    BY <1>1
  <2>2. CASE Client!Start(p)
    BY <1>3, <2>1, <2>2 DEF Client!Start
  <2>3. CASE Client!Refresh(p)
    BY <1>3, <1>5, <2>3 DEF Client!Refresh
  <2>4. CASE Client!Type(p) \/ Client!Create(p) \/ Client!End(p) \/ Client!Restart(p)
    BY <1>4, <2>4 DEF Client!Type, Client!Create, Client!End, Client!Restart
  <2>5. QED
    BY <1>6, <2>2, <2>3, <2>4 DEF Client!Click
<1>7. ASSUME NEW p \in Page, NEW silent \in 0 .. (limits.silent - 1), NEW stable \in 0 .. (limits.stable - 1), NEW last,
             Client!Again(p, silent, stable, last)
      PROVE  Within'
  <2>1. Counts([at |-> "poll", silent |-> silent, stable |-> stable, last |-> last])
    OBVIOUS
  <2>2. QED
    BY <1>3, <1>7, <2>1 DEF Client!Again
<1>8. ASSUME NEW p \in Page, Client!Work(p)
      PROVE  Within'
  <2>1. op[p].at = "listen" => op[p] \in Listening
    BY <1>2 DEF Operation, Polling, Client!Idle
  <2>2. CASE Client!Poll(p)
    <3>1. /\ op[p] \in Polling
          /\ op' = [op EXCEPT ![p] = [at |-> "listen", silent |-> op[p].silent, stable |-> op[p].stable,
                                      last |-> op[p].last, heard |-> None]]
      BY <1>2, <2>2 DEF Operation, Listening, Client!Idle, Client!Poll, ClientInv, PageTypes
    <3>2. Counts([at |-> "listen", silent |-> op[p].silent, stable |-> op[p].stable, last |-> op[p].last, heard |-> None])
      BY <1>2, <3>1 DEF Polling
    <3>3. QED
      BY <1>3, <3>1, <3>2
  <2>3. CASE Client!Hear(p)
    <3>1. /\ op[p] \in Listening
          /\ op' = op \/ op' = [op EXCEPT ![p] = [op[p] EXCEPT !.heard = Head(callbacks)]]
      BY <2>1, <2>3 DEF Client!Hear, ClientInv, PageTypes
    <3>2. Counts([op[p] EXCEPT !.heard = Head(callbacks)])
      BY <1>2, <3>1 DEF Listening
    <3>3. QED
      BY <1>3, <3>1, <3>2
  <2>4. CASE Client!Evaluate(p)
    <3>1. /\ op[p].silent \in 0 .. (limits.silent - 1) /\ op[p].stable \in 0 .. (limits.stable - 1)
          /\ 0 \in 0 .. (limits.silent - 1)
      BY <1>1, <1>2, <2>4 DEF Client!Evaluate
    <3>2. PICK m : m = op[p].heard
      OBVIOUS
    <3>3. \/ op' = [op EXCEPT ![p] = Client!Idle]
          \/ ~Client!TooSilent(p) /\ Client!Again(p, Client!SilentAfter(p), op[p].stable, op[p].last)
          \/ /\ ~(Client!StableAfter(p, m) >= Client!StableLimit)
             /\ Client!Again(p, 0, Client!StableAfter(p, m), Client!Progress(m))
      BY <2>4, <3>2 DEF Client!Evaluate, Client!StartFails
    <3>4. ~Client!TooSilent(p) => Client!SilentAfter(p) \in 0 .. (limits.silent - 1)
      BY <1>1, <3>1 DEF Client!TooSilent, Client!SilentAfter, Client!SilentLimit
    <3>5. ~(Client!StableAfter(p, m) >= Client!StableLimit) => Client!StableAfter(p, m) \in 0 .. (limits.stable - 1)
      BY <1>1, <3>1 DEF Client!StableAfter, Client!StableLimit
    <3>6. QED
      BY <1>3, <1>5, <1>7, <3>1, <3>3, <3>4, <3>5
  <2>5. CASE Client!HearResults(p) \/ Client!NoResults(p)
    BY <1>3, <1>5, <2>5 DEF Client!HearResults, Client!NoResults
  <2>6. QED
    BY <1>8, <2>2, <2>3, <2>4, <2>5 DEF Client!Work
<1>9. CASE Client!AgentStep \/ UNCHANGED clientVars
  <2>1. op' = op
    BY <1>9 DEF Client!AgentStep, Client!GivesStart, Client!LogReads, Client!Launch, Client!AnswersPing,
                Client!AgentExits, clientVars
  <2>2. QED
    BY <1>0, <2>1 DEF Within
<1>10. QED
  BY <1>6, <1>8, <1>9 DEF Client!Next

LEMMA ClientStart ==
  ASSUME Client!Init
  PROVE  ClientInv /\ Within
<1>1. /\ Client!FreshPage \in Shown /\ Client!FreshPage.status = "I"
      /\ Client!NotLearned \in Learned /\ Client!NotLearned.from = Client!NotLearned.name
      /\ Client!Idle \in Operation /\ Client!Idle.at = "idle"
      /\ Client!NewLog \in LogState /\ ~Client!NewLog.started
  BY DEF Client!FreshPage, Shown, Client!Button, Client!NotLearned, Learned, Client!Idle, Operation, Client!NewLog, LogState
<1>2. PageTypes /\ KafkaTypes /\ AgentTypes
  BY <1>1, ShortTermAssumption DEF Client!ClientAssumption, Client!Init, PageTypes, KafkaTypes, AgentTypes
<1>3. UsedOnce /\ Honest /\ ShownTruly /\ Within
  BY <1>1 DEF Client!Init, UsedOnce, Honest, Spoken, ShownTruly, Within
<1>4. QED
  BY <1>2, <1>3 DEF ClientInv

LEMMA ClientTyped ==
  ASSUME ClientInv, Within
  PROVE  Client!ClientTypeOK /\ Client!LearnsOfItsAuction
<1>1. \A p \in Page : op[p].at \in {"idle", "results"} \/ op[p] \in Polling \/ op[p] \in Listening
  BY DEF ClientInv, PageTypes, Operation, Client!Idle
<1>2. QED
  BY <1>1 DEF ClientInv, PageTypes, KafkaTypes, AgentTypes, ShownTruly, Shown, Polling, Listening, LogState,
              Within, Client!SilentLimit, Client!StableLimit, Client!ClientTypeOK, Client!LearnsOfItsAuction

-----------------------------------------------------------------------------
(* Both parts.                                                             *)
Inv == (IsClient => ClientInv /\ Within) /\ (IsDocker => DockerInv)

THEOREM AlwaysInv == Spec => []Inv
<1>1. Init => Inv
  BY ClientStart, DockerStart DEF Init, Inv, IsClient, IsDocker
<1>2. Inv /\ [Next]_vars => Inv'
  <2>1. SUFFICES ASSUME Inv, [Next]_vars PROVE Inv'
    OBVIOUS
  <2>2. part' = part /\ (IsClient => [Client!Next]_clientVars) /\ (IsDocker => [Docker!Next]_containerVars)
    BY <2>1 DEF Next, vars, IsClient, IsDocker
  <2>3. QED
    BY <2>1, <2>2, ClientStep, WithinStep, DockerStep DEF Inv, IsClient, IsDocker
<1>3. QED
  BY <1>1, <1>2, PTL DEF Spec

(* Every variable of pages, agents, parents and workers keeps its type.     *)
THEOREM ClientAndContainersTyped == Spec => []ClientAndContainersTypeOK
<1>1. Inv => ClientAndContainersTypeOK
  BY ClientTyped, DockerTyped DEF Inv, ClientAndContainersTypeOK
<1>2. QED
  BY <1>1, AlwaysInv, PTL

(* A page learns of its own auction only, and shows one as started only if  *)
(* its LOG has given the start, whatever other pages ask, read and purge on *)
(* the topic they share.                                                   *)
THEOREM PagesLearnTheirOwn == Spec => []LearnsOfItsAuction
<1>1. Inv => LearnsOfItsAuction
  BY ClientTyped DEF Inv, LearnsOfItsAuction
<1>2. QED
  BY <1>1, AlwaysInv, PTL

(* No replica runs twice, on a local daemon or in a fleet of any size,      *)
(* whatever workers are lost and whatever calls time out.                  *)
THEOREM NoReplicaTwice == Spec => []OneContainerPerReplica
<1>1. Inv => OneContainerPerReplica
  BY DEF Inv, DockerInv, OneContainerPerReplica
<1>2. QED
  BY <1>1, AlwaysInv, PTL
=============================================================================
