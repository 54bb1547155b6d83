------------------------- MODULE LotCreation_proofs -------------------------
(***************************************************************************)
(* Proofs about lot creation, for every number of optimizations and        *)
(* threads, all objective values and all shuffling parameters.             *)
(***************************************************************************)
EXTENDS LotCreationProperties, TLAPS

Searching(r) == pc[r] \in {"search", "close"}

(* A run alive works on an optimization that was started, and knows its     *)
(* values once it searches.                                                 *)
RunsAreReal ==
  \A r \in Run :
    /\ Alive(r) => opt[r] \in Optimizer /\ HasStarted(opt[r])
    /\ Searching(r) => vbest[r] \in Value /\ gbest[r] \in Value
    /\ pc[r] = "search" => left[r] > 0

(* What was started has values, an id and a state; what was not has nothing *)
(* to show.                                                                 *)
StartedHasValues ==
  /\ \A o \in Optimizer : HasStarted(o) => /\ cur[o] \in Value /\ best[o] \in Value
                                           /\ id[o] \in Optimizer /\ object[o] \in Optimizer
  /\ \A i \in Optimizer : cached[i] # None => front[cached[i]] # None
  /\ \A o \in Optimizer : /\ front[o] # None \/ ready[o] => HasStarted(o)
                          /\ ready[o] => front[o] # None
  /\ listener # None => HasStarted(listener)

LotTypeInv == LotTypeOK /\ RunsAreReal /\ StartedHasValues

-----------------------------------------------------------------------------
LEMMA AtMostLemma ==
  ASSUME NEW a \in Value, NEW b \in Value
  PROVE  AtMost(a, b) \in Value /\ AtMost(a, b) <= a /\ AtMost(a, b) <= b
BY NumbersAssumption DEF AtMost

LEMMA WaitLemma ==
  /\ ShuffleWait \in Nat
  /\ \A n \in Nat : Shorter(n) \in Nat
BY NumbersAssumption DEF ShuffleWait, Shorter, AtMost

LEMMA ShowLemma ==
  ASSUME NEW o \in Optimizer, front[o] \in Shown \cup {None}, NEW v \in Value
  PROVE  /\ Show(o, v) \in Shown
         /\ Show(o, v) # None
         /\ Show(o, v).best <= v
         /\ front[o] # None => Show(o, v).best <= front[o].best
<1>1. CASE front[o] = None
  BY <1>1, NoneAssumption, NumbersAssumption DEF Show, Shown
<1>2. CASE front[o] # None
  <2>1. front[o].best \in Value
    BY <1>2 DEF Shown
  <2>2. AtMost(v, front[o].best) \in Value /\ AtMost(v, front[o].best) <= v
        /\ AtMost(v, front[o].best) <= front[o].best
    BY <2>1, AtMostLemma
  <2> QED BY <1>2, <2>2, NoneAssumption DEF Show, Shown
<1> QED BY <1>1, <1>2

LEMMA LotInitTypes == Init => LotTypeInv
BY NoneAssumption DEF Init, LotTypeInv, LotTypeOK, RunsAreReal, StartedHasValues, Alive, Searching,
   HasStarted, Place, MaybeValue

(* The best shown of an optimization can only come down, to nothing never.  *)
FrontFalls(o) ==
  front[o] # None => front'[o] # None /\ front'[o].best <= front[o].best

LEMMA NothingFalls ==
  ASSUME LotTypeOK, front' = front
  PROVE  \A q \in Optimizer : FrontFalls(q)
<1> SUFFICES ASSUME NEW q \in Optimizer, front[q] # None
             PROVE  front'[q] # None /\ front'[q].best <= front[q].best
  BY DEF FrontFalls
<1>1. front[q].best \in Int
  BY NumbersAssumption DEF LotTypeOK, Shown
<1> QED BY <1>1

LEMMA NotifyTypes ==
  ASSUME NEW o \in Optimizer, NEW v \in Value, LotTypeOK, Notify(o, v),
         id[o] \in Optimizer
  PROVE  /\ front' \in [Optimizer -> Shown \cup {None}]
         /\ stored' \in [Optimizer -> Shown \cup {None}]
         /\ cached' \in [Optimizer -> Optimizer \cup {None}]
         /\ UNCHANGED <<active, storing, id, object>>
         /\ front'[o] = Show(o, v) /\ front'[o] # None
         /\ \A q \in Optimizer : FrontFalls(q)
         /\ \A q \in Optimizer : q # o /\ front[q] = None => front'[q] = None
         /\ \A j \in Optimizer : cached'[j] # None => cached'[j] = cached[j]
<1>1. \A q \in Optimizer : Show(q, v) \in Shown /\ Show(q, v) # None
  BY ShowLemma DEF LotTypeOK
<1>2. front' = [q \in Optimizer |-> IF q \in Told(o) THEN Show(q, v) ELSE front[q]]
  BY DEF Notify
<1>3. /\ front' \in [Optimizer -> Shown \cup {None}]
      /\ front'[o] = Show(o, v) /\ front'[o] # None
      /\ \A q \in Optimizer : q # o /\ front[q] = None => front'[q] = None
  BY <1>1, <1>2 DEF LotTypeOK, Told
<1>4. ASSUME NEW q \in Optimizer PROVE FrontFalls(q)
  <2> SUFFICES ASSUME front[q] # None
               PROVE  front'[q] # None /\ front'[q].best <= front[q].best
    BY DEF FrontFalls
  <2>1. front[q].best \in Int
    BY NumbersAssumption DEF LotTypeOK, Shown
  <2>2. Show(q, v) # None /\ Show(q, v).best <= front[q].best
    BY ShowLemma DEF LotTypeOK
  <2> QED BY <1>2, <2>1, <2>2
<1>5. /\ stored' \in [Optimizer -> Shown \cup {None}]
      /\ cached' \in [Optimizer -> Optimizer \cup {None}]
      /\ \A j \in Optimizer : cached'[j] # None => cached'[j] = cached[j]
  BY <1>1 DEF Notify, StoreUnder, resultVars, LotTypeOK
<1> QED BY <1>3, <1>4, <1>5 DEF Notify

(* What every start has in common: what the listener begins with, and what  *)
(* is left of the results and of the states that were loaded.               *)
Begins(r, o, c, b, i, s, from, store) ==
  /\ Start(r, o, c, b, i, s, from, store)
  /\ from # None => from.best = b
  /\ s = o \/ (cached[i] # None /\ s = object[cached[i]])
  /\ stored' \in [Optimizer -> Shown \cup {None}]
  /\ cached' \in [Optimizer -> Optimizer \cup {None}]
  /\ \A j \in Optimizer : cached'[j] \in {None, cached[j]} \/ (j = i /\ cached'[j] = o /\ from # None)

SomeBegin ==
  \E r \in Run, o, i, s \in Optimizer, c, b \in Value, from \in Shown \cup {None},
     store \in BOOLEAN : Begins(r, o, c, b, i, s, from, store)

LEMMA UserSteps ==
  ASSUME LotTypeInv, UserStep
  PROVE  \/ Poll \/ Stop \/ SomeBegin
         \/ \E r \in Run, store \in BOOLEAN : Continue(r, store)
<1>0. /\ stored \in [Optimizer -> Shown \cup {None}]
      /\ cached \in [Optimizer -> Optimizer \cup {None}]
      /\ front \in [Optimizer -> Shown \cup {None}]
  BY DEF LotTypeInv, LotTypeOK
<1>1. ASSUME NEW r \in Run, NEW o \in Optimizer, NEW store \in BOOLEAN, NEW v \in Value,
             StartNew(r, o, v, store)
      PROVE  SomeBegin
  <2>1. PICK i \in {o} \cup {id[p] : p \in {q \in Optimizer : HasStarted(q)}} :
          Start(r, o, v, v, i, o, None, store)
    BY <1>1 DEF StartNew
  <2>2. i \in Optimizer
    BY DEF LotTypeInv, StartedHasValues
  <2>3. UNCHANGED <<stored, cached>>
    BY <1>1 DEF StartNew, resultVars
  <2>4. Begins(r, o, v, v, i, o, None, store)
    BY <1>0, <2>1, <2>2, <2>3 DEF Begins
  <2> QED BY <2>2, <2>4 DEF SomeBegin
<1>2. ASSUME NEW r \in Run, NEW o \in Optimizer, NEW store \in BOOLEAN,
             NEW c \in Value, NEW b \in Value, StartFromOld(r, o, c, b, store)
      PROVE  SomeBegin
  <2> DEFINE result == [cur |-> c, best |-> b]
  <2>1. result \in Shown /\ result.best = b /\ result # None
    BY NoneAssumption DEF Shown
  <2>2. /\ Start(r, o, c, b, o, o, result, store)
        /\ stored' = [stored EXCEPT ![o] = result]
        /\ cached' = [cached EXCEPT ![o] = o]
    BY <1>2 DEF StartFromOld
  <2> HIDE DEF result
  <2>3. Begins(r, o, c, b, o, o, result, store)
    BY <1>0, <2>1, <2>2 DEF Begins
  <2> QED BY <2>1, <2>3 DEF SomeBegin
<1>3. ASSUME NEW r \in Run, NEW o \in Optimizer, NEW store \in BOOLEAN, NEW i \in Optimizer,
             StartFrom(r, o, i, store)
      PROVE  SomeBegin
  <2>1. stored[i] \in Shown /\ stored' = stored
    BY <1>0, <1>3 DEF StartFrom
  <2>2. ASSUME cached[i] # None,
               Start(r, o, front[cached[i]].cur, front[cached[i]].best, i, object[cached[i]],
                     front[cached[i]], store),
               cached' = cached
        PROVE  SomeBegin
    <3> DEFINE held == cached[i]
    <3>1. held \in Optimizer /\ front[held] # None
      BY <1>0, <2>2 DEF LotTypeInv, StartedHasValues
    <3>2. front[held] \in Shown /\ object[held] \in Optimizer
      BY <1>0, <3>1 DEF LotTypeInv, StartedHasValues
    <3>3. front[held].cur \in Value /\ front[held].best \in Value
      BY <3>2 DEF Shown
    <3>4. Begins(r, o, front[held].cur, front[held].best, i, object[held], front[held], store)
      BY <1>0, <2>1, <2>2 DEF Begins
    <3> QED BY <3>2, <3>3, <3>4 DEF SomeBegin
  <2>3. ASSUME Start(r, o, stored[i].cur, stored[i].best, i, o, stored[i], store),
               cached' = [cached EXCEPT ![i] = o]
        PROVE  SomeBegin
    <3>1. stored[i].cur \in Value /\ stored[i].best \in Value
      BY <2>1 DEF Shown
    <3>2. Begins(r, o, stored[i].cur, stored[i].best, i, o, stored[i], store)
      BY <1>0, <1>3, <2>1, <2>3 DEF Begins, StartFrom
    <3> QED BY <2>1, <3>1, <3>2 DEF SomeBegin
  <2> QED BY <1>3, <2>2, <2>3 DEF StartFrom
<1> QED BY <1>1, <1>2, <1>3 DEF UserStep

LEMMA UserTypes ==
  LotTypeInv /\ UserStep => LotTypeInv'
<1> SUFFICES ASSUME LotTypeInv, UserStep PROVE LotTypeInv'
  OBVIOUS
<1>1. CASE Poll
  <2>1. LotTypeOK'
    BY <1>1 DEF LotTypeInv, LotTypeOK, Poll, SwitchOff, optimizerVars, runVars, resultVars
  <2>2. RunsAreReal'
    BY <1>1 DEF LotTypeInv, RunsAreReal, Poll, Alive, Searching, HasStarted, optimizerVars, runVars
  <2>3. StartedHasValues'
    BY <1>1 DEF LotTypeInv, StartedHasValues, Poll, HasStarted, optimizerVars, runVars, resultVars
  <2> QED BY <2>1, <2>2, <2>3 DEF LotTypeInv
<1>2. CASE Stop
  <2>1. LotTypeOK'
    BY <1>2 DEF LotTypeInv, LotTypeOK, Stop, optimizerVars, runVars, resultVars
  <2>2. RunsAreReal'
    BY <1>2 DEF LotTypeInv, RunsAreReal, Stop, Alive, Searching, HasStarted, optimizerVars, runVars
  <2>3. StartedHasValues'
    BY <1>2 DEF LotTypeInv, StartedHasValues, Stop, HasStarted, optimizerVars, runVars, resultVars
  <2> QED BY <2>1, <2>2, <2>3 DEF LotTypeInv
<1>3. ASSUME SomeBegin
      PROVE  LotTypeInv'
  <2>0. PICK r \in Run, o, i, obj \in Optimizer, c, b \in Value, from \in Shown \cup {None},
             store \in BOOLEAN : Begins(r, o, c, b, i, obj, from, store)
    BY <1>3 DEF SomeBegin
  <2>1. /\ front' = [front EXCEPT ![o] = from]
        /\ id' = [id EXCEPT ![o] = i] /\ object' = [object EXCEPT ![o] = obj]
        /\ cur' = [cur EXCEPT ![o] = c] /\ best' = [best EXCEPT ![o] = b]
        /\ given' = [given EXCEPT ![o] = b] /\ storing' = [storing EXCEPT ![o] = store]
        /\ active' = [SwitchOff(active) EXCEPT ![o] = TRUE] /\ ready' = ready
        /\ ~HasStarted(o)
    BY <2>0 DEF Begins, Start
  <2>2. /\ stored' \in [Optimizer -> Shown \cup {None}]
        /\ cached' \in [Optimizer -> Optimizer \cup {None}]
        /\ \A j \in Optimizer : cached'[j] \in {None, cached[j]} \/ (cached'[j] = o /\ from # None)
    BY <2>0 DEF Begins
  <2>3. /\ thread' = r /\ listener' = o /\ Fresh(r)
        /\ pc' = [pc EXCEPT ![r] = "ready"] /\ opt' = [opt EXCEPT ![r] = o]
        /\ continued' = [continued EXCEPT ![r] = FALSE]
        /\ left' = [left EXCEPT ![r] = Iterations]
        /\ UNCHANGED <<killed, vbest, gbest, minima, since, wait>>
    BY <2>0 DEF Begins, Start, Launch
  <2>4. LotTypeOK'
    <3>1. SwitchOff(active) \in [Optimizer -> BOOLEAN]
      BY DEF LotTypeInv, LotTypeOK, SwitchOff
    <3> QED BY <2>1, <2>2, <2>3, <3>1, NumbersAssumption DEF LotTypeInv, LotTypeOK, Place, MaybeValue
  <2>5. given'[o] = b /\ b # None
    BY <2>1, NoneAssumption DEF LotTypeInv, LotTypeOK
  <2>6. RunsAreReal'
    BY <2>1, <2>3, <2>5, NoneAssumption
       DEF LotTypeInv, LotTypeOK, RunsAreReal, Alive, Searching, HasStarted, Fresh
  <2>7. StartedHasValues'
    <3>1. \A q \in Optimizer : q # o =>
            /\ given'[q] = given[q] /\ cur'[q] = cur[q] /\ best'[q] = best[q]
            /\ id'[q] = id[q] /\ object'[q] = object[q] /\ front'[q] = front[q]
      BY <2>1 DEF LotTypeInv, LotTypeOK
    <3>2. /\ cur'[o] = c /\ best'[o] = b /\ id'[o] = i /\ object'[o] = obj /\ front'[o] = from
          /\ given'[o] # None /\ front[o] = None
      BY <2>1, <2>5 DEF LotTypeInv, LotTypeOK, StartedHasValues
    <3>3. ASSUME NEW j \in Optimizer, cached'[j] # None PROVE front'[cached'[j]] # None
      <4>1. CASE cached'[j] = o /\ from # None
        BY <3>2, <4>1
      <4>2. CASE cached'[j] = cached[j]
        <5>1. cached[j] \in Optimizer /\ front[cached[j]] # None
          BY <3>3, <4>2 DEF LotTypeInv, LotTypeOK, StartedHasValues
        <5> QED BY <3>1, <3>2, <4>2, <5>1
      <4> QED BY <2>2, <3>3, <4>1, <4>2
    <3> QED BY <2>1, <2>3, <3>1, <3>2, <3>3 DEF LotTypeInv, StartedHasValues, HasStarted
  <2> QED BY <2>4, <2>6, <2>7 DEF LotTypeInv
<1>4. ASSUME NEW r \in Run, NEW store \in BOOLEAN, Continue(r, store)
      PROVE  LotTypeInv'
  <2>1. /\ active' = [active EXCEPT ![listener] = TRUE]
        /\ storing' = [storing EXCEPT ![listener] = store]
        /\ IF StoreNow(store) THEN StoreUnder(id[listener], front[listener]) ELSE UNCHANGED resultVars
        /\ UNCHANGED <<front, id, object, optimizerVars, given>>
        /\ listener # None
    BY <1>4 DEF Continue
  <2>2. /\ thread' = r /\ listener' = listener /\ Fresh(r)
        /\ pc' = [pc EXCEPT ![r] = "ready"] /\ opt' = [opt EXCEPT ![r] = listener]
        /\ continued' = [continued EXCEPT ![r] = TRUE]
        /\ left' = [left EXCEPT ![r] = Iterations]
        /\ UNCHANGED <<killed, vbest, gbest, minima, since, wait>>
    BY <1>4 DEF Continue, Launch
  <2>3. listener \in Optimizer
    BY <2>1 DEF LotTypeInv, LotTypeOK
  <2>4. LotTypeOK'
    <3>1. stored' \in [Optimizer -> Shown \cup {None}] /\ cached' \in [Optimizer -> Optimizer \cup {None}]
      BY <2>1, <2>3 DEF LotTypeInv, LotTypeOK, StoreUnder, resultVars
    <3> QED BY <2>1, <2>2, <2>3, <3>1, NumbersAssumption
            DEF LotTypeInv, LotTypeOK, Place, MaybeValue, optimizerVars
  <2>5. RunsAreReal'
    BY <2>1, <2>2, <2>3, NoneAssumption
       DEF LotTypeInv, LotTypeOK, RunsAreReal, StartedHasValues, Alive, Searching, HasStarted, Fresh
  <2>6. StartedHasValues'
    <3>1. \A j \in Optimizer : cached'[j] # None => cached'[j] = cached[j]
      BY <2>1 DEF StoreUnder, resultVars
    <3> QED BY <2>1, <2>2, <3>1 DEF LotTypeInv, StartedHasValues, HasStarted, optimizerVars
  <2> QED BY <2>4, <2>5, <2>6 DEF LotTypeInv
<1> QED BY <1>1, <1>2, <1>3, <1>4, UserSteps

LEMMA DieTypes ==
  ASSUME NEW r \in Run, Die(r), LotTypeInv,
         cur' \in [Optimizer -> MaybeValue], best' \in [Optimizer -> MaybeValue],
         \A o \in Optimizer : HasStarted(o) => cur'[o] \in Value /\ best'[o] \in Value
  PROVE  LotTypeInv'
<1>1. LotTypeOK'
  BY DEF LotTypeInv, LotTypeOK, Die, Place, MaybeValue, creatorVars, listenerVars, resultVars
<1>2. RunsAreReal'
  BY DEF LotTypeInv, LotTypeOK, RunsAreReal, Die, Alive, Searching, HasStarted
<1>3. StartedHasValues'
  BY DEF LotTypeInv, StartedHasValues, Die, HasStarted, creatorVars, listenerVars, resultVars
<1> QED BY <1>1, <1>2, <1>3 DEF LotTypeInv

LEMMA EnterTypes ==
  ASSUME NEW r \in Run, NEW v \in Value, NEW g \in Value, NEW on \in BOOLEAN,
         pc[r] = "ready", LotTypeInv, EnterLoop(r, v, g, on)
  PROVE  /\ vbest' \in [Run -> MaybeValue] /\ gbest' \in [Run -> MaybeValue]
         /\ minima' \in [Run -> Nat] /\ since' \in [Run -> Nat] /\ wait' \in [Run -> Nat]
         /\ pc' \in [Run -> Place]
         /\ RunsAreReal'
         /\ UNCHANGED <<opt, continued, left, creatorVars, given>>
<1>1. /\ vbest' = [vbest EXCEPT ![r] = v] /\ gbest' = [gbest EXCEPT ![r] = g]
      /\ minima' = [minima EXCEPT ![r] = 0] /\ since' = [since EXCEPT ![r] = 0]
      /\ wait' = [wait EXCEPT ![r] = ShuffleWait]
      /\ pc' = [pc EXCEPT ![r] = After(r, left[r], on)]
      /\ UNCHANGED <<opt, continued, left, creatorVars, given>>
  BY DEF EnterLoop
<1>2. /\ After(r, left[r], on) \in {"search", "close"}
      /\ After(r, left[r], on) = "search" => left[r] > 0
  BY DEF After
<1>3. /\ vbest' \in [Run -> MaybeValue] /\ gbest' \in [Run -> MaybeValue]
      /\ minima' \in [Run -> Nat] /\ since' \in [Run -> Nat] /\ wait' \in [Run -> Nat]
      /\ pc' \in [Run -> Place]
  BY <1>1, <1>2, WaitLemma DEF LotTypeInv, LotTypeOK, Place, MaybeValue
<1>4. RunsAreReal'
  BY <1>1, <1>2 DEF LotTypeInv, LotTypeOK, RunsAreReal, Alive, Searching, HasStarted
<1> QED BY <1>1, <1>3, <1>4

(* After a listener was told, what was started has values still.            *)
LEMMA AlsoShown ==
  ASSUME NEW o \in Optimizer, LotTypeInv, HasStarted(o),
         UNCHANGED <<listener, given, id, object>>,
         \A q \in Optimizer : HasStarted(q) => cur'[q] \in Value /\ best'[q] \in Value,
         \A q \in Optimizer : q # o => ready'[q] = ready[q],
         front'[o] # None, \A q \in Optimizer : FrontFalls(q),
         \A q \in Optimizer : q # o /\ front[q] = None => front'[q] = None,
         \A j \in Optimizer : cached'[j] # None => cached'[j] = cached[j]
  PROVE  StartedHasValues'
<1>1. \A q \in Optimizer : HasStarted(q)' <=> HasStarted(q)
  BY DEF HasStarted
<1>2. \A q \in Optimizer : /\ front'[q] # None \/ ready'[q] => HasStarted(q)
                           /\ ready'[q] => front'[q] # None
  BY DEF LotTypeInv, StartedHasValues, FrontFalls
<1>3. \A j \in Optimizer : cached'[j] # None => front'[cached'[j]] # None
  BY DEF FrontFalls, LotTypeInv, LotTypeOK, StartedHasValues
<1>4. listener' # None => HasStarted(listener)'
  BY DEF LotTypeInv, StartedHasValues, HasStarted
<1>5. \A q \in Optimizer : HasStarted(q) => id'[q] \in Optimizer /\ object'[q] \in Optimizer
  BY DEF LotTypeInv, StartedHasValues
<1> QED BY <1>1, <1>2, <1>3, <1>4, <1>5 DEF StartedHasValues

(* What the end of an iteration does, whichever kind of iteration it was.   *)
LEMMA IterationTypes ==
  ASSUME NEW r \in Run, NEW v \in Value, pc[r] = "search", LotTypeInv, EndIteration(r, v),
         vbest' \in [Run -> MaybeValue], gbest' \in [Run -> MaybeValue],
         vbest'[r] \in Value, gbest'[r] \in Value,
         \A s \in Run : s # r => vbest'[s] = vbest[s] /\ gbest'[s] = gbest[s],
         minima' \in [Run -> Nat], since' \in [Run -> Nat], wait' \in [Run -> Nat],
         best' \in [Optimizer -> MaybeValue],
         \A o \in Optimizer : HasStarted(o) => best'[o] \in Value
  PROVE  LotTypeInv'
<1> DEFINE o == opt[r]
<1>1. o \in Optimizer /\ HasStarted(o) /\ left[r] \in Nat /\ left[r] > 0 /\ id[o] \in Optimizer
  BY NoneAssumption DEF LotTypeInv, LotTypeOK, RunsAreReal, StartedHasValues, Alive
<1>2. PICK on \in GoOn(o) : pc' = [pc EXCEPT ![r] = After(r, left[r] - 1, on)]
  BY DEF EndIteration
<1>3. /\ cur' = [cur EXCEPT ![o] = v] /\ left' = [left EXCEPT ![r] = @ - 1]
      /\ Notify(o, v)
      /\ UNCHANGED <<creatorVars, ready, opt, continued, given>>
  BY DEF EndIteration
<1>4. /\ front' \in [Optimizer -> Shown \cup {None}]
      /\ stored' \in [Optimizer -> Shown \cup {None}]
      /\ cached' \in [Optimizer -> Optimizer \cup {None}]
      /\ UNCHANGED <<active, storing, id, object>>
      /\ front'[o] # None
      /\ \A q \in Optimizer : FrontFalls(q)
      /\ \A q \in Optimizer : q # o /\ front[q] = None => front'[q] = None
      /\ \A j \in Optimizer : cached'[j] # None => cached'[j] = cached[j]
  BY <1>1, <1>3, NotifyTypes DEF LotTypeInv
<1>5. /\ After(r, left[r] - 1, on) \in {"search", "close"}
      /\ After(r, left[r] - 1, on) = "search" => left[r] - 1 > 0
  BY DEF After
<1> HIDE DEF o
<1>6. LotTypeOK'
  <2>1. left' \in [Run -> Nat] /\ pc' \in [Run -> Place]
    BY <1>1, <1>2, <1>3, <1>5 DEF LotTypeInv, LotTypeOK, Place
  <2>2. cur' \in [Optimizer -> MaybeValue]
    BY <1>3 DEF LotTypeInv, LotTypeOK, MaybeValue
  <2> QED BY <1>3, <1>4, <2>1, <2>2 DEF LotTypeInv, LotTypeOK, creatorVars
<1>7. RunsAreReal'
  BY <1>1, <1>2, <1>3, <1>5 DEF LotTypeInv, LotTypeOK, RunsAreReal, Alive, Searching, HasStarted
<1>8. StartedHasValues'
  <2>1. \A q \in Optimizer : HasStarted(q) => cur'[q] \in Value /\ best'[q] \in Value
    BY <1>3 DEF LotTypeInv, LotTypeOK, StartedHasValues
  <2>2. UNCHANGED <<listener, given, id, object, ready>>
    BY <1>3, <1>4 DEF creatorVars
  <2> QED BY <1>1, <1>4, <2>1, <2>2, AlsoShown
<1> QED BY <1>6, <1>7, <1>8 DEF LotTypeInv

LEMMA RunTypes ==
  ASSUME NEW r \in Run, LotTypeInv, RunStep(r)
  PROVE  LotTypeInv'
<1> USE DEF NextValues, ShuffledValues
<1>0. /\ Alive(r) => opt[r] \in Optimizer /\ HasStarted(opt[r])
      /\ Alive(r) => cur[opt[r]] \in Value /\ best[opt[r]] \in Value
      /\ Searching(r) => vbest[r] \in Value /\ gbest[r] \in Value
      /\ r # None
  BY NoneAssumption DEF LotTypeInv, RunsAreReal, StartedHasValues
<1>1. CASE Resume(r)
  <2>1. /\ pc[r] = "ready" /\ EnterLoop(r, cur[opt[r]], best[opt[r]], TRUE)
        /\ UNCHANGED <<listenerVars, optimizerVars>>
    BY <1>1 DEF Resume
  <2>2. cur[opt[r]] \in Value /\ best[opt[r]] \in Value
    BY <1>0, <2>1 DEF Alive
  <2>3. /\ vbest' \in [Run -> MaybeValue] /\ gbest' \in [Run -> MaybeValue]
        /\ minima' \in [Run -> Nat] /\ since' \in [Run -> Nat] /\ wait' \in [Run -> Nat]
        /\ pc' \in [Run -> Place]
        /\ RunsAreReal'
        /\ UNCHANGED <<opt, continued, left, creatorVars, given>>
    BY <2>1, <2>2, EnterTypes
  <2>4. LotTypeOK'
    BY <2>1, <2>3 DEF LotTypeInv, LotTypeOK, listenerVars, resultVars, optimizerVars, creatorVars
  <2>5. StartedHasValues'
    BY <2>1, <2>3 DEF LotTypeInv, StartedHasValues, HasStarted, listenerVars, resultVars, optimizerVars, creatorVars
  <2> QED BY <2>3, <2>4, <2>5 DEF LotTypeInv
<1>2. ASSUME NEW v \in Value, Begin(r, v) PROVE LotTypeInv'
  <2> DEFINE o == opt[r]
  <2>1. /\ pc[r] = "ready"
        /\ cur' = [cur EXCEPT ![o] = v] /\ best' = [best EXCEPT ![o] = AtMost(v, best[o])]
        /\ ready' = [ready EXCEPT ![o] = TRUE]
        /\ Notify(o, v)
    BY <1>2 DEF Begin
  <2>2. PICK on \in GoOn(o) : EnterLoop(r, v, AtMost(v, best[o]), on)
    BY <1>2 DEF Begin
  <2>3. /\ o \in Optimizer /\ HasStarted(o) /\ AtMost(v, best[o]) \in Value /\ on \in BOOLEAN
        /\ id[o] \in Optimizer
    BY <1>0, <2>1, AtMostLemma DEF Alive, GoOn, LotTypeInv, StartedHasValues
  <2>4. /\ vbest' \in [Run -> MaybeValue] /\ gbest' \in [Run -> MaybeValue]
        /\ minima' \in [Run -> Nat] /\ since' \in [Run -> Nat] /\ wait' \in [Run -> Nat]
        /\ pc' \in [Run -> Place]
        /\ RunsAreReal'
        /\ UNCHANGED <<opt, continued, left, creatorVars, given>>
    BY <2>1, <2>2, <2>3, EnterTypes
  <2>5. /\ front' \in [Optimizer -> Shown \cup {None}]
        /\ stored' \in [Optimizer -> Shown \cup {None}]
        /\ cached' \in [Optimizer -> Optimizer \cup {None}]
        /\ UNCHANGED <<active, storing, id, object>>
        /\ front'[o] # None
        /\ \A q \in Optimizer : FrontFalls(q)
        /\ \A q \in Optimizer : q # o /\ front[q] = None => front'[q] = None
        /\ \A j \in Optimizer : cached'[j] # None => cached'[j] = cached[j]
    BY <2>1, <2>3, NotifyTypes DEF LotTypeInv
  <2> HIDE DEF o
  <2>6. LotTypeOK'
    BY <2>1, <2>3, <2>4, <2>5 DEF LotTypeInv, LotTypeOK, MaybeValue, creatorVars
  <2>7. StartedHasValues'
    <3>1. \A q \in Optimizer : HasStarted(q) => cur'[q] \in Value /\ best'[q] \in Value
      BY <2>1, <2>3 DEF LotTypeInv, LotTypeOK, StartedHasValues
    <3>2. UNCHANGED <<listener, given>> /\ \A q \in Optimizer : q # o => ready'[q] = ready[q]
      BY <2>1, <2>4 DEF creatorVars, LotTypeInv, LotTypeOK
    <3> QED BY <2>3, <2>5, <3>1, <3>2, AlsoShown
  <2> QED BY <2>4, <2>6, <2>7 DEF LotTypeInv
<1>3. CASE Optimal(r)
  <2>1. /\ pc[r] = "search"
        /\ cur' = [cur EXCEPT ![opt[r]] = vbest[r]] /\ best' = [best EXCEPT ![opt[r]] = vbest[r]]
        /\ pc' = [pc EXCEPT ![r] = "close"]
        /\ UNCHANGED <<creatorVars, listenerVars, ready, opt, continued, left, vbest, gbest,
                       minima, since, wait, given>>
    BY <1>3 DEF Optimal
  <2>2. opt[r] \in Optimizer /\ HasStarted(opt[r]) /\ vbest[r] \in Value
    BY <1>0, <2>1 DEF Alive, Searching
  <2>3. LotTypeOK'
    BY <2>1, <2>2 DEF LotTypeInv, LotTypeOK, MaybeValue, Place, creatorVars, listenerVars, resultVars
  <2>4. RunsAreReal'
    BY <2>1 DEF LotTypeInv, LotTypeOK, RunsAreReal, Alive, Searching, HasStarted
  <2>5. StartedHasValues'
    BY <2>1, <2>2 DEF LotTypeInv, LotTypeOK, StartedHasValues, HasStarted, creatorVars, listenerVars, resultVars
  <2> QED BY <2>3, <2>4, <2>5 DEF LotTypeInv
<1>4. CASE NoNextStep(r)
  <2>1. LotTypeOK'
    BY <1>4 DEF NoNextStep, LotTypeInv, LotTypeOK, Place, creatorVars, listenerVars, resultVars, optimizerVars
  <2>2. RunsAreReal'
    BY <1>4 DEF NoNextStep, LotTypeInv, LotTypeOK, RunsAreReal, Alive, Searching, HasStarted
  <2>3. StartedHasValues'
    BY <1>4 DEF NoNextStep, LotTypeInv, StartedHasValues, HasStarted, creatorVars, listenerVars, resultVars, optimizerVars
  <2> QED BY <2>1, <2>2, <2>3 DEF LotTypeInv
<1>5. ASSUME NEW v \in Value, Improve(r, v) PROVE LotTypeInv'
  <2>1. /\ pc[r] = "search" /\ EndIteration(r, v)
        /\ vbest' = [vbest EXCEPT ![r] = v]
        /\ since' = [since EXCEPT ![r] = @ + 1]
        /\ UNCHANGED <<minima, wait>>
    BY <1>5 DEF Improve
  <2>2. \/ best' = [best EXCEPT ![opt[r]] = v] /\ gbest' = [gbest EXCEPT ![r] = v]
        \/ UNCHANGED <<best, gbest>>
    BY <1>5 DEF Improve
  <2>3. opt[r] \in Optimizer /\ gbest[r] \in Value
    BY <1>0, <2>1 DEF Alive, Searching
  <2>4. /\ best' \in [Optimizer -> MaybeValue]
        /\ \A o \in Optimizer : HasStarted(o) => best'[o] \in Value
    BY <2>2, <2>3 DEF LotTypeInv, LotTypeOK, StartedHasValues, MaybeValue
  <2>5. /\ vbest' \in [Run -> MaybeValue] /\ gbest' \in [Run -> MaybeValue]
        /\ vbest'[r] \in Value /\ gbest'[r] \in Value
        /\ \A s \in Run : s # r => vbest'[s] = vbest[s] /\ gbest'[s] = gbest[s]
    BY <2>1, <2>2, <2>3 DEF LotTypeInv, LotTypeOK, MaybeValue
  <2>6. minima' \in [Run -> Nat] /\ since' \in [Run -> Nat] /\ wait' \in [Run -> Nat]
    BY <2>1 DEF LotTypeInv, LotTypeOK
  <2> QED BY <2>1, <2>4, <2>5, <2>6, IterationTypes
<1>6. ASSUME NEW v \in Value, Climb(r, v) PROVE LotTypeInv'
  <2>1. /\ pc[r] = "search" /\ EndIteration(r, v)
        /\ minima' = [minima EXCEPT ![r] = @ + 1]
        /\ since' = [since EXCEPT ![r] = @ + 1]
        /\ UNCHANGED <<best, vbest, gbest, wait>>
    BY <1>6 DEF Climb
  <2>2. minima' \in [Run -> Nat] /\ since' \in [Run -> Nat] /\ wait' \in [Run -> Nat]
    BY <2>1 DEF LotTypeInv, LotTypeOK
  <2>3. /\ best' \in [Optimizer -> MaybeValue]
        /\ \A o \in Optimizer : HasStarted(o) => best'[o] \in Value
    BY <2>1 DEF LotTypeInv, LotTypeOK, StartedHasValues
  <2>4. /\ vbest' \in [Run -> MaybeValue] /\ gbest' \in [Run -> MaybeValue]
        /\ vbest'[r] \in Value /\ gbest'[r] \in Value
        /\ \A s \in Run : s # r => vbest'[s] = vbest[s] /\ gbest'[s] = gbest[s]
    BY <1>0, <2>1 DEF LotTypeInv, LotTypeOK, Searching
  <2> QED BY <2>1, <2>2, <2>3, <2>4, IterationTypes
<1>7. ASSUME NEW v \in Value, Shuffle(r, v) PROVE LotTypeInv'
  <2>1. /\ pc[r] = "search" /\ EndIteration(r, v)
        /\ vbest' = [vbest EXCEPT ![r] = v]
        /\ minima' = [minima EXCEPT ![r] = 0] /\ since' = [since EXCEPT ![r] = 0]
        /\ wait' = [wait EXCEPT ![r] = Shorter(@)]
        /\ UNCHANGED <<best, gbest>>
    BY <1>7 DEF Shuffle
  <2>2. minima' \in [Run -> Nat] /\ since' \in [Run -> Nat] /\ wait' \in [Run -> Nat]
    BY <2>1, WaitLemma DEF LotTypeInv, LotTypeOK
  <2>3. /\ best' \in [Optimizer -> MaybeValue]
        /\ \A o \in Optimizer : HasStarted(o) => best'[o] \in Value
    BY <2>1 DEF LotTypeInv, LotTypeOK, StartedHasValues
  <2>4. /\ vbest' \in [Run -> MaybeValue] /\ gbest' \in [Run -> MaybeValue]
        /\ vbest'[r] \in Value /\ gbest'[r] \in Value
        /\ \A s \in Run : s # r => vbest'[s] = vbest[s] /\ gbest'[s] = gbest[s]
    BY <1>0, <2>1 DEF LotTypeInv, LotTypeOK, Searching, MaybeValue
  <2> QED BY <2>1, <2>2, <2>3, <2>4, IterationTypes
<1>8. CASE Close(r)
  <2>1. pc[r] = "close" /\ Die(r)
    BY <1>8 DEF Close
  <2>2. \/ cur' = [cur EXCEPT ![opt[r]] = vbest[r]] /\ best' = [best EXCEPT ![opt[r]] = vbest[r]]
        \/ UNCHANGED <<cur, best>>
    BY <1>8 DEF Close
  <2>3. opt[r] \in Optimizer /\ vbest[r] \in Value
    BY <1>0, <2>1 DEF Alive, Searching
  <2>4. /\ cur' \in [Optimizer -> MaybeValue] /\ best' \in [Optimizer -> MaybeValue]
        /\ \A o \in Optimizer : HasStarted(o) => cur'[o] \in Value /\ best'[o] \in Value
    BY <2>2, <2>3 DEF LotTypeInv, LotTypeOK, StartedHasValues, MaybeValue
  <2> QED BY <2>1, <2>4, DieTypes
<1>9. CASE Fail(r)
  <2>1. Die(r) /\ cur' = cur /\ best' = best
    BY <1>9 DEF Fail
  <2>2. /\ cur' \in [Optimizer -> MaybeValue] /\ best' \in [Optimizer -> MaybeValue]
        /\ \A o \in Optimizer : HasStarted(o) => cur'[o] \in Value /\ best'[o] \in Value
    BY <2>1 DEF LotTypeInv, LotTypeOK, StartedHasValues
  <2> QED BY <2>1, <2>2, DieTypes
<1> QED BY <1>1, <1>2, <1>3, <1>4, <1>5, <1>6, <1>7, <1>8, <1>9 DEF RunStep, Iterate

LEMMA LotStutterTypes == LotTypeInv /\ UNCHANGED vars => LotTypeInv'
<1> SUFFICES ASSUME LotTypeInv, UNCHANGED vars PROVE LotTypeInv'
  OBVIOUS
<1> USE DEF vars, creatorVars, listenerVars, resultVars, optimizerVars, runVars
<1>1. LotTypeOK'
  BY DEF LotTypeInv, LotTypeOK
<1>2. RunsAreReal'
  BY DEF LotTypeInv, RunsAreReal, Alive, Searching, HasStarted
<1>3. StartedHasValues'
  BY DEF LotTypeInv, StartedHasValues, HasStarted
<1> QED BY <1>1, <1>2, <1>3 DEF LotTypeInv

LEMMA LotTypesKept == LotTypeInv /\ [Next]_vars => LotTypeInv'
BY UserTypes, RunTypes, LotStutterTypes DEF Next

THEOREM LotTypesHold == Spec => []LotTypeInv
<1> QED BY LotInitTypes, LotTypesKept, PTL DEF Spec

(* Every field keeps its type: LotTypeOK holds in every reachable state.    *)
THEOREM LotTypeCorrect == Spec => []LotTypeOK
<1>1. LotTypeInv => LotTypeOK
  BY DEF LotTypeInv
<1> QED BY <1>1, LotTypesHold, PTL

-----------------------------------------------------------------------------
(* What a step of a run may touch: itself and its own optimizer, and what   *)
(* is shown of those that share its state.                                  *)
RunFrame(r) ==
  /\ UNCHANGED <<thread, listener, killed, given, active, storing, id, object>>
  /\ pc[r] \in {"ready", "search", "close"}
  /\ \A s \in Run : s # r => /\ pc'[s] = pc[s] /\ opt'[s] = opt[s] /\ left'[s] = left[s]
                             /\ vbest'[s] = vbest[s] /\ gbest'[s] = gbest[s]
  /\ \/ pc'[r] \in {"search", "close"} /\ opt'[r] = opt[r]
     \/ pc'[r] = "dead"
  /\ \A o \in Optimizer : o # opt[r] => /\ cur'[o] = cur[o] /\ best'[o] = best[o]
                                        /\ ready'[o] = ready[o]
                                        /\ front[o] = None => front'[o] = None
  /\ \A o \in Optimizer : FrontFalls(o)
  /\ \A j \in Optimizer : cached'[j] # None => cached'[j] = cached[j]

LEMMA IterationFrame ==
  ASSUME NEW r \in Run, NEW v \in Value, pc[r] = "search", LotTypeInv, EndIteration(r, v),
         \A s \in Run : s # r => vbest'[s] = vbest[s] /\ gbest'[s] = gbest[s],
         \A o \in Optimizer : o # opt[r] => best'[o] = best[o]
  PROVE  RunFrame(r)
<1>1. opt[r] \in Optimizer /\ id[opt[r]] \in Optimizer
  BY NoneAssumption DEF LotTypeInv, LotTypeOK, RunsAreReal, StartedHasValues, Alive
<1>2. PICK on \in GoOn(opt[r]) : pc' = [pc EXCEPT ![r] = After(r, left[r] - 1, on)]
  BY DEF EndIteration
<1>3. /\ cur' = [cur EXCEPT ![opt[r]] = v] /\ left' = [left EXCEPT ![r] = @ - 1]
      /\ Notify(opt[r], v)
      /\ UNCHANGED <<creatorVars, ready, opt, continued, given>>
  BY DEF EndIteration
<1>4. /\ UNCHANGED <<active, storing, id, object>>
      /\ \A q \in Optimizer : FrontFalls(q)
      /\ \A q \in Optimizer : q # opt[r] /\ front[q] = None => front'[q] = None
      /\ \A j \in Optimizer : cached'[j] # None => cached'[j] = cached[j]
  BY <1>1, <1>3, NotifyTypes DEF LotTypeInv
<1>5. After(r, left[r] - 1, on) \in {"search", "close"}
  BY DEF After
<1> QED BY <1>1, <1>2, <1>3, <1>4, <1>5 DEF RunFrame, LotTypeInv, LotTypeOK, creatorVars

LEMMA RunFrames ==
  ASSUME NEW r \in Run, LotTypeInv, RunStep(r)
  PROVE  RunFrame(r)
<1> USE DEF NextValues, ShuffledValues
<1>0. /\ Alive(r) => opt[r] \in Optimizer
      /\ front' = front => \A q \in Optimizer : FrontFalls(q)
  BY NothingFalls DEF LotTypeInv, RunsAreReal
<1>1. CASE Resume(r)
  BY <1>0, <1>1 DEF Resume, EnterLoop, After, RunFrame, LotTypeInv, LotTypeOK, creatorVars,
              listenerVars, resultVars, optimizerVars
<1>2. ASSUME NEW v \in Value, Begin(r, v) PROVE RunFrame(r)
  <2> DEFINE o == opt[r]
  <2>1. /\ pc[r] = "ready"
        /\ cur' = [cur EXCEPT ![o] = v] /\ best' = [best EXCEPT ![o] = AtMost(v, best[o])]
        /\ ready' = [ready EXCEPT ![o] = TRUE]
        /\ Notify(o, v)
    BY <1>2 DEF Begin
  <2>2. PICK on \in GoOn(o) : EnterLoop(r, v, AtMost(v, best[o]), on)
    BY <1>2 DEF Begin
  <2>3. o \in Optimizer /\ id[o] \in Optimizer
    BY <1>0, <2>1, NoneAssumption DEF Alive, LotTypeInv, RunsAreReal, StartedHasValues
  <2>4. /\ UNCHANGED <<active, storing, id, object>>
        /\ \A q \in Optimizer : FrontFalls(q)
        /\ \A q \in Optimizer : q # o /\ front[q] = None => front'[q] = None
        /\ \A j \in Optimizer : cached'[j] # None => cached'[j] = cached[j]
    BY <2>1, <2>3, NotifyTypes DEF LotTypeInv
  <2> QED BY <2>1, <2>2, <2>3, <2>4 DEF EnterLoop, After, RunFrame, LotTypeInv, LotTypeOK, creatorVars
<1>3. CASE Optimal(r)
  BY <1>0, <1>3 DEF Optimal, RunFrame, LotTypeInv, LotTypeOK, creatorVars, listenerVars, resultVars
<1>4. CASE NoNextStep(r)
  BY <1>0, <1>4 DEF NoNextStep, RunFrame, LotTypeInv, LotTypeOK, creatorVars, listenerVars, resultVars, optimizerVars
<1>5. ASSUME NEW v \in Value, Improve(r, v) PROVE RunFrame(r)
  <2>1. /\ pc[r] = "search" /\ EndIteration(r, v)
        /\ \A s \in Run : s # r => vbest'[s] = vbest[s] /\ gbest'[s] = gbest[s]
        /\ \A o \in Optimizer : o # opt[r] => best'[o] = best[o]
    BY <1>5 DEF Improve, LotTypeInv, LotTypeOK
  <2> QED BY <2>1, IterationFrame
<1>6. ASSUME NEW v \in Value, Climb(r, v) PROVE RunFrame(r)
  BY <1>6, IterationFrame DEF Climb
<1>7. ASSUME NEW v \in Value, Shuffle(r, v) PROVE RunFrame(r)
  <2>1. /\ pc[r] = "search" /\ EndIteration(r, v)
        /\ \A s \in Run : s # r => vbest'[s] = vbest[s] /\ gbest'[s] = gbest[s]
        /\ \A o \in Optimizer : o # opt[r] => best'[o] = best[o]
    BY <1>7 DEF Shuffle, LotTypeInv, LotTypeOK
  <2> QED BY <2>1, IterationFrame
<1>8. CASE Close(r)
  BY <1>0, <1>8 DEF Close, Die, RunFrame, LotTypeInv, LotTypeOK, creatorVars, listenerVars, resultVars
<1>9. CASE Fail(r)
  BY <1>0, <1>9 DEF Fail, Die, RunFrame, LotTypeInv, LotTypeOK, creatorVars, listenerVars, resultVars
<1> QED BY <1>1, <1>2, <1>3, <1>4, <1>5, <1>6, <1>7, <1>8, <1>9 DEF RunStep, Iterate

(* The steps of the users, those that start a run told apart by Launch.     *)
LEMMA UserStepsLaunch ==
  ASSUME LotTypeInv, UserStep
  PROVE  \/ Poll \/ Stop
         \/ \E r \in Run, o \in Optimizer, cont \in BOOLEAN : Launch(r, o, cont)
<1>1. CASE SomeBegin
  <2>0. PICK r \in Run, o, i, obj \in Optimizer, c, b \in Value, from \in Shown \cup {None},
             store \in BOOLEAN : Begins(r, o, c, b, i, obj, from, store)
    BY <1>1 DEF SomeBegin
  <2>1. Launch(r, o, FALSE)
    BY <2>0 DEF Begins, Start
  <2> QED BY <2>1
<1>2. ASSUME NEW r \in Run, NEW store \in BOOLEAN, Continue(r, store)
      PROVE  listener \in Optimizer /\ Launch(r, listener, TRUE)
  BY <1>2 DEF Continue, LotTypeInv, LotTypeOK
<1>3. TRUE \in BOOLEAN /\ FALSE \in BOOLEAN
  OBVIOUS
<1> QED BY <1>1, <1>2, <1>3, UserSteps

-----------------------------------------------------------------------------
(* No run is lost.  Start and Continue find the known thread dead.          *)
LEMMA NoRunIsLostKept ==
  ASSUME LotTypeInv, NoRunIsLost, [Next]_vars
  PROVE  NoRunIsLost'
<1>1. CASE Poll
  BY <1>1 DEF Poll, NoRunIsLost, IsRunning, Alive, runVars
<1>2. CASE Stop
  BY <1>2, NoneAssumption DEF Stop, NoRunIsLost, Alive, runVars, LotTypeInv, LotTypeOK
<1>3. ASSUME SomeBegin
      PROVE  NoRunIsLost'
  <2>0. PICK r \in Run, o, i, obj \in Optimizer, c, b \in Value, from \in Shown \cup {None},
             store \in BOOLEAN : Begins(r, o, c, b, i, obj, from, store)
    BY <1>3 DEF SomeBegin
  <2>1. ~Alive(thread) /\ thread' = r /\ killed' = killed /\ pc' = [pc EXCEPT ![r] = "ready"]
    BY <2>0 DEF Begins, Start, Launch, MayStart, IsRunning
  <2> QED BY <2>1 DEF NoRunIsLost, Alive, LotTypeInv, LotTypeOK
<1>4. ASSUME NEW r \in Run, NEW store \in BOOLEAN, Continue(r, store)
      PROVE  NoRunIsLost'
  <2>1. ~Alive(thread) /\ thread' = r /\ killed' = killed /\ pc' = [pc EXCEPT ![r] = "ready"]
    BY <1>4 DEF Continue, Launch, IsRunning
  <2> QED BY <2>1 DEF NoRunIsLost, Alive, LotTypeInv, LotTypeOK
<1>5. ASSUME NEW r \in Run, RunStep(r)
      PROVE  NoRunIsLost'
  BY <1>5, RunFrames DEF RunFrame, NoRunIsLost, Alive
<1>6. CASE UNCHANGED vars
  BY <1>6 DEF NoRunIsLost, Alive, vars, creatorVars, runVars
<1> QED BY <1>1, <1>2, <1>3, <1>4, <1>5, <1>6, UserSteps DEF Next

(* No optimization goes on that the service has lost sight of: NoRunIsLost  *)
(* holds whatever the users do.                                             *)
THEOREM NoRunEscapes == Spec => []NoRunIsLost
<1>1. Init => NoRunIsLost
  BY DEF Init, NoRunIsLost, Alive
<1>2. LotTypeInv /\ NoRunIsLost /\ [Next]_vars => NoRunIsLost'
  BY NoRunIsLostKept
<1> QED BY <1>1, <1>2, LotTypesHold, PTL DEF Spec

-----------------------------------------------------------------------------
(* What is stored is what is shown.  A state belongs to one id, and for     *)
(* users who wait only the current optimization stores under its own.       *)
OneIdPerState ==
  /\ \A o \in Optimizer : HasStarted(o) => HasStarted(object[o]) /\ id[object[o]] = id[o]
  /\ \A i \in Optimizer : cached[i] # None => id[cached[i]] = i

NobodyElseStores ==
  listener # None =>
    \A r \in Run : Alive(r) /\ id[opt[r]] = id[listener] => opt[r] = listener

StoreInv == OneIdPerState /\ NobodyElseStores /\ StoredIsShown

LEMMA RunsStore ==
  ASSUME NEW r \in Run, LotTypeInv, RunStep(r)
  PROVE  \/ UNCHANGED <<front, stored, cached, ready>>
         \/ \E v \in Value : Notify(opt[r], v)
<1>1. Resume(r) \/ Optimal(r) \/ NoNextStep(r) \/ Close(r) \/ Fail(r)
        => UNCHANGED <<front, stored, cached, ready>>
  BY DEF Resume, Optimal, NoNextStep, Close, Fail, Die, listenerVars, resultVars, optimizerVars
<1>2. ASSUME NEW v \in Value, Begin(r, v) PROVE Notify(opt[r], v)
  BY <1>2 DEF Begin
<1>3. ASSUME NEW v \in Value, Improve(r, v) \/ Climb(r, v) \/ Shuffle(r, v)
      PROVE  Notify(opt[r], v)
  BY <1>3 DEF Improve, Climb, Shuffle, EndIteration
<1> QED BY <1>1, <1>2, <1>3 DEF RunStep, Iterate, NextValues, ShuffledValues

LEMMA OneIdKept ==
  ASSUME LotTypeInv, OneIdPerState, [Next]_vars
  PROVE  OneIdPerState'
<1>1. CASE Poll \/ Stop \/ UNCHANGED vars
  <2>1. UNCHANGED <<id, object, cached, given>>
    BY <1>1 DEF Poll, Stop, vars, listenerVars, resultVars
  <2> QED BY <2>1 DEF OneIdPerState, HasStarted
<1>2. ASSUME SomeBegin
      PROVE  OneIdPerState'
  <2>0. PICK r \in Run, o, i, obj \in Optimizer, c, b \in Value, from \in Shown \cup {None},
             store \in BOOLEAN : Begins(r, o, c, b, i, obj, from, store)
    BY <1>2 DEF SomeBegin
  <2>1. /\ ~HasStarted(o) /\ given' = [given EXCEPT ![o] = b]
        /\ id' = [id EXCEPT ![o] = i] /\ object' = [object EXCEPT ![o] = obj]
    BY <2>0 DEF Begins, Start
  <2>2. /\ id'[o] = i /\ object'[o] = obj /\ given'[o] = b /\ b # None
        /\ \A q \in Optimizer : q # o => /\ id'[q] = id[q] /\ object'[q] = object[q]
                                         /\ given'[q] = given[q]
    BY <2>1, NoneAssumption DEF LotTypeInv, LotTypeOK
  <2>3. \A j \in Optimizer : cached[j] # None =>
          cached[j] \in Optimizer /\ cached[j] # o /\ HasStarted(cached[j])
    BY <2>1 DEF LotTypeInv, LotTypeOK, StartedHasValues
  <2>4. obj = o \/ (obj # o /\ HasStarted(obj) /\ id[obj] = i)
    <3>1. obj = o \/ (cached[i] # None /\ obj = object[cached[i]])
      BY <2>0 DEF Begins
    <3>2. cached[i] # None => HasStarted(object[cached[i]]) /\ id[object[cached[i]]] = i
      BY <2>3 DEF OneIdPerState
    <3> QED BY <2>1, <3>1, <3>2
  <2>5. ASSUME NEW q \in Optimizer, HasStarted(q)' PROVE HasStarted(object[q])' /\ id'[object'[q]] = id'[q]
    <3>1. CASE q = o
      BY <2>2, <2>4, <3>1 DEF HasStarted
    <3>2. CASE q # o
      <4>1. HasStarted(q) /\ object[q] \in Optimizer /\ HasStarted(object[q]) /\ id[object[q]] = id[q]
        BY <2>2, <2>5, <3>2 DEF HasStarted, OneIdPerState, LotTypeInv, StartedHasValues
      <4> QED BY <2>1, <2>2, <3>2, <4>1 DEF HasStarted
    <3> QED BY <3>1, <3>2
  <2>6. ASSUME NEW j \in Optimizer, cached'[j] # None PROVE id'[cached'[j]] = j
    <3>1. cached'[j] = cached[j] \/ (j = i /\ cached'[j] = o)
      BY <2>0, <2>6 DEF Begins
    <3> QED BY <2>2, <2>3, <2>6, <3>1 DEF OneIdPerState
  <2> QED BY <2>5, <2>6 DEF OneIdPerState
<1>3. ASSUME NEW r \in Run, NEW store \in BOOLEAN, Continue(r, store)
      PROVE  OneIdPerState'
  <2>1. UNCHANGED <<id, object, given>> /\ \A j \in Optimizer : cached'[j] # None => cached'[j] = cached[j]
    BY <1>3 DEF Continue, StoreUnder, resultVars
  <2> QED BY <2>1 DEF OneIdPerState, HasStarted
<1>4. ASSUME NEW r \in Run, RunStep(r)
      PROVE  OneIdPerState'
  <2>1. UNCHANGED <<id, object, given>> /\ \A j \in Optimizer : cached'[j] # None => cached'[j] = cached[j]
    BY <1>4, RunFrames DEF RunFrame
  <2> QED BY <2>1 DEF OneIdPerState, HasStarted
<1> QED BY <1>1, <1>2, <1>3, <1>4, UserSteps DEF Next

LEMMA NobodyElseKept ==
  ASSUME PatientUsers, LotTypeInv, NobodyElseStores, [Next]_vars
  PROVE  NobodyElseStores'
<1>1. CASE Poll \/ Stop \/ UNCHANGED vars
  <2>1. UNCHANGED <<listener, id, opt, pc>>
    BY <1>1 DEF Poll, Stop, vars, creatorVars, listenerVars, runVars
  <2> QED BY <2>1 DEF NobodyElseStores, Alive
<1>2. ASSUME SomeBegin
      PROVE  NobodyElseStores'
  <2>0. PICK r \in Run, o, i, obj \in Optimizer, c, b \in Value, from \in Shown \cup {None},
             store \in BOOLEAN : Begins(r, o, c, b, i, obj, from, store)
    BY <1>2 DEF SomeBegin
  <2>1. /\ ~HasStarted(o) /\ NobodyStoresUnder(i) /\ id' = [id EXCEPT ![o] = i]
        /\ listener' = o /\ opt' = [opt EXCEPT ![r] = o] /\ pc' = [pc EXCEPT ![r] = "ready"]
    BY <2>0 DEF Begins, Start, Launch
  <2>2. id'[o] = i /\ \A q \in Optimizer : q # o => id'[q] = id[q]
    BY <2>1 DEF LotTypeInv, LotTypeOK
  <2>3. ASSUME NEW t \in Run, t # r, Alive(t)' PROVE id'[opt'[t]] # i
    <3>1. Alive(t) /\ opt'[t] = opt[t] /\ opt[t] \in Optimizer /\ opt[t] # o
      BY <2>1, <2>3 DEF Alive, LotTypeInv, LotTypeOK, RunsAreReal
    <3> QED BY <2>1, <2>2, <3>1 DEF NobodyStoresUnder
  <2>4. opt'[r] = o
    BY <2>1 DEF LotTypeInv, LotTypeOK
  <2> QED BY <2>1, <2>2, <2>3, <2>4 DEF NobodyElseStores
<1>3. ASSUME NEW r \in Run, NEW store \in BOOLEAN, Continue(r, store)
      PROVE  NobodyElseStores'
  <2>1. /\ listener # None /\ listener' = listener /\ id' = id
        /\ opt' = [opt EXCEPT ![r] = listener] /\ pc' = [pc EXCEPT ![r] = "ready"]
    BY <1>3 DEF Continue, Launch
  <2>2. ASSUME NEW t \in Run, t # r, Alive(t)' PROVE Alive(t) /\ opt'[t] = opt[t]
    BY <2>1, <2>2 DEF Alive, LotTypeInv, LotTypeOK
  <2>3. opt'[r] = listener
    BY <2>1 DEF LotTypeInv, LotTypeOK
  <2> QED BY <2>1, <2>2, <2>3 DEF NobodyElseStores
<1>4. ASSUME NEW r \in Run, RunStep(r)
      PROVE  NobodyElseStores'
  <2>1. RunFrame(r)
    BY <1>4, RunFrames
  <2>2. \A t \in Run : Alive(t)' => Alive(t) /\ opt'[t] = opt[t]
    BY <2>1, NoneAssumption DEF RunFrame, Alive
  <2> QED BY <2>1, <2>2 DEF RunFrame, NobodyElseStores
<1> QED BY <1>1, <1>2, <1>3, <1>4, UserSteps DEF Next

LEMMA StoredIsShownKept ==
  ASSUME PatientUsers, LotTypeInv, StoreInv, [Next]_vars
  PROVE  StoredIsShown'
<1>1. CASE Poll \/ Stop \/ UNCHANGED vars
  <2>1. UNCHANGED <<storing, front, stored, listener, ready, id>>
    BY <1>1 DEF Poll, Stop, vars, creatorVars, listenerVars, resultVars, optimizerVars
  <2> QED BY <2>1 DEF StoreInv, StoredIsShown
<1>2. ASSUME SomeBegin
      PROVE  StoredIsShown'
  <2>0. PICK r \in Run, o, i, obj \in Optimizer, c, b \in Value, from \in Shown \cup {None},
             store \in BOOLEAN : Begins(r, o, c, b, i, obj, from, store)
    BY <1>2 DEF SomeBegin
  <2>1. listener' = o /\ ~HasStarted(o) /\ ready' = ready
    BY <2>0 DEF Begins, Start, Launch
  <2>2. ~ready'[listener']
    BY <2>1 DEF LotTypeInv, LotTypeOK, StartedHasValues
  <2> QED BY <2>2 DEF StoredIsShown
<1>3. ASSUME NEW r \in Run, NEW store \in BOOLEAN, Continue(r, store)
      PROVE  StoredIsShown'
  <2>1. /\ storing' = [storing EXCEPT ![listener] = store] /\ UNCHANGED <<front, id, ready, listener>>
        /\ stored' = IF StoreNow(store) THEN [stored EXCEPT ![id[listener]] = front[listener]]
                                        ELSE stored
        /\ listener \in Optimizer /\ id[listener] \in Optimizer
    BY <1>3 DEF Continue, Launch, StoreUnder, resultVars, optimizerVars, LotTypeInv, LotTypeOK,
                StartedHasValues
  <2> SUFFICES ASSUME store, ready[listener]
               PROVE  stored'[id[listener]] = front[listener]
    BY <2>1 DEF StoredIsShown, LotTypeInv, LotTypeOK
  <2>2. CASE StoreNow(store)
    BY <2>1, <2>2 DEF LotTypeInv, LotTypeOK
  <2>3. CASE ~StoreNow(store)
    <3>1. storing[listener] \/ front[listener] = None
      BY <2>3 DEF StoreNow
    <3>2. CASE storing[listener]
      BY <2>1, <2>3, <3>2, NoneAssumption DEF StoreInv, StoredIsShown
    <3>3. CASE front[listener] = None
      BY <2>1, <3>3 DEF LotTypeInv, StartedHasValues
    <3> QED BY <3>1, <3>2, <3>3
  <2> QED BY <2>2, <2>3
<1>4. ASSUME NEW r \in Run, RunStep(r)
      PROVE  StoredIsShown'
  <2>1. RunFrame(r) /\ Alive(r) /\ opt[r] \in Optimizer /\ HasStarted(opt[r])
    BY <1>4, RunFrames, NoneAssumption DEF RunFrame, Alive, LotTypeInv, RunsAreReal
  <2>2. UNCHANGED <<listener, storing, id>>
    BY <2>1 DEF RunFrame
  <2>3. CASE UNCHANGED <<front, stored, cached, ready>>
    BY <2>2, <2>3 DEF StoreInv, StoredIsShown
  <2>4. ASSUME NEW v \in Value, Notify(opt[r], v) PROVE StoredIsShown'
    <3> SUFFICES ASSUME listener # None, storing[listener], ready'[listener]
                 PROVE  stored'[id[listener]] = front'[listener]
      BY <2>2 DEF StoredIsShown
    <3>1. listener \in Optimizer /\ HasStarted(listener) /\ id[listener] \in Optimizer
          /\ id[opt[r]] \in Optimizer
      BY <2>1 DEF LotTypeInv, LotTypeOK, StartedHasValues
    <3>2. CASE opt[r] = listener
      <4>1. front'[listener] = Show(listener, v)
        BY <2>4, <3>1, <3>2, NotifyTypes DEF LotTypeInv
      <4>2. stored' = [stored EXCEPT ![id[listener]] = Show(listener, v)]
        BY <2>4, <3>2 DEF Notify, StoreUnder
      <4> QED BY <3>1, <4>1, <4>2 DEF LotTypeInv, LotTypeOK
    <3>3. CASE opt[r] # listener
      <4>1. id[opt[r]] # id[listener]
        BY <2>1, <3>3 DEF StoreInv, NobodyElseStores
      <4>2. object[opt[r]] # object[listener]
        BY <2>1, <3>1, <4>1 DEF StoreInv, OneIdPerState
      <4>3. front'[listener] = front[listener]
        BY <2>4, <3>1, <3>3, <4>2 DEF Notify, Told
      <4>4. stored'[id[listener]] = stored[id[listener]]
        BY <2>4, <3>1, <4>1 DEF Notify, StoreUnder, resultVars, LotTypeInv, LotTypeOK
      <4>5. ready[listener]
        BY <2>1, <3>1, <3>3 DEF RunFrame
      <4> QED BY <3>1, <4>3, <4>4, <4>5 DEF StoreInv, StoredIsShown
    <3> QED BY <3>2, <3>3
  <2> QED BY <1>4, <2>3, <2>4, RunsStore
<1> QED BY <1>1, <1>2, <1>3, <1>4, UserSteps DEF Next

(* For users who start from a result only once nobody works under its id,   *)
(* what the service has stored of the current optimization is what its      *)
(* users see, from its first report on and as long as it stores:            *)
(* StoredIsShown.                                                           *)
THEOREM StoreFollowsFront ==
  ASSUME PatientUsers
  PROVE  Spec => []StoredIsShown
<1>1. Init => StoreInv
  BY DEF Init, StoreInv, OneIdPerState, NobodyElseStores, StoredIsShown, HasStarted
<1>2. LotTypeInv /\ StoreInv /\ [Next]_vars => StoreInv'
  BY OneIdKept, NobodyElseKept, StoredIsShownKept DEF StoreInv
<1>3. StoreInv => StoredIsShown
  BY DEF StoreInv
<1> QED BY <1>1, <1>2, <1>3, LotTypesHold, PTL DEF Spec

-----------------------------------------------------------------------------
(* A stop is the end of a run, for users who wait for it.  A run alive that *)
(* is killed has a listener that is off, for its listener is switched on    *)
(* again only once it has died.                                             *)
StopInv ==
  /\ \A r \in Run : killed[r] /\ Alive(r) => ~active[opt[r]]
  /\ Alive(thread) => opt[thread] = listener
  /\ \A r \in Run : Fresh(r) => ~killed[r] /\ thread # r

LEMMA StopInvKept ==
  ASSUME PatientUsers, LotTypeInv, StopInv, [Next]_vars
  PROVE  StopInv'
<1>1. CASE Poll
  <2>1. /\ thread' = None /\ UNCHANGED <<listener, killed, pc, opt>>
        /\ active' = SwitchOff(active)
    BY <1>1 DEF Poll, runVars
  <2>2. \A q \in Optimizer : SwitchOff(active)[q] => active[q]
    BY DEF SwitchOff, LotTypeInv, LotTypeOK
  <2>3. \A r \in Run : Alive(r)' => Alive(r) /\ opt[r] \in Optimizer
    BY <2>1 DEF Alive, LotTypeInv, RunsAreReal
  <2>4. \A r \in Run : Fresh(r)' => Fresh(r) /\ thread' # r
    BY <2>1, NoneAssumption DEF Fresh
  <2> QED BY <2>1, <2>2, <2>3, <2>4 DEF StopInv, Alive
<1>2. CASE Stop
  <2>1. /\ killed' = IF thread # None THEN [killed EXCEPT ![thread] = TRUE] ELSE killed
        /\ thread' = None /\ UNCHANGED <<listener, runVars>>
        /\ active' = IF listener # None THEN [active EXCEPT ![listener] = FALSE] ELSE active
    BY <1>2 DEF Stop
  <2>2. UNCHANGED <<pc, opt>>
    BY <2>1 DEF runVars
  <2>3. ASSUME NEW r \in Run, killed'[r], Alive(r)' PROVE ~active'[opt'[r]]
    <3>1. Alive(r) /\ opt[r] \in Optimizer
      BY <2>2, <2>3 DEF Alive, LotTypeInv, RunsAreReal
    <3>2. CASE r = thread
      BY <2>1, <2>2, <3>1, <3>2, NoneAssumption DEF StopInv, LotTypeInv, LotTypeOK
    <3>3. CASE r # thread
      BY <2>1, <2>2, <2>3, <3>1, <3>3 DEF StopInv, LotTypeInv, LotTypeOK
    <3> QED BY <3>2, <3>3
  <2>4. Alive(thread)' => opt'[thread'] = listener'
    BY <2>1 DEF Alive
  <2>5. \A r \in Run : Fresh(r)' => ~killed'[r] /\ thread' # r
    BY <2>1, <2>2, NoneAssumption DEF StopInv, Fresh, LotTypeInv, LotTypeOK
  <2> QED BY <2>3, <2>4, <2>5 DEF StopInv
<1>3. ASSUME SomeBegin
      PROVE  StopInv'
  <2>0. PICK r \in Run, o, i, obj \in Optimizer, c, b \in Value, from \in Shown \cup {None},
             store \in BOOLEAN : Begins(r, o, c, b, i, obj, from, store)
    BY <1>3 DEF SomeBegin
  <2>1. /\ thread' = r /\ listener' = o /\ killed' = killed /\ ~HasStarted(o) /\ Fresh(r)
        /\ pc' = [pc EXCEPT ![r] = "ready"] /\ opt' = [opt EXCEPT ![r] = o]
        /\ active' = [SwitchOff(active) EXCEPT ![o] = TRUE]
    BY <2>0 DEF Begins, Start, Launch
  <2>2. SwitchOff(active) \in [Optimizer -> BOOLEAN]
        /\ \A q \in Optimizer : SwitchOff(active)[q] => active[q]
    BY DEF SwitchOff, LotTypeInv, LotTypeOK
  <2>3. \A s \in Run : s # r /\ Alive(s)' => /\ Alive(s) /\ opt'[s] = opt[s]
                                             /\ opt[s] \in Optimizer /\ opt[s] # o
    BY <2>1 DEF Alive, LotTypeInv, LotTypeOK, RunsAreReal
  <2>4. ~killed'[r] /\ opt'[r] = o /\ pc'[r] = "ready"
    BY <2>1 DEF StopInv, LotTypeInv, LotTypeOK
  <2>5. \A s \in Run : killed'[s] /\ Alive(s)' => ~active'[opt'[s]]
    BY <2>1, <2>2, <2>3, <2>4 DEF StopInv
  <2>6. Alive(thread)' => opt'[thread'] = listener'
    BY <2>1, <2>4
  <2>7. \A s \in Run : Fresh(s)' => ~killed'[s] /\ thread' # s
    BY <2>1, <2>4 DEF StopInv, Fresh, LotTypeInv, LotTypeOK
  <2> QED BY <2>5, <2>6, <2>7 DEF StopInv
<1>4. ASSUME NEW r \in Run, NEW store \in BOOLEAN, Continue(r, store)
      PROVE  StopInv'
  <2>1. /\ thread' = r /\ listener' = listener /\ killed' = killed /\ Fresh(r)
        /\ pc' = [pc EXCEPT ![r] = "ready"] /\ opt' = [opt EXCEPT ![r] = listener]
        /\ active' = [active EXCEPT ![listener] = TRUE] /\ listener \in Optimizer
        /\ \A s \in Run : opt[s] = listener => ~Alive(s)
    BY <1>4 DEF Continue, Launch, LotTypeInv, LotTypeOK
  <2>2. \A s \in Run : s # r /\ Alive(s)' => /\ Alive(s) /\ opt'[s] = opt[s]
                                             /\ opt[s] \in Optimizer /\ opt[s] # listener
    BY <2>1 DEF Alive, LotTypeInv, LotTypeOK, RunsAreReal
  <2>3. ~killed'[r] /\ opt'[r] = listener /\ pc'[r] = "ready"
    BY <2>1 DEF StopInv, LotTypeInv, LotTypeOK
  <2>4. \A s \in Run : killed'[s] /\ Alive(s)' => ~active'[opt'[s]]
    BY <2>1, <2>2, <2>3 DEF StopInv, LotTypeInv, LotTypeOK
  <2>5. Alive(thread)' => opt'[thread'] = listener'
    BY <2>1, <2>3
  <2>6. \A s \in Run : Fresh(s)' => ~killed'[s] /\ thread' # s
    BY <2>1, <2>3 DEF StopInv, Fresh, LotTypeInv, LotTypeOK
  <2> QED BY <2>4, <2>5, <2>6 DEF StopInv
<1>5. ASSUME NEW r \in Run, RunStep(r)
      PROVE  StopInv'
  <2>1. RunFrame(r)
    BY <1>5, RunFrames
  <2>2. \A s \in Run : Alive(s)' => Alive(s) /\ opt'[s] = opt[s]
    BY <2>1, NoneAssumption DEF RunFrame, Alive
  <2>3. \A s \in Run : Fresh(s)' => Fresh(s)
    BY <2>1 DEF RunFrame, Fresh
  <2>4. Alive(thread)' => Alive(thread) /\ opt'[thread] = opt[thread] /\ thread' = thread
    BY <2>1, <2>2 DEF RunFrame, Alive, LotTypeInv, LotTypeOK
  <2> QED BY <2>1, <2>2, <2>3, <2>4 DEF StopInv, RunFrame
<1>6. CASE UNCHANGED vars
  BY <1>6 DEF StopInv, Alive, Fresh, vars, creatorVars, listenerVars, resultVars, runVars
<1> QED BY <1>1, <1>2, <1>3, <1>4, <1>5, <1>6, UserSteps DEF Next

LEMMA StopTakesEffect ==
  ASSUME LotTypeInv, StopInv, [Next]_vars,
         NEW r \in Run, killed[r], pc[r] = "search", pc'[r] = "search"
  PROVE  left'[r] = left[r]
<1>1. CASE Poll \/ Stop \/ UNCHANGED vars
  BY <1>1 DEF Poll, Stop, vars, runVars
<1>2. ASSUME NEW s \in Run, NEW o \in Optimizer, NEW cont \in BOOLEAN, Launch(s, o, cont)
      PROVE  left'[r] = left[r]
  BY <1>2 DEF Launch, Fresh, LotTypeInv, LotTypeOK
<1>3. ASSUME NEW s \in Run, s # r, RunStep(s)
      PROVE  left'[r] = left[r]
  BY <1>3, RunFrames DEF RunFrame
<1>4. CASE RunStep(r)
  <2>1. GoOn(opt[r]) = {FALSE}
    BY NoneAssumption DEF StopInv, Alive, GoOn
  <2>2. ASSUME NEW v \in Value, EndIteration(r, v) PROVE pc'[r] = "close"
    BY <2>1, <2>2 DEF EndIteration, After, LotTypeInv, LotTypeOK
  <2>3. \A v \in Value : ~Improve(r, v) /\ ~Climb(r, v) /\ ~Shuffle(r, v)
    BY <2>2 DEF Improve, Climb, Shuffle
  <2>4. ~Resume(r) /\ \A v \in Value : ~Begin(r, v)
    BY DEF Resume, Begin
  <2>5. ~Optimal(r) /\ ~NoNextStep(r) /\ ~Close(r) /\ ~Fail(r)
    BY DEF Optimal, NoNextStep, Close, Fail, Die, LotTypeInv, LotTypeOK
  <2> QED BY <1>4, <2>3, <2>4, <2>5 DEF RunStep, Iterate, NextValues, ShuffledValues
<1> QED BY <1>1, <1>2, <1>3, <1>4, UserStepsLaunch DEF Next

(* The iteration in which a run is stopped is its last, if nobody continues *)
(* its optimization while it still runs: StopEndsTheRun.                    *)
THEOREM StopIsFinal ==
  ASSUME PatientUsers
  PROVE  Spec => StopEndsTheRun
<1>1. Init => StopInv
  BY NoneAssumption DEF Init, StopInv, Alive
<1>2. LotTypeInv /\ StopInv /\ [Next]_vars => StopInv'
  BY StopInvKept
<1>3. LotTypeInv /\ StopInv /\ [Next]_vars
        => [\A r \in Run : killed[r] /\ pc[r] = "search" /\ pc'[r] = "search"
                             => left'[r] = left[r]]_vars
  BY StopTakesEffect
<1> QED BY <1>1, <1>2, <1>3, LotTypesHold, PTL DEF Spec, StopEndsTheRun

-----------------------------------------------------------------------------
(* The best solution only gets better, for users who wait: then a run is    *)
(* alone with its optimizer, and what it takes for the best is the best.    *)
BestInv ==
  /\ \A r, s \in Run : Alive(r) /\ Alive(s) /\ opt[r] = opt[s] => r = s
  /\ \A r \in Run : pc[r] = "search" => gbest[r] = best[opt[r]]
  /\ \A r \in Run : pc[r] = "close" => gbest[r] = best[opt[r]] \/ vbest[r] = best[opt[r]]

Better(o) == HasStarted(o) => best'[o] <= best[o]

(* What a step of a run does to the best of its optimizer.                  *)
LEMMA RunsImprove ==
  ASSUME NEW r \in Run, LotTypeInv, BestInv, RunStep(r)
  PROVE  /\ Better(opt[r])
         /\ pc'[r] = "search" => gbest'[r] = best'[opt[r]]
         /\ pc'[r] = "close" => gbest'[r] = best'[opt[r]] \/ vbest'[r] = best'[opt[r]]
<1> DEFINE o == opt[r]
           Fine == /\ Better(opt[r])
                   /\ pc'[r] = "search" => gbest'[r] = best'[opt[r]]
                   /\ pc'[r] = "close" => gbest'[r] = best'[opt[r]] \/ vbest'[r] = best'[opt[r]]
<1>0. /\ o \in Optimizer /\ HasStarted(o) /\ best[o] \in Value /\ cur[o] \in Value
      /\ best[o] \in Int
      /\ Searching(r) => vbest[r] \in Value /\ gbest[r] \in Value
  <2>1. Alive(r)
    BY RunFrames, NoneAssumption DEF RunFrame, Alive
  <2> QED BY <2>1, NumbersAssumption DEF LotTypeInv, RunsAreReal, StartedHasValues
<1> SUFFICES Fine
  OBVIOUS
<1>1. CASE Resume(r)
  <2>1. gbest' = [gbest EXCEPT ![r] = best[o]] /\ best' = best
    BY <1>1 DEF Resume, EnterLoop, optimizerVars
  <2> QED BY <1>0, <2>1 DEF Better, LotTypeInv, LotTypeOK
<1>2. ASSUME NEW v \in Value, Begin(r, v) PROVE Fine
  <2>1. /\ best' = [best EXCEPT ![o] = AtMost(v, best[o])]
        /\ gbest' = [gbest EXCEPT ![r] = AtMost(v, best[o])]
    BY <1>2 DEF Begin, EnterLoop
  <2>2. AtMost(v, best[o]) <= best[o]
    BY <1>0, AtMostLemma
  <2> QED BY <1>0, <2>1, <2>2 DEF Better, LotTypeInv, LotTypeOK
<1>3. CASE Optimal(r)
  <2>1. /\ pc[r] = "search" /\ vbest[r] = Optimum /\ vbest' = vbest
        /\ best' = [best EXCEPT ![o] = vbest[r]] /\ pc' = [pc EXCEPT ![r] = "close"]
    BY <1>3 DEF Optimal
  <2>2. vbest[r] <= best[o]
    BY <1>0, <2>1, NumbersAssumption
  <2> QED BY <1>0, <2>1, <2>2 DEF Better, LotTypeInv, LotTypeOK
<1>4. CASE NoNextStep(r)
  BY <1>0, <1>4 DEF NoNextStep, Better, BestInv, optimizerVars, LotTypeInv, LotTypeOK
<1>5. ASSUME NEW v \in Value, Improve(r, v) PROVE Fine
  <2>1. /\ pc[r] = "search"
        /\ IF v < gbest[r]
           THEN best' = [best EXCEPT ![o] = v] /\ gbest' = [gbest EXCEPT ![r] = v]
           ELSE UNCHANGED <<best, gbest>>
    BY <1>5 DEF Improve, BeatsBest
  <2>2. gbest[r] = best[o] /\ v \in Int
    BY <2>1, NumbersAssumption DEF BestInv
  <2> QED BY <1>0, <2>1, <2>2 DEF Better, LotTypeInv, LotTypeOK
<1>6. ASSUME NEW v \in Value, Climb(r, v) \/ Shuffle(r, v) PROVE Fine
  <2>1. pc[r] = "search" /\ UNCHANGED <<best, gbest>>
    BY <1>6 DEF Climb, Shuffle
  <2> QED BY <1>0, <2>1 DEF Better, BestInv
<1>7. CASE Close(r)
  <2>1. /\ pc[r] = "close" /\ pc'[r] = "dead"
        /\ IF vbest[r] < gbest[r] THEN best' = [best EXCEPT ![o] = vbest[r]] ELSE best' = best
    BY <1>7 DEF Close, LastIsBest, Die, LotTypeInv, LotTypeOK
  <2>2. vbest[r] \in Int /\ gbest[r] \in Int /\ (gbest[r] = best[o] \/ vbest[r] = best[o])
    BY <1>0, <2>1, NumbersAssumption DEF BestInv, Searching
  <2> QED BY <1>0, <2>1, <2>2 DEF Better, LotTypeInv, LotTypeOK
<1>8. CASE Fail(r)
  BY <1>0, <1>8 DEF Fail, Die, Better, LotTypeInv, LotTypeOK
<1> QED BY <1>1, <1>2, <1>3, <1>4, <1>5, <1>6, <1>7, <1>8
        DEF RunStep, Iterate, NextValues, ShuffledValues

LEMMA NewRunKeepsBestInv ==
  ASSUME LotTypeInv, BestInv, NEW r \in Run, NEW o \in Optimizer, NEW cont \in BOOLEAN,
         Launch(r, o, cont), \A s \in Run : opt[s] = o => ~Alive(s),
         \A q \in Optimizer : q # o => best'[q] = best[q]
  PROVE  BestInv'
<1>1. /\ Fresh(r) /\ pc' = [pc EXCEPT ![r] = "ready"] /\ opt' = [opt EXCEPT ![r] = o]
      /\ gbest' = gbest /\ vbest' = vbest
  BY DEF Launch
<1>2. \A s \in Run : s # r /\ Alive(s)' => /\ Alive(s) /\ opt'[s] = opt[s] /\ pc'[s] = pc[s]
                                           /\ opt[s] \in Optimizer /\ opt[s] # o
  BY <1>1 DEF Alive, LotTypeInv, LotTypeOK, RunsAreReal
<1>3. opt'[r] = o /\ pc'[r] = "ready"
  BY <1>1 DEF LotTypeInv, LotTypeOK
<1>4. \A s \in Run : pc'[s] \in {"search", "close"} => Alive(s)' /\ s # r
  BY <1>3, NoneAssumption DEF Alive
<1>5. \A s, t \in Run : Alive(s)' /\ Alive(t)' /\ opt'[s] = opt'[t] => s = t
  BY <1>2, <1>3 DEF BestInv
<1>6. \A s \in Run : pc'[s] = "search" => gbest'[s] = best'[opt'[s]]
  BY <1>1, <1>2, <1>4 DEF BestInv
<1>7. \A s \in Run : pc'[s] = "close" => gbest'[s] = best'[opt'[s]] \/ vbest'[s] = best'[opt'[s]]
  BY <1>1, <1>2, <1>4 DEF BestInv
<1> QED BY <1>5, <1>6, <1>7 DEF BestInv

LEMMA BestKept ==
  ASSUME PatientUsers, LotTypeInv, BestInv, [Next]_vars
  PROVE  BestInv' /\ \A o \in Optimizer : Better(o)
<1>1. CASE Poll \/ Stop \/ UNCHANGED vars
  <2>1. UNCHANGED <<pc, opt, gbest, vbest, best>>
    BY <1>1 DEF Poll, Stop, vars, runVars, optimizerVars
  <2>2. BestInv'
    BY <2>1 DEF BestInv, Alive
  <2>3. \A o \in Optimizer : HasStarted(o) => best[o] \in Int
    BY NumbersAssumption DEF LotTypeInv, StartedHasValues
  <2> QED BY <2>1, <2>2, <2>3 DEF Better
<1>2. ASSUME SomeBegin
      PROVE  BestInv' /\ \A q \in Optimizer : Better(q)
  <2>0. PICK r \in Run, o, i, obj \in Optimizer, c, b \in Value, from \in Shown \cup {None},
             store \in BOOLEAN : Begins(r, o, c, b, i, obj, from, store)
    BY <1>2 DEF SomeBegin
  <2>1. Launch(r, o, FALSE) /\ best' = [best EXCEPT ![o] = b] /\ ~HasStarted(o)
    BY <2>0 DEF Begins, Start
  <2>2. \A q \in Optimizer : q # o => best'[q] = best[q]
    BY <2>1 DEF LotTypeInv, LotTypeOK
  <2>3. \A s \in Run : opt[s] = o => ~Alive(s)
    BY <2>1 DEF LotTypeInv, RunsAreReal
  <2>4. \A q \in Optimizer : HasStarted(q) => best[q] \in Int
    BY NumbersAssumption DEF LotTypeInv, StartedHasValues
  <2>5. BestInv'
    BY <2>1, <2>2, <2>3, FALSE \in BOOLEAN, NewRunKeepsBestInv
  <2>6. \A q \in Optimizer : Better(q)
    BY <2>1, <2>2, <2>4 DEF Better
  <2> QED BY <2>5, <2>6
<1>3. ASSUME NEW r \in Run, NEW store \in BOOLEAN, Continue(r, store)
      PROVE  BestInv' /\ \A q \in Optimizer : Better(q)
  <2>1. /\ Launch(r, listener, TRUE) /\ best' = best /\ listener \in Optimizer
        /\ \A s \in Run : opt[s] = listener => ~Alive(s)
    BY <1>3 DEF Continue, optimizerVars, LotTypeInv, LotTypeOK
  <2>2. \A q \in Optimizer : HasStarted(q) => best[q] \in Int
    BY NumbersAssumption DEF LotTypeInv, StartedHasValues
  <2>3. BestInv'
    BY <2>1, TRUE \in BOOLEAN, NewRunKeepsBestInv
  <2>4. \A q \in Optimizer : Better(q)
    BY <2>1, <2>2 DEF Better
  <2> QED BY <2>3, <2>4
<1>4. ASSUME NEW r \in Run, RunStep(r)
      PROVE  BestInv' /\ \A q \in Optimizer : Better(q)
  <2>1. RunFrame(r)
    BY <1>4, RunFrames
  <2>2. /\ Better(opt[r])
        /\ pc'[r] = "search" => gbest'[r] = best'[opt[r]]
        /\ pc'[r] = "close" => gbest'[r] = best'[opt[r]] \/ vbest'[r] = best'[opt[r]]
    BY <1>4, RunsImprove
  <2>3. \A q \in Optimizer : HasStarted(q) => best[q] \in Int
    BY NumbersAssumption DEF LotTypeInv, StartedHasValues
  <2>4. \A q \in Optimizer : Better(q)
    BY <2>1, <2>2, <2>3 DEF RunFrame, Better
  <2>5. Alive(r) /\ \A s \in Run : Alive(s)' => Alive(s) /\ opt'[s] = opt[s]
    BY <2>1, NoneAssumption DEF RunFrame, Alive
  <2>6. \A s \in Run : s # r /\ Alive(s) => opt[s] # opt[r] /\ opt[s] \in Optimizer
    BY <2>5 DEF BestInv, LotTypeInv, RunsAreReal
  <2>7. \A s \in Run : s # r /\ pc'[s] \in {"search", "close"} =>
          /\ pc'[s] = pc[s] /\ opt'[s] = opt[s] /\ vbest'[s] = vbest[s] /\ gbest'[s] = gbest[s]
          /\ best'[opt[s]] = best[opt[s]]
    BY <2>1, <2>6, NoneAssumption DEF RunFrame, Alive
  <2>8. \A s, t \in Run : Alive(s)' /\ Alive(t)' /\ opt'[s] = opt'[t] => s = t
    BY <2>5 DEF BestInv
  <2>9. pc'[r] \in {"search", "close"} => opt'[r] = opt[r]
    BY <2>1 DEF RunFrame
  <2>10. \A s \in Run : pc'[s] = "search" => gbest'[s] = best'[opt'[s]]
    BY <2>2, <2>7, <2>9 DEF BestInv
  <2>11. \A s \in Run : pc'[s] = "close" => gbest'[s] = best'[opt'[s]] \/ vbest'[s] = best'[opt'[s]]
    BY <2>2, <2>7, <2>9 DEF BestInv
  <2> QED BY <2>4, <2>8, <2>10, <2>11 DEF BestInv
<1> QED BY <1>1, <1>2, <1>3, <1>4, UserSteps DEF Next

(* The best solution of an optimization gives way to better ones only, if   *)
(* nobody continues it while one of its runs is still alive:                *)
(* BestOnlyImproves.                                                        *)
THEOREM BestImproves ==
  ASSUME PatientUsers
  PROVE  Spec => BestOnlyImproves
<1>1. Init => BestInv
  BY NoneAssumption DEF Init, BestInv, Alive
<1>2. LotTypeInv /\ BestInv /\ [Next]_vars => BestInv'
  BY BestKept
<1>3. LotTypeInv /\ BestInv /\ [Next]_vars
        => [\A o \in Optimizer : HasStarted(o) => best'[o] <= best[o]]_vars
  BY BestKept DEF Better
<1> QED BY <1>1, <1>2, <1>3, LotTypesHold, PTL DEF Spec, BestOnlyImproves

-----------------------------------------------------------------------------
(* The users see the best.  What a run holds, and what a later run resumes  *)
(* from, has been shown; and before anything is shown, nothing is found.    *)
ShownUpTo(o, v) == front[o] # None /\ front[o].best <= v
NowUpTo(o, v) == front'[o] # None /\ front'[o].best <= v

FrontInv ==
  /\ \A o \in Optimizer : ready[o] => ShownUpTo(o, cur[o])
  /\ \A o \in Optimizer : front[o] = None => best[o] = given[o]
  /\ \A r \in Run : Searching(r) => ShownUpTo(opt[r], vbest[r])
  /\ FrontKeepsBest

(* What was shown has been shown still, and something better perhaps.       *)
LEMMA StillShown ==
  ASSUME LotTypeOK, LotTypeOK', NEW q \in Optimizer, FrontFalls(q),
         NEW v \in Int, ShownUpTo(q, v)
  PROVE  NowUpTo(q, v)
<1>1. front[q] \in Shown /\ front'[q] \in Shown
  BY DEF FrontFalls, ShownUpTo, LotTypeOK
<1>2. front[q].best \in Int /\ front'[q].best \in Int
  BY <1>1, NumbersAssumption DEF Shown
<1> QED BY <1>2 DEF FrontFalls, ShownUpTo, NowUpTo

LEMMA NotifyFalls ==
  ASSUME NEW o \in Optimizer, NEW v \in Value, LotTypeOK, Notify(o, v), id[o] \in Optimizer
  PROVE  FrontFalls(o) /\ NowUpTo(o, v)
<1>1. front'[o] = Show(o, v)
  BY NotifyTypes
<1>2. /\ Show(o, v) # None /\ Show(o, v).best <= v
      /\ front[o] # None => Show(o, v).best <= front[o].best
  BY ShowLemma DEF LotTypeOK
<1> QED BY <1>1, <1>2 DEF FrontFalls, ShownUpTo, NowUpTo

(* Whatever a run does, its optimizer keeps the four parts of FrontInv.     *)
OneFront(r) ==
  LET o == opt[r] IN
  /\ FrontFalls(o)
  /\ ready'[o] => NowUpTo(o, cur'[o])
  /\ front'[o] = None => best'[o] = given'[o]
  /\ pc'[r] \in {"search", "close"} => NowUpTo(o, vbest'[r])
  /\ front'[o] # None => front'[o].best <= best'[o] \/ best'[o] = given'[o]

LEMMA IterationShows ==
  ASSUME NEW r \in Run, NEW v \in Value, pc[r] = "search", LotTypeInv, FrontInv,
         EndIteration(r, v), vbest'[r] \in {v, vbest[r]},
         best'[opt[r]] \in {v, best[opt[r]]}
  PROVE  OneFront(r)
<1> DEFINE o == opt[r]
<1>1. o \in Optimizer /\ HasStarted(o) /\ best[o] \in Int /\ vbest[r] \in Int /\ v \in Int
  BY NoneAssumption, NumbersAssumption
     DEF LotTypeInv, RunsAreReal, StartedHasValues, Alive, Searching
<1>0. id[o] \in Optimizer
  BY <1>1 DEF LotTypeInv, StartedHasValues
<1>2. FrontFalls(o) /\ NowUpTo(o, v)
  BY <1>0, <1>1, NotifyFalls DEF EndIteration, LotTypeInv
<1>3. cur'[o] = v /\ given' = given
  BY <1>1 DEF EndIteration, LotTypeInv, LotTypeOK
<1>4. front'[o] \in Shown /\ front'[o].best \in Int
  <2>1. front'[o] \in Shown
    BY <1>0, <1>1, <1>2, NotifyTypes DEF EndIteration, LotTypeInv, ShownUpTo, NowUpTo
  <2> QED BY <2>1, NumbersAssumption DEF Shown
<1>5. ShownUpTo(o, vbest[r]) /\ front[o] \in Shown /\ front[o].best \in Int
      /\ (front[o].best <= best[o] \/ best[o] = given[o])
  <2>1. ShownUpTo(o, vbest[r]) /\ (front[o].best <= best[o] \/ best[o] = given[o])
    BY <1>1 DEF FrontInv, FrontKeepsBest, Searching, ShownUpTo, NowUpTo
  <2>2. front[o] \in Shown
    BY <1>1, <2>1 DEF ShownUpTo, NowUpTo, LotTypeInv, LotTypeOK
  <2> QED BY <2>1, <2>2, NumbersAssumption DEF Shown
<1> HIDE DEF o
<1>6. front'[o] # None /\ front'[o].best <= v /\ front'[o].best <= vbest[r]
      /\ (front'[o].best <= best[o] \/ best[o] = given[o])
  BY <1>1, <1>2, <1>4, <1>5 DEF FrontFalls, ShownUpTo, NowUpTo
<1>7. NowUpTo(o, cur'[o])
  BY <1>2, <1>3 DEF ShownUpTo, NowUpTo
<1>8. front'[o].best <= vbest'[r] /\ (front'[o].best <= best'[o] \/ best'[o] = given'[o])
  BY <1>3, <1>6 DEF o
<1> QED BY <1>2, <1>6, <1>7, <1>8 DEF OneFront, NowUpTo, o

LEMMA RunsShow ==
  ASSUME NEW r \in Run, LotTypeInv, FrontInv, RunStep(r)
  PROVE  OneFront(r)
<1> DEFINE o == opt[r]
<1>0. /\ o \in Optimizer /\ HasStarted(o) /\ best[o] \in Value /\ cur[o] \in Value
      /\ best[o] \in Int /\ id[o] \in Optimizer
      /\ Searching(r) => vbest[r] \in Value /\ gbest[r] \in Value
  <2>1. Alive(r)
    BY RunFrames, NoneAssumption DEF RunFrame, Alive
  <2> QED BY <2>1, NumbersAssumption DEF LotTypeInv, RunsAreReal, StartedHasValues
<1>1. front[o] # None => front[o].best \in Int
  BY <1>0, NumbersAssumption DEF LotTypeInv, LotTypeOK, Shown
<1>2. front' = front => FrontFalls(o)
  BY <1>1 DEF FrontFalls
<1>3. CASE Resume(r)
  <2>1. /\ ready[o] /\ vbest' = [vbest EXCEPT ![r] = cur[o]]
        /\ UNCHANGED <<front, cur, best, ready, given>>
    BY <1>3 DEF Resume, EnterLoop, listenerVars, resultVars, optimizerVars
  <2>2. vbest'[r] = cur[o] /\ ShownUpTo(o, cur[o])
    BY <1>0, <2>1 DEF LotTypeInv, LotTypeOK, FrontInv
  <2> QED BY <1>0, <1>2, <2>1, <2>2 DEF OneFront, FrontInv, FrontKeepsBest, ShownUpTo, NowUpTo
<1>4. ASSUME NEW v \in Value, Begin(r, v) PROVE OneFront(r)
  <2>1. /\ Notify(o, v) /\ given' = given
        /\ cur' = [cur EXCEPT ![o] = v] /\ best' = [best EXCEPT ![o] = AtMost(v, best[o])]
        /\ vbest' = [vbest EXCEPT ![r] = v]
    BY <1>4 DEF Begin, EnterLoop
  <2>2. cur'[o] = v /\ vbest'[r] = v /\ best'[o] = AtMost(v, best[o])
    BY <1>0, <2>1 DEF LotTypeInv, LotTypeOK
  <2>3. FrontFalls(o) /\ NowUpTo(o, v)
    BY <1>0, <2>1, NotifyFalls DEF LotTypeInv
  <2>4. front'[o] # None /\ front'[o].best <= v /\ front'[o].best \in Int
    <3>1. front'[o] # None /\ front'[o].best <= v
      BY <2>3 DEF ShownUpTo, NowUpTo
    <3>2. front'[o] \in Shown
      BY <1>0, <2>1, <3>1, NotifyTypes DEF LotTypeInv
    <3> QED BY <3>1, <3>2, NumbersAssumption DEF Shown
  <2>5. front'[o].best <= best'[o] \/ best'[o] = given'[o]
    <3>1. CASE best'[o] = v
      BY <2>4, <3>1
    <3>2. CASE best'[o] = best[o] /\ front[o] = None
      BY <1>0, <2>1, <3>2 DEF FrontInv
    <3>3. CASE best'[o] = best[o] /\ front[o] # None
      <4>1. front[o].best <= best[o] \/ best[o] = given[o]
        BY <1>0, <3>3 DEF FrontInv, FrontKeepsBest
      <4>2. front'[o].best <= front[o].best
        BY <2>3, <3>3 DEF FrontFalls
      <4> QED BY <1>0, <1>1, <2>1, <2>4, <3>3, <4>1, <4>2
    <3> QED BY <2>2, <3>1, <3>2, <3>3 DEF AtMost
  <2>6. NowUpTo(o, cur'[o])
    BY <2>2, <2>3 DEF ShownUpTo, NowUpTo
  <2> QED BY <2>2, <2>3, <2>4, <2>5, <2>6 DEF OneFront
<1>5. CASE Optimal(r)
  <2>1. /\ pc[r] = "search" /\ UNCHANGED <<front, ready, vbest, given>>
        /\ cur' = [cur EXCEPT ![o] = vbest[r]] /\ best' = [best EXCEPT ![o] = vbest[r]]
    BY <1>5 DEF Optimal, listenerVars, resultVars
  <2>2. cur'[o] = vbest[r] /\ best'[o] = vbest[r]
    BY <1>0, <2>1 DEF LotTypeInv, LotTypeOK
  <2>3. ShownUpTo(o, vbest[r])
    BY <2>1 DEF FrontInv, Searching
  <2> QED BY <1>0, <1>2, <2>1, <2>2, <2>3 DEF OneFront, ShownUpTo, NowUpTo
<1>6. CASE NoNextStep(r)
  <2>1. pc[r] = "search" /\ UNCHANGED <<front, cur, best, ready, vbest, given>>
    BY <1>6 DEF NoNextStep, listenerVars, resultVars, optimizerVars
  <2> QED BY <1>0, <1>2, <2>1 DEF OneFront, ShownUpTo, NowUpTo, FrontInv, FrontKeepsBest, Searching
<1>7. ASSUME NEW v \in Value, Improve(r, v) PROVE OneFront(r)
  <2>1. pc[r] = "search" /\ EndIteration(r, v)
        /\ vbest'[r] \in {v, vbest[r]} /\ best'[o] \in {v, best[o]}
    BY <1>0, <1>7 DEF Improve, LotTypeInv, LotTypeOK
  <2> QED BY <2>1, IterationShows
<1>8. ASSUME NEW v \in Value, Climb(r, v) \/ Shuffle(r, v) PROVE OneFront(r)
  <2>1. pc[r] = "search" /\ EndIteration(r, v)
        /\ vbest'[r] \in {v, vbest[r]} /\ best'[o] \in {v, best[o]}
    BY <1>0, <1>8 DEF Climb, Shuffle, LotTypeInv, LotTypeOK
  <2> QED BY <2>1, IterationShows
<1>9. CASE Close(r)
  <2>1. /\ pc[r] = "close" /\ pc'[r] = "dead" /\ UNCHANGED <<front, ready, given>>
        /\ \/ cur' = [cur EXCEPT ![o] = vbest[r]] /\ best' = [best EXCEPT ![o] = vbest[r]]
           \/ UNCHANGED <<cur, best>>
    BY <1>9 DEF Close, Die, listenerVars, resultVars, LotTypeInv, LotTypeOK
  <2>2. \/ cur'[o] = vbest[r] /\ best'[o] = vbest[r]
        \/ UNCHANGED <<cur, best>>
    BY <1>0, <2>1 DEF LotTypeInv, LotTypeOK
  <2>3. ShownUpTo(o, vbest[r])
    BY <2>1 DEF FrontInv, Searching
  <2> QED BY <1>0, <1>2, <2>1, <2>2, <2>3 DEF OneFront, ShownUpTo, NowUpTo, FrontInv, FrontKeepsBest
<1>10. CASE Fail(r)
  <2>1. pc'[r] = "dead" /\ UNCHANGED <<front, ready, given, cur, best>>
    BY <1>10 DEF Fail, Die, listenerVars, resultVars, LotTypeInv, LotTypeOK
  <2> QED BY <1>0, <1>2, <2>1 DEF OneFront, ShownUpTo, NowUpTo, FrontInv, FrontKeepsBest
<1> QED BY <1>3, <1>4, <1>5, <1>6, <1>7, <1>8, <1>9, <1>10
        DEF RunStep, Iterate, NextValues, ShuffledValues

LEMMA FrontInvKept ==
  ASSUME LotTypeInv, FrontInv, [Next]_vars
  PROVE  FrontInv'
<1>1. CASE Poll \/ Stop \/ UNCHANGED vars
  <2>1. UNCHANGED <<pc, opt, vbest, cur, best, ready, front, given>>
    BY <1>1 DEF Poll, Stop, vars, runVars, optimizerVars, listenerVars, resultVars
  <2> QED BY <2>1 DEF FrontInv, FrontKeepsBest, ShownUpTo, NowUpTo, Searching
<1>2. ASSUME SomeBegin
      PROVE  FrontInv'
  <2>0. PICK r \in Run, o, i, obj \in Optimizer, c, b \in Value, from \in Shown \cup {None},
             store \in BOOLEAN : Begins(r, o, c, b, i, obj, from, store)
    BY <1>2 DEF SomeBegin
  <2>1. /\ ~HasStarted(o) /\ Fresh(r) /\ UNCHANGED <<ready, vbest>>
        /\ cur' = [cur EXCEPT ![o] = c] /\ best' = [best EXCEPT ![o] = b]
        /\ given' = [given EXCEPT ![o] = b]
        /\ pc' = [pc EXCEPT ![r] = "ready"] /\ opt' = [opt EXCEPT ![r] = o]
        /\ front' = [front EXCEPT ![o] = from] /\ (from # None => from.best = b)
    BY <2>0 DEF Begins, Start, Launch
  <2>2. /\ best'[o] = b /\ given'[o] = b /\ ~ready[o] /\ b \in Int
        /\ front'[o] # None => front'[o].best = b
        /\ \A q \in Optimizer : q # o => /\ cur'[q] = cur[q] /\ best'[q] = best[q]
                                         /\ given'[q] = given[q] /\ front'[q] = front[q]
    BY <2>1, NumbersAssumption DEF LotTypeInv, LotTypeOK, StartedHasValues
  <2>3. \A s \in Run : pc'[s] \in {"search", "close"} =>
          Searching(s) /\ opt'[s] = opt[s] /\ opt[s] \in Optimizer /\ opt[s] # o
    BY <2>1, NoneAssumption DEF Searching, Alive, LotTypeInv, LotTypeOK, RunsAreReal
  <2>4. \A q \in Optimizer : ready'[q] => NowUpTo(q, cur'[q])
    BY <2>1, <2>2 DEF FrontInv, ShownUpTo, NowUpTo
  <2>5. \A q \in Optimizer : front'[q] = None => best'[q] = given'[q]
    BY <2>2 DEF FrontInv
  <2>6. \A s \in Run : Searching(s)' => NowUpTo(opt'[s], vbest'[s])
    BY <2>1, <2>2, <2>3 DEF FrontInv, ShownUpTo, NowUpTo, Searching
  <2>7. FrontKeepsBest'
    BY <2>2 DEF FrontInv, FrontKeepsBest
  <2> QED BY <2>4, <2>5, <2>6, <2>7 DEF FrontInv, ShownUpTo, NowUpTo
<1>3. ASSUME NEW r \in Run, NEW store \in BOOLEAN, Continue(r, store)
      PROVE  FrontInv'
  <2>1. /\ UNCHANGED <<ready, vbest, cur, best, given, front>>
        /\ pc' = [pc EXCEPT ![r] = "ready"] /\ opt' = [opt EXCEPT ![r] = listener]
    BY <1>3 DEF Continue, Launch, optimizerVars
  <2>2. \A s \in Run : pc'[s] \in {"search", "close"} => Searching(s) /\ opt'[s] = opt[s]
    BY <2>1 DEF Searching, LotTypeInv, LotTypeOK
  <2>3. \A s \in Run : Searching(s)' => NowUpTo(opt'[s], vbest'[s])
    BY <2>1, <2>2 DEF FrontInv, ShownUpTo, NowUpTo, Searching
  <2> QED BY <2>1, <2>3 DEF FrontInv, FrontKeepsBest, ShownUpTo, NowUpTo
<1>4. ASSUME NEW r \in Run, RunStep(r)
      PROVE  FrontInv'
  <2>1. RunFrame(r) /\ OneFront(r)
    BY <1>4, RunFrames, RunsShow
  <2>0. LotTypeOK /\ LotTypeOK' /\ \A q \in Optimizer : FrontFalls(q)
    BY <1>4, <2>1, RunTypes DEF RunFrame, LotTypeInv
  <2>2. ASSUME NEW q \in Optimizer, ready'[q] PROVE NowUpTo(q, cur'[q])
    <3>1. CASE q = opt[r]
      BY <2>1, <2>2, <3>1 DEF OneFront
    <3>2. CASE q # opt[r]
      <4>1. ready[q] /\ cur'[q] = cur[q]
        BY <2>1, <2>2, <3>2 DEF RunFrame
      <4>2. ShownUpTo(q, cur[q]) /\ cur[q] \in Int
        BY <4>1, NumbersAssumption DEF FrontInv, LotTypeInv, StartedHasValues
      <4> QED BY <2>0, <4>1, <4>2, StillShown
    <3> QED BY <3>1, <3>2
  <2>3. ASSUME NEW q \in Optimizer, front'[q] = None PROVE best'[q] = given'[q]
    <3>1. CASE q = opt[r]
      BY <2>1, <2>3, <3>1 DEF OneFront
    <3>2. CASE q # opt[r]
      <4>1. front[q] = None
        BY <2>0, <2>3 DEF FrontFalls
      <4> QED BY <2>1, <3>2, <4>1 DEF RunFrame, FrontInv
    <3> QED BY <3>1, <3>2
  <2>4. ASSUME NEW q \in Optimizer, front'[q] # None
        PROVE  front'[q].best <= best'[q] \/ best'[q] = given'[q]
    <3>1. CASE q = opt[r]
      BY <2>1, <2>4, <3>1 DEF OneFront
    <3>2. CASE q # opt[r]
      <4>1. best'[q] = best[q] /\ given' = given /\ front[q] # None
        BY <2>1, <2>4, <3>2 DEF RunFrame
      <4>2. best[q] \in Int
        BY <4>1, NumbersAssumption DEF LotTypeInv, StartedHasValues
      <4>3. CASE best[q] = given[q]
        BY <4>1, <4>3
      <4>4. CASE front[q].best <= best[q]
        <5>1. ShownUpTo(q, best[q])
          BY <4>1, <4>4 DEF ShownUpTo
        <5>2. NowUpTo(q, best[q])
          BY <2>0, <4>2, <5>1, StillShown
        <5> QED BY <4>1, <5>2 DEF NowUpTo
      <4> QED BY <4>1, <4>3, <4>4 DEF FrontInv, FrontKeepsBest
    <3> QED BY <3>1, <3>2
  <2>5. ASSUME NEW s \in Run, Searching(s)' PROVE NowUpTo(opt'[s], vbest'[s])
    <3>1. CASE s = r
      BY <2>1, <2>5, <3>1 DEF RunFrame, OneFront, ShownUpTo, NowUpTo, Searching
    <3>2. CASE s # r
      <4>1. Searching(s) /\ opt'[s] = opt[s] /\ vbest'[s] = vbest[s]
        BY <2>1, <2>5, <3>2 DEF RunFrame, Searching
      <4>2. opt[s] \in Optimizer /\ vbest[s] \in Int /\ ShownUpTo(opt[s], vbest[s])
        BY <4>1, NoneAssumption, NumbersAssumption
           DEF LotTypeInv, RunsAreReal, Searching, Alive, FrontInv
      <4> QED BY <2>0, <4>1, <4>2, StillShown
    <3> QED BY <3>1, <3>2
  <2> QED BY <2>2, <2>3, <2>4, <2>5 DEF FrontInv, FrontKeepsBest, ShownUpTo, NowUpTo
<1> QED BY <1>1, <1>2, <1>3, <1>4, UserSteps DEF Next

(* Between iterations, the best solution an optimization knows is never     *)
(* better than the one its users see, but for the one it was given:         *)
(* FrontKeepsBest.  It is claimed of users who wait, as only then is a run  *)
(* alone with its optimizer and an iteration the one step it is here.       *)
THEOREM FrontShowsBest ==
  ASSUME PatientUsers
  PROVE  Spec => []FrontKeepsBest
<1>1. Init => FrontInv
  BY DEF Init, FrontInv, FrontKeepsBest, Searching
<1>2. LotTypeInv /\ FrontInv /\ [Next]_vars => FrontInv'
  BY FrontInvKept
<1>3. FrontInv => FrontKeepsBest
  BY DEF FrontInv
<1> QED BY <1>1, <1>2, <1>3, LotTypesHold, PTL DEF Spec

-----------------------------------------------------------------------------
(* Lot creation implements LotCreator.                                      *)

DeadWorksOnNothing == \A r \in Run : ~Alive(r) => opt[r] = None

LEMMA DeadKept ==
  ASSUME LotTypeInv, DeadWorksOnNothing, [Next]_vars
  PROVE  DeadWorksOnNothing'
<1>1. CASE Poll \/ Stop \/ UNCHANGED vars
  <2>1. UNCHANGED <<pc, opt>>
    BY <1>1 DEF Poll, Stop, vars, runVars
  <2> QED BY <2>1 DEF DeadWorksOnNothing, Alive
<1>2. ASSUME NEW r \in Run, NEW o \in Optimizer, NEW cont \in BOOLEAN, Launch(r, o, cont)
      PROVE  DeadWorksOnNothing'
  BY <1>2, NoneAssumption DEF Launch, DeadWorksOnNothing, Alive, LotTypeInv, LotTypeOK
<1>3. ASSUME NEW r \in Run, RunStep(r)
      PROVE  DeadWorksOnNothing'
  <2>1. RunFrame(r)
    BY <1>3, RunFrames
  <2>2. pc'[r] = "dead" => opt'[r] = None
    <3>1. Close(r) \/ Fail(r) => opt'[r] = None
      BY DEF Close, Fail, Die, LotTypeInv, LotTypeOK
    <3>2. ~Close(r) /\ ~Fail(r) => pc'[r] # "dead"
      <4>1. ASSUME NEW v \in Value, EndIteration(r, v) PROVE pc'[r] # "dead"
        BY <4>1 DEF EndIteration, After, LotTypeInv, LotTypeOK
      <4>2. Resume(r) \/ (\E v \in Value : Begin(r, v)) => pc'[r] # "dead"
        BY DEF Resume, Begin, EnterLoop, After, LotTypeInv, LotTypeOK
      <4>3. Optimal(r) \/ NoNextStep(r) => pc'[r] # "dead"
        BY DEF Optimal, NoNextStep, LotTypeInv, LotTypeOK
      <4> QED BY <1>3, <4>1, <4>2, <4>3
              DEF RunStep, Iterate, Improve, Climb, Shuffle, NextValues, ShuffledValues
    <3> QED BY <3>1, <3>2
  <2> QED BY <2>1, <2>2, NoneAssumption DEF RunFrame, DeadWorksOnNothing, Alive
<1> QED BY <1>1, <1>2, <1>3, UserStepsLaunch DEF Next

LEMMA CreatorInit == Init => Creator!Init
BY DEF Init, Creator!Init, Fresh, HasStarted

(* A run's step shows a solution of its own optimizer, ends, or is hidden.  *)
LEMMA RunStepShows ==
  ASSUME NEW r \in Run, LotTypeInv, LotTypeInv', FrontInv, FrontInv',
         DeadWorksOnNothing, DeadWorksOnNothing', RunStep(r)
  PROVE  [Creator!Next]_(Creator!creatorState)
<1>1. RunFrame(r) /\ FrontFalls(opt[r]) /\ Alive(r) /\ opt[r] \in Optimizer
  BY RunFrames, RunsShow, NoneAssumption DEF RunFrame, OneFront, Alive, LotTypeInv, RunsAreReal
<1>2. /\ UNCHANGED <<thread, listener, killed>>
      /\ {s \in Run : ~Fresh(s)}' = {s \in Run : ~Fresh(s)}
      /\ {o \in Optimizer : HasStarted(o)}' = {o \in Optimizer : HasStarted(o)}
  BY <1>1 DEF RunFrame, Fresh, HasStarted
<1>3. opt[r] # None
  BY <1>1, NoneAssumption
<1>4. CASE pc'[r] = "dead"
  <2>1. Close(r) \/ Fail(r)
    <3>1. ASSUME NEW v \in Value, EndIteration(r, v) PROVE pc'[r] # "dead"
      BY <3>1 DEF EndIteration, After, LotTypeInv, LotTypeOK
    <3>2. Resume(r) \/ (\E v \in Value : Begin(r, v)) => pc'[r] # "dead"
      BY DEF Resume, Begin, EnterLoop, After, LotTypeInv, LotTypeOK
    <3>3. Optimal(r) \/ NoNextStep(r) => pc'[r] # "dead"
      BY DEF Optimal, NoNextStep, LotTypeInv, LotTypeOK
    <3> QED BY <1>4, <3>1, <3>2, <3>3
            DEF RunStep, Iterate, Improve, Climb, Shuffle, NextValues, ShuffledValues
  <2>2. opt' = [opt EXCEPT ![r] = None] /\ front' = front
    BY <2>1 DEF Close, Fail, Die, listenerVars, resultVars
  <2>3. Creator!End(r)
    BY <1>2, <1>3, <2>2 DEF Creator!End
  <2> QED BY <2>3 DEF Creator!Next
<1>5. CASE pc'[r] # "dead"
  <2>1. opt' = opt
    BY <1>1, <1>5 DEF RunFrame, LotTypeInv, LotTypeOK
  <2>2. \A o \in Optimizer : front[o] # None => front'[o] # None
    BY <1>1 DEF RunFrame, FrontFalls
  <2>3. front'[opt[r]] # None
    BY <1>1, <1>5, <2>1 DEF RunFrame, Searching, FrontInv, ShownUpTo
  <2>4. {o \in Optimizer : front[o] # None}'
          = {o \in Optimizer : front[o] # None} \cup {opt[r]}
    BY <1>1, <2>2, <2>3 DEF RunFrame
  <2>5. Creator!Report(r)
    BY <1>2, <1>3, <2>1, <2>4 DEF Creator!Report
  <2> QED BY <2>5 DEF Creator!Next
<1> QED BY <1>4, <1>5

LEMMA CreatorStep ==
  ASSUME LotTypeInv, LotTypeInv', FrontInv, FrontInv',
         DeadWorksOnNothing, DeadWorksOnNothing', [Next]_vars
  PROVE  [Creator!Next]_(Creator!creatorState)
<1> DEFINE begun == {s \in Run : ~Fresh(s)}
           used == {o \in Optimizer : HasStarted(o)}
           shown == {o \in Optimizer : front[o] # None}
<1>0. ~Alive(thread) => ~Creator!Busy
  BY DEF DeadWorksOnNothing, Creator!Busy, Alive, LotTypeInv, LotTypeOK
<1>1. CASE Poll
  <2>1. ~Alive(thread) /\ thread' = None /\ UNCHANGED <<listener, killed, opt, pc, given, front>>
    BY <1>1 DEF Poll, IsRunning, runVars
  <2>2. begun' = begun /\ used' = used /\ shown' = shown
    BY <2>1 DEF Fresh, HasStarted
  <2>3. Creator!Forget
    BY <1>0, <2>1, <2>2 DEF Creator!Forget
  <2> QED BY <2>3 DEF Creator!Next
<1>2. CASE Stop
  <2>1. /\ killed' = IF thread # None THEN [killed EXCEPT ![thread] = TRUE] ELSE killed
        /\ thread' = None /\ UNCHANGED <<listener, opt, pc, given, front>>
    BY <1>2 DEF Stop, runVars
  <2>2. begun' = begun /\ used' = used /\ shown' = shown
    BY <2>1 DEF Fresh, HasStarted
  <2>3. CASE thread # None
    <3>1. Creator!Stop
      BY <2>1, <2>2, <2>3 DEF Creator!Stop
    <3> QED BY <3>1 DEF Creator!Next
  <2>4. CASE thread = None
    BY <2>1, <2>2, <2>4 DEF Creator!creatorState
  <2> QED BY <2>3, <2>4
<1>3. ASSUME SomeBegin
      PROVE  [Creator!Next]_(Creator!creatorState)
  <2>0. PICK r \in Run, o, i, obj \in Optimizer, c, b \in Value, from \in Shown \cup {None},
             store \in BOOLEAN : Begins(r, o, c, b, i, obj, from, store)
    BY <1>3 DEF SomeBegin
  <2>1. /\ ~Alive(thread) /\ Fresh(r) /\ ~HasStarted(o) /\ thread' = r /\ listener' = o
        /\ opt' = [opt EXCEPT ![r] = o] /\ pc' = [pc EXCEPT ![r] = "ready"] /\ killed' = killed
        /\ given' = [given EXCEPT ![o] = b]
        /\ front' = [front EXCEPT ![o] = from]
    BY <2>0 DEF Begins, Start, Launch, MayStart, IsRunning
  <2>2. begun' = begun \cup {r} /\ r \notin begun
    BY <2>1 DEF Fresh, LotTypeInv, LotTypeOK
  <2>3. used' = used \cup {o} /\ o \notin used
    BY <2>1, NoneAssumption DEF HasStarted, LotTypeInv, LotTypeOK
  <2>4. front[o] = None
    BY <2>1 DEF LotTypeInv, StartedHasValues
  <2>5. shown' \in {shown, shown \cup {o}}
    BY <2>1, <2>4 DEF LotTypeInv, LotTypeOK
  <2>6. Creator!Start(r, o)
    BY <1>0, <2>1, <2>2, <2>3, <2>5 DEF Creator!Start, Creator!Launch
  <2> QED BY <2>6 DEF Creator!Next
<1>4. ASSUME NEW r \in Run, NEW store \in BOOLEAN, Continue(r, store)
      PROVE  [Creator!Next]_(Creator!creatorState)
  <2>1. /\ ~Alive(thread) /\ Fresh(r) /\ thread' = r /\ listener' = listener /\ listener # None
        /\ opt' = [opt EXCEPT ![r] = listener] /\ pc' = [pc EXCEPT ![r] = "ready"]
        /\ killed' = killed /\ UNCHANGED <<given, front>>
    BY <1>4 DEF Continue, Launch, IsRunning
  <2>2. begun' = begun \cup {r} /\ r \notin begun
    BY <2>1 DEF Fresh, LotTypeInv, LotTypeOK
  <2>3. used' = used /\ shown' = shown
    BY <2>1 DEF HasStarted
  <2>4. Creator!Continue(r)
    BY <1>0, <2>1, <2>2, <2>3 DEF Creator!Continue, Creator!Launch
  <2> QED BY <2>4 DEF Creator!Next
<1>5. ASSUME NEW r \in Run, RunStep(r)
      PROVE  [Creator!Next]_(Creator!creatorState)
  BY <1>5, RunStepShows
<1>6. CASE UNCHANGED vars
  <2>1. UNCHANGED <<thread, listener, killed, opt, pc, given, front>>
    BY <1>6 DEF vars, creatorVars, listenerVars, resultVars, runVars
  <2>2. begun' = begun /\ used' = used /\ shown' = shown
    BY <2>1 DEF Fresh, HasStarted
  <2> QED BY <2>1, <2>2 DEF Creator!creatorState
<1> QED BY <1>1, <1>2, <1>3, <1>4, <1>5, <1>6, UserSteps DEF Next

(* Those who share the LotCreator may think of LotCreator:                  *)
(* ImplementsLotCreator.                                                    *)
THEOREM LotCreatorIsImplemented == Spec => ImplementsLotCreator
<1>1. Init => FrontInv /\ DeadWorksOnNothing
  BY DEF Init, FrontInv, FrontKeepsBest, Searching, DeadWorksOnNothing
<1>2. LotTypeInv /\ FrontInv /\ DeadWorksOnNothing /\ [Next]_vars
        => FrontInv' /\ DeadWorksOnNothing'
  BY FrontInvKept, DeadKept
<1>3. LotTypeInv /\ LotTypeInv' /\ FrontInv /\ FrontInv'
        /\ DeadWorksOnNothing /\ DeadWorksOnNothing' /\ [Next]_vars
        => [Creator!Next]_(Creator!creatorState)
  BY CreatorStep
<1> QED BY <1>1, <1>2, <1>3, CreatorInit, LotTypesHold, PTL
        DEF Spec, ImplementsLotCreator, Creator!Spec
=============================================================================
