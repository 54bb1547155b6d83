--------------------------- MODULE AuctionClient ---------------------------
(***************************************************************************)
(* The users of an auction: pages that create, start, refresh and end      *)
(* auctions by messages, and wait on a topic all pages share for the       *)
(* answers.                                                                *)
(* (ShortTermPlanning/dynreact/shortterm/short_term_planning.py,           *)
(*  gui_stp/agentsPage.py, auction/auction.py)                             *)
(*                                                                         *)
(* The agents are those of the Auction module as a page sees them: the     *)
(* base agents launch what is asked of them, agents answer the LOG's ping, *)
(* the LOG answers the pages.  One EQUIPMENT and one MATERIAL stand for    *)
(* all.  A user does not use a name twice (the page's advice,              *)
(* agentsPage.py:905).                                                      *)
(***************************************************************************)
EXTENDS Integers, Sequences, FiniteSets

CONSTANTS
  None,
  Page,         \* browser sessions
  Name,         \* names of auctions, as typed into the pages
  Replica,      \* EQUIPMENT and MATERIAL, or one of the two
  FirstField,   \* what the pages' fields may hold at first
  Limits        \* {[silent, stable, clicks]}: how patient a start is, and the bound on clicks

ClientAssumption ==
  /\ Replica \subseteq {"EQUIPMENT", "MATERIAL"} /\ FirstField \subseteq [Page -> Name]
  /\ Limits \subseteq [silent : Nat \ {0}, stable : Nat \ {0}, clicks : Nat]

VARIABLES
  limits,     \* read from the environment, and the same ever after
  field,      \* the name in the page's input field
  page,       \* the page's auction-store: status, whether the lists are filled, and buttons
  told,       \* (observed) whom the page asked and who answered, when it last learned something
  op,         \* the click a page is handling
  clicks,
  general,    \* CREATE messages on the general topic
  topics,     \* topics of auctions
  inbox,      \* messages to the LOG of an auction
  exits,      \* kinds of agents told to exit on an auction's topic
  agents,     \* replicas that run
  log,        \* the LOG of an auction
  callbacks,  \* the callback topic, from the offset of the pages' consumer group on
  used        \* names used so far

kafkaVars == <<general, topics, inbox, exits, callbacks>>
vars == <<limits, field, page, told, op, clicks, kafkaVars, agents, log, used>>

SilentLimit == limits.silent   \* STARTUP_SILENT_CHECKS, 3 if it is not set
StableLimit == limits.stable   \* STARTUP_STABLE_CHECKS, 3 if it is not set
MaxClicks == limits.clicks     \* bound: clicks on all pages

Kind == {"LOG"} \cup Replica
Button == {"submit", "start", "refresh", "end", "restart"}
NotLearned == [name |-> None, from |-> None]
NewLog == [expected |-> 0, present |-> {}, started |-> FALSE]
Idle == [at |-> "idle"]
FreshPage == [status |-> "I", filled |-> FALSE, shows |-> {"submit"}]

NumAgents(p) == IF page[p].filled THEN Cardinality(Kind) ELSE 1

-----------------------------------------------------------------------------
(* Clicks.  Each is one callback of the page, with the name in the field.   *)
Clickable(p, button) ==
  /\ op[p] = Idle /\ button \in page[p].shows /\ clicks < MaxClicks
  /\ clicks' = clicks + 1

Shows(p, status, filled, plus, minus) ==
  page' = [page EXCEPT ![p] = [status |-> status, filled |-> filled,
                               shows |-> (@.shows \cup plus) \ minus]]

Type(p) ==
  /\ op[p] = Idle /\ clicks < MaxClicks
  /\ clicks' = clicks + 1
  /\ \E n \in Name \ {field[p]} : field' = [field EXCEPT ![p] = n]
  /\ UNCHANGED <<page, told, op, kafkaVars, agents, log, used>>

(* handle_create_click: the shared topics are purged, whoever uses them.    *)
(* Of an auction whose creation fails, some agents may have been asked for. *)
Asked == {some \in SUBSET Kind : "LOG" \in some /\ some # Kind}
Purged == callbacks' = <<>>

Create(p) ==
  /\ Clickable(p, "submit")
  /\ LET n == field[p] IN
     IF n \in topics
     THEN /\ general' = {} /\ Purged
          /\ UNCHANGED <<page, topics, used>>
     ELSE /\ topics' = topics \cup {n}
          /\ Purged
          /\ n \notin used /\ used' = used \cup {n}
          /\ \/ /\ general' = {n} \X Kind
                /\ Shows(p, "L", TRUE, {"start", "end", "restart"}, {"submit"})
             \/ /\ \E some \in Asked : general' = {n} \X some
                /\ UNCHANGED page
  /\ UNCHANGED <<field, told, op, inbox, exits, agents, log>>

(* handle_start_click, as far as the CHECK.                                 *)
Send(n, m) == inbox' = [inbox EXCEPT ![n] = IF n \in topics THEN Append(@, m) ELSE @]

Start(p) ==
  /\ Clickable(p, "start")
  /\ Send(field[p], [what |-> "CHECK", agents |-> NumAgents(p)])
  /\ op' = [op EXCEPT ![p] = [at |-> "poll", silent |-> 0, stable |-> 0, last |-> None]]
  /\ UNCHANGED <<field, page, told, general, topics, exits, callbacks, agents, log, used>>

Refresh(p) ==
  /\ Clickable(p, "refresh")
  /\ Send(field[p], [what |-> "ASKRESULTS"])
  /\ op' = [op EXCEPT ![p] = [at |-> "results"]]
  /\ UNCHANGED <<field, page, told, general, topics, exits, callbacks, agents, log, used>>

(* handle_end_click and handle_restart_click, which ends what is not ended. *)
(* The first EXIT goes to agents that do not exist.                         *)
ToldByPage == {"RESOURCE", "MATERIAL"}

Ends(n) ==
  /\ exits' = [exits EXCEPT ![n] = IF n \in topics THEN @ \cup ToldByPage ELSE @]
  /\ Send(n, [what |-> "EXIT"])

End(p) ==
  /\ Clickable(p, "end")
  /\ Ends(field[p])
  /\ Shows(p, "E", FALSE, {"restart"}, {"refresh", "end"})
  /\ UNCHANGED <<field, told, op, general, topics, callbacks, agents, log, used>>

Restart(p) ==
  /\ Clickable(p, "restart")
  /\ IF page[p].status # "E" THEN Ends(field[p]) ELSE UNCHANGED <<exits, inbox>>
  /\ Shows(p, "I", FALSE, {"submit"}, Button \ {"submit"})
  /\ UNCHANGED <<field, told, op, general, topics, callbacks, agents, log, used>>

-----------------------------------------------------------------------------
(* start_auction: ask, listen until it has been silent for some time, and   *)
(* look at the last answer.                                                 *)
Poll(p) ==
  /\ op[p].at = "poll"
  /\ Send(field[p], [what |-> "ISAUCTIONACTIVE"])
  /\ op' = [op EXCEPT ![p] = [at |-> "listen", silent |-> @.silent, stable |-> @.stable,
                              last |-> @.last, heard |-> None]]
  /\ UNCHANGED <<field, page, told, clicks, general, topics, exits, callbacks, agents, log, used>>

FromAnyone(p, m) == TRUE
ForMe(p, m) == m.from = field[p]
IsFor(p, m, action) == m.action = action /\ ForMe(p, m)

(* wait_for_callback: what is read is read for the whole group, matching or *)
(* not.                                                                     *)
Hear(p) ==
  /\ op[p].at = "listen" /\ callbacks # <<>>
  /\ callbacks' = Tail(callbacks)
  /\ op' = IF IsFor(p, Head(callbacks), "AUCTIONSTARTED")
           THEN [op EXCEPT ![p].heard = Head(callbacks)] ELSE op
  /\ UNCHANGED <<field, page, told, clicks, general, topics, inbox, exits, agents, log, used>>

(* Another consumer of the group may have the partition.                    *)
OthersListen(p) == \E q \in Page \ {p} : op[q].at \in {"listen", "results"}
Silence(p) == callbacks = <<>> \/ OthersListen(p)

Learns(p, m) == told' = [told EXCEPT ![p] =
  [name |-> field[p], from |-> m.from]]

(* The exception of a start that failed: the topics are cleared away.       *)
StartFails(p) ==
  /\ general' = {} /\ callbacks' = <<>>
  /\ topics' = topics \ {field[p]}
  /\ inbox' = [inbox EXCEPT ![field[p]] = <<>>] /\ exits' = [exits EXCEPT ![field[p]] = {}]
  /\ Shows(p, "E", page[p].filled, {"submit"}, {"start", "refresh", "end"})
  /\ op' = [op EXCEPT ![p] = Idle]
  /\ UNCHANGED told

Progress(m) == <<m.present, m.expected>>
NeverStable(p, m) == 0
StableAfter(p, m) == IF Progress(m) = op[p].last THEN op[p].stable + 1 ELSE 0
SilentAfter(p) == op[p].silent + 1
Overpatient(p) == SilentAfter(p) > SilentLimit
TooSilent(p) == SilentAfter(p) >= SilentLimit

Again(p, silent, stable, last) ==
  /\ op' = [op EXCEPT ![p] = [at |-> "poll", silent |-> silent, stable |-> stable, last |-> last]]
  /\ UNCHANGED <<page, told, kafkaVars>>

Evaluate(p) ==
  /\ op[p].at = "listen" /\ Silence(p)
  /\ LET m == op[p].heard IN
     \/ /\ m = None
        /\ IF TooSilent(p) THEN StartFails(p)
           ELSE Again(p, SilentAfter(p), op[p].stable, op[p].last)
     \/ /\ m # None /\ m.started
        /\ Shows(p, "G", page[p].filled, {"refresh", "end"}, {"start", "restart"})
        /\ Learns(p, m)
        /\ op' = [op EXCEPT ![p] = Idle]
        /\ UNCHANGED kafkaVars
     \/ /\ m # None /\ ~m.started
        /\ IF m.expected < m.present \/ StableAfter(p, m) >= StableLimit THEN StartFails(p)
           ELSE Again(p, 0, StableAfter(p, m), Progress(m))
  /\ UNCHANGED <<field, clicks, agents, log, used>>

(* ask_results ends with the first answer, or without one.                  *)
HearResults(p) ==
  /\ op[p].at = "results" /\ callbacks # <<>>
  /\ callbacks' = Tail(callbacks)
  /\ IF IsFor(p, Head(callbacks), "RESULTS")
     THEN /\ Learns(p, Head(callbacks))
          /\ Shows(p, "R", page[p].filled, {}, {})
          /\ op' = [op EXCEPT ![p] = Idle]
     ELSE UNCHANGED <<told, page, op>>
  /\ UNCHANGED <<field, clicks, general, topics, inbox, exits, agents, log, used>>

NoResults(p) ==
  /\ op[p].at = "results" /\ Silence(p)
  /\ Shows(p, "R", page[p].filled, {}, {})
  /\ op' = [op EXCEPT ![p] = Idle]
  /\ UNCHANGED <<field, told, clicks, kafkaVars, agents, log, used>>

-----------------------------------------------------------------------------
(* The agents.  A container of the same name is replaced.                   *)
Launch(n, k) ==
  /\ <<n, k>> \in general
  /\ general' = general \ {<<n, k>>}
  /\ agents' = agents \cup {<<n, k>>}
  /\ log' = IF k = "LOG" THEN [log EXCEPT ![n] = NewLog] ELSE log
  /\ UNCHANGED <<field, page, told, op, clicks, topics, inbox, exits, callbacks, used>>

AnswersPing(n, k) ==
  /\ <<n, k>> \in agents /\ n \in topics
  /\ log[n].expected > 0 /\ k \notin log[n].present
  /\ log' = [log EXCEPT ![n].present = @ \cup {k}]
  /\ UNCHANGED <<field, page, told, op, clicks, kafkaVars, agents, used>>

(* callback_before_message of the LOG.                                      *)
GivesStart(n) ==
  /\ <<n, "LOG">> \in agents
  /\ log[n].expected > 0 /\ ~log[n].started
  /\ Cardinality(log[n].present) = log[n].expected
  /\ log' = [log EXCEPT ![n].started = TRUE]
  /\ UNCHANGED <<field, page, told, op, clicks, kafkaVars, agents, used>>

LogReads(n) ==
  /\ <<n, "LOG">> \in agents /\ inbox[n] # <<>>
  /\ inbox' = [inbox EXCEPT ![n] = Tail(@)]
  /\ LET m == Head(inbox[n])
         answer(action) ==
           [action |-> action, from |-> n,
            started |-> log[n].started, expected |-> log[n].expected,
            present |-> Cardinality(log[n].present)]
     IN \/ m.what = "CHECK" /\ log' = [log EXCEPT ![n].expected = m.agents] /\ UNCHANGED <<callbacks, agents>>
        \/ /\ m.what = "ISAUCTIONACTIVE" /\ callbacks' = Append(callbacks, answer("AUCTIONSTARTED"))
           /\ UNCHANGED <<log, agents>>
        \/ /\ m.what = "ASKRESULTS" /\ callbacks' = Append(callbacks, answer("RESULTS"))
           /\ UNCHANGED <<log, agents>>
        \/ m.what = "EXIT" /\ agents' = agents \ {<<n, "LOG">>} /\ UNCHANGED <<log, callbacks>>
  /\ UNCHANGED <<field, page, told, op, clicks, general, topics, exits, used>>

AgentExits(n, k) ==
  /\ <<n, k>> \in agents /\ k \in exits[n] /\ n \in topics
  /\ agents' = agents \ {<<n, k>>}
  /\ UNCHANGED <<field, page, told, op, clicks, kafkaVars, log, used>>

-----------------------------------------------------------------------------
Init ==
  /\ limits \in Limits /\ field \in FirstField
  /\ page = [p \in Page |-> FreshPage] /\ told = [p \in Page |-> NotLearned]
  /\ op = [p \in Page |-> Idle] /\ clicks = 0
  /\ general = {} /\ topics = {} /\ inbox = [n \in Name |-> <<>>]
  /\ exits = [n \in Name |-> {}] /\ callbacks = <<>>
  /\ agents = {} /\ log = [n \in Name |-> NewLog] /\ used = {}

Click(p) ==
  /\ UNCHANGED limits
  /\ Type(p) \/ Create(p) \/ Start(p) \/ Refresh(p) \/ End(p) \/ Restart(p)
Work(p) ==
  /\ UNCHANGED limits
  /\ Poll(p) \/ Hear(p) \/ Evaluate(p) \/ HearResults(p) \/ NoResults(p)
AgentStep ==
  /\ UNCHANGED limits
  /\ \E n \in Name :
       \/ GivesStart(n) \/ LogReads(n)
       \/ \E k \in Kind : Launch(n, k) \/ AnswersPing(n, k) \/ AgentExits(n, k)

Next == (\E p \in Page : Click(p) \/ Work(p)) \/ AgentStep

(* A callback of the page runs on.  Nothing is assumed of the agents, which *)
(* may never come up, nor of the users.                                     *)
Spec == Init /\ [][Next]_vars /\ \A p \in Page : WF_vars(Work(p))

-----------------------------------------------------------------------------
(* Every variable keeps its type.                                           *)
ClientTypeOK ==
  /\ limits \in Limits /\ field \in [Page -> Name]
  /\ \A p \in Page : page[p].status \in {"I", "L", "G", "R", "E"} /\ page[p].shows \subseteq Button
  /\ \A p \in Page : op[p].at \in {"idle", "results"} \/
       /\ op[p].at \in {"poll", "listen"}
       /\ op[p].silent \in 0..(SilentLimit - 1) /\ op[p].stable \in 0..(StableLimit - 1)
  /\ general \subseteq Name \X Kind /\ agents \subseteq Name \X Kind /\ topics \subseteq Name
  /\ \A n \in Name : exits[n] \subseteq Kind \cup ToldByPage /\ log[n].present \subseteq Kind

(* What a page learns, that the auction has started or its results, is from *)
(* the auction it asked for, not from an answer to another page that was on *)
(* the topic they share; and an auction a page shows as started has got its *)
(* start.                                                                   *)
LearnsOfItsAuction ==
  \A p \in Page :
    /\ told[p].from = told[p].name
    /\ page[p].status = "G" => log[told[p].name].started

(* Starting an auction comes to an end, whether the agents come up or not,  *)
(* answer late, in turns or never.                                          *)
StartEnds == \A p \in Page : op[p].at \in {"poll", "listen"} ~> op[p] = Idle
=============================================================================
