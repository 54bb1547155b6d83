------------------------------ MODULE Conditions ------------------------------
(***************************************************************************)
(* Conditions on orders (DynReActBase/dynreact/base/conditions.py): trees  *)
(* of comparisons of attributes, some of whose values are parameters that  *)
(* a user supplies as one list.  A value is <<"value", v>> or <<"param">>; *)
(* an order is a function of the attributes it has, one of them being the  *)
(* set of its material classes.                                            *)
(***************************************************************************)
EXTENDS Integers, Sequences, SequencesExt

Param == <<"param">>
Value(v) == <<"value", v>>
Composite == {"and", "or"}

RECURSIVE HasParameters(_)
HasParameters(c) ==
  CASE c.type = "not" -> HasParameters(c.base)
    [] c.type \in Composite -> \E i \in DOMAIN c.conditions : HasParameters(c.conditions[i])
    [] c.type = "material" -> FALSE
    [] OTHER -> Param \in ToSet(c.values)

Compare(v, op, w) ==
  CASE op = "=" -> v = w   [] op = "!=" -> v # w
    [] op = "<" -> v < w   [] op = "<=" -> v <= w
    [] op = ">" -> v > w   [] op = ">=" -> v >= w

(* Whether a list is to contain the value or not makes no difference, and   *)
(* ranges contain their ends.                                               *)
LeafApplies(c, order) ==
  LET v == order[c.attr] IN
  CASE c.attr \notin DOMAIN order -> c.type = "threshold" /\ c.op = "!="
    [] c.type = "list" -> Value(v) \in ToSet(c.values)
    [] c.type = "range" -> c.values[1][2] <= v /\ v <= c.values[2][2]
    [] OTHER -> Compare(v, c.op, c.values[1][2])

RECURSIVE Applies(_, _)
Applies(c, order) ==
  CASE c.type = "and" -> \A i \in DOMAIN c.conditions : Applies(c.conditions[i], order)
    [] c.type = "or" -> \E i \in DOMAIN c.conditions : Applies(c.conditions[i], order)
    [] c.type = "not" -> ~ Applies(c.base, order)
    [] c.type = "material" -> c.class \in order.classes
    [] OTHER -> LeafApplies(c, order)

(* apply_parameters: each condition takes its values from the front of the  *)
(* list, a list all that are left.  What is left over at the end is ignored.*)
Taken(c, params) ==
  LET take(acc, v) ==
        IF v # Param THEN [acc EXCEPT !.values = Append(@, v)]
        ELSE IF acc.rest = <<>> THEN [acc EXCEPT !.ok = FALSE]
        ELSE [acc EXCEPT !.values = Append(@, Value(Head(acc.rest))), !.rest = Tail(@)]
      all == IF c.type = "list" THEN [ok |-> TRUE, values |-> [i \in DOMAIN params |-> Value(params[i])], rest |-> <<>>]
             ELSE FoldLeft(take, [ok |-> TRUE, values |-> <<>>, rest |-> params], c.values)
  IN [ok |-> all.ok, cond |-> [c EXCEPT !.values = all.values], rest |-> all.rest]

RECURSIVE Instantiate(_, _)
Instantiate(c, params) ==
  IF params = <<>> \/ (c.type \notin Composite \cup {"not"} /\ ~ HasParameters(c))
  THEN [ok |-> ~ HasParameters(c), cond |-> c, rest |-> params]
  ELSE CASE c.type = "not" -> LET i == Instantiate(c.base, params) IN [i EXCEPT !.cond = [c EXCEPT !.base = i.cond]]
         [] c.type \in Composite ->
              LET take(acc, d) == LET i == Instantiate(d, acc.rest) IN
                    [ok |-> acc.ok /\ i.ok, conds |-> Append(acc.conds, i.cond), rest |-> i.rest]
                  all == FoldLeft(take, [ok |-> TRUE, conds |-> <<>>, rest |-> params], c.conditions)
              IN [ok |-> all.ok, cond |-> [c EXCEPT !.conditions = all.conds], rest |-> all.rest]
         [] OTHER -> Taken(c, params)

(* For comparison: the leaves from left to right, and the parameters each   *)
(* is meant to have.                                                        *)
RECURSIVE Leaves(_)
Leaves(c) ==
  CASE c.type = "not" -> Leaves(c.base)
    [] c.type \in Composite -> FlattenSeq([i \in DOMAIN c.conditions |-> Leaves(c.conditions[i])])
    [] OTHER -> <<c>>

ParamsOf(c) == IF c.type = "material" THEN {} ELSE {i \in DOMAIN c.values : c.values[i] = Param}

=============================================================================
