------------------------------- MODULE FPTree -------------------------------
(***************************************************************************)
(* Mining of frequent item sets (source/itemset/fptree.cpp): the frequent  *)
(* items of every transaction are inserted into a prefix tree, most        *)
(* frequent first; then the tree is projected on one item after the other, *)
(* the projection on the items left, and so on (fp_growth).                *)
(*                                                                         *)
(* A node is named by its path in the tree of all transactions; its shadow *)
(* in a projection keeps the name, so that the shadow pointers need not be *)
(* kept.  A tree is a record of the supports and parents of its nodes and  *)
(* of the head table; the parent of a top node, and of a node that has     *)
(* none, is <<>>.  The transactions are sets, which nothing in the data    *)
(* source sees to: an item that is there twice would be counted twice.  An *)
(* FPtree runs once, its members are never emptied.                        *)
(***************************************************************************)
EXTENDS Integers, SequencesExt, FiniteSetsExt

CONSTANTS
  item_num_, min_sup,
  Databases       (* the transactions there may be, sequences of item sets *)

VARIABLES
  data_,          (* the transactions                                      *)
  read,           (* how many were inserted                                *)
  tree,           (* root_ and head_table_                                 *)
  stack,          (* the calls of fp_growth that have not returned         *)
  out_,           (* the sets of items written                             *)
  mining          (* "counting", "inserting", "growing", "done"            *)

vars == <<data_, read, tree, stack, out_, mining>>

Node(t) == DOMAIN t.sup
HeadOf(t, x) == CHOOSE n \in DOMAIN t.heads : t.heads[n].item = x
HasHead(t, x) == \E n \in DOMAIN t.heads : t.heads[n].item = x
EmptyTree == [sup |-> <<>>, parent |-> <<>>, heads |-> <<>>]
Extend(g, n, v) == [m \in DOMAIN g \cup {n} |-> IF m = n THEN v ELSE g[m]]

(* The elements of a set, sorted: the n-th is the one that n - 1 come      *)
(* before.                                                                 *)
InOrder(S, Before(_, _)) ==
  [n \in 1 .. Cardinality(S) |->
     CHOOSE x \in S : Cardinality({y \in S : Before(y, x)}) = n - 1]

-----------------------------------------------------------------------------
(* The items of enough support, in descending order of it; of equal ones   *)
(* the last comes first, for the list is sorted and reversed.              *)
Support(S) == Cardinality({n \in DOMAIN data_ : S \subseteq data_[n]})

Precedes(x, y) ==
  Support({x}) > Support({y}) \/ (Support({x}) = Support({y}) /\ x > y)

freq_items_ == InOrder({x \in 1 .. item_num_ : Support({x}) >= min_sup}, Precedes)

(* Those of them that are among the items, in the same order.              *)
order_by(items) == InOrder(Range(freq_items_) \cap items, Precedes)

(* Mutant: Only the nodes that are made are counted. *)
insert_tree_NoCount(t, path) ==
  LET steps == {SubSeq(path, 1, n) : n \in 1 .. Len(path)}
      made == steps \ Node(t)
  IN  [sup |-> [n \in Node(t) \cup steps |-> IF n \in Node(t) THEN t.sup[n] ELSE 1],
       parent |-> [n \in Node(t) \cup steps |-> Front(n)],
       heads |-> [m \in DOMAIN t.heads |->
                    [t.heads[m] EXCEPT !.nodes =
                       SetToSeq({n \in made : Last(n) = t.heads[m].item}) \o @]]]

(* The nodes of the path get one more; those that are not there are made   *)
(* and put first among the nodes of their items.                           *)
insert_tree(t, path) ==
  LET steps == {SubSeq(path, 1, n) : n \in 1 .. Len(path)}
      made == steps \ Node(t)
  IN  [sup |-> [n \in Node(t) \cup steps |->
                  (IF n \in steps THEN 1 ELSE 0) + (IF n \in Node(t) THEN t.sup[n] ELSE 0)],
       parent |-> [n \in Node(t) \cup steps |-> Front(n)],
       heads |-> [m \in DOMAIN t.heads |->
                    [t.heads[m] EXCEPT !.nodes =
                       SetToSeq({n \in made : Last(n) = t.heads[m].item}) \o @]]]

-----------------------------------------------------------------------------
(* One step of project_path, from a node to its parent: a parent seen for  *)
(* the first time gets a shadow with its own support, and becomes the      *)
(* parent of the node's shadow; one seen before gets the support of the    *)
(* node added.                                                             *)
ProjectStep(t, c, node, up) ==
  LET x == Last(up)
      h == HeadOf(c, x)
  IN  IF up \notin Node(c)
      THEN [sup |-> Extend(c.sup, up, t.sup[up]),
            parent |-> Extend(IF node \in Node(c) THEN [c.parent EXCEPT ![node] = up]
                              ELSE c.parent, up, <<>>),
            heads |-> IF HasHead(c, x)
                      THEN [c.heads EXCEPT ![h].nodes = <<up>> \o @,
                                           ![h].sup = @ + t.sup[up]]
                      ELSE Append(c.heads, [item |-> x, sup |-> t.sup[up], nodes |-> <<up>>])]
      ELSE [c EXCEPT !.sup[up] = @ + t.sup[node], !.heads[h].sup = @ + t.sup[node]]

(* The way up from a node, to the node below the root.                     *)
WayUp(t, node) ==
  LET way[n \in Node(t)] == <<n>> \o (IF t.parent[n] = <<>> THEN <<>> ELSE way[t.parent[n]])
  IN  way[node]

project_path(t, c, node) ==
  LET way == WayUp(t, node)
  IN  FoldLeft(LAMBDA d, n : ProjectStep(t, d, way[n], way[n + 1]), c,
               [n \in 1 .. Len(way) - 1 |-> n])

(* Mutant: What hung on a pruned node keeps it as its parent. *)
prune_NotLifted(c) ==
  LET rare == {c.heads[m].item : m \in {n \in DOMAIN c.heads : c.heads[n].sup < min_sup}}
      kept == {n \in Node(c) : Last(n) \notin rare}
      order == InOrder({m \in DOMAIN c.heads : c.heads[m].item \notin rare},
                 LAMBDA m, n : c.heads[m].sup < c.heads[n].sup
                                 \/ (c.heads[m].sup = c.heads[n].sup /\ m < n))
  IN  [sup |-> [n \in kept |-> c.sup[n]],
       parent |-> [n \in kept |-> c.parent[n]],
       heads |-> [m \in DOMAIN order |-> c.heads[order[m]]]]

(* The heads in ascending order of support, without those of too little;   *)
(* the nodes of these go, and what hung on them moves up.                  *)
prune(c) ==
  LET rare == {c.heads[m].item : m \in {n \in DOMAIN c.heads : c.heads[n].sup < min_sup}}
      above[n \in Node(c) \cup {<<>>}] ==
        IF n # <<>> /\ Last(n) \in rare THEN above[c.parent[n]] ELSE n
      kept == {n \in Node(c) : Last(n) \notin rare}
      order == InOrder({m \in DOMAIN c.heads : c.heads[m].item \notin rare},
                 LAMBDA m, n : c.heads[m].sup < c.heads[n].sup
                                 \/ (c.heads[m].sup = c.heads[n].sup /\ m < n))
  IN  [sup |-> [n \in kept |-> c.sup[n]],
       parent |-> [n \in kept |-> above[c.parent[n]]],
       heads |-> [m \in DOMAIN order |-> c.heads[order[m]]]]

create_condition_fptree(t, nodes) ==
  prune(FoldLeft(LAMBDA c, n : project_path(t, c, n), EmptyTree, nodes))

-----------------------------------------------------------------------------
Init ==
  /\ data_ \in Databases
  /\ read = 0 /\ tree = EmptyTree /\ stack = <<>> /\ out_ = {} /\ mining = "counting"

(* find_freq_items, and the head table of create_fptree.                   *)
FindFreqItems ==
  /\ mining = "counting" /\ mining' = "inserting"
  /\ tree' = [EmptyTree EXCEPT !.heads =
                [n \in DOMAIN freq_items_ |->
                   [item |-> Reverse(freq_items_)[n],
                    sup |-> Support({Reverse(freq_items_)[n]}), nodes |-> <<>>]]]
  /\ UNCHANGED <<data_, read, stack, out_>>

(* create_fptree, one transaction at a time. *)
InsertTransaction ==
  /\ mining = "inserting" /\ read < Len(data_)
  /\ read' = read + 1
  /\ tree' = insert_tree(tree, order_by(data_[read + 1]))
  /\ UNCHANGED <<data_, stack, out_, mining>>

Call(t, suffix) == [tree |-> t, pos |-> 1, suffix |-> suffix]

BeginGrowth ==
  /\ mining = "inserting" /\ read = Len(data_)
  /\ mining' = "growing" /\ stack' = <<Call(tree, {})>>
  /\ UNCHANGED <<data_, read, tree, out_>>

is_single_path(heads) == \A m \in DOMAIN heads : Len(heads[m].nodes) = 1
ItemsOf(heads) == {heads[m].item : m \in DOMAIN heads}

(* fp_growth of a tree in which each item has one node: all its items.     *)
GenerateRules ==
  /\ mining = "growing" /\ stack # <<>>
  /\ LET top == Last(stack)
     IN  /\ is_single_path(top.tree.heads)
         /\ out_' = out_ \cup {ItemsOf(top.tree.heads) \cup top.suffix}
  /\ stack' = Front(stack)
  /\ UNCHANGED <<data_, read, tree, mining>>

(* The next head: if its projection has any item, fp_growth is called.     *)
GrowHead ==
  /\ mining = "growing" /\ stack # <<>>
  /\ LET top == Last(stack)
         head == top.tree.heads[top.pos]
         cheads == create_condition_fptree(top.tree, head.nodes)
     IN  /\ ~is_single_path(top.tree.heads) /\ top.pos <= Len(top.tree.heads)
         /\ stack' = Append(Front(stack), [top EXCEPT !.pos = @ + 1])
                       \o (IF cheads.heads = <<>> THEN <<>>
                           ELSE <<Call(cheads, {head.item} \cup top.suffix)>>)
  /\ UNCHANGED <<data_, read, tree, out_, mining>>

Return ==
  /\ mining = "growing" /\ stack # <<>>
  /\ LET top == Last(stack)
     IN  ~is_single_path(top.tree.heads) /\ top.pos > Len(top.tree.heads)
  /\ stack' = Front(stack)
  /\ UNCHANGED <<data_, read, tree, out_, mining>>

Finish ==
  /\ mining = "growing" /\ stack = <<>>
  /\ mining' = "done"
  /\ UNCHANGED <<data_, read, tree, stack, out_>>

Next ==
  FindFreqItems \/ InsertTransaction \/ BeginGrowth \/ GenerateRules \/ GrowHead
    \/ Return \/ Finish

Spec == Init /\ [][Next]_vars

-----------------------------------------------------------------------------
SumOf(f, S) == MapThenSumSet(LAMBDA n : f[n], S)

(* The tree says how many of the transactions read so far have all items   *)
(* of any set of frequent ones (insert_tree): the sum over the nodes of    *)
(* the rarest of them that have the others above them.                     *)
TreeKeepsSupport ==
  mining = "inserting" =>
    \A S \in (SUBSET Range(freq_items_)) \ {{}} :
      LET rarest == CHOOSE y \in S : \A z \in S \ {y} : Precedes(z, y)
          ends == {n \in Node(tree) : Last(n) = rarest /\ S \subseteq Range(n)}
      IN  SumOf(tree.sup, ends) = Cardinality({n \in 1 .. read : S \subseteq data_[n]})

(* However deep the recursion and whatever was pruned, each node of a      *)
(* projection has a parent that was not deleted, or none; it is among the  *)
(* nodes of its item's head, where clean_condition_fptree will find it;    *)
(* and the head has the support of its nodes (project_path, prune).        *)
TreesAreSound ==
  \A c \in DOMAIN stack :
    LET t == stack[c].tree
    IN  /\ \A n \in Node(t) :
             /\ t.parent[n] \in Node(t) \cup {<<>>}
             /\ HasHead(t, Last(n)) /\ n \in Range(t.heads[HeadOf(t, Last(n))].nodes)
        /\ \A m \in DOMAIN t.heads :
             t.heads[m].sup = SumOf(t.sup, Range(t.heads[m].nodes))

(* "output:frequent patterns" (fptree.h:4): a set that is written is in    *)
(* min_sup transactions.  It is not: a shadow starts with the support of   *)
(* its parent's node, not of the node it is reached from (project_path,    *)
(* fptree.cpp:281), and a tree with one node for each item is taken for a  *)
(* path (is_single_path), though its nodes need not be above one another.  *)
FrequentPatterns == \A S \in out_ : S # {} => Support(S) >= min_sup
=============================================================================
