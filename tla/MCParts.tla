------------------------------ MODULE MCParts ------------------------------
(***************************************************************************)
(* Small instances of the parts.                                           *)
(***************************************************************************)
EXTENDS Parts

(* Transactions: each a nonempty set of items.                             *)
Transactions == {{b \in 1 .. item_num_ : (n \div 2^(b - 1)) % 2 = 1} : n \in 1 .. 2^item_num_ - 1}
MCDatabases == {<<>>, <<{4, 2, 1}, {4, 3, 1}, {4, 3, 1}, {3, 1}, {4}, {4}, {4},
                  {3}, {3}, {2}, {2}, {2}, {2}>>}
                 \cup {<<{1, 2, 3}, {1, 2, 4}, s, t, u>> : s, t, u \in Transactions}

(* Up to three sets, two of which may be equal if there are no others; of  *)
(* the sets all but two are in ascending order.                            *)
MCSources ==
  LET Listed == <<<<1>>, <<2>>, <<1, 2>>, <<2, 1>>, <<1, 3>>, <<2, 3>>, <<3, 1, 2>>, <<1, 2, 3>>>>
      Sorted(n) == {i \in [1 .. n -> DOMAIN Listed] :
                      \A m \in 1 .. n - 1 : i[m] < i[m + 1] \/ (n = 2 /\ i[m] = i[m + 1])}
  IN  {[m \in DOMAIN i |-> Listed[i[m]]] : i \in UNION {Sorted(n) : n \in 0 .. 3}}

(* A title and a content.                                                  *)
MCDocuments ==
  {<<2>>, <<1, 2>>, <<3, 1>>} \X
    ({<<1>>, <<1, 2>>, <<1, 2, 1>>, <<1, 2, 2>>, <<1, 1, 2, 0, 1, 1>>}
       \cup {<<1, 2, 3, 1>>, <<1, 3, 3, 2, 1>>, <<2, 0, 1, 2>>, <<1, 2, 2, 0, 3, 1, 2>>})

MCQueries == {<<1>>, <<2>>, <<1, 2>>, <<2, 3, 2>>}

MCBursts ==
  LET Burst(start, period) == [start_time |-> start, period |-> period]
  IN  {<<>>, <<Burst(1, 2)>>, <<Burst(2, 1), Burst(3, 1)>>, <<Burst(1, 3)>>}

MCPhrase == {<<2, 2>>}
MCRefusals == {{}, {<<1, 2>>}}
=============================================================================
