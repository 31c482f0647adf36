-------------------------------- MODULE Lists --------------------------------
(***************************************************************************)
(* Taking elements out of a list: the filters of the editor's documents    *)
(* and of the runtime's ordered tables.                                    *)
(***************************************************************************)
EXTENDS Integers, Sequences

(***************************************************************************)
(* The elements of a list at the positions in K, in their order.           *)
(***************************************************************************)
Selected(items, K) ==
  LET selected[i \in 0..Len(items)] ==
        IF i = 0 THEN <<>>
        ELSE IF i \in K THEN Append(selected[i - 1], items[i]) ELSE selected[i - 1]
  IN  selected[Len(items)]
Filter(items, Test(_)) == Selected(items, {i \in DOMAIN items : Test(items[i])})
Indices(items) == [i \in DOMAIN items |-> i]
Positions(items, K) == Selected(Indices(items), K)

=============================================================================
