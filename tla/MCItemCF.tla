------------------------------ MODULE MCItemCF ------------------------------
EXTENDS ItemCF, TLC

(* Users are interchangeable, and so are items unless some are Mine. *)
Users == Permutations(User)
UsersAndItems == Permutations(User) \cup Permutations(Item)
=============================================================================
