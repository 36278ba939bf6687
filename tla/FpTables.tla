------------------------------ MODULE FpTables ------------------------------
(***************************************************************************)
(* How the masks of the fingerprint tables are made (GenTables and         *)
(* permutate_, source/duplicate-detection/fp_tables.cc).                   *)
(*                                                                         *)
(* The f bits of a fingerprint are cut in partition_num blocks; a block is *)
(* a list of masks for the machine words it lies in.  Then there is one    *)
(* table for each choice of partition_num - k blocks, its mask the bits of *)
(* the chosen blocks.  Two fingerprints that differ in at most k bits      *)
(* agree on all the bits of some table, which is why comparing those that  *)
(* agree on a table finds every near duplicate.                            *)
(*                                                                         *)
(* A mask is the set of its bits, bit b of word w being w * WordSize + b.  *)
(***************************************************************************)
EXTENDS Integers, Sequences, FiniteSets

CONSTANTS
  WordSize,     (* 64 in the code                                          *)
  MaxF,         (* bounds on the arguments GenTables is called with        *)
  MaxPartition

VARIABLES
  f, k, partition_num,  (* the arguments                                   *)
  count,                (* bits in the blocks made so far                  *)
  mask_blocks,          (* the blocks made so far                          *)
  vec,                  (* the blocks chosen for the next table            *)
  table_list,           (* the masks of the tables made so far             *)
  pc

args == <<f, k, partition_num>>
vars == <<f, k, partition_num, count, mask_blocks, vec, table_list, pc>>

Bits == 0 .. (f - 1)
WordBits == 0 .. (WordSize - 1)

(* Words as sets of bits: (1 << n) - 1, x << n and -(1 << n). *)
LowBits(n) == 0 .. (n - 1)
ShiftLeft(x, n) == {b + n : b \in x} \cap WordBits
FromBit(n) == {b \in WordBits : b >= n}

InWord(w, x) == {w * WordSize + b : b \in x}

(* The first f % partition_num blocks are a bit wider. *)
BlockSize(i) == f \div partition_num + (IF i <= f % partition_num THEN 1 ELSE 0)

(* The masks of the block of the bits start .. finish - 1, word by word. *)
MaskBlock(start, finish) ==
  LET sw == start \div WordSize
      sb == start % WordSize
      fw == finish \div WordSize
      fb == finish % WordSize
  IN  IF sw = fw
      THEN InWord(sw, ShiftLeft(LowBits(finish - start), sb))
      ELSE InWord(sw, FromBit(sb))
             \cup (UNION {InWord(w, WordBits) : w \in (sw + 1) .. (fw - 1)})
             \cup InWord(fw, LowBits(fb))

Len_ == partition_num - k

(* Mutant: The last choice of each place is skipped. *)
Movable_Early(v) == {i \in 1 .. Len(v) : v[i] < partition_num - (Len(v) - i) - 1}

(* The places of a choice of blocks that can still move up. *)
Movable(v) == {i \in 1 .. Len(v) : v[i] # partition_num - (Len(v) - i)}

(* Mutant: The places after the one that moves keep what they were. *)
Permutated_NoReset(v) ==
  LET index == CHOOSE i \in Movable(v) : \A j \in Movable(v) : j <= i
  IN  [v EXCEPT ![index] = v[index] + 1]

(* permutate_: the last of them moves and the places after it follow. *)
Permutated(v) ==
  LET index == CHOOSE i \in Movable(v) : \A j \in Movable(v) : j <= i
  IN  [i \in 1 .. Len(v) |-> IF i < index THEN v[i] ELSE v[index] + 1 + (i - index)]

Mask(v) == UNION {mask_blocks[v[i]] : i \in 1 .. Len(v)}

-----------------------------------------------------------------------------
(* One more block of the fingerprint. *)
AddBlock ==
  /\ pc = "blocks" /\ Len(mask_blocks) < partition_num
  /\ LET finish == count + BlockSize(Len(mask_blocks) + 1)
     IN  /\ mask_blocks' = Append(mask_blocks, MaskBlock(count, finish))
         /\ count' = finish
  /\ UNCHANGED <<args, vec, table_list, pc>>

(* The first choice: the first partition_num - k blocks. *)
FirstChoice ==
  /\ pc = "blocks" /\ Len(mask_blocks) = partition_num
  /\ vec' = [i \in 1 .. Len_ |-> i]
  /\ pc' = "tables"
  /\ UNCHANGED <<args, count, mask_blocks, table_list>>

(* The table of the present choice, and the next choice if there is one. *)
AddTable ==
  /\ pc = "tables"
  /\ table_list' = Append(table_list, Mask(vec))
  /\ \/ Movable(vec) # {} /\ vec' = Permutated(vec) /\ UNCHANGED pc
     \/ Movable(vec) = {} /\ pc' = "done" /\ UNCHANGED vec
  /\ UNCHANGED <<args, count, mask_blocks>>

(* A choice of more blocks than there are cannot be asked for, and a block *)
(* without bits is of no use; k = partition_num gives one table that looks *)
(* at no bit.                                                              *)
Init ==
  /\ f \in 1 .. MaxF
  /\ partition_num \in 1 .. MaxPartition /\ partition_num <= f
  /\ k \in 0 .. partition_num
  /\ count = 0
  /\ mask_blocks = <<>>
  /\ vec = <<>>
  /\ table_list = <<>>
  /\ pc = "blocks"

Next == AddBlock \/ FirstChoice \/ AddTable

Spec == Init /\ [][Next]_vars
-----------------------------------------------------------------------------
(* Every variable has its type, and a choice names blocks there are. *)
TypeOK ==
  /\ f \in Nat \ {0} /\ partition_num \in 1 .. f /\ k \in 0 .. partition_num
  /\ count \in 0 .. f
  /\ mask_blocks \in Seq(SUBSET Bits) /\ Len(mask_blocks) <= partition_num
  /\ vec \in Seq(1 .. partition_num)
  /\ table_list \in Seq(SUBSET Bits)
  /\ pc \in {"blocks", "tables", "done"}

(* The loop goes through every choice of partition_num - k blocks ("select *)
(* blocks in C_pn^(pn-k) in blocks", fp_tables.cc:39) and through none     *)
(* twice; and the blocks, made word by word, share no bit, leave none out, *)
(* and none is more than one bit wider than another.                       *)
Choices == {S \in SUBSET (1 .. partition_num) : Cardinality(S) = Len_}
MaskOf(S) == UNION {mask_blocks[i] : i \in S}

EveryChoiceOnce ==
  /\ \A i, j \in DOMAIN table_list : table_list[i] = table_list[j] => i = j
  /\ pc = "done" =>
       {table_list[i] : i \in DOMAIN table_list} = {MaskOf(S) : S \in Choices}
  /\ pc # "blocks" =>
       /\ MaskOf(1 .. partition_num) = Bits
       /\ \A i, j \in 1 .. partition_num :
            /\ i # j => mask_blocks[i] \cap mask_blocks[j] = {}
            /\ Cardinality(mask_blocks[i]) <= Cardinality(mask_blocks[j]) + 1

(* Two fingerprints that differ in at most k bits agree on some table.     *)
NearPairsMeet ==
  pc = "done" =>
    \A differ \in SUBSET Bits : Cardinality(differ) <= k =>
      \E i \in DOMAIN table_list : table_list[i] \cap differ = {}
=============================================================================
