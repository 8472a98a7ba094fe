----------------------------- MODULE HlmacAddr ------------------------------
(***************************************************************************)
(* HLMAC addresses (hlmacaddr.c) and the operations of the table that      *)
(* stores them (hlmac-table.c), as functions of their arguments.  An       *)
(* address is the sequence of its ids; its len is the sequence's length.   *)
(* A table is a sequence of entries in list order.                         *)
(***************************************************************************)
EXTENDS Integers, Sequences

CONSTANTS
  MaxHlmac,       \* HLMAC_MAX_HLMAC: addresses a node may hold, -1: no limit
  TableCapacity   \* number_of_hlmac_addresses of a full table, 255 in the code

ASSUME HlmacAssumption ==
  /\ MaxHlmac \in Nat \cup {-1}
  /\ TableCapacity \in Nat \ {0}

UNSPECIFIED_HLMAC_ADDRESS == << >>

hlmac_is_unspecified_addr(addr) == addr = UNSPECIFIED_HLMAC_ADDRESS

hlmac_create_root_addr(root_id) == <<root_id>>

hlmac_add_new_id(addr, new_id) == Append(addr, new_id)

\* hlmac_remove_Last_id: an empty address stays empty, one id leaves it empty.
hlmac_remove_Last_id(addr) ==
  IF addr = << >> THEN addr ELSE SubSeq(addr, 1, Len(addr) - 1)

FirstDifference(a, b) ==
  {i \in DOMAIN a \cap DOMAIN b :
     a[i] # b[i] /\ \A j \in 1 .. i - 1 : a[j] = b[j]}

\* Does addr have an id other than 0 after position k?
NonZeroAfter(addr, k) == \E i \in k + 1 .. Len(addr) : addr[i] > 0

hlmac_cmp_by_length(addr1, addr2) ==   \* mutant: trailing zeros count
  CASE \E i \in FirstDifference(addr1, addr2) : addr1[i] < addr2[i] -> 1
    [] \E i \in FirstDifference(addr1, addr2) : addr1[i] > addr2[i] -> -1
    [] OTHER -> IF Len(addr1) = Len(addr2) THEN 0
                ELSE IF Len(addr2) > Len(addr1) THEN 1 ELSE -1

(***************************************************************************)
(* hlmac_cmp: +1 when addr2 is larger, -1 when addr1 is.  The first id in  *)
(* which they differ decides; else the longer address is larger, unless    *)
(* all the ids it has more are 0.                                          *)
(***************************************************************************)
hlmac_cmp(addr1, addr2) ==
  CASE \E i \in FirstDifference(addr1, addr2) : addr1[i] < addr2[i] -> 1
    [] \E i \in FirstDifference(addr1, addr2) : addr1[i] > addr2[i] -> -1
    [] FirstDifference(addr1, addr2) = {} ->
         CASE NonZeroAfter(addr2, Len(addr1)) -> 1
           [] NonZeroAfter(addr1, Len(addr2)) -> -1
           [] OTHER -> 0

-----------------------------------------------------------------------------
MatchingLengthsOrSelf(table, addr) ==   \* mutant: compares before removing
  {k \in 1 .. Len(addr) :
     \E e \in DOMAIN table :
       hlmac_cmp(table[e].address, SubSeq(addr, 1, k)) = 0}

(***************************************************************************)
(* hlmactable_get_longest_matchhed_prefix: the last id is removed until an *)
(* entry of the table compares equal or nothing is left; an address is not *)
(* a prefix of itself.                                                     *)
(***************************************************************************)
MatchingLengths(table, addr) ==
  {k \in 1 .. Len(addr) - 1 :
     \E e \in DOMAIN table :
       hlmac_cmp(table[e].address, SubSeq(addr, 1, k)) = 0}

hlmactable_get_longest_matchhed_prefix(table, addr) ==
  IF MatchingLengths(table, addr) = {}
  THEN UNSPECIFIED_HLMAC_ADDRESS
  ELSE LET longest == CHOOSE k \in MatchingLengths(table, addr) :
                        \A j \in MatchingLengths(table, addr) : j <= k
       IN  SubSeq(addr, 1, longest)

hlmactable_has_loop(table, addr) ==
  ~hlmac_is_unspecified_addr(hlmactable_get_longest_matchhed_prefix(table, addr))

\* The first test of hlmactable_add: a timestamp newer than that of the head of
\* the list empties the table (hlmactable_clean).
Cleaned(table, timestamp) ==
  IF table # << >> /\ timestamp > table[1].timestamp THEN << >> ELSE table

HasRoom(table) ==
  Len(table) < TableCapacity /\ (MaxHlmac = -1 \/ Len(table) < MaxHlmac)

\* hlmactable_add: the value it returns and the table it leaves.
IsAdded(table, timestamp) == HasRoom(Cleaned(table, timestamp))

hlmactable_add(table, addr, timestamp) ==
  IF IsAdded(table, timestamp)
  THEN Append(Cleaned(table, timestamp),
              [address |-> addr, timestamp |-> timestamp])
  ELSE Cleaned(table, timestamp)
=============================================================================
