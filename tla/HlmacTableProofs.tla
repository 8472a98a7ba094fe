--------------------------- MODULE HlmacTableProofs ---------------------------
(***************************************************************************)
(* Proofs about the HLMAC table, for tables and addresses of any length:   *)
(* the count beside the list, and what the loop test answers.              *)
(***************************************************************************)
EXTENDS HlmacTable, RecursionProofs

TableEntry == [address : HlmacAddresses, timestamp : 0 .. MaxStamp]

TableInv ==
  /\ hlmac_table_entry_list \in Seq(TableEntry)
  /\ number_of_hlmac_addresses = Len(hlmac_table_entry_list)

-----------------------------------------------------------------------------
LEMMA AddressShape ==
  ASSUME NEW addr \in HlmacAddresses
  PROVE  /\ addr \in Seq(Nat) /\ Len(addr) \in Nat \ {0}
         /\ DOMAIN addr = 1 .. Len(addr)
<1>1. PICK k \in 1 .. MaxLen : addr \in [1 .. k -> Ids]
  BY DEF HlmacAddresses
<1>2. k \in Nat \ {0} /\ Ids \subseteq Nat
  BY HlmacTableAssumption
<1>3. addr \in [1 .. k -> Nat]
  BY <1>1, <1>2
<1>4. addr \in Seq(Nat)
  BY <1>2, <1>3, SeqDef
<1>5. DOMAIN addr = 1 .. k /\ Len(addr) \in Nat /\ DOMAIN addr = 1 .. Len(addr)
  BY <1>3, <1>4, LenProperties
<1>6. Len(addr) = k
  BY <1>2, <1>5
<1> QED
  BY <1>2, <1>4, <1>5, <1>6

\* Emptying is decided by the count or by the list alike.
LEMMA CleanedAlike ==
  ASSUME TableInv, NEW t \in 0 .. MaxStamp
  PROVE  /\ Cleaned(hlmac_table_entry_list, t)
              = IF Cleans(t) THEN << >> ELSE hlmac_table_entry_list
         /\ CountAfterClean(t) = Len(Cleaned(hlmac_table_entry_list, t))
         /\ Cleaned(hlmac_table_entry_list, t) \in Seq(TableEntry)
<1>1. hlmac_table_entry_list # << >> <=> Len(hlmac_table_entry_list) > 0
  <2>1. Len(hlmac_table_entry_list) \in Nat
    BY LenProperties DEF TableInv
  <2> QED
    BY <2>1, EmptySeq DEF TableInv
<1>2. Cleaned(hlmac_table_entry_list, t)
        = IF Cleans(t) THEN << >> ELSE hlmac_table_entry_list
  BY <1>1 DEF Cleaned, Cleans, TableInv
<1> QED
  BY <1>2, EmptySeq DEF CountAfterClean, TableInv

LEMMA AddStep ==
  ASSUME TableInv, NEW addr \in HlmacAddresses, NEW t \in 0 .. MaxStamp, Add(addr, t)
  PROVE  /\ TableInv'
         /\ hlmac_table_entry_list' = hlmactable_add(hlmac_table_entry_list, addr, t)
<1> DEFINE list == Cleaned(hlmac_table_entry_list, t)
           entry == [address |-> addr, timestamp |-> t]
<1>1. /\ list = IF Cleans(t) THEN << >> ELSE hlmac_table_entry_list
      /\ CountAfterClean(t) = Len(list) /\ list \in Seq(TableEntry)
      /\ entry \in TableEntry
  BY CleanedAlike DEF TableEntry
<1>2. /\ Append(list, entry) \in Seq(TableEntry)
      /\ Len(Append(list, entry)) = Len(list) + 1
  BY <1>1, AppendProperties
<1>3. /\ hlmac_table_entry_list' = IF HasRoom(list) THEN Append(list, entry) ELSE list
      /\ number_of_hlmac_addresses' = IF HasRoom(list) THEN Len(list) + 1 ELSE Len(list)
  BY <1>1 DEF Add, HasRoom
<1>4. hlmactable_add(hlmac_table_entry_list, addr, t)
        = IF HasRoom(list) THEN Append(list, entry) ELSE list
  BY DEF hlmactable_add, IsAdded
<1> HIDE DEF list, entry
<1> QED
  BY <1>1, <1>2, <1>3, <1>4 DEF TableInv

LEMMA InvariantHolds == TableSpec => []TableInv
<1>1. TableInit => TableInv
  BY EmptySeq DEF TableInit, TableInv
<1>2. TableInv /\ [TableNext]_tableVars => TableInv'
  BY AddStep DEF TableNext, tableVars, TableInv
<1> QED
  BY <1>1, <1>2, PTL DEF TableSpec

\* The count kept beside the list is its length: cleaning resets it, every
\* addition increments it.
THEOREM CountIsCorrect == TableSpec => []CountIsLength
<1>1. TableInv => CountIsLength
  BY DEF TableInv, CountIsLength
<1> QED
  BY <1>1, InvariantHolds, PTL

\* Every call does what the functional form of the table says, which the
\* assignment uses.
THEOREM TableIsFunctional == TableSpec => AddIsFunctional
<1>1. TableInv /\ [TableNext]_tableVars =>
        [\E addr \in HlmacAddresses, t \in 0 .. MaxStamp :
           hlmac_table_entry_list' =
             hlmactable_add(hlmac_table_entry_list, addr, t)]_tableVars
  BY AddStep DEF TableNext
<1> QED
  BY <1>1, InvariantHolds, PTL DEF TableSpec, AddIsFunctional

-----------------------------------------------------------------------------
(***************************************************************************)
(* What it means that two addresses compare equal.                         *)
(***************************************************************************)
\* HlmacAddresses without a first difference agree as far as both go.
LEMMA NoDifference ==
  ASSUME NEW a \in Seq(Nat), NEW b \in Seq(Nat)
  PROVE  FirstDifference(a, b) = {} <=>
           \A i \in DOMAIN a \cap DOMAIN b : a[i] = b[i]
<1> DEFINE differ == {i \in DOMAIN a \cap DOMAIN b : a[i] # b[i]}
<1>1. FirstDifference(a, b) \subseteq differ
  BY DEF FirstDifference
<1>2. ASSUME differ # {} PROVE FirstDifference(a, b) # {}
  <2>1. DOMAIN a = 1 .. Len(a) /\ DOMAIN b = 1 .. Len(b)
          /\ Len(a) \in Nat /\ Len(b) \in Nat
    BY LenProperties
  <2>2. differ \subseteq Nat
    BY <2>1
  <2>3. PICK i \in differ : \A j \in differ : i <= j
    BY <1>2, <2>2, SmallestExists
  <2>4. ASSUME NEW j \in 1 .. i - 1 PROVE a[j] = b[j]
    <3>1. j \in DOMAIN a \cap DOMAIN b /\ ~ (i <= j)
      BY <2>1, <2>3
    <3> QED
      BY <2>3, <3>1
  <2> QED
    BY <2>3, <2>4 DEF FirstDifference
<1> QED
  BY <1>1, <1>2

LEMMA OneDifference ==
  ASSUME NEW a \in Seq(Nat), NEW b \in Seq(Nat),
         NEW i \in FirstDifference(a, b), NEW j \in FirstDifference(a, b)
  PROVE  j = i
<1>1. \A k \in FirstDifference(a, b) :
        /\ k \in Nat \ {0} /\ a[k] # b[k]
        /\ \A l \in 1 .. k - 1 : a[l] = b[l]
  <2> SUFFICES ASSUME NEW k \in FirstDifference(a, b)
               PROVE  /\ k \in Nat \ {0} /\ a[k] # b[k]
                      /\ \A l \in 1 .. k - 1 : a[l] = b[l]
    OBVIOUS
  <2>1. /\ k \in DOMAIN a /\ a[k] # b[k]
        /\ \A l \in 1 .. k - 1 : a[l] = b[l]
    BY Zenon DEF FirstDifference
  <2>2. DOMAIN a = 1 .. Len(a) /\ Len(a) \in Nat
    BY LenProperties
  <2>3. k \in Nat \ {0}
    BY ONLY <2>1, <2>2
  <2> QED
    BY <2>1, <2>3
<1>2. ~ (j \in 1 .. i - 1) /\ ~ (i \in 1 .. j - 1)
  BY <1>1
<1> QED
  BY <1>1, <1>2

LEMMA EqualWhen ==
  ASSUME NEW a \in Seq(Nat), NEW b \in Seq(Nat)
  PROVE  hlmac_cmp(a, b) = 0 <=>
           /\ \A i \in DOMAIN a \cap DOMAIN b : a[i] = b[i]
           /\ ~NonZeroAfter(b, Len(a)) /\ ~NonZeroAfter(a, Len(b))
<1>1. CASE FirstDifference(a, b) = {}
  <2>1. hlmac_cmp(a, b) =
          CASE NonZeroAfter(b, Len(a)) -> 1
            [] NonZeroAfter(a, Len(b)) -> -1
            [] OTHER -> 0
    BY <1>1 DEF hlmac_cmp
  <2>2. ~ (NonZeroAfter(b, Len(a)) /\ NonZeroAfter(a, Len(b)))
    <3>1. Len(a) \in Nat /\ Len(b) \in Nat
      BY LenProperties
    <3> QED
      BY <3>1 DEF NonZeroAfter
  <2> QED
    BY <1>1, <2>1, <2>2, NoDifference
<1>2. CASE FirstDifference(a, b) # {}
  <2>1. PICK i \in FirstDifference(a, b) : TRUE
    BY <1>2
  <2>2. \A j \in FirstDifference(a, b) : j = i
    BY <2>1, OneDifference
  <2>3. a[i] \in Nat /\ b[i] \in Nat /\ a[i] # b[i]
    BY <2>1, ElementOfSeq, LenProperties DEF FirstDifference
  <2>4. CASE a[i] < b[i]
    <3>1. hlmac_cmp(a, b) = 1
      BY <2>1, <2>2, <2>3, <2>4 DEF hlmac_cmp
    <3> QED
      BY <1>2, <3>1, NoDifference
  <2>5. CASE a[i] > b[i]
    <3>1. hlmac_cmp(a, b) = -1
      BY <2>1, <2>2, <2>3, <2>5 DEF hlmac_cmp
    <3> QED
      BY <1>2, <3>1, NoDifference
  <2> QED
    BY <2>3, <2>4, <2>5
<1> QED
  BY <1>1, <1>2

\* An address without a 0 compares equal to the first k ids of another one only
\* if it is a prefix of them, and to the first Len of its own descendants.
LEMMA EqualPrefix ==
  ASSUME NEW a \in Seq(Nat), \A j \in DOMAIN a : a[j] # 0,
         NEW addr \in Seq(Nat), Len(a) # 0
  PROVE  (\E k \in 1 .. Len(addr) - 1 : hlmac_cmp(a, SubSeq(addr, 1, k)) = 0)
           <=> IsStrictPrefix(a, addr)
<1>1. /\ Len(a) \in Nat \ {0} /\ Len(addr) \in Nat
      /\ DOMAIN a = 1 .. Len(a)
      /\ \A j \in 1 .. Len(a) : a[j] \in Nat /\ a[j] > 0
  BY LenProperties, ElementOfSeq
<1>2. ASSUME NEW k \in 1 .. Len(addr) - 1
      PROVE  /\ SubSeq(addr, 1, k) \in Seq(Nat) /\ Len(SubSeq(addr, 1, k)) = k
             /\ DOMAIN SubSeq(addr, 1, k) = 1 .. k
             /\ \A i \in 1 .. k : SubSeq(addr, 1, k)[i] = addr[i]
  BY <1>1
<1>3. ASSUME NEW k \in 1 .. Len(addr) - 1, hlmac_cmp(a, SubSeq(addr, 1, k)) = 0
      PROVE  IsStrictPrefix(a, addr)
  <2> DEFINE b == SubSeq(addr, 1, k)
  <2>1. /\ b \in Seq(Nat) /\ Len(b) = k /\ DOMAIN b = 1 .. k
        /\ \A i \in 1 .. k : b[i] = addr[i]
    BY <1>2
  <2> HIDE DEF b
  <2>2. /\ \A i \in DOMAIN a \cap DOMAIN b : a[i] = b[i]
        /\ ~NonZeroAfter(a, Len(b))
    BY <1>3, <2>1, EqualWhen DEF b
  <2>3. Len(a) <= k
    <3>1. SUFFICES ASSUME Len(a) > k PROVE FALSE
      BY <1>1
    <3>2. k + 1 \in k + 1 .. Len(a) /\ k + 1 \in 1 .. Len(a)
      BY <1>1, <3>1
    <3> QED
      BY <1>1, <2>1, <2>2, <3>2 DEF NonZeroAfter
  <2>4. ASSUME NEW i \in DOMAIN a PROVE a[i] = addr[i]
    <3>1. i \in DOMAIN b /\ i \in 1 .. k
      BY <1>1, <2>1, <2>3
    <3> QED
      BY <2>1, <2>2, <3>1
  <2> QED
    BY <1>1, <2>3, <2>4 DEF IsStrictPrefix
<1>4. ASSUME IsStrictPrefix(a, addr)
      PROVE  \E k \in 1 .. Len(addr) - 1 : hlmac_cmp(a, SubSeq(addr, 1, k)) = 0
  <2> DEFINE b == SubSeq(addr, 1, Len(a))
  <2>1. Len(a) \in 1 .. Len(addr) - 1 /\ \A i \in 1 .. Len(a) : a[i] = addr[i]
    BY <1>1, <1>4 DEF IsStrictPrefix
  <2>2. /\ b \in Seq(Nat) /\ Len(b) = Len(a)
        /\ DOMAIN b = 1 .. Len(a) /\ \A i \in 1 .. Len(a) : b[i] = addr[i]
    BY <1>2, <2>1
  <2> HIDE DEF b
  <2>3. ~NonZeroAfter(b, Len(a)) /\ ~NonZeroAfter(a, Len(b))
    BY <1>1, <2>2 DEF NonZeroAfter
  <2>4. \A i \in DOMAIN a \cap DOMAIN b : a[i] = b[i]
    BY <1>1, <2>1, <2>2
  <2>5. hlmac_cmp(a, b) = 0
    BY <2>2, <2>3, <2>4, EqualWhen
  <2> QED
    BY <2>1, <2>5 DEF b
<1> QED
  BY <1>3, <1>4

LEMMA LoopWhen ==
  ASSUME NEW table, NEW addr \in Seq(Nat)
  PROVE  hlmactable_has_loop(table, addr) <=> MatchingLengths(table, addr) # {}
<1> DEFINE lengths == MatchingLengths(table, addr)
<1>1. lengths \subseteq 1 .. Len(addr) - 1 /\ Len(addr) \in Nat
  BY LenProperties DEF MatchingLengths
<1>2. CASE lengths = {}
  BY <1>2
  DEF hlmactable_has_loop, hlmactable_get_longest_matchhed_prefix,
      hlmac_is_unspecified_addr
<1>3. CASE lengths # {}
  <2> HIDE DEF lengths
  <2>1. \E k \in lengths : \A j \in lengths : j <= k
    <3> DEFINE below == {Len(addr) - k : k \in lengths}
    <3>1. below \subseteq Nat /\ below # {}
      <4>1. \A k \in lengths : Len(addr) - k \in Nat
        BY <1>1
      <4> QED
        BY <1>3, <4>1
    <3>2. PICK x \in below : \A y \in below : x <= y
      BY <3>1, SmallestExists
    <3>3. PICK k \in lengths : x = Len(addr) - k
      BY <3>2
    <3>4. ASSUME NEW j \in lengths PROVE j <= k
      <4>1. Len(addr) - k <= Len(addr) - j
        BY <3>2, <3>3
      <4> QED
        BY <1>1, <4>1
    <3> QED
      BY <3>4
  <2> DEFINE longest == CHOOSE k \in lengths : \A j \in lengths : j <= k
  <2>2. longest \in 1 .. Len(addr) - 1
    BY <1>1, <2>1
  <2> HIDE DEF longest
  <2>3. Len(SubSeq(addr, 1, longest)) = longest
    BY <1>1, <2>2
  <2>4. SubSeq(addr, 1, longest) # << >>
    BY <2>2, <2>3
  <2>5. hlmactable_get_longest_matchhed_prefix(table, addr) = SubSeq(addr, 1, longest)
    BY <1>3
    DEF hlmactable_get_longest_matchhed_prefix, longest, lengths
  <2> QED
    BY <1>3, <2>4, <2>5
    DEF hlmactable_has_loop, hlmac_is_unspecified_addr,
        UNSPECIFIED_HLMAC_ADDRESS, lengths
<1> QED
  BY <1>2, <1>3

\* The loop test of an address answers whether the address descends from one
\* of the table, for tables and addresses of any length whose ids are not 0.
THEOREM LoopTestIsCorrect == TableSpec => []LoopIffDescendant
<1>1. ASSUME TableInv, NEW addr \in HlmacAddresses,
             \A i \in DOMAIN hlmac_table_entry_list :
               \A j \in DOMAIN hlmac_table_entry_list[i].address :
                 hlmac_table_entry_list[i].address[j] # 0
      PROVE  hlmactable_has_loop(hlmac_table_entry_list, addr)
               <=> \E i \in DOMAIN hlmac_table_entry_list :
                     IsStrictPrefix(hlmac_table_entry_list[i].address, addr)
  <2>1. addr \in Seq(Nat)
    BY AddressShape
  <2>2. ASSUME NEW i \in DOMAIN hlmac_table_entry_list
        PROVE  /\ hlmac_table_entry_list[i].address \in Seq(Nat)
               /\ Len(hlmac_table_entry_list[i].address) # 0
    <3>1. hlmac_table_entry_list[i] \in TableEntry
      <4>1. hlmac_table_entry_list \in Seq(TableEntry)
        BY <1>1 DEF TableInv
      <4>2. i \in 1 .. Len(hlmac_table_entry_list)
        BY <4>1, LenProperties
      <4> QED
        BY <4>1, <4>2, ElementOfSeq
    <3>2. hlmac_table_entry_list[i].address \in HlmacAddresses
      BY <3>1 DEF TableEntry
    <3> QED
      BY <3>2, AddressShape
  <2>3. ASSUME NEW i \in DOMAIN hlmac_table_entry_list
        PROVE  (\E k \in 1 .. Len(addr) - 1 :
                  hlmac_cmp(hlmac_table_entry_list[i].address,
                            SubSeq(addr, 1, k)) = 0)
                 <=> IsStrictPrefix(hlmac_table_entry_list[i].address, addr)
    BY <1>1, <2>1, <2>2, EqualPrefix
  <2>4. hlmactable_has_loop(hlmac_table_entry_list, addr) <=>
          \E k \in 1 .. Len(addr) - 1 : \E i \in DOMAIN hlmac_table_entry_list :
            hlmac_cmp(hlmac_table_entry_list[i].address, SubSeq(addr, 1, k)) = 0
    BY <2>1, LoopWhen DEF MatchingLengths
  <2> QED
    BY <2>3, <2>4
<1>2. TableInv => LoopIffDescendant
  BY <1>1 DEF LoopIffDescendant
<1> QED
  BY <1>2, InvariantHolds, PTL

-----------------------------------------------------------------------------
(***************************************************************************)
(* The order of addresses.  Two of them are compared as numbers by their   *)
(* first different digit, and hlmac_cmp finds that digit.                  *)
(***************************************************************************)
Digit(addr, k) == IF k <= Len(addr) THEN addr[k] ELSE 0

\* The numbers the first k digits make, for all k.
PrefixValues(addr) ==
  CHOOSE value : value = [k \in 0 .. MaxLen |->
                            IF k = 0 THEN 0 ELSE value[k - 1] * 256 + Digit(addr, k)]

LEMMA OneDigitMore ==
  ASSUME NEW p \in Nat, NEW c \in 0 .. 255
  PROVE  p * 256 + c \in Nat
  OBVIOUS

LEMMA DigitsCompare ==
  ASSUME NEW c \in 0 .. 255, NEW d \in 0 .. 255
  PROVE  c < d \/ d < c \/ c = d
  OBVIOUS

LEMMA DigitType ==
  ASSUME NEW addr \in HlmacAddresses, NEW k \in Nat \ {0}
  PROVE  Digit(addr, k) \in 0 .. 255
<1>1. PICK l \in 1 .. MaxLen : addr \in [1 .. l -> Ids]
  BY DEF HlmacAddresses
<1>2. DOMAIN addr = 1 .. Len(addr) /\ Len(addr) \in Nat
  BY AddressShape
<1>3. \A i \in 1 .. Len(addr) : addr[i] \in 0 .. 255
  BY <1>1, <1>2, HlmacTableAssumption
<1> QED
  BY <1>2, <1>3 DEF Digit

LEMMA ValueByPrefix ==
  ASSUME NEW addr \in HlmacAddresses
  PROVE  /\ Value(addr) = PrefixValues(addr)[MaxLen]
         /\ PrefixValues(addr)[0] = 0
         /\ \A k \in 0 .. MaxLen : PrefixValues(addr)[k] \in Nat
         /\ \A k \in 1 .. MaxLen :
              PrefixValues(addr)[k] = PrefixValues(addr)[k - 1] * 256 + Digit(addr, k)
<1> DEFINE d == [k \in 1 .. MaxLen |-> Digit(addr, k)]
           step == [k \in 1 .. MaxLen |-> [v \in Nat |-> v * 256 + d[k]]]
<1>1. MaxLen \in Nat
  BY HlmacTableAssumption
<1>0. \A k \in 1 .. MaxLen : d[k] \in Nat /\ d[k] = Digit(addr, k)
  BY DigitType
<1> HIDE DEF d
<1>2. step \in [1 .. MaxLen -> [Nat -> Nat]]
  BY <1>0
<1>3. PICK g \in [0 .. MaxLen -> Nat] : Recurs(g, MaxLen, 0, step)
  <2> HIDE DEF step
  <2> QED
    BY <1>1, <1>2, RecursionAlongNat
<1>4. ASSUME NEW k \in 1 .. MaxLen
      PROVE  g[k] = g[k - 1] * 256 + Digit(addr, k)
  <2>1. g[k - 1] \in Nat
    BY <1>1
  <2>2. g[k] = step[k][g[k - 1]]
    BY <1>3 DEF Recurs
  <2>3. step[k] = [v \in Nat |-> v * 256 + d[k]]
    OBVIOUS
  <2> QED
    BY <1>0, <2>1, <2>2, <2>3
<1>5. g = [k \in 0 .. MaxLen |-> IF k = 0 THEN 0 ELSE g[k - 1] * 256 + Digit(addr, k)]
  BY <1>1, <1>3, <1>4 DEF Recurs
<1> DEFINE P == PrefixValues(addr)
<1>6. P = [k \in 0 .. MaxLen |-> IF k = 0 THEN 0 ELSE P[k - 1] * 256 + Digit(addr, k)]
  BY <1>5 DEF PrefixValues
<1>7. Value(addr) = P[MaxLen]
  BY DEF Value, PrefixValues, Digit
<1> HIDE DEF P
<1>8. P[0] = 0 /\ \A k \in 1 .. MaxLen : P[k] = P[k - 1] * 256 + Digit(addr, k)
  BY <1>1, <1>6
<1>9. \A k \in 0 .. MaxLen : P[k] \in Nat
  <2> DEFINE Bad == {k \in 0 .. MaxLen : P[k] \notin Nat}
  <2>1. ASSUME Bad # {} PROVE FALSE
    <3>1. PICK k \in Bad : \A j \in Bad : k <= j
      <4>1. Bad \subseteq Nat
        OBVIOUS
      <4> HIDE DEF Bad
      <4> QED
        BY <2>1, <4>1, SmallestExists
    <3>2. k \in 1 .. MaxLen /\ P[k - 1] \in Nat
      BY <1>1, <1>8, <3>1
    <3>3. Digit(addr, k) \in 0 .. 255 /\ P[k] = P[k - 1] * 256 + Digit(addr, k)
      BY <1>1, <1>8, <3>2, DigitType
    <3>4. P[k - 1] * 256 + Digit(addr, k) \in Nat
      BY <3>2, <3>3, OneDigitMore
    <3>5. P[k] \in Nat
      BY <3>3, <3>4
    <3> QED
      BY <3>1, <3>5
  <2> QED
    BY <2>1
<1> QED
  BY <1>7, <1>8, <1>9 DEF P

LEMMA EqualDigits ==
  ASSUME NEW a \in HlmacAddresses, NEW b \in HlmacAddresses, NEW j \in 0 .. MaxLen,
         \A k \in 1 .. j : Digit(a, k) = Digit(b, k)
  PROVE  PrefixValues(a)[j] = PrefixValues(b)[j]
<1> DEFINE P == PrefixValues(a)
           Q == PrefixValues(b)
           Bad == {k \in 0 .. j : P[k] # Q[k]}
<1>1. MaxLen \in Nat /\ j \in Nat
  BY HlmacTableAssumption
<1>2. /\ P[0] = 0 /\ Q[0] = 0
      /\ \A k \in 1 .. MaxLen :
           P[k] = P[k - 1] * 256 + Digit(a, k) /\ Q[k] = Q[k - 1] * 256 + Digit(b, k)
  BY ValueByPrefix
<1> HIDE DEF P, Q
<1>3. ASSUME Bad # {} PROVE FALSE
  <2>1. PICK k \in Bad : \A i \in Bad : k <= i
    <3>1. Bad \subseteq Nat
      BY <1>1
    <3> HIDE DEF Bad
    <3> QED
      BY <1>3, <3>1, SmallestExists
  <2>2. k \in 1 .. j /\ k \in 1 .. MaxLen /\ P[k - 1] = Q[k - 1]
    BY <1>1, <1>2, <2>1
  <2> QED
    BY <1>2, <2>2
<1> QED
  BY <1>1, <1>3 DEF P, Q

\* From the first different digit on, one number stays larger.
LEMMA FirstDigitDecides ==
  ASSUME NEW a \in HlmacAddresses, NEW b \in HlmacAddresses, NEW j \in 1 .. MaxLen,
         \A k \in 1 .. j - 1 : Digit(a, k) = Digit(b, k), Digit(a, j) < Digit(b, j)
  PROVE  Value(b) - Value(a) > 0
<1> DEFINE P == PrefixValues(a)
           Q == PrefixValues(b)
           Bad == {k \in j .. MaxLen : ~ (P[k] < Q[k])}
<1>1. MaxLen \in Nat /\ j \in Nat \ {0}
  BY HlmacTableAssumption
<1>2. /\ Value(a) = P[MaxLen] /\ Value(b) = Q[MaxLen]
      /\ \A k \in 0 .. MaxLen : P[k] \in Nat /\ Q[k] \in Nat
      /\ \A k \in 1 .. MaxLen :
           P[k] = P[k - 1] * 256 + Digit(a, k) /\ Q[k] = Q[k - 1] * 256 + Digit(b, k)
  BY ValueByPrefix
<1>3. P[j - 1] = Q[j - 1]
  BY <1>1, EqualDigits
<1> HIDE DEF P, Q
<1>4. ASSUME Bad # {} PROVE FALSE
  <2>1. PICK k \in Bad : \A i \in Bad : k <= i
    <3>1. Bad \subseteq Nat
      BY <1>1
    <3> HIDE DEF Bad
    <3> QED
      BY <1>4, <3>1, SmallestExists
  <2>2. k \in 1 .. MaxLen /\ P[k - 1] \in Nat /\ Q[k - 1] \in Nat
        /\ Digit(a, k) \in 0 .. 255 /\ Digit(b, k) \in 0 .. 255
    BY <1>1, <1>2, DigitType
  <2>5. P[k] = P[k - 1] * 256 + Digit(a, k) /\ Q[k] = Q[k - 1] * 256 + Digit(b, k)
    BY <1>2, <2>2
  <2>6. ~ (P[k] < Q[k])
    BY <2>1
  <2>3. CASE k = j
    <3>1. P[k - 1] = Q[k - 1] /\ Digit(a, k) < Digit(b, k)
      BY <1>3, <2>3
    <3>2. P[k - 1] * 256 + Digit(a, k) < Q[k - 1] * 256 + Digit(b, k)
      <4>1. PICK p \in Nat, q \in Nat : p = P[k - 1] /\ q = Q[k - 1]
        BY <2>2
      <4>2. PICK c \in 0 .. 255, d \in 0 .. 255 : c = Digit(a, k) /\ d = Digit(b, k)
        BY <2>2
      <4>3. p < q \/ (p = q /\ c < d)
        BY <3>1, <4>1, <4>2
      <4>4. p * 256 + c < q * 256 + d
        BY <4>3
      <4> QED
        BY <4>1, <4>2, <4>4
    <3> QED
      BY <2>5, <2>6, <3>2
  <2>4. CASE k # j
    <3>1. P[k - 1] < Q[k - 1]
      BY <1>1, <2>1, <2>2, <2>4
    <3>2. P[k - 1] * 256 + Digit(a, k) < Q[k - 1] * 256 + Digit(b, k)
      <4>1. PICK p \in Nat, q \in Nat : p = P[k - 1] /\ q = Q[k - 1]
        BY <2>2
      <4>2. PICK c \in 0 .. 255, d \in 0 .. 255 : c = Digit(a, k) /\ d = Digit(b, k)
        BY <2>2
      <4>3. p < q \/ (p = q /\ c < d)
        BY <3>1, <4>1, <4>2
      <4>4. p * 256 + c < q * 256 + d
        BY <4>3
      <4> QED
        BY <4>1, <4>2, <4>4
    <3> QED
      BY <2>5, <2>6, <3>2
  <2> QED
    BY <2>3, <2>4
<1>5. P[MaxLen] < Q[MaxLen]
  BY <1>1, <1>4
<1> QED
  BY <1>1, <1>2, <1>5

LEMMA CmpFindsDigit ==
  ASSUME NEW a \in Seq(Nat), NEW b \in Seq(Nat), NEW j \in Nat \ {0},
         \A k \in 1 .. j - 1 : Digit(a, k) = Digit(b, k)
  PROVE  /\ Digit(a, j) < Digit(b, j) => hlmac_cmp(a, b) = 1
         /\ Digit(a, j) > Digit(b, j) => hlmac_cmp(a, b) = -1
<1>1. /\ DOMAIN a = 1 .. Len(a) /\ DOMAIN b = 1 .. Len(b)
      /\ Len(a) \in Nat /\ Len(b) \in Nat
      /\ \A i \in 1 .. Len(a) : a[i] \in Nat
      /\ \A i \in 1 .. Len(b) : b[i] \in Nat
  BY LenProperties, ElementOfSeq
<1>2. CASE j <= Len(a) /\ j <= Len(b)
  <2>1. Digit(a, j) = a[j] /\ Digit(b, j) = b[j] /\ \A k \in 1 .. j - 1 : a[k] = b[k]
    BY <1>1, <1>2 DEF Digit
  <2>2. a[j] # b[j] => j \in FirstDifference(a, b)
    BY <1>1, <1>2, <2>1 DEF FirstDifference
  <2>3. \A i, k \in FirstDifference(a, b) : i = k
    BY OneDifference
  <2>4. a[j] \in Nat /\ b[j] \in Nat
    BY <1>1, <1>2
  <2> QED
    BY <2>1, <2>2, <2>3, <2>4 DEF hlmac_cmp
<1>3. CASE ~ (j <= Len(a) /\ j <= Len(b))
  <2>1. FirstDifference(a, b) = {}
    <3>1. \A i \in DOMAIN a \cap DOMAIN b : i \in 1 .. j - 1 /\ a[i] = Digit(a, i) /\ b[i] = Digit(b, i)
      BY <1>1, <1>3 DEF Digit
    <3> QED
      BY <3>1, NoDifference
  <2>2. hlmac_cmp(a, b) =
          CASE NonZeroAfter(b, Len(a)) -> 1
            [] NonZeroAfter(a, Len(b)) -> -1
            [] OTHER -> 0
    BY <2>1 DEF hlmac_cmp
  <2>3. ~ (NonZeroAfter(b, Len(a)) /\ NonZeroAfter(a, Len(b)))
    BY <1>1 DEF NonZeroAfter
  <2>4. Digit(a, j) < Digit(b, j) => NonZeroAfter(b, Len(a))
    BY <1>1, <1>3 DEF Digit, NonZeroAfter
  <2>5. Digit(a, j) > Digit(b, j) => NonZeroAfter(a, Len(b))
    BY <1>1, <1>3 DEF Digit, NonZeroAfter
  <2> QED
    BY <2>2, <2>3, <2>4, <2>5
<1> QED
  BY <1>2, <1>3

LEMMA CmpIsSign ==
  ASSUME NEW a \in HlmacAddresses, NEW b \in HlmacAddresses
  PROVE  LET d == Value(b) - Value(a)
         IN  hlmac_cmp(a, b) = IF d > 0 THEN 1 ELSE IF d < 0 THEN -1 ELSE 0
<1> DEFINE differ == {k \in 1 .. MaxLen : Digit(a, k) # Digit(b, k)}
<1>1. MaxLen \in Nat /\ a \in Seq(Nat) /\ b \in Seq(Nat)
  BY AddressShape, HlmacTableAssumption
<1>2. Value(a) \in Nat /\ Value(b) \in Nat
  BY <1>1, ValueByPrefix
<1>3. CASE differ = {}
  <2>1. Value(a) = Value(b)
    <3>1. \A k \in 1 .. MaxLen : Digit(a, k) = Digit(b, k)
      BY <1>3
    <3> QED
      BY <1>1, <3>1, EqualDigits, ValueByPrefix
  <2>2. /\ DOMAIN a = 1 .. Len(a) /\ DOMAIN b = 1 .. Len(b)
        /\ Len(a) \in 0 .. MaxLen /\ Len(b) \in 0 .. MaxLen
    <3>1. \A c \in HlmacAddresses : DOMAIN c = 1 .. Len(c) /\ Len(c) \in 0 .. MaxLen
      <4> SUFFICES ASSUME NEW c \in HlmacAddresses PROVE DOMAIN c = 1 .. Len(c) /\ Len(c) \in 0 .. MaxLen
        OBVIOUS
      <4>1. PICK l \in 1 .. MaxLen : c \in [1 .. l -> Ids]
        BY DEF HlmacAddresses
      <4>2. DOMAIN c = 1 .. Len(c) /\ Len(c) \in Nat
        BY AddressShape
      <4>3. Len(c) = l
        BY <1>1, <4>1, <4>2
      <4> QED
        BY <1>1, <4>2, <4>3
    <3> QED
      BY <3>1
  <2>3. \A k \in 1 .. MaxLen : Digit(a, k) = Digit(b, k)
    BY <1>3
  <2>4. \A i \in DOMAIN a \cap DOMAIN b : a[i] = b[i]
    BY <1>1, <2>2, <2>3 DEF Digit
  <2>5. ~NonZeroAfter(b, Len(a)) /\ ~NonZeroAfter(a, Len(b))
    BY <1>1, <2>2, <2>3 DEF Digit, NonZeroAfter
  <2>6. hlmac_cmp(a, b) = 0
    BY <1>1, <2>4, <2>5, EqualWhen
  <2> QED
    BY <1>2, <2>1, <2>6
<1>4. CASE differ # {}
  <2>1. PICK j \in differ : \A k \in differ : j <= k
    <3>1. differ \subseteq Nat
      BY <1>1
    <3> HIDE DEF differ
    <3> QED
      BY <1>4, <3>1, SmallestExists
  <2>2. /\ j \in 1 .. MaxLen /\ j \in Nat \ {0} /\ Digit(a, j) # Digit(b, j)
        /\ \A k \in 1 .. j - 1 : Digit(a, k) = Digit(b, k)
    BY <1>1, <2>1
  <2>3. Digit(a, j) \in 0 .. 255 /\ Digit(b, j) \in 0 .. 255
    BY <2>2, DigitType
  <2>4. CASE Digit(a, j) < Digit(b, j)
    <3>1. hlmac_cmp(a, b) = 1
      BY <1>1, <2>2, <2>4, CmpFindsDigit
    <3>2. Value(b) - Value(a) > 0
      BY <2>2, <2>4, FirstDigitDecides
    <3> QED
      BY <3>1, <3>2
  <2>5. CASE Digit(b, j) < Digit(a, j)
    <3>1. hlmac_cmp(a, b) = -1
      BY <1>1, <2>2, <2>3, <2>5, CmpFindsDigit
    <3>2. Value(a) - Value(b) > 0
      BY <2>2, <2>5, FirstDigitDecides
    <3> QED
      BY <1>2, <3>1, <3>2
  <2>6. Digit(a, j) < Digit(b, j) \/ Digit(b, j) < Digit(a, j)
    BY <2>2, <2>3, DigitsCompare
  <2> QED
    BY <2>4, <2>5, <2>6
<1> QED
  BY <1>3, <1>4

\* hlmac_cmp orders addresses as the numbers their bytes make, for addresses
\* of any length.
THEOREM CmpIsCorrect == TableSpec => []CmpIsValueOrder
<1>1. TableInv => CmpIsValueOrder
  <2> SUFFICES ASSUME TableInv, NEW i \in DOMAIN hlmac_table_entry_list, NEW b \in HlmacAddresses
               PROVE  LET a == hlmac_table_entry_list[i].address
                          d == Value(b) - Value(a)
                      IN  hlmac_cmp(a, b) = IF d > 0 THEN 1 ELSE IF d < 0 THEN -1 ELSE 0
    BY DEF CmpIsValueOrder
  <2>1. hlmac_table_entry_list[i] \in TableEntry
    <3>1. hlmac_table_entry_list \in Seq(TableEntry)
      BY DEF TableInv
    <3>2. i \in 1 .. Len(hlmac_table_entry_list)
      BY <3>1, LenProperties
    <3> QED
      BY <3>1, <3>2, ElementOfSeq
  <2>2. hlmac_table_entry_list[i].address \in HlmacAddresses
    BY <2>1 DEF TableEntry
  <2> QED
    BY <2>2, CmpIsSign
<1> QED
  BY <1>1, InvariantHolds, PTL
=============================================================================
