----------------------------- MODULE HlmacTable -----------------------------
(***************************************************************************)
(* The HLMAC table of one node as a component (hlmac-table.c): the list    *)
(* and the count kept beside it, under any sequence of calls its callers   *)
(* can make.  hlmactable_chop has no caller and is left out.               *)
(***************************************************************************)
EXTENDS HlmacAddr, FiniteSets

CONSTANTS
  Ids,        \* ids an address is made of
  MaxLen,     \* longest address considered
  MaxStamp    \* largest timestamp considered

\* An id is a byte of the address.
ASSUME HlmacTableAssumption ==
  /\ Ids \subseteq 0 .. 255
  /\ MaxLen \in Nat /\ MaxStamp \in Nat

VARIABLES hlmac_table_entry_list, number_of_hlmac_addresses

tableVars == <<hlmac_table_entry_list, number_of_hlmac_addresses>>

HlmacAddresses == UNION {[1 .. k -> Ids] : k \in 1 .. MaxLen}

TableInit ==
  /\ hlmac_table_entry_list = << >>
  /\ number_of_hlmac_addresses = 0

CleansRepeated(timestamp) ==   \* mutant: >= for >
  /\ number_of_hlmac_addresses > 0
  /\ timestamp >= hlmac_table_entry_list[1].timestamp

\* Is the table cleaned before an address of that round is added?
Cleans(timestamp) ==
  /\ number_of_hlmac_addresses > 0
  /\ timestamp > hlmac_table_entry_list[1].timestamp

CountKept(timestamp) == number_of_hlmac_addresses   \* mutant: no reset

CountAfterClean(timestamp) ==
  IF Cleans(timestamp) THEN 0 ELSE number_of_hlmac_addresses

\* hlmactable_add with its count: cleaning resets the count, the test for room
\* reads it, an addition increments it.
Add(addr, timestamp) ==
  LET list  == IF Cleans(timestamp) THEN << >> ELSE hlmac_table_entry_list
      count == CountAfterClean(timestamp)
      room  == count < TableCapacity /\ (MaxHlmac = -1 \/ count < MaxHlmac)
  IN  /\ hlmac_table_entry_list' =
           IF room
           THEN Append(list, [address |-> addr, timestamp |-> timestamp])
           ELSE list
      /\ number_of_hlmac_addresses' = IF room THEN count + 1 ELSE count

TableNext == \E addr \in HlmacAddresses, t \in 0 .. MaxStamp : Add(addr, t)

TableSpec == TableInit /\ [][TableNext]_tableVars

-----------------------------------------------------------------------------
\* The count kept beside the list is its length, so the functional form of the
\* table in HlmacAddr (which has no count) is what the two variables do.
CountIsLength == number_of_hlmac_addresses = Len(hlmac_table_entry_list)

AddIsFunctional ==
  [][\E addr \in HlmacAddresses, t \in 0 .. MaxStamp :
       hlmac_table_entry_list' =
         hlmactable_add(hlmac_table_entry_list, addr, t)]_tableVars

\* Value of an address as a number of MaxLen bytes, trailing zeros included:
\* the order hlmac_cmp has to implement.
Value(addr) ==
  LET digit(k) == IF k <= Len(addr) THEN addr[k] ELSE 0
      value[k \in 0 .. MaxLen] ==
        IF k = 0 THEN 0 ELSE value[k - 1] * 256 + digit(k)
  IN  value[MaxLen]

\* hlmac_cmp agrees in sign with the difference of the two values, so it is a
\* total order in which only trailing zeros are invisible.
CmpIsValueOrder ==
  \A a \in {hlmac_table_entry_list[i].address :
              i \in DOMAIN hlmac_table_entry_list} :
    \A b \in HlmacAddresses :
      LET d == Value(b) - Value(a)
      IN  hlmac_cmp(a, b) = IF d > 0 THEN 1 ELSE IF d < 0 THEN -1 ELSE 0

IsStrictPrefix(a, b) == Len(a) < Len(b) /\ \A i \in DOMAIN a : a[i] = b[i]

\* As long as no id is 0, an address creates a loop exactly when some address
\* of the table is a strict prefix of it: it descends from this very node.
\* (With an id of 0, which the 256th neighbour gets, .1.0 compares equal to .1
\* and is taken for a prefix of all that descends from .1.)
LoopIffDescendant ==
  \A addr \in HlmacAddresses :
    (\A i \in DOMAIN hlmac_table_entry_list :
       \A j \in DOMAIN hlmac_table_entry_list[i].address :
         hlmac_table_entry_list[i].address[j] # 0)
    => (hlmactable_has_loop(hlmac_table_entry_list, addr)
          <=> \E i \in DOMAIN hlmac_table_entry_list :
                IsStrictPrefix(hlmac_table_entry_list[i].address, addr))
=============================================================================
