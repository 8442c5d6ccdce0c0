------------------------------ MODULE MCHosts -------------------------------
(* Words of 8 bits, a memory of 8 bytes, every call with addresses and       *)
(* lengths at the ends of the memory and of the numbers.                     *)
EXTENDS Hosts

MCMemories == {[b \in 0 .. MemSize - 1 |-> 0], [b \in 0 .. MemSize - 1 |-> 1 + (b % 3)],
               [b \in 0 .. MemSize - 1 |-> IF b = 5 THEN 0 ELSE 1 + (b % 3)]}

MCAddresses == {-128, -5, 0, 1, 3, 7, 8, 127}
MCLengths   == {-2, 0, 1, 4, 7, 127}

MCCalls ==
  {[k \in 0 .. 3 |-> IF k = 0 THEN n ELSE IF k = 1 THEN a ELSE 0] : n \in {0, 1, 4, 7}, a \in MCAddresses}
  \cup {[k \in 0 .. 3 |-> CASE k = 0 -> 2 [] k = 1 -> a [] k = 2 -> c [] k = 3 -> n]
        : a \in MCAddresses, c \in {0, 6}, n \in MCLengths}
  \cup {[k \in 0 .. 3 |-> CASE k = 0 -> 3 [] k = 1 -> a [] k = 2 -> b [] k = 3 -> n]
        : a, b \in MCAddresses, n \in MCLengths}
=============================================================================
