----------------------------- MODULE GuestSort -----------------------------
(***************************************************************************)
(* qsort of the guest library (example/bg_lib.c), as the guest runs it:    *)
(* one step per comparison of its loops, pointers counted in elements.     *)
(* The elements lie in a memory with other data around them, so that a     *)
(* pointer that leaves the array shows.  The comparison is a function of   *)
(* two elements, and nothing says that it is an order.                     *)
(*                                                                         *)
(* How elements are exchanged (swaptype, by words or by bytes) is left     *)
(* out: an exchange is one assignment.                                     *)
(***************************************************************************)
EXTENDS Integers, Sequences, FiniteSets, Functions

CONSTANTS
  Arrays,     \* records [mem, a, n, cmp]: the call qsort(a, n, es, cmp)
  Insertion,  \* below this many elements: insertion sort (7)
  Ninther,    \* above this many: the pivot is chosen from nine (40)
  Parts       \* how far the nine are apart: a part of the array (8)

ASSUME SortAssumption ==
  /\ Insertion \in Nat /\ Ninther \in Nat /\ Insertion >= 2 /\ Parts > 3
  /\ \A c \in Arrays : /\ c.mem \in Seq(Int) /\ c.a > 0 /\ c.n >= 0
                       /\ c.a + c.n - 1 <= Len(c.mem)
                       /\ c.cmp \in [Range(c.mem) \X Range(c.mem) -> {-1, 0, 1}]

VARIABLES
  sort,     \* the call
  array,      \* the memory
  base, count,     \* what the current activation sorts
  phase,    \* "loop", "insert", "up", "down", "parts", "right", "return", "sorted"
  pm, pl,   \* insertion sort
  pa, pb, pc, pd,  \* partition
  swap_cnt,
  callers   \* what is left for the activations below: where their right parts are

sortVars == <<sort, array, base, count, phase, pm, pl, pa, pb, pc, pd, swap_cnt, callers>>

-----------------------------------------------------------------------------
cmp(p, q) == sort.cmp[<<array[p], array[q]>>]

Swapped(p, q) == [array EXCEPT ![p] = array[q], ![q] = array[p]]

\* vecswap: r elements from p on and from q on.
VecSwapped(m, p, q, r) ==
  [i \in DOMAIN m |-> CASE i - p \in 0 .. r - 1 -> m[q + i - p]
                        [] i - q \in 0 .. r - 1 -> m[p + i - q]
                        [] OTHER -> m[i]]

AtMost(x, y) == IF x < y THEN x ELSE y

med3(p, q, r) ==
  IF cmp(p, q) < 0 THEN IF cmp(q, r) < 0 THEN q ELSE IF cmp(p, r) < 0 THEN r ELSE p
  ELSE IF cmp(q, r) > 0 THEN q ELSE IF cmp(p, r) < 0 THEN p ELSE r

Pivot ==
  LET mid  == base + count \div 2
      last == base + count - 1
      d    == count \div Parts
  IN  IF count = Insertion THEN mid
      ELSE IF count <= Ninther THEN med3(base, mid, last)
      ELSE med3(med3(base, base + d, base + 2 * d), med3(mid - d, mid, mid + d), med3(last - 2 * d, last - d, last))

-----------------------------------------------------------------------------
SortInit ==
  /\ sort \in Arrays
  /\ array = sort.mem
  /\ base = sort.a /\ count = sort.n
  /\ phase = "loop"
  /\ pm = 0 /\ pl = 0 /\ pa = 0 /\ pb = 0 /\ pc = 0 /\ pd = 0
  /\ swap_cnt = 0
  /\ callers = <<>>

\* Insertion sort of the current array begins.
StartInsertion == phase' = "insert" /\ pm' = base + 1 /\ pl' = base + 1

SortFew ==
  /\ phase = "loop" /\ count < Insertion
  /\ StartInsertion
  /\ swap_cnt' = 0
  /\ UNCHANGED <<sort, array, base, count, pa, pb, pc, pd, callers>>

SortMany ==
  /\ phase = "loop" /\ count >= Insertion
  /\ array' = Swapped(base, Pivot)
  /\ pa' = base + 1 /\ pb' = base + 1
  /\ pc' = base + count - 1 /\ pd' = base + count - 1
  /\ swap_cnt' = 0
  /\ phase' = "up"
  /\ UNCHANGED <<sort, base, count, pm, pl, callers>>

Inserting == phase = "insert" /\ pm < base + count
Sinks     == pl > base /\ cmp(pl - 1, pl) > 0

Sink ==
  /\ Inserting /\ Sinks
  /\ array' = Swapped(pl, pl - 1)
  /\ pl' = pl - 1
  /\ UNCHANGED <<sort, base, count, phase, pm, pa, pb, pc, pd, swap_cnt, callers>>

InsertNext ==
  /\ Inserting /\ ~ Sinks
  /\ pm' = pm + 1 /\ pl' = pm + 1
  /\ UNCHANGED <<sort, array, base, count, phase, pa, pb, pc, pd, swap_cnt, callers>>

Inserted ==
  /\ phase = "insert" /\ pm >= base + count
  /\ phase' = "return"
  /\ UNCHANGED <<sort, array, base, count, pm, pl, pa, pb, pc, pd, swap_cnt, callers>>

\* From below, over what is not greater than the pivot; what is equal to it is
\* collected at the lower end.
Below == pb <= pc /\ cmp(pb, base) <= 0

ScanUp ==
  /\ phase = "up" /\ Below
  /\ IF cmp(pb, base) = 0 THEN swap_cnt' = 1 /\ array' = Swapped(pa, pb) /\ pa' = pa + 1
                       ELSE UNCHANGED <<swap_cnt, array, pa>>
  /\ pb' = pb + 1
  /\ UNCHANGED <<sort, base, count, phase, pm, pl, pc, pd, callers>>

TurnDown ==
  /\ phase = "up" /\ ~ Below
  /\ phase' = "down"
  /\ UNCHANGED <<sort, array, base, count, pm, pl, pa, pb, pc, pd, swap_cnt, callers>>

\* From above, over what is not less; what is equal goes to the upper end.
Above == pb <= pc /\ cmp(pc, base) >= 0

ScanDown ==
  /\ phase = "down" /\ Above
  /\ IF cmp(pc, base) = 0 THEN swap_cnt' = 1 /\ array' = Swapped(pc, pd) /\ pd' = pd - 1
                       ELSE UNCHANGED <<swap_cnt, array, pd>>
  /\ pc' = pc - 1
  /\ UNCHANGED <<sort, base, count, phase, pm, pl, pa, pb, callers>>

Exchange ==
  /\ phase = "down" /\ ~ Above /\ pb <= pc
  /\ array' = Swapped(pb, pc)
  /\ swap_cnt' = 1
  /\ pb' = pb + 1 /\ pc' = pc - 1
  /\ phase' = "up"
  /\ UNCHANGED <<sort, base, count, pm, pl, pa, pd, callers>>

\* Nothing was exchanged: it may be sorted already.
SwitchToInsertion ==
  /\ phase = "down" /\ pb > pc /\ swap_cnt = 0
  /\ StartInsertion
  /\ UNCHANGED <<sort, array, base, count, pa, pb, pc, pd, swap_cnt, callers>>

\* What is equal to the pivot moves to the middle.
BugUpperEqual == AtMost(pd - pc, base + count - pd)
UpperEqual    == AtMost(pd - pc, base + count - pd - 1)

Partitioned ==
  /\ phase = "down" /\ pb > pc /\ swap_cnt # 0
  /\ LET low  == AtMost(pa - base, pb - pa)
         high == UpperEqual
     IN  array' = VecSwapped(VecSwapped(array, base, pb - low, low), pb, base + count - high, high)
  /\ phase' = "parts"
  /\ UNCHANGED <<sort, base, count, pm, pl, pa, pb, pc, pd, swap_cnt, callers>>

\* The part that is less than the pivot is sorted by a call, which begins its
\* own loop; the other part follows when it returns.
Recurse ==
  /\ phase = "parts"
  /\ LET right == [a |-> base + count - (pd - pc), n |-> pd - pc]
     IN  IF pb - pa > 1
         THEN callers' = <<right>> \o callers /\ count' = pb - pa /\ base' = base /\ phase' = "loop"
         ELSE callers' = callers /\ count' = right.n /\ base' = right.a /\ phase' = "right"
  /\ UNCHANGED <<sort, array, pm, pl, pa, pb, pc, pd, swap_cnt>>

\* goto loop, or the end of the activation.
Iterate ==
  /\ phase = "right"
  /\ phase' = IF count > 1 THEN "loop" ELSE "return"
  /\ UNCHANGED <<sort, array, base, count, pm, pl, pa, pb, pc, pd, swap_cnt, callers>>

SortReturns ==
  /\ phase = "return"
  /\ IF callers = <<>> THEN phase' = "sorted" /\ UNCHANGED <<base, count, callers>>
     ELSE /\ base' = Head(callers).a /\ count' = Head(callers).n
          /\ callers' = Tail(callers)
          /\ phase' = "right"
  /\ UNCHANGED <<sort, array, pm, pl, pa, pb, pc, pd, swap_cnt>>

SortNext ==
  \/ SortFew \/ SortMany \/ Sink \/ InsertNext \/ Inserted
  \/ ScanUp \/ TurnDown \/ ScanDown \/ Exchange \/ SwitchToInsertion
  \/ Partitioned \/ Recurse \/ Iterate \/ SortReturns

-----------------------------------------------------------------------------
Elements == sort.a .. sort.a + sort.n - 1

\* The comparison is an order with ties.
IsOrder(c) ==
  LET le(x, y) == c[<<x, y>>] <= 0
      V == Range(sort.mem)
  IN  /\ \A x, y \in V : c[<<x, y>>] = - c[<<y, x>>]
      /\ \A x, y, z \in V : le(x, y) /\ le(y, z) => le(x, z)

Occurrences(m, v) == Cardinality({i \in Elements : m[i] = v})

\* The pointers, the array of the current activation, and those of the
\* activations below it.
SortInside ==
  /\ phase \in {"up", "down"} => /\ base < pa /\ pa <= pb /\ pb <= pc + 1 /\ pc <= pd /\ pd < base + count
  /\ phase = "insert" => base <= pl /\ pl <= pm
  /\ phase # "sorted" /\ count > 0 => {base, base + count - 1} \subseteq Elements
  /\ \A i \in DOMAIN callers : callers[i].n > 0 => callers[i].a \in Elements \ (base .. base + count - 1)
  /\ callers = <<>> \/ Len(callers) <= sort.n - Insertion + 1

(***************************************************************************)
(* With any comparison the loops stay in the array they were given, the    *)
(* activations below are left to sort other elements, and the stack of the *)
(* guest holds no more of them than there are elements beyond the          *)
(* threshold.  When qsort returns, nothing outside the array has changed,  *)
(* the array holds the elements it held, and they are in order if the      *)
(* comparison is an order.                                                 *)
(***************************************************************************)
SortsRight ==
  /\ SortInside
  /\ phase = "sorted" =>
       /\ \A i \in DOMAIN array \ Elements : array[i] = sort.mem[i]
       /\ \A v \in Range(sort.mem) : Occurrences(array, v) = Occurrences(sort.mem, v)
       /\ IsOrder(sort.cmp) => \A i, j \in Elements : i < j => cmp(i, j) <= 0
=============================================================================
