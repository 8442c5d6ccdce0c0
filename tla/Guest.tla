------------------------------- MODULE Guest -------------------------------
(***************************************************************************)
(* The library of the guest (example/bg_lib.c) as a program uses it: it    *)
(* sorts, then calls a string function, then prints and reads back.        *)
(***************************************************************************)
EXTENDS GuestSort, GuestString, GuestFormat

Sorting    == SortNext /\ UNCHANGED <<stringVars, formatVars>>
Copying    == phase = "sorted" /\ StringNext /\ UNCHANGED <<sortVars, formatVars>>
Formatting == answer # <<>> /\ FormatNext /\ UNCHANGED <<sortVars, stringVars>>

GuestNext == Sorting \/ Copying \/ Formatting

guestVars == <<sortVars, stringVars, formatVars>>

Returned == stage \in {"scanned", "overrun"}

\* The guest is one thread that nothing stops.
LibraryRuns == WF_guestVars(GuestNext)

-----------------------------------------------------------------------------
\* Every loop of the library comes to an end: partitions get smaller, pointers
\* get to the end of a string, formats to their zero.
RoutinesEnd == <>Returned
=============================================================================
