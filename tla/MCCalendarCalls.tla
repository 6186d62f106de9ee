---------------------------- MODULE MCCalendarCalls ----------------------------
(* Finite instances of CalendarCalls for TLC. *)
EXTENDS CalendarCalls, TLC

\* Requests, processes, grants and tenants are interchangeable.
Symmetry == Permutations(Execs) \cup Permutations(Owners)
              \cup Permutations(Grants) \cup Permutations(Tenants)

================================================================================
