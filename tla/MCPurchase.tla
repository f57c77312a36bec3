----------------------------- MODULE MCPurchase -----------------------------
EXTENDS Purchase, TLC

Interchangeable == Permutations(Requests) \cup Permutations(Courses)

(* The liveness run starts with every course on sale and every profile      *)
(* there; hidden courses and missing profiles only end a request earlier.   *)
OpenInit == Init /\ profiles = Users /\ \A c \in Courses : Published(c)
OpenSpec == OpenInit /\ [][Next]_vars /\ \A r \in Requests : WF_vars(Step(r))
=============================================================================
