--------------------------- MODULE MCLoadBalancer ---------------------------
(* Factories and sockets are interchangeable names.                        *)
EXTENDS LoadBalancer, TLC

Symmetry == Permutations(Factories) \cup Permutations(Sockets)
=============================================================================
