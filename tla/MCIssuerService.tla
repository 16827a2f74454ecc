--------------------------- MODULE MCIssuerService ---------------------------
EXTENDS IssuerService, TLC

Symmetry == Permutations(Request) \cup Permutations(Challenge)
              \cup Permutations(Credential) \cup Permutations(Holder)

-----------------------------------------------------------------------------
(* Bounds of service_contention.  Requests are interchangeable, so they    *)
(* come in the order of their numbers, which unlike a symmetry set is      *)
(* sound for liveness too.  Three may ask for anything; four come only as  *)
(* an approval, an enrollment with its retry, and a revocation.            *)
Asked(kind) == {p \in Request : operation[p] # None /\ operation[p].kind = kind}

InOrder == \A p, q \in Request : p < q /\ pc[q] # "idle" => pc[p] # "idle"

FourAreRetry ==
  (\A p \in Request : pc[p] # "idle") =>
    /\ Cardinality(Asked("approve")) = 1
    /\ Cardinality(Asked("issue")) = 2
    /\ Cardinality(Asked("revoke")) = 1

Bounds == InOrder /\ FourAreRetry
=============================================================================
