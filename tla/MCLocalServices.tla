--------------------------- MODULE MCLocalServices ---------------------------
(***************************************************************************)
(* What the processes of one machine share, in one instance: the issuer's  *)
(* row with its marker, and the budget of requests, which may also be the  *)
(* hosted one.  The two have no variable in common and no property relates *)
(* them, so a behaviour moves one while the other stays as it began: any   *)
(* other differs by stuttering steps only.                                 *)
(***************************************************************************)
EXTENDS LocalIssuer, RequestLimits, TLC

Symmetry == Permutations(Request)

LocalInit == Init /\ LimitInit

LocalNext ==
  \/ LimitInit /\ store = "sqlite" /\ Next /\ UNCHANGED limitVars
  \/ Init /\ Limits /\ UNCHANGED vars

LocalSpec == LocalInit /\ [][LocalNext]_<<vars, limitVars>>
=============================================================================
