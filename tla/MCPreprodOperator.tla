-------------------------- MODULE MCPreprodOperator --------------------------
EXTENDS PreprodOperator, TLC

Symmetry == Permutations(Credential) \cup Permutations(Process) \cup Permutations(Admin)
Zero == [k \in Credential |-> 0]

(* After the release the ceremonies go on by themselves: what they can     *)
(* still do is what they can do without a release.                         *)
View ==
  IF released = None THEN <<ceremony, published, acceptance>>
  ELSE <<"released", published, acceptance>>

-----------------------------------------------------------------------------
(* The status tree, whose root StatusPublication takes for the set of the  *)
(* active credentials.  Issues 1, 2, ... in their order, any of them       *)
(* revoked.                                                                *)
Tree == INSTANCE StatusTree WITH Depth <- 2

Entries == UNION {[1 .. n -> [revoked : BOOLEAN]] : n \in 0 .. 4}
Listed(flags) == [i \in DOMAIN flags |-> [id |-> i, revoked |-> flags[i].revoked]]
ActiveIn(flags) == {i \in DOMAIN flags : ~ flags[i].revoked}
TreeOf == [flags \in Entries |-> Tree!Build(Listed(flags))]

(* Whatever is issued and revoked builds a tree, up to its size.           *)
ASSUME \A flags \in Entries : Tree!CanBuild(Listed(flags))

(* Two trees have the same root exactly when the same credentials are      *)
(* active: the root of a revocation is new, and the root of a credential   *)
(* revoked again is an old one.                                            *)
ASSUME \A e, f \in Entries :
  Tree!RootOf(TreeOf[e]) = Tree!RootOf(TreeOf[f]) <=> ActiveIn(e) = ActiveIn(f)

(* The path of an active credential proves it under its own tree's root.   *)
ASSUME \A e \in Entries : \A i \in ActiveIn(e) :
  Tree!Recomputed(Tree!Leaf(i), Tree!Path(TreeOf[e], i - 1)) = Tree!RootOf(TreeOf[e])

(* No path of any tree, older or newer, proves under a root a credential   *)
(* that is not active there.                                               *)
ASSUME \A e, f \in Entries : \A i \in DOMAIN e, k \in 1 .. 4 :
  Tree!Recomputed(Tree!Leaf(k), Tree!Path(TreeOf[e], i - 1)) = Tree!RootOf(TreeOf[f])
    => k \in ActiveIn(f)

-----------------------------------------------------------------------------
(* The fee of the wallets that deploy and publish: up to three coins, any  *)
(* fee up to one more than they hold or a negative one.                    *)
Fee == INSTANCE DustFee WITH Passes <- 3

Coins == {s \in UNION {[1 .. n -> 1 .. 2] : n \in 0 .. 3} : \A i \in DOMAIN s : i > 1 => s[i - 1] <= s[i]}
DryRuns(coins) == [0 .. Len(coins) -> -1 .. Fee!Coverage(coins, Len(coins)) + 1]
Sum(s) == Fee!Coverage(s, Len(s))

(* What is paid is the fee of the very coins that were chosen, and no coin *)
(* pays more than it holds or an amount of zero.                           *)
ASSUME \A coins \in Coins : \A dryRun \in DryRuns(coins), deficit \in {-3, -1, 0} :
  LET result == Fee!Converge(coins, deficit, dryRun)
  IN  result.end = "paid" =>
        /\ Sum(result.pay) = result.fee
        /\ \A i \in DOMAIN result.pay : result.pay[i] \in 1 .. coins[i]
        /\ \E n \in 0 .. Len(coins) : dryRun[n] = result.fee /\ Len(result.pay) <= n

(* Each pass that fails takes another coin: the iteration can run out of   *)
(* passes only where there are as many coins as passes, but for one.       *)
ASSUME \A coins \in Coins : \A dryRun \in DryRuns(coins), deficit \in {-3, -1, 0} :
  Fee!Converge(coins, deficit, dryRun).end = "diverged" => Len(coins) >= 2
=============================================================================
