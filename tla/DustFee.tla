-------------------------------- MODULE DustFee --------------------------------
(***************************************************************************)
(* packages/network/dust-fee.ts: the choice of the coins that pay the fee  *)
(* of a transaction, when the fee depends on the coins.                    *)
(*                                                                         *)
(* getBalanceRecipe is the wallet SDK's: it takes the smallest coins until *)
(* their sum reaches what is required (tests/dust-fee.test.ts).  `coins`   *)
(* is the sequence of the values in that order, a choice is a number of    *)
(* coins, and dryRun gives the fee of each choice.                         *)
(***************************************************************************)
EXTENDS Integers, SequencesExt

CONSTANT Passes  \* 8 in the code

Coverage(coins, n) == FoldLeft(+, 0, SubSeq(coins, 1, n))

Affordable(coins, required) == required <= Coverage(coins, Len(coins))

Choice(coins, required) ==
  CHOOSE n \in 0 .. Len(coins) :
    /\ Coverage(coins, n) >= required
    /\ \A m \in 0 .. n - 1 : Coverage(coins, m) < required

Smaller(a, b) == IF a < b THEN a ELSE b

(* Each coin pays what it holds until nothing remains; one that pays       *)
(* nothing is left out.                                                    *)
Payments(coins, n, fee) ==
  LET Pay(paid, i) ==
        Append(paid, Smaller(fee - FoldLeft(+, 0, paid), coins[i]))
  IN  SelectSeq(FoldLeft(Pay, <<>>, [i \in 1 .. n |-> i]), LAMBDA v : v > 0)

Open(required) == [end |-> "open", fee |-> required, pay |-> <<>>]

Ended(end) == [end |-> end, fee |-> 0, pay |-> <<>>]

(* One pass of the loop; what has ended stays.                             *)
Pass(coins, dryRun, so) ==
  LET n == Choice(coins, so.fee)
      fee == dryRun[n]
  IN  CASE so.end # "open" -> so
        [] so.end = "open" /\ ~ Affordable(coins, so.fee) -> Ended("insufficient")
        [] so.end = "open" /\ Affordable(coins, so.fee) ->
             CASE fee < 0 -> Ended("negative")
               [] fee > Coverage(coins, n) -> Open(fee)
               [] fee \in 0 .. Coverage(coins, n) ->
                    [end |-> "paid", fee |-> fee, pay |-> Payments(coins, n, fee)]

(* convergeDustFee; a deficit is negative.                                 *)
Converge(coins, deficit, dryRun) ==
  LET last == FoldLeft(LAMBDA so, pass : Pass(coins, dryRun, so),
                       Open(IF deficit < 0 THEN - deficit ELSE 0), [p \in 1 .. Passes |-> p])
  IN  IF last.end = "open" THEN Ended("diverged") ELSE last
=============================================================================
