-------------------------------- MODULE Filters --------------------------------
(***************************************************************************)
(* Array.prototype.filter and flat, and a sum over an array, written as    *)
(* recursive functions so that theorems can be proved about them: the      *)
(* provers do not know the definition of SelectSeq.                        *)
(***************************************************************************)
EXTENDS Integers, Sequences

(* What of s is in S, in its order.                                        *)
Keep(s, S) ==
  LET kept[n \in 0..Len(s)] ==
        IF n = 0 THEN <<>>
        ELSE IF s[n] \in S THEN Append(kept[n - 1], s[n]) ELSE kept[n - 1]
  IN  kept[Len(s)]

(* The sequences of a sequence, one after the other.                       *)
Flat(seqs) ==
  LET flat[n \in 0..Len(seqs)] == IF n = 0 THEN <<>> ELSE flat[n - 1] \o seqs[n]
  IN  flat[Len(seqs)]

(* The sum of a sequence of numbers.                                       *)
Total(s) ==
  LET total[n \in 0..Len(s)] == IF n = 0 THEN 0 ELSE total[n - 1] + s[n]
  IN  total[Len(s)]
===============================================================================
