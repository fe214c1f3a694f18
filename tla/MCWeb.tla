------------------------------- MODULE MCWeb --------------------------------
(* Small pages: two of everything that can meet another of its kind.       *)
EXTENDS Web, TLC

CONSTANTS
    x1, x2,   \* two tabs, transactions or codes: interchangeable
    y1, y2    \* two coins or rows of a list: interchangeable

Twins == {x1, x2}
Others == {y1, y2}
Interchangeable == Permutations(Twins) \cup Permutations(Others)

(* Both forms of a submit ask for the code in the same field.              *)
OneField == y1 :> "code" @@ y2 :> "code"

(* One cap is finer than the units of its asset; of the other asset a      *)
(* double cannot tell an amount above the cap from the cap.  One account   *)
(* has both assets, the other some of one.                                 *)
Caps == "m" :> 1 @@ "t" :> 3
Doubles == {<<4, 3>>}
Balances == "a" :> ("m" :> 4 @@ "t" :> 8) @@ "b" :> ("m" :> 0 @@ "t" :> 4)
=============================================================================
