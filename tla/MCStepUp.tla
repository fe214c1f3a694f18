------------------------------ MODULE MCStepUp ------------------------------
(* StepUp for TLC: codes are numbers, the codes of distinct secrets and     *)
(* periods are distinct, and one further code is always wrong.  No key is   *)
(* treated unlike another, so TLC may take two that are swapped for one.    *)
EXTENDS StepUp, TLC

MCCodeOf(s, p) == 100 * s + p + 1

WrongCode == 9999

MCCodes ==
    {MCCodeOf(s, p) : s \in 0..MaxResets, p \in (0-1)..(MaxTime \div PeriodTicks + 1)}
        \cup {WrongCode}

KeySymmetry == Permutations(Keys)
=============================================================================
