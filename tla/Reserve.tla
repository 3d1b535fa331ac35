------------------------------- MODULE Reserve ------------------------------
(***************************************************************************)
(* What a market promises, whatever its curve and its rounding: there is a *)
(* pot that belongs to the circulating tokens, and no step takes more out  *)
(* of it, or puts less into it, than the value of the tokens that come     *)
(* back or go out.  The valuation is fixed once; tokens handed out before  *)
(* that are the only ones the pot may fail to cover.                       *)
(***************************************************************************)
EXTENDS Integers

CONSTANT Levels     \* possible amounts of circulating tokens

VARIABLES
  sold,             \* tokens in circulation
  pot,              \* what backs them
  value,            \* value[n]: what n circulating tokens are worth
  gap               \* value of the tokens that were in circulation before the valuation

vars == <<sold, pot, value, gap>>

Unvalued == \A n \in Levels : value[n] = 0

TypeOK ==
  /\ sold \in Levels
  /\ pot \in Int
  /\ value \in [Levels -> Int]
  /\ gap \in Int

Init ==
  /\ TypeOK
  /\ pot = 0 /\ gap = 0
  /\ Unvalued

Appraise ==
  /\ Unvalued
  /\ value' \in [Levels -> Int]
  /\ gap' = value'[sold]
  /\ pot >= 0
  /\ UNCHANGED <<sold, pot>>

Trade ==
  /\ sold' \in Levels /\ pot' \in Int
  /\ pot' - pot >= value[sold'] - value[sold]
  /\ UNCHANGED <<value, gap>>

Next == Appraise \/ Trade

Spec == Init /\ [][Next]_vars

\* The pot covers the circulating tokens up to the value of those handed out unvalued.
Covered == pot + gap >= value[sold]
=============================================================================
