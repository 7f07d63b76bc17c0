---------------------------- MODULE CurveMarket -----------------------------
(***************************************************************************)
(* What the ledger of a token promises of its curve: one trade at a time,  *)
(* each quoted on the curve that the trade before it left.                 *)
(***************************************************************************)
EXTENDS BondingCurve

CONSTANTS
  NetPayments, \* net ZEC of a buy
  Undoable,    \* net ZEC of a buy an administrator may reverse
  Sales        \* tokens of a sell

VARIABLE curve

Init == curve = EmptyCurve

Buy(z) ==
  /\ CanBuy(curve)
  /\ curve' = AfterBuy(curve, z)

Sell(t) ==
  /\ CanSell(curve, t)
  /\ curve' = AfterSell(curve, t)

\* An administrator takes a buy of z that gave t tokens out of the curve.
Undo(z, t) == curve' = AfterUndo(curve, z, t)

Next ==
  \/ \E z \in NetPayments : Buy(z)
  \/ \E t \in Sales : Sell(t)
  \/ \E z \in Undoable, t \in 0..VirtualTokens : Undo(z, t)

Spec == Init /\ [][Next]_curve
=============================================================================
