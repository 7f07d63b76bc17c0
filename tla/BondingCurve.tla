---------------------------- MODULE BondingCurve ----------------------------
(***************************************************************************)
(* The constant-product curve of backend/src/lib/bondingCurve.ts, as the   *)
(* store persists it: the reserve as it is, the tokens sold rounded to     *)
(* whole tokens (updateTokenCurve).  ZEC amounts are whole units; the      *)
(* fractions of a unit a sell would pay are dropped.                       *)
(***************************************************************************)
EXTENDS Integers

CONSTANTS
  VirtualZec,    \* DEFAULT_CURVE_CONFIG.virtualZecReserves
  VirtualTokens, \* DEFAULT_CURVE_CONFIG.virtualTokenReserves
  Dust           \* ROUNDING_EPSILON_ZEC

ASSUME CurveAssumption ==
  VirtualZec \in Nat \ {0} /\ VirtualTokens \in Nat \ {0} /\ Dust \in Nat

Curve == [reserve : Nat, sold : 0..VirtualTokens]
EmptyCurve == [reserve |-> 0, sold |-> 0]

ZecSide(c) == VirtualZec + c.reserve
TokenSide(c) == VirtualTokens - c.sold

\* Math.round(n / d).
Rounded(n, d) == (2 * n + d) \div (2 * d)

\* Mutant: rounded up, not to the nearest.
TokensOutCeiling(c, z) == (TokenSide(c) * z + ZecSide(c) + z - 1) \div (ZecSide(c) + z)

\* tokensBefore - k / (zecBefore + z), in whole tokens.
TokensOut(c, z) == Rounded(TokenSide(c) * z, ZecSide(c) + z)

\* quoteBuy does not throw: the curve has tokens left.
CanBuy(c) == TokenSide(c) > 0

AfterBuy(c, z) == [reserve |-> c.reserve + z, sold |-> c.sold + TokensOut(c, z)]

\* zecBefore - k / (tokensBefore + t) is Gross(c, t) / (TokenSide(c) + t).
Gross(c, t) == ZecSide(c) * t

\* quoteSell does not throw: the curve issued that much, and pays no more
\* than its reserve but for the dust.
CanSell(c, t) ==
  /\ t > 0 /\ t <= c.sold
  /\ Gross(c, t) <= (c.reserve + Dust) * (TokenSide(c) + t)

\* What a sell pays, never more than the reserve.
ZecOut(c, t) ==
  LET out == Gross(c, t) \div (TokenSide(c) + t)
  IN  IF out > c.reserve THEN c.reserve ELSE out

AfterSell(c, t) == [reserve |-> c.reserve - ZecOut(c, t), sold |-> c.sold - t]

\* Math.max(0, n).
Least0(n) == IF n < 0 THEN 0 ELSE n

\* reversePhantomBuyOrder: a buy of z that gave t tokens is taken back.
AfterUndo(c, z, t) ==
  [reserve |-> Least0(c.reserve - z), sold |-> Least0(c.sold - t)]

\* applyPhantomSellAdjustment: z of the reserve is gone.  Tokens sold that a sell
\* of z would have returned are taken back with it, PhantomTokens(c, z) / (ZecSide
\* - z) of them, if the curve has sold that many.
PhantomTokens(c, z) == TokenSide(c) * z
CanAdjust(c, z) ==
  /\ z > 0 /\ z <= c.reserve
  /\ PhantomTokens(c, z) > 0
  /\ PhantomTokens(c, z) <= c.sold * (ZecSide(c) - z)
AfterAdjustment(c, z) ==
  LET left == ZecSide(c) - z
  IN  [reserve |-> c.reserve - z, sold |-> Rounded(c.sold * left - PhantomTokens(c, z), left)]

\* recomputeCurveFromOrders, of buys that brought z in all: between the trades it
\* replays nothing is rounded.
Replayed(z) == [reserve |-> z, sold |-> Rounded(VirtualTokens * z, VirtualZec + z)]
=============================================================================
