--------------------------- MODULE CurveRounding ----------------------------
(***************************************************************************)
(* What rounding to whole tokens does to the curve of one token in the     *)
(* course of its buys, and of the two repairs an administrator may run on  *)
(* it: a phantom sell, which takes out ZEC the wallet no longer has, and   *)
(* the replay of the token's orders.  All of them leave the reserve exact, *)
(* so the comparisons below are exact: a fraction is compared by its cross *)
(* product.  Whether the token has graduated is left out.                  *)
(***************************************************************************)
EXTENDS BondingCurve

CONSTANTS
  Payments,  \* net ZEC of a buy, and of a phantom sell
  MaxBuys,   \* bound: buys
  MaxRepairs \* bound: phantom sells and replays

ASSUME PaymentsAssumption ==
  Payments \subseteq Nat \ {0} /\ MaxBuys \in Nat /\ MaxRepairs \in Nat

VARIABLES
  curve,     \* the persisted curve
  orders,    \* net ZEC of the FILLED orders
  roundings, \* history: times the tokens were rounded, since the last replay
  top,       \* history: the largest ZecSide since then
  buys,      \* buys so far
  repairs    \* repairs so far

vars == <<curve, orders, roundings, top, buys, repairs>>

Init ==
  /\ curve = EmptyCurve /\ orders = 0
  /\ roundings = 0 /\ top = VirtualZec
  /\ buys = 0 /\ repairs = 0

\* The tokens are rounded and written.
Writes(c) ==
  /\ curve' = c
  /\ roundings' = roundings + 1
  /\ top' = IF ZecSide(c) > top THEN ZecSide(c) ELSE top

\* A buy of z, whose order says o: a payment found by its address or memo may be
\* of another amount than was asked for.
Buy(z, o) ==
  /\ buys < MaxBuys /\ CanBuy(curve)
  /\ Writes(AfterBuy(curve, z))
  /\ orders' = orders + o
  /\ buys' = buys + 1
  /\ UNCHANGED repairs

\* POST /api/admin/apply-phantom-sell: there is no order of it.
ApplyPhantomSell(z) ==
  /\ repairs < MaxRepairs /\ CanAdjust(curve, z)
  /\ Writes(AfterAdjustment(curve, z))
  /\ repairs' = repairs + 1
  /\ UNCHANGED <<orders, buys>>

\* POST /api/admin/recompute-curve.
RecomputeCurve ==
  /\ repairs < MaxRepairs
  /\ curve' = Replayed(orders)
  /\ roundings' = 1 /\ top' = ZecSide(curve')
  /\ repairs' = repairs + 1
  /\ UNCHANGED <<orders, buys>>

Next ==
  \/ \E z, o \in Payments : Buy(z, o)
  \/ \E z \in Payments : ApplyPhantomSell(z)
  \/ RecomputeCurve

Spec == Init /\ [][Next]_vars

-----------------------------------------------------------------------------
\* Tokens sold in excess of what the reserve stands for on the exact curve,
\* times ZecSide(curve): VirtualTokens * VirtualZec / ZecSide stays the
\* exact token side of the curve.
Drift == curve.sold * ZecSide(curve) - VirtualTokens * curve.reserve

\* However many buys and phantom sells rounded the same way, the persisted curve is
\* off the exact one by at most half a token for each, at the largest reserve there
\* was; a replay of the orders starts from one rounding (updateTokenCurve,
\* applyPhantomSellAdjustment, recomputeCurveFromOrders).
DriftBounded ==
  /\ 2 * Drift <= roundings * top
  /\ 2 * Drift >= -roundings * top

\* Whoever sells at once what a buy gave gets back at most what was paid and
\* half a token's worth at the marginal price ZecSide / TokenSide.
RoundTripWithinHalfToken ==
  \A z \in Payments :
    LET after == AfterBuy(curve, z)
        t == TokensOut(curve, z)
    IN t > 0 /\ TokenSide(after) > 0 =>
         2 * (Gross(after, t) - z * (TokenSide(after) + t)) * TokenSide(after)
           <= ZecSide(after) * (TokenSide(after) + t)
=============================================================================
