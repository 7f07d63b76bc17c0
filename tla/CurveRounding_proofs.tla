------------------------ MODULE CurveRounding_proofs ------------------------
(***************************************************************************)
(* The rounding drift of a curve is bounded by half a token for each       *)
(* write, and a buy sold again at once gains no more than half a token's   *)
(* worth, for any virtual reserves, payments and repairs.                  *)
(***************************************************************************)
EXTENDS CurveRounding, BondingCurve_proofs

\* The invariant by itself: DriftBounded, on a curve of integers.
IInv == /\ curve \in [reserve : Nat, sold : Int]
        /\ orders \in Nat
        /\ roundings \in Nat
        /\ top \in Nat /\ ZecSide(curve) <= top
        /\ DriftBounded

LEMMA InitInv == Init => IInv
  BY CurveAssumption DEF Init, IInv, EmptyCurve, DriftBounded, Drift, ZecSide

\* One more factor, and each of them larger.
LEMMA Products ==
  ASSUME NEW n \in Nat, NEW t \in Nat, NEW u \in Nat, NEW y \in Nat, t <= u, y <= u
  PROVE  n * t + y <= (n + 1) * u
  <1>1. PICK g \in Nat : u = t + g
    <2>1. u - t \in Nat /\ u = t + (u - t)
      OBVIOUS
    <2> QED BY <2>1
  <1>2. n * g \in Nat /\ n * t \in Nat
    OBVIOUS
  <1>3. (n + 1) * u = n * t + n * g + u
    BY <1>1
  <1> QED BY <1>2, <1>3

\* What a write that is off by half a token of the new curve does to the bound.
LEMMA WriteInv ==
  ASSUME IInv, NEW c \in [reserve : Nat, sold : Int], Writes(c), NEW E \in Int,
         c.sold * ZecSide(c) - VirtualTokens * c.reserve = Drift + E,
         2 * E <= ZecSide(c), 2 * E >= -ZecSide(c)
  PROVE  /\ curve' \in [reserve : Nat, sold : Int]
         /\ roundings' \in Nat
         /\ top' \in Nat /\ ZecSide(curve)' <= top'
         /\ DriftBounded'
  <1> DEFINE Y == ZecSide(c)
             D == Drift
             B == roundings * top
             C == roundings' * top'
  <1>1. /\ curve' = c /\ roundings' = roundings + 1
        /\ top' = (IF Y > top THEN Y ELSE top)
    BY DEF Writes
  <1>2. /\ Y \in Nat /\ D \in Int /\ top \in Nat /\ roundings \in Nat
    BY CurveAssumption DEF IInv, ZecSide, Drift
  <1>3. top' \in Nat /\ Y <= top' /\ top <= top' /\ roundings' \in Nat
    <2> HIDE DEF Y
    <2> QED BY <1>1, <1>2
  <1>4. B \in Int /\ C \in Int /\ B + Y <= C
    <2> HIDE DEF Y
    <2>1. roundings * top + Y <= (roundings + 1) * top'
      BY <1>2, <1>3, Products
    <2> QED BY <2>1, <1>1, <1>2, <1>3
  <1>5. 2 * D <= B /\ 2 * D >= -B
    BY <1>2, <1>4 DEF IInv, DriftBounded
  <1>6. Drift' = D + E /\ ZecSide(curve)' = Y
    BY <1>1 DEF Drift, ZecSide
  <1>7. 2 * (D + E) <= C /\ 2 * (D + E) >= -C
    <2>1. 2 * E <= Y /\ 2 * E >= -Y
      OBVIOUS
    <2> HIDE DEF Y, D, B, C
    <2> QED BY <1>2, <1>4, <1>5, <2>1
  <1>8. -roundings' * top' = -C
    BY <1>1, <1>2, <1>3
  <1>9. DriftBounded'
    BY <1>6, <1>7, <1>8 DEF DriftBounded
  <1> QED BY <1>1, <1>3, <1>6, <1>9

\* A buy adds its own rounding error to the drift: the drift after is the
\* drift before, plus the tokens given, less the exact ones.
LEMMA BuyInv ==
  ASSUME IInv, NEW z \in Payments, NEW o \in Payments, Buy(z, o)
  PROVE  IInv'
  <1> DEFINE r == curve.reserve
             s == curve.sold
             T == VirtualTokens
             zs == VirtualZec + r
             n == (T - s) * z
             d == zs + z
             out == TokensOut(curve, z)
             E == d * out - n
             c == AfterBuy(curve, z)
  <1>1. /\ r \in Nat /\ s \in Int /\ T \in Nat \ {0} /\ VirtualZec \in Nat \ {0}
        /\ z \in Nat \ {0} /\ o \in Nat
    BY CurveAssumption, PaymentsAssumption DEF IInv
  <1>2. zs \in Nat \ {0} /\ d \in Nat \ {0} /\ n \in Int
    BY <1>1
  <1>3. out = Rounded(n, d)
    BY DEF TokensOut, TokenSide, ZecSide
  <1>4. out \in Int /\ 2 * (d * out) <= 2 * n + d /\ 2 * (d * out) > 2 * n - d
    <2> HIDE DEF n, d, out
    <2> QED BY <1>2, <1>3, RoundedFacts
  <1>5. c = [reserve |-> r + z, sold |-> s + out] /\ ZecSide(c) = d
    BY <1>1 DEF AfterBuy, ZecSide
  <1>6. (s + out) * d - T * (r + z) = (s * zs - T * r) + E
    <2> HIDE DEF out, r, s, T
    <2> QED BY <1>1, <1>2, <1>4
  <1>7. E \in Int /\ 2 * E <= d /\ 2 * E >= -d
    <2>1. d * out \in Int
      BY <1>2, <1>4
    <2> HIDE DEF n, d, out
    <2> QED BY <1>2, <1>4, <2>1
  <1>8. Drift = s * zs - T * r
    BY DEF Drift, ZecSide
  <1>9. c \in [reserve : Nat, sold : Int] /\ Writes(c) /\ orders' = orders + o
    BY <1>1, <1>4, <1>5 DEF Buy
  <1>10. c.sold * ZecSide(c) - T * c.reserve = Drift + E
    BY <1>5, <1>6, <1>8
  <1>11. 2 * E <= ZecSide(c) /\ 2 * E >= -ZecSide(c)
    BY <1>5, <1>7
  <1> HIDE DEF c, E
  <1>12. /\ curve' \in [reserve : Nat, sold : Int] /\ roundings' \in Nat
         /\ top' \in Nat /\ ZecSide(curve)' <= top' /\ DriftBounded'
    BY <1>7, <1>9, <1>10, <1>11, WriteInv
  <1> QED BY <1>1, <1>9, <1>12 DEF IInv

\* A phantom sell keeps the product of the two sides as a buy does.
LEMMA AdjustmentInv ==
  ASSUME IInv, NEW z \in Payments, ApplyPhantomSell(z)
  PROVE  IInv'
  <1> DEFINE r == curve.reserve
             s == curve.sold
             T == VirtualTokens
             zs == VirtualZec + r
             d == zs - z
             n == s * d - (T - s) * z
             sold == Rounded(n, d)
             E == d * sold - n
             c == AfterAdjustment(curve, z)
  <1>1. /\ r \in Nat /\ s \in Int /\ T \in Nat \ {0} /\ VirtualZec \in Nat \ {0}
        /\ z \in Nat \ {0} /\ z <= r
    BY CurveAssumption, PaymentsAssumption DEF IInv, ApplyPhantomSell, CanAdjust
  <1>2. zs \in Nat \ {0} /\ d \in Nat \ {0} /\ n \in Int
    BY <1>1
  <1>3. sold \in Int /\ 2 * (d * sold) <= 2 * n + d /\ 2 * (d * sold) > 2 * n - d
    <2> HIDE DEF n, d
    <2> QED BY <1>2, RoundedFacts
  <1>4. c = [reserve |-> r - z, sold |-> sold] /\ ZecSide(c) = d
    BY <1>1 DEF AfterAdjustment, PhantomTokens, TokenSide, ZecSide
  <1>5. sold * d - T * (r - z) = (s * zs - T * r) + E
    <2>1. d * sold \in Int /\ sold * d = d * sold
      BY <1>2, <1>3
    <2>2. n = s * zs - T * z
      BY <1>1
    <2>3. T * (r - z) = T * r - T * z
      BY <1>1
    <2>4. s * zs \in Int /\ T * z \in Int /\ T * r \in Int
      BY <1>1
    <2> DEFINE P == d * sold
               A == s * zs
               F == T * z
               G == T * r
    <2>5. P - (G - F) = (A - G) + (P - (A - F))
      <3> HIDE DEF P, A, F, G
      <3>1. P \in Int /\ A \in Int /\ F \in Int /\ G \in Int
        BY <2>1, <2>4 DEF P, A, F, G
      <3> QED BY <3>1
    <2> HIDE DEF n, sold, d, zs
    <2> QED BY <2>1, <2>2, <2>3, <2>5
  <1>6. E \in Int /\ 2 * E <= d /\ 2 * E >= -d
    <2>1. d * sold \in Int
      BY <1>2, <1>3
    <2> HIDE DEF n, d, sold
    <2> QED BY <1>2, <1>3, <2>1
  <1>7. Drift = s * zs - T * r
    BY DEF Drift, ZecSide
  <1>8. c \in [reserve : Nat, sold : Int] /\ Writes(c) /\ orders' = orders
    BY <1>1, <1>3, <1>4 DEF ApplyPhantomSell
  <1>9. c.sold * ZecSide(c) - T * c.reserve = Drift + E
    BY <1>4, <1>5, <1>7
  <1>10. 2 * E <= ZecSide(c) /\ 2 * E >= -ZecSide(c)
    BY <1>4, <1>6
  <1> HIDE DEF c, E
  <1>11. /\ curve' \in [reserve : Nat, sold : Int] /\ roundings' \in Nat
         /\ top' \in Nat /\ ZecSide(curve)' <= top' /\ DriftBounded'
    BY <1>6, <1>8, <1>9, <1>10, WriteInv
  <1> QED BY <1>8, <1>11 DEF IInv

\* A replay starts anew, one rounding off the exact curve.
LEMMA ReplayInv ==
  ASSUME IInv, RecomputeCurve
  PROVE  IInv'
  <1> DEFINE n == VirtualTokens * orders
             d == VirtualZec + orders
             sold == Rounded(n, d)
  <1>1. orders \in Nat /\ n \in Int /\ d \in Nat \ {0} /\ VirtualTokens \in Nat
    BY CurveAssumption DEF IInv
  <1>2. sold \in Int /\ 2 * (d * sold) <= 2 * n + d /\ 2 * (d * sold) > 2 * n - d
    <2> HIDE DEF n, d
    <2> QED BY <1>1, RoundedFacts
  <1>3. /\ curve' = [reserve |-> orders, sold |-> sold]
        /\ roundings' = 1 /\ top' = ZecSide(curve') /\ orders' = orders
    BY DEF RecomputeCurve, Replayed
  <1>4. ZecSide(curve') = d /\ ZecSide(curve)' = d
    BY <1>3 DEF ZecSide
  <1>5. Drift' = sold * d - n
    BY <1>3, <1>4 DEF Drift
  <1>6. 2 * (sold * d - n) <= 1 * d /\ 2 * (sold * d - n) >= -1 * d
    <2>1. d * sold \in Int /\ sold * d = d * sold
      BY <1>1, <1>2
    <2> HIDE DEF n, d, sold
    <2> QED BY <1>1, <1>2, <2>1
  <1>7. DriftBounded'
    BY <1>3, <1>4, <1>5, <1>6 DEF DriftBounded
  <1> QED BY <1>1, <1>2, <1>3, <1>4, <1>7 DEF IInv

LEMMA NextInv == IInv /\ [Next]_vars => IInv'
  <1>1. ASSUME IInv, UNCHANGED vars PROVE IInv'
    BY <1>1 DEF vars, IInv, DriftBounded, Drift, ZecSide
  <1> QED BY <1>1, BuyInv, AdjustmentInv, ReplayInv DEF Next

(***************************************************************************)
(* Half a token of drift per write, whatever the buys and the repairs.     *)
(***************************************************************************)
THEOREM DriftIsBounded == Spec => []DriftBounded
  <1>1. IInv => DriftBounded
    BY DEF IInv
  <1> QED BY InitInv, NextInv, <1>1, PTL DEF Spec

\* What a buy gives is off the exact amount by half a token at most, and the sell
\* that follows at once pays at the price after it.
LEMMA RoundTrip ==
  ASSUME IInv, NEW z \in Payments, TokensOut(curve, z) > 0, TokenSide(AfterBuy(curve, z)) > 0
  PROVE  LET after == AfterBuy(curve, z)
             t == TokensOut(curve, z)
         IN 2 * (Gross(after, t) - z * (TokenSide(after) + t)) * TokenSide(after)
              <= ZecSide(after) * (TokenSide(after) + t)
  <1> DEFINE T == TokenSide(curve)
             d == ZecSide(curve) + z
             n == T * z
             t == TokensOut(curve, z)
             after == AfterBuy(curve, z)
             u == T - t
             A == d * t - n
  <1>1. T \in Int /\ d \in Nat \ {0} /\ z \in Nat \ {0} /\ n \in Int
    BY CurveAssumption, PaymentsAssumption DEF IInv, TokenSide, ZecSide
  <1>2. t = Rounded(n, d)
    BY DEF TokensOut
  <1>3. t \in Int /\ 2 * (d * t) <= 2 * n + d
    <2> HIDE DEF n, d, t
    <2> QED BY <1>1, <1>2, RoundedFacts
  <1>4. TokenSide(after) = u /\ ZecSide(after) = d /\ TokenSide(after) + t = T
    <2>1. curve.sold \in Int /\ curve.reserve \in Nat /\ VirtualTokens \in Nat /\ VirtualZec \in Nat
      BY CurveAssumption DEF IInv
    <2>2. after.reserve = curve.reserve + z /\ after.sold = curve.sold + t
      BY DEF AfterBuy
    <2> HIDE DEF t, after
    <2> QED BY <2>1, <2>2, <1>1, <1>3 DEF TokenSide, ZecSide
  <1>5. Gross(after, t) = d * t
    BY <1>4 DEF Gross
  <1>6. z * (TokenSide(after) + t) = n
    <2> HIDE DEF after, t
    <2> QED BY <1>1, <1>4
  <1>7. u \in Nat /\ u > 0 /\ u <= T
    <2>1. TokenSide(after) > 0 /\ t > 0
      OBVIOUS
    <2> HIDE DEF after, t, T
    <2> QED BY <2>1, <1>1, <1>3, <1>4
  <1>8. A \in Int /\ 2 * A <= d
    <2>1. d * t \in Int
      BY <1>1, <1>3
    <2> HIDE DEF d, t, n
    <2> QED BY <1>1, <1>3, <2>1
  <1>9. 2 * A * u <= d * T
    <2> HIDE DEF A, u, d, T
    <2>1. (d - 2 * A) * u >= 0
      <3>1. d - 2 * A \in Nat
        BY <1>1, <1>8
      <3> QED BY <3>1, <1>7
    <2>2. (d - 2 * A) * u = d * u - 2 * A * u
      BY <1>1, <1>7, <1>8
    <2>3. d * (T - u) >= 0
      <3>1. T - u \in Nat
        BY <1>1, <1>7
      <3> QED BY <3>1, <1>1
    <2>4. d * (T - u) = d * T - d * u
      BY <1>1, <1>7
    <2>5. d * u \in Int /\ d * T \in Int /\ 2 * A * u \in Int
      BY <1>1, <1>7, <1>8
    <2> QED BY <2>1, <2>2, <2>3, <2>4, <2>5
  <1> HIDE DEF after, t, d, n, u, T
  <1>10. 2 * (Gross(after, t) - z * (TokenSide(after) + t)) * TokenSide(after)
           <= ZecSide(after) * (TokenSide(after) + t)
    BY <1>4, <1>5, <1>6, <1>9
  <1> QED BY <1>10 DEF after, t

\* Whoever buys and sells again at once loses, or gains no more than what half a
\* token is worth, on whatever curve the buys and repairs before left (quoteBuy,
\* quoteSell).
THEOREM RoundTripBounded == Spec => []RoundTripWithinHalfToken
  <1>1. IInv => RoundTripWithinHalfToken
    BY RoundTrip DEF RoundTripWithinHalfToken
  <1> QED BY InitInv, NextInv, <1>1, PTL DEF Spec
=============================================================================
