------------------------- MODULE BondingCurve_proofs -------------------------
(***************************************************************************)
(* Facts about the curve's arithmetic that the proofs of its users cite.   *)
(***************************************************************************)
EXTENDS BondingCurve, TLAPS

LEMMA DivFacts ==
  ASSUME NEW a \in Int, NEW b \in Nat \ {0}
  PROVE  a \div b \in Int /\ b * (a \div b) <= a /\ a < b * (a \div b) + b
  BY Z3

\* Rounding to the nearest is off by half at most.
LEMMA RoundedFacts ==
  ASSUME NEW n \in Int, NEW d \in Nat \ {0}
  PROVE  /\ Rounded(n, d) \in Int
         /\ 2 * (d * Rounded(n, d)) <= 2 * n + d
         /\ 2 * (d * Rounded(n, d)) > 2 * n - d
  <1> DEFINE q == (2 * n + d) \div (2 * d)
  <1>0. 2 * n + d \in Int /\ 2 * d \in Nat \ {0}
    OBVIOUS
  <1>1. q \in Int /\ (2 * d) * q <= 2 * n + d /\ 2 * n + d < (2 * d) * q + 2 * d
    BY <1>0, DivFacts
  <1>2. (2 * d) * q = 2 * (d * q)
    BY <1>1
  <1>3. Rounded(n, d) = q
    BY DEF Rounded
  <1>4. d * q \in Int
    BY <1>1
  <1> HIDE DEF q
  <1> QED BY <1>1, <1>2, <1>3, <1>4

\* A quotient of naturals is a natural, and a multiple divides out.
LEMMA DivBounds ==
  ASSUME NEW a \in Nat, NEW b \in Nat \ {0}, NEW m \in Nat, a <= b * m
  PROVE  a \div b \in 0..m
  <1> DEFINE q == a \div b
  <1>1. q \in Int /\ b * q <= a /\ a < b * q + b
    BY DivFacts
  <1>2. q >= 0
    <2>1. ASSUME q < 0 PROVE FALSE
      <3>1. q + 1 <= 0 /\ q + 1 \in Int
        BY <1>1, <2>1
      <3> HIDE DEF q
      <3>2. b * (q + 1) <= 0
        BY <3>1
      <3>3. b * (q + 1) = b * q + b
        BY <1>1
      <3> QED BY <1>1, <3>2, <3>3
    <2> QED BY <1>1, <2>1
  <1>3. q <= m
    <2>1. ASSUME q > m PROVE FALSE
      <3>1. q - 1 - m \in Nat
        BY <1>1, <2>1
      <3> HIDE DEF q
      <3>2. b * (q - 1 - m) >= 0
        BY <3>1
      <3>3. b * (q - 1 - m) = b * q - b - b * m
        BY <1>1
      <3>4. b * q \in Int /\ b * m \in Int
        BY <1>1
      <3> QED BY <1>1, <3>2, <3>3, <3>4
    <2> QED BY <1>1, <2>1
  <1> QED BY <1>1, <1>2, <1>3

\* A buy gives no more than the curve has left.
LEMMA TokensOutBounds ==
  ASSUME NEW c \in Curve, NEW z \in Nat
  PROVE  TokensOut(c, z) \in 0..TokenSide(c)
  <1> DEFINE tb == TokenSide(c)
             zs == ZecSide(c)
             q == TokensOut(c, z)
             d == zs + z
  <1>1. tb \in Nat /\ zs \in Nat \ {0} /\ d \in Nat \ {0} /\ z <= d
    BY CurveAssumption DEF Curve, TokenSide, ZecSide
  <1>2. q = Rounded(tb * z, d)
    BY DEF TokensOut
  <1>3. tb * z \in Nat
    BY <1>1
  <1> HIDE DEF tb, zs, q, d
  <1>4. q \in Int /\ 2 * (d * q) <= 2 * (tb * z) + d /\ 2 * (d * q) > 2 * (tb * z) - d
    <2> DEFINE n == tb * z
    <2>1. n \in Int
      BY <1>3
    <2> HIDE DEF n
    <2>2. /\ Rounded(n, d) \in Int
          /\ 2 * (d * Rounded(n, d)) <= 2 * n + d
          /\ 2 * (d * Rounded(n, d)) > 2 * n - d
      BY <1>1, <2>1, RoundedFacts
    <2> QED BY <1>2, <2>2 DEF n
  <1>5. d * q \in Int
    BY <1>1, <1>4
  <1>6. q >= 0
    <2>1. ASSUME q < 0 PROVE FALSE
      <3>1. q + 1 <= 0 /\ q + 1 \in Int
        BY <1>4, <2>1
      <3>2. d * (q + 1) <= 0
        BY <1>1, <3>1
      <3>3. d * (q + 1) = d * q + d
        BY <1>1, <1>4
      <3> QED BY <1>1, <1>3, <1>4, <1>5, <3>2, <3>3
    <2> QED BY <1>4, <2>1
  <1>7. q <= tb
    <2>1. ASSUME q > tb PROVE FALSE
      <3>1. q - 1 - tb \in Nat
        BY <1>1, <1>4, <2>1
      <3>2. d * (q - 1 - tb) >= 0
        BY <1>1, <3>1
      <3>3. d * (q - 1 - tb) = d * q - d - d * tb
        BY <1>1, <1>4
      <3>4. d * tb >= tb * z /\ d * tb \in Int
        <4>1. (d - z) * tb >= 0
          BY <1>1
        <4>2. (d - z) * tb = d * tb - tb * z
          BY <1>1
        <4>3. d * tb \in Int
          BY <1>1
        <4> QED BY <4>1, <4>2, <4>3, <1>3
      <3> QED BY <1>1, <1>3, <1>4, <1>5, <3>2, <3>3, <3>4
    <2> QED BY <1>1, <1>4, <2>1
  <1> QED BY <1>1, <1>4, <1>6, <1>7 DEF q, tb

LEMMA AfterBuyType ==
  ASSUME NEW c \in Curve, NEW z \in Nat
  PROVE  AfterBuy(c, z) \in Curve
  BY TokensOutBounds, CurveAssumption DEF Curve, AfterBuy, TokenSide

\* A sell the code lets through takes something between nothing and the
\* whole reserve.
LEMMA ZecOutBounds ==
  ASSUME NEW c \in Curve, NEW t \in Nat
  PROVE  t > 0 => ZecOut(c, t) \in 0..c.reserve
  <1> SUFFICES ASSUME t > 0 PROVE ZecOut(c, t) \in 0..c.reserve
    OBVIOUS
  <1> DEFINE g == Gross(c, t)
             d == TokenSide(c) + t
  <1>1. c.reserve \in Nat /\ ZecSide(c) \in Nat /\ d \in Nat \ {0}
    BY CurveAssumption DEF Curve, ZecSide, TokenSide
  <1>2. g \in Nat
    BY <1>1 DEF Gross
  <1> HIDE DEF g, d
  <1>3. g <= d * g
    BY <1>1, <1>2
  <1>4. g \div d \in 0..g
    BY <1>1, <1>2, <1>3, DivBounds
  <1>5. ZecOut(c, t) = IF g \div d > c.reserve THEN c.reserve ELSE g \div d
    BY DEF ZecOut, g, d
  <1> QED BY <1>1, <1>2, <1>4, <1>5

LEMMA AfterSellType ==
  ASSUME NEW c \in Curve, NEW t \in Nat, CanSell(c, t)
  PROVE  AfterSell(c, t) \in Curve /\ AfterSell(c, t).reserve <= c.reserve
  <1>1. t > 0 /\ t <= c.sold
    BY DEF CanSell
  <1>2. ZecOut(c, t) \in 0..c.reserve
    BY <1>1, ZecOutBounds
  <1> QED BY <1>1, <1>2, CurveAssumption DEF Curve, AfterSell

LEMMA AfterUndoType ==
  ASSUME NEW c \in Curve, NEW z \in Nat, NEW t \in Nat
  PROVE  AfterUndo(c, z, t) \in Curve
  BY CurveAssumption DEF Curve, AfterUndo, Least0
=============================================================================
