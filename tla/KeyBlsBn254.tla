----------------------------- MODULE KeyBlsBn254 -----------------------------
(***************************************************************************)
(* KeyBlsBn254.sol and what it uses of BN254.sol: points of the curve      *)
(* y^2 = x^3 + 3 over a prime field and their compression to an abscissa   *)
(* and a bit.  The prime is a parameter; like the real one it is 3 modulo  *)
(* 4, so that one exponentiation gives a square root.                      *)
(***************************************************************************)
EXTENDS Integers

CONSTANT FP_MODULUS

ASSUME FieldAssumption ==
    /\ FP_MODULUS \in Nat /\ FP_MODULUS % 4 = 3
    /\ \A d \in 2..(FP_MODULUS - 1) : FP_MODULUS % d # 0

G1Point(x, y) == [X |-> x, Y |-> y]

zeroKey == G1Point(0, 0)

(* wrap lets a point through, or the zero point.                           *)
CanWrap(point) ==
    \/ point = zeroKey
    \/ /\ point.X < FP_MODULUS /\ point.Y < FP_MODULUS
       /\ (point.Y * point.Y - (point.X * point.X * point.X + 3)) % FP_MODULUS = 0

Points ==
    {point \in [X : 0..(FP_MODULUS - 1), Y : 0..(FP_MODULUS - 1)] : CanWrap(point)}

(* Two precompiles of the EVM.                                             *)
expMod(base, exponent) ==
    LET power[n \in 0..exponent] ==
          IF n = 0 THEN 1 ELSE (base * power[n - 1]) % FP_MODULUS
    IN  power[exponent]

plus(p, q) ==
    LET Quotient(a, b) == (a * expMod(b % FP_MODULUS, FP_MODULUS - 2)) % FP_MODULUS
        slope == IF p = q THEN Quotient(3 * p.X * p.X, 2 * p.Y)
                          ELSE Quotient(q.Y - p.Y, q.X - p.X)
        x == (slope * slope - p.X - q.X) % FP_MODULUS
    IN  CASE p = zeroKey -> q
          [] q = zeroKey -> p
          [] p # zeroKey /\ q # zeroKey /\ p.X = q.X /\ (p # q \/ p.Y = 0) -> zeroKey
          [] OTHER -> G1Point(x, (slope * (p.X - x) - p.Y) % FP_MODULUS)

negate(point) ==
    IF point = zeroKey THEN zeroKey
                       ELSE G1Point(point.X, FP_MODULUS - (point.Y % FP_MODULUS))

-----------------------------------------------------------------------------
(* The root that the exponentiation gives.                                 *)
findYFromX(x) ==
    expMod((x * x * x + 3) % FP_MODULUS, (FP_MODULUS + 1) \div 4)

serialize(key) ==
    IF key = zeroKey THEN 0
    ELSE 2 * key.X + (IF findYFromX(key.X) = key.Y THEN 0 ELSE 1)

(* Mutant: the bit is taken for the parity of the ordinate.                *)
deserializeByParity(compressedKey) ==
    LET point == G1Point(compressedKey \div 2, findYFromX(compressedKey \div 2))
    IN  IF compressedKey = 0 THEN zeroKey
        ELSE IF point.Y % 2 = compressedKey % 2 THEN point ELSE negate(point)

deserialize(compressedKey) ==
    LET point == G1Point(compressedKey \div 2, findYFromX(compressedKey \div 2))
    IN  IF compressedKey = 0 THEN zeroKey
        ELSE IF compressedKey % 2 > 0 THEN negate(point) ELSE point

(* The points are a group, and the exponentiation finds a root whenever    *)
(* there is one.  As on BN254, where their number is a large prime, no     *)
(* point has order two or three.                                           *)
ASSUME CurveAssumption ==
    LET sum == [p \in Points |-> [q \in Points |-> plus(p, q)]]
    IN  /\ \A p, q \in Points : sum[p][q] \in Points /\ sum[p][q] = sum[q][p]
        /\ \A p, q, r \in Points : sum[sum[p][q]][r] = sum[p][sum[q][r]]
        /\ \A p \in Points \ {zeroKey} :
              /\ p.X # 0 /\ p.Y # 0
              /\ findYFromX(p.X) \in {p.Y, FP_MODULUS - p.Y}
=============================================================================
