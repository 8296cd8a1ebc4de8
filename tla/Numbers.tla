------------------------------ MODULE Numbers -------------------------------
(***************************************************************************)
(* Exact numbers (num.rs). The same number can have several representations:   *)
(* an integer of the machine (i64, here of Width bits), an integer of any size, *)
(* or a rational with denominator 1. Each operation chooses the representation *)
(* of its result. A program computes with one accumulator and literals.        *)
(***************************************************************************)
EXTENDS Integers

CONSTANTS
    Width,     \* bits of the machine's integers
    Operands,  \* the numbers that the program combines the accumulator with
    MaxPart,   \* bound: the largest numerator or denominator of an accumulator that is computed with
    MaxPower   \* bound: the largest exponent

VARIABLES
    acc,   \* the accumulator: a number, or what an operation has returned instead
    value  \* the number it stands for

numberVars == <<acc, value>>

-----------------------------------------------------------------------------
(* The rationals, pairs <<n, d>> in lowest terms, and their integers. *)

Sign(n) == IF n < 0 THEN -1 ELSE 1
Magnitude(n) == IF n < 0 THEN -n ELSE n
CommonDivisors(n, d) == {g \in 1..Magnitude(d) : n % g = 0 /\ d % g = 0}
Gcd(n, d) == LET S == CommonDivisors(n, d) IN CHOOSE g \in S : \A h \in S : h <= g
Lowest(n, d) == LET g == Gcd(n, d) IN <<Sign(d) * (n \div g), Magnitude(d) \div g>>
Rationals == {q \in Int \X (Nat \ {0}) : CommonDivisors(q[1], q[2]) = {1}}
Whole(n) == <<n, 1>>

Plus(p, q) == Lowest(p[1] * q[2] + q[1] * p[2], p[2] * q[2])
Minus(p, q) == Lowest(p[1] * q[2] - q[1] * p[2], p[2] * q[2])
Times(p, q) == Lowest(p[1] * q[1], p[2] * q[2])
Over(p, q) == Lowest(p[1] * q[2], p[2] * q[1])
Below(p, q) == p[1] * q[2] < q[1] * p[2]

FloorOf(p) == p[1] \div p[2]
CeilingOf(p) == -((-p[1]) \div p[2])
TruncateOf(p) == IF p[1] >= 0 THEN FloorOf(p) ELSE CeilingOf(p)
\* The nearest integer, the even one of two.
NearestOf(p) ==
    LET twice == 2 * (p[1] % p[2])
        f == FloorOf(p)
    IN IF twice < p[2] \/ (twice = p[2] /\ f % 2 = 0) THEN f ELSE f + 1

Power(p, e) ==
    LET to[i \in 0..e] == IF i = 0 THEN Whole(1) ELSE Times(to[i - 1], p) IN to[e]
RootOf(n) == CHOOSE r \in 0..n : r * r <= n /\ n < (r + 1) * (r + 1)

-----------------------------------------------------------------------------
(* Representations. Real numbers (f64) are only known to be inexact. *)

Fixed(n) == [rep |-> "fixed", q |-> Whole(n)]
Big(n) == [rep |-> "big", q |-> Whole(n)]
Rational(q) == [rep |-> "rational", q |-> q]
Complex(re, im) == [rep |-> "complex", re |-> re, im |-> im]
Inexact == [rep |-> "real"]
Failed == [rep |-> "error"]  \* an exception was raised

Simple ==
    [rep : {"fixed", "big"}, q : {q \in Rationals : q[2] = 1}] \cup [rep : {"rational"}, q : Rationals]
Exact == Simple \cup [rep : {"complex"}, re : Simple, im : Simple]

\* A machine integer has a sign, and operands are exact numbers.
ASSUME NumbersAssumption == Width \in Nat \ {0} /\ Operands \subseteq Exact

FitsFixed(n) == -(2 ^ (Width - 1)) <= n /\ n < 2 ^ (Width - 1)
IsSimple(x) == x.rep \in {"fixed", "big", "rational"}
IsInteger(x) == x.q[2] = 1
IsZero(x) == x.q = Whole(0)
IsPositive(x) == IF x.rep = "fixed" THEN x.q[1] > 0 ELSE x.q[1] >= 0

\* Conversion to a simple number, which takes a complex number whose imaginary part is an exact zero.
AsSimple(x) ==
    IF IsSimple(x) THEN x ELSE IF x.rep = "complex" /\ IsZero(x.im) THEN x.re ELSE Failed

\* Conversion to Integer, by value.
AsInteger(x) == IF AsSimple(x) # Failed /\ IsInteger(AsSimple(x)) THEN Big(AsSimple(x).q[1]) ELSE Failed

\* The reader tries i64, Integer and Rational in turn, for the digits without their sign.
Literal(n, d) ==
    IF d # 1 THEN Rational(Lowest(n, d)) ELSE IF FitsFixed(Magnitude(n)) THEN Fixed(n) ELSE Big(n)

-----------------------------------------------------------------------------
(* Operations on simple numbers. *)

\* Addition, subtraction and multiplication: machine integers when both operands and the result fit,
\* but two big operands stay big.
Arithmetic(x, y, v) ==
    CASE "rational" \in {x.rep, y.rep} -> Rational(v)
      [] {x.rep, y.rep} = {"big"} -> Big(v[1])
      [] OTHER -> IF FitsFixed(x.q[1]) /\ FitsFixed(y.q[1]) /\ FitsFixed(v[1]) THEN Fixed(v[1]) ELSE Big(v[1])

\* Mutant of SimpleAdd: the sum of two machine integers wraps.
SimpleAdd_Wraps(x, y) ==
    LET v == Plus(x.q, y.q) IN
    CASE "rational" \in {x.rep, y.rep} -> Rational(v)
      [] {x.rep, y.rep} = {"fixed"} ->
            Fixed(((v[1] + 2 ^ (Width - 1)) % 2 ^ Width) - 2 ^ (Width - 1))
      [] OTHER -> Big(v[1])

SimpleAdd(x, y) == Arithmetic(x, y, Plus(x.q, y.q))
SimpleSub(x, y) == Arithmetic(x, y, Minus(x.q, y.q))
SimpleMul(x, y) == Arithmetic(x, y, Times(x.q, y.q))
SimpleDiv(x, y) == Rational(Over(x.q, y.q))

SimpleNeg(x) ==
    LET v == Minus(Whole(0), x.q) IN
    IF x.rep = "fixed" THEN IF FitsFixed(v[1]) THEN Fixed(v[1]) ELSE Big(v[1]) ELSE [x EXCEPT !.q = v]

SimpleLess(x, y) == Below(x.q, y.q)
SimpleEqual(x, y) == x.q = y.q

\* to_integer, where n is the number rounded: an integer keeps its representation.
ToInteger(x, n) == IF x.rep = "rational" THEN Big(n) ELSE x

DivEuclid(x, y) ==
    LET quotient == SimpleDiv(x, y)
    IN IF IsPositive(y) THEN ToInteger(quotient, FloorOf(quotient.q)) ELSE ToInteger(quotient, CeilingOf(quotient.q))

\* mod takes the difference whichever way it is positive.
Modulo(x, y) ==
    LET product == SimpleMul(y, DivEuclid(x, y))
    IN IF SimpleLess(product, x) THEN SimpleSub(x, product) ELSE SimpleSub(product, x)

Powi(x, e) ==
    LET v == Power(x.q, e) IN
    CASE x.rep = "rational" -> Rational(v)
      [] x.rep = "fixed" /\ FitsFixed(v[1]) -> Fixed(v[1])
      [] OTHER -> Big(v[1])

\* A power of an integer is big; a rational exponent, or a big one of a rational base, goes through f64.
Pow(x, y) ==
    LET e == y.q[1] IN
    CASE IsZero(x) -> IF IsZero(y) THEN Fixed(1) ELSE IF IsPositive(y) THEN Fixed(0) ELSE Inexact
      [] ~IsZero(x) /\ y.rep # "rational" /\ (x.rep = "rational" => y.rep = "fixed") ->
            IF x.rep = "rational"
            THEN Rational(IF e >= 0 THEN Power(x.q, e) ELSE Power(Over(Whole(1), x.q), -e))
            ELSE IF e >= 0 THEN Big(Power(x.q, e)[1])
                 ELSE Rational(Over(Whole(1), Power(x.q, -e)))
      [] OTHER -> Inexact

-----------------------------------------------------------------------------
(* Complex numbers. They are not turned into simple ones when their imaginary part vanishes. *)

AsComplex(x) == IF IsSimple(x) THEN Complex(x, Fixed(0)) ELSE x

ComplexAdd(x, y) == Complex(SimpleAdd(x.re, y.re), SimpleAdd(x.im, y.im))
ComplexSub(x, y) == Complex(SimpleSub(x.re, y.re), SimpleSub(x.im, y.im))

ComplexMul(x, y) ==
    Complex(SimpleSub(SimpleMul(x.re, y.re), SimpleMul(x.im, y.im)),
            SimpleAdd(SimpleMul(x.re, y.im), SimpleMul(x.im, y.re)))

ComplexDiv(x, y) ==
    LET norm == SimpleAdd(Powi(y.re, 2), Powi(y.im, 2))
        re == SimpleAdd(SimpleMul(x.re, y.re), SimpleMul(x.im, y.im))
        im == SimpleSub(SimpleMul(x.im, y.re), SimpleMul(x.re, y.im))
    IN Complex(SimpleDiv(re, norm), SimpleDiv(im, norm))

ComplexNeg(x) == Complex(SimpleNeg(x.re), SimpleNeg(x.im))

\* An operation on numbers: the complex one as soon as one operand is complex.
NumberAdd(x, y) ==
    IF IsSimple(x) /\ IsSimple(y) THEN SimpleAdd(x, y) ELSE ComplexAdd(AsComplex(x), AsComplex(y))
NumberSub(x, y) ==
    IF IsSimple(x) /\ IsSimple(y) THEN SimpleSub(x, y) ELSE ComplexSub(AsComplex(x), AsComplex(y))
NumberMul(x, y) ==
    IF IsSimple(x) /\ IsSimple(y) THEN SimpleMul(x, y) ELSE ComplexMul(AsComplex(x), AsComplex(y))
NumberDiv(x, y) ==
    IF IsSimple(x) /\ IsSimple(y) THEN SimpleDiv(x, y) ELSE ComplexDiv(AsComplex(x), AsComplex(y))

NumberIsZero(x) == IF IsSimple(x) THEN IsZero(x) ELSE IsZero(x.re) /\ IsZero(x.im)

-----------------------------------------------------------------------------
(* Comparison and hashing. *)

IsReal(x) == IsSimple(x) \/ IsZero(x.im)
RealPart(x) == IF IsSimple(x) THEN x ELSE x.re

NumberEqual(x, y) ==
    CASE IsReal(x) /\ IsReal(y) -> SimpleEqual(RealPart(x), RealPart(y))
      [] ~IsSimple(x) /\ ~IsSimple(y) -> SimpleEqual(x.re, y.re) /\ SimpleEqual(x.im, y.im)
      [] OTHER -> FALSE

\* lesser?, of two numbers that are real.
NumberLess(x, y) == SimpleLess(RealPart(x), RealPart(y))

\* Between exact numbers, eqv is equality.
Eqv(x, y) == NumberEqual(x, y)

\* Mutant of SimpleHash: a rational is hashed as one, even when it is an integer.
SimpleHash_RationalsApart(x) ==
    CASE x.rep = "rational" -> <<2, x.q>>
      [] x.rep # "rational" /\ FitsFixed(x.q[1]) -> <<0, x.q[1]>>
      [] OTHER -> <<1, x.q[1]>>

\* What eqv-hash is computed from.
SimpleHash(x) ==
    CASE ~IsInteger(x) -> <<2, x.q>>
      [] IsInteger(x) /\ FitsFixed(x.q[1]) -> <<0, x.q[1]>>
      [] OTHER -> <<1, x.q[1]>>

-----------------------------------------------------------------------------
(* What the operations should compute: arithmetic on pairs of rationals. *)

Exactly(x) ==
    CASE IsSimple(x) -> <<x.q, Whole(0)>>
      [] x.rep = "complex" -> <<x.re.q, x.im.q>>
      [] OTHER -> <<>>  \* no number

RefMul(v, w) == <<Minus(Times(v[1], w[1]), Times(v[2], w[2])), Plus(Times(v[1], w[2]), Times(v[2], w[1]))>>
RefDiv(v, w) ==
    LET norm == Plus(Times(w[1], w[1]), Times(w[2], w[2]))
    IN [i \in 1..2 |-> Over(RefMul(v, <<w[1], Minus(Whole(0), w[2])>>)[i], norm)]

\* The quotient q for which 0 <= p - q * r < |r|.
RefQuotient(p, r) ==
    LET near == FloorOf(Over(p, r)) - 1
    IN CHOOSE q \in near..(near + 2) :
          LET rest == Minus(p, Times(Whole(q), r))
          IN rest[1] >= 0 /\ Below(rest, <<Magnitude(r[1]), r[2]>>)

RefPower(p, e) == IF e >= 0 THEN Power(p, e) ELSE Power(Over(Whole(1), p), -e)

-----------------------------------------------------------------------------
Within(q) == Magnitude(q[1]) <= MaxPart /\ q[2] <= MaxPart
Narrow(q) == Magnitude(q[1]) <= 2 /\ q[2] <= 2

\* The program goes on with a number within the bounds.
Going ==
    \/ IsSimple(acc) /\ Within(acc.q)
    \/ acc.rep = "complex" /\ Narrow(acc.re.q) /\ Narrow(acc.im.q)

NumberInit == \E y \in Operands : acc = y /\ value = Exactly(y)

Returns(x, v) == acc' = x /\ value' = v

\* The sum starts from zero and the product from one: a big accumulator that fits becomes fixed.
AddTo(y) ==
    Returns(NumberAdd(NumberAdd(Fixed(0), acc), y), [i \in 1..2 |-> Plus(value[i], Exactly(y)[i])])

MultiplyBy(y) ==
    Returns(NumberMul(NumberMul(Fixed(1), acc), y), RefMul(value, Exactly(y)))

SubtractFrom(y) ==
    Returns(NumberSub(y, acc), [i \in 1..2 |-> Minus(Exactly(y)[i], value[i])])

Negate ==
    Returns(IF IsSimple(acc) THEN SimpleNeg(acc) ELSE ComplexNeg(acc),
            [i \in 1..2 |-> Minus(Whole(0), value[i])])

DivideBy(y) ==
    IF NumberIsZero(y) THEN Returns(Failed, <<>>)
    ELSE Returns(NumberDiv(acc, y), RefDiv(value, Exactly(y)))

\* div and mod of real numbers; others, and a divisor of zero, raise an exception.
IntegerDivideBy(y) ==
    /\ Failed \notin {AsSimple(acc), AsSimple(y)} /\ ~NumberIsZero(y)
    /\ LET x == AsSimple(acc)
           z == AsSimple(y)
           q == Whole(RefQuotient(value[1], z.q))
       IN \/ Returns(DivEuclid(x, z), <<q, Whole(0)>>)
          \/ Returns(Modulo(x, z), <<Minus(value[1], Times(q, z.q)), Whole(0)>>)

\* expt of real numbers. An inexact result stands for no exact one.
RaiseTo(y) ==
    /\ Failed \notin {AsSimple(acc), AsSimple(y)} /\ IsSimple(acc) /\ IsSimple(y)
    /\ IsInteger(y) => Magnitude(y.q[1]) <= MaxPower
    /\ LET power == Pow(acc, y)
       IN Returns(power, IF power = Inexact THEN <<>>
                         ELSE <<RefPower(value[1], y.q[1]), Whole(0)>>)

\* floor, ceiling, truncate, round, numerator and denominator of a real number.
Part ==
    /\ AsSimple(acc) # Failed
    /\ LET x == AsSimple(acc)
           Is(y, p) == Returns(y, <<p, Whole(0)>>)
       IN \/ \/ Is(ToInteger(x, FloorOf(x.q)), Whole(FloorOf(value[1])))
             \/ Is(ToInteger(x, CeilingOf(x.q)), Whole(CeilingOf(value[1])))
             \/ Is(ToInteger(x, TruncateOf(x.q)), Whole(TruncateOf(value[1])))
             \/ Is(ToInteger(x, NearestOf(x.q)), Whole(NearestOf(value[1])))
          \/ Is(IF x.rep = "rational" THEN Big(x.q[1]) ELSE x, Whole(value[1][1]))
          \/ Is(IF x.rep = "rational" THEN Big(x.q[2]) ELSE Fixed(1), Whole(value[1][2]))

\* exact-integer-sqrt: the root, or what is left.
Root ==
    /\ AsInteger(acc) # Failed /\ AsInteger(acc).q[1] >= 0
    /\ LET root == RootOf(AsInteger(acc).q[1])
       IN \/ Returns(Big(root), <<Whole(RootOf(value[1][1])), Whole(0)>>)
          \/ Returns(Big(AsInteger(acc).q[1] - root * root),
                     <<Minus(value[1], Times(Whole(root), Whole(root))), Whole(0)>>)

MakeRectangular(y) ==
    /\ Failed \notin {AsSimple(acc), AsSimple(y)}
    /\ Returns(Complex(AsSimple(acc), AsSimple(y)), <<value[1], Exactly(y)[1]>>)

\* real-part and imag-part; the latter takes only numbers that are represented as complex.
RealPartOf == Returns(RealPart(acc), <<value[1], Whole(0)>>)
ImagPartOf == acc.rep = "complex" /\ Returns(acc.im, <<value[2], Whole(0)>>)

\* The conversion to an unsigned integer of Bits bits, narrower than the machine's, and back.
ThroughNarrow ==
    LET x == AsSimple(acc)
        fits == x # Failed /\ x.rep # "rational" /\ x.q[1] \in 0..(2 ^ (Width - 2) - 1)
    IN IF fits THEN Returns(Fixed(x.q[1]), value) ELSE Returns(Failed, <<>>)

NumberNext ==
    /\ Going
    /\ \/ Negate \/ Part \/ Root \/ RealPartOf \/ ImagPartOf \/ ThroughNarrow
       \/ \E y \in Operands :
             \/ AddTo(y) \/ MultiplyBy(y) \/ SubtractFrom(y) \/ DivideBy(y)
             \/ IntegerDivideBy(y) \/ RaiseTo(y) \/ MakeRectangular(y)

NumberSpec == NumberInit /\ [][NumberNext]_numberVars

-----------------------------------------------------------------------------
\* The result of every operation is the number it should be, in lowest terms, whichever representations
\* the operands had and however large it is (overflow): only a power may be inexact.
ResultsExact == acc # Inexact => Exactly(acc) = value

\* Comparison sees the numbers and not their representations, and two simple numbers that are the same to
\* eqv? have the same eqv-hash.
ComparisonsAgree ==
    \A y \in Operands : IsSimple(acc) /\ IsSimple(y) =>
       /\ NumberEqual(acc, y) <=> value = Exactly(y)
       /\ NumberLess(acc, y) <=> Below(value[1], y.q)
       /\ Eqv(acc, y) => SimpleHash(acc) = SimpleHash(y)
=============================================================================
