--------------------------- MODULE IntervalProgram ---------------------------
(* A program that calls the functions of Interval, one call at a time, and what their
   results have to do with the exact results for the numbers in the arguments.

   The exact numbers that are looked at are Points, finer than the doubles and reaching
   further. *)
EXTENDS Interval

CONSTANTS Points,        \* integers, including all of Finite
          Ints,          \* the arguments of from_int64
          Exponents,     \* integers
          Some,          \* the intervals passed to fma
          Terms          \* the sequences of intervals passed to add_many

ASSUME ProgramAssumption == /\ Finite \subseteq Points /\ Points \subseteq Int
                            /\ Ints \subseteq Int /\ Exponents \subseteq Int
                            /\ Some \subseteq Intervals /\ Terms \subseteq Seq(Intervals)

VARIABLE calc        \* the call in progress with its arguments and result, or NULL

Call(f, args, n, result) ==
  calc = NULL /\ calc' = [f |-> f, args |-> args, n |-> n, result |-> result]

Convert1(x) == \/ Call("from_double", <<>>, x, FromDouble(x))
               \/ Call("exact", <<>>, x, Exact(x))

Unary(a) == \/ Call("sqrt", <<a>>, 0, IntervalSqrt(a))
            \/ Call("floor", <<a>>, 0, IntervalFloor(a))
            \/ Call("ceil", <<a>>, 0, IntervalCeil(a))
            \/ Call("neg", <<a>>, 0, IntervalNeg(a))
            \/ Call("fabs", <<a>>, 0, IntervalFabs(a))

Raise(a, e) == \/ e >= 0 /\ Call("pow_uint", <<a>>, e, IntervalPowUint(a, e))
               \/ Call("pow_int", <<a>>, e, IntervalPowInt(a, e))

Binary(a, b) == \/ Call("add", <<a, b>>, 0, IntervalAdd(a, b))
                \/ Call("sub", <<a, b>>, 0, IntervalSub(a, b))
                \/ Call("mul", <<a, b>>, 0, IntervalMul(a, b))
                \/ Call("div", <<a, b>>, 0, IntervalDiv(a, b))
                \/ Call("fmax", <<a, b>>, 0, IntervalFmax(a, b))
                \/ Call("fmin", <<a, b>>, 0, IntervalFmin(a, b))

\* add_many of three and more allocates, and may fail.
AddMany(s) == \/ Call("add_many", s, 0, IntervalAddMany(s))
              \/ Len(s) >= 3 /\ Call("add_many without memory", s, 0, Invalid)

Return == calc # NULL /\ calc' = NULL

IntervalInit == calc = NULL

IntervalNext ==
  \/ \E x \in Doubles \cup {NaN} : Convert1(x)
  \/ \E i \in Ints : Call("from_int64", <<>>, i, FromInt(i))
  \/ \E a \in Intervals : Unary(a)
  \/ \E a \in Intervals, e \in Exponents : Raise(a, e)
  \/ \E a, b \in Intervals : Binary(a, b)
  \/ \E a, b, c \in Some : Call("fma", <<a, b, c>>, 0, IntervalFma(a, b, c))
  \/ \E s \in Terms : AddMany(s)
  \/ Return

IntervalSpec == IntervalInit /\ [][IntervalNext]_calc

-----------------------------------------------------------------------------
(* Exact results.  p holds a number out of each argument. *)

Within(a) == {x \in Points : a.lo <= x /\ x <= a.hi}

Numbers(args) ==
  LET First[i \in 0 .. Len(args)] ==
        IF i = 0 THEN {<<>>}
        ELSE {Append(p, x) : p \in First[i - 1], x \in Within(args[i])}
  IN  First[Len(args)]

Sum(p) == LET To[i \in 0 .. Len(p)] == IF i = 0 THEN 0 ELSE To[i - 1] + p[i] IN To[Len(p)]

Fraction(n, d) == IF d > 0 THEN <<n, d>> ELSE <<-n, -d>>

Defined(f, p, e) == CASE f = "div" -> p[2] # 0
                      [] f = "sqrt" -> p[1] >= 0
                      [] f = "pow_int" -> e >= 0 \/ p[1] # 0
                      [] f \in {"from_double", "exact"} -> e \in Points
                      [] f = "add_many" -> p # <<>>
                      [] OTHER -> TRUE

(* The exact value in units, as a fraction; for sqrt its square *)
Value(f, p, e) ==
  CASE f \in {"from_double", "exact"} -> <<e, 1>>
    [] f = "from_int64" -> <<e * One, 1>>
    [] f \in {"add", "add_many"} -> <<Sum(p), 1>>
    [] f = "sub" -> <<p[1] - p[2], 1>>
    [] f = "mul" -> <<p[1] * p[2], One>>
    [] f = "fma" -> <<p[1] * p[2] + p[3] * One, One>>
    [] f = "div" -> Fraction(p[1] * One, p[2])
    [] f = "fmax" -> <<IF p[1] > p[2] THEN p[1] ELSE p[2], 1>>
    [] f = "fmin" -> <<IF p[1] < p[2] THEN p[1] ELSE p[2], 1>>
    [] f = "sqrt" -> <<p[1] * One, 1>>
    [] f = "floor" -> <<One * (p[1] \div One), 1>>
    [] f = "ceil" -> <<-(One * ((-p[1]) \div One)), 1>>
    [] f = "neg" -> <<-p[1], 1>>
    [] f = "fabs" -> <<IF p[1] < 0 THEN -p[1] ELSE p[1], 1>>
    [] OTHER -> IF e = 0 THEN <<One, 1>>
                ELSE IF e > 0 THEN <<p[1] ^ e, One ^ (e - 1)>>
                ELSE Fraction(One ^ (1 - e), p[1] ^ (-e))

(* A double is at most, at least a value; for sqrt its square is compared. *)
Scaled(f, x) == IF f = "sqrt" THEN x * x ELSE x

AtMost(f, x, v) == \/ x = -Inf
                   \/ f = "sqrt" /\ x <= 0
                   \/ x < Inf /\ Scaled(f, x) * v[2] <= v[1]
AtLeast(f, x, v) == \/ x = Inf
                    \/ /\ x > -Inf /\ (f = "sqrt" => x >= 0)
                       /\ Scaled(f, x) * v[2] >= v[1]

Values(c) == {Value(c.f, p, c.n) : p \in {q \in Numbers(c.args) : Defined(c.f, q, c.n)}}

ArgumentsValid(c) == (\A i \in DOMAIN c.args : c.args[i].valid) /\ c.n # NaN

\* No infinite end, and enough memory
Plain(c) == /\ \A i \in DOMAIN c.args : ~Infinite(c.args[i].lo) /\ ~Infinite(c.args[i].hi)
            /\ ~Infinite(c.n)
            /\ c.f # "add_many without memory"

(* A valid result contains every exact result for the numbers in the arguments; the result
   for an invalid argument is not valid.  Rounding, signs, infinite ends and
   divisors around 0 meet in the bounds of each function. *)
Encloses ==
  calc # NULL /\ calc.result.valid =>
    /\ ArgumentsValid(calc)
    /\ \A v \in Values(calc) : /\ AtMost(calc.f, calc.result.lo, v)
                               /\ AtLeast(calc.f, calc.result.hi, v)

(* Without infinite ends a result is invalid only if there is none for any of the
   numbers, also when a step on the way overflowed. *)
ValidIfDefined ==
  calc # NULL /\ Plain(calc) /\ ArgumentsValid(calc) =>
    (calc.result.valid <=> Values(calc) # {})

(* The bounds of a function with one rounding are the doubles next to the exact
   bounds: computing both from the ends, sign by sign, gives nothing away. *)
Narrow ==
  LET once == \/ calc.f \notin {"from_double", "add_many", "pow_int", "pow_uint"}
              \/ calc.f = "pow_uint" /\ calc.n <= 2
  IN  calc # NULL /\ calc.result.valid /\ Plain(calc) /\ once =>
        /\ \E v \in Values(calc) : ~AtMost(calc.f, NextUp(calc.result.lo), v)
        /\ \E v \in Values(calc) : ~AtLeast(calc.f, NextDown(calc.result.hi), v)

(* Nothing is given away: what is defined has a result, and that is as narrow as one
   rounding allows. *)
Tight == ValidIfDefined /\ Narrow
=============================================================================
