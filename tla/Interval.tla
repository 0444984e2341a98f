------------------------------ MODULE Interval ------------------------------
(* The interval arithmetic of src/include/interval.h: every function on intervals as
   an operator, and a program that calls one after the other.

   A double is an integer, the number of some unit small enough for all of them: there
   are few doubles, 1.0 is One units, and Inf is a number above all of them.  A
   real number is a fraction n / d of units.  Every operation of the
   machine is exact but for one rounding, in the direction that the code has set. *)
EXTENDS Heap

CONSTANTS Finite,      \* the finite doubles
          One, Inf, NaN

ASSUME IntervalAssumption ==
  /\ Finite \subseteq Int /\ 0 \in Finite /\ One \in Finite /\ One > 0
  /\ \A x \in Finite : -x \in Finite
  /\ Inf \in Int /\ \A x \in Finite : x < Inf
  /\ NaN \notin Int

Doubles == Finite \cup {Inf, -Inf}

-----------------------------------------------------------------------------
(* The machine *)

Smallest(S) == CHOOSE x \in S : \A y \in S : x <= y
Largest(S) == CHOOSE x \in S : \A y \in S : x >= y

(* n / d rounded upward and downward, d > 0: past the last double to infinity *)
Up(n, d) == LET above == {x \in Finite : x * d >= n}
            IN  IF above = {} THEN Inf ELSE Smallest(above)
Down(n, d) == -Up(-n, d)

NextUp(x) == LET above == {y \in Finite : y > x}
             IN  IF above = {} THEN Inf ELSE Smallest(above)
NextDown(x) == -NextUp(-x)

Infinite(x) == x \in {Inf, -Inf}
Toward(x, y) == IF (x > 0) = (y > 0) THEN Inf ELSE -Inf      \* x * y or x / y, infinite

PlusUp(x, y) == IF Infinite(x) THEN (IF y = -x THEN NaN ELSE x)
                ELSE IF Infinite(y) THEN y
                ELSE Up(x + y, 1)

(* x * y + z; Rounded rounds a fraction. *)
TimesPlus(x, y, z, Rounded(_, _)) ==
  LET product == IF ~(Infinite(x) \/ Infinite(y)) THEN 0
                 ELSE IF x = 0 \/ y = 0 THEN NaN ELSE Toward(x, y)
  IN  IF product = NaN THEN NaN
      ELSE IF product # 0 THEN (IF z = -product THEN NaN ELSE product)
      ELSE IF Infinite(z) THEN z
      ELSE Rounded(x * y + z * One, One)

Times(x, y, Rounded(_, _)) == TimesPlus(x, y, 0, Rounded)

(* x / y for y # 0 *)
Over(x, y, Rounded(_, _)) ==
  IF Infinite(y) THEN (IF Infinite(x) THEN NaN ELSE 0)
  ELSE IF Infinite(x) THEN Toward(x, y)
  ELSE IF y > 0 THEN Rounded(x * One, y) ELSE Rounded(-x * One, -y)

RootUp(x) == LET above == {y \in Finite : y >= 0 /\ y * y >= x * One}
             IN  IF above = {} THEN Inf ELSE Smallest(above)
RootDown(x) == IF x = Inf THEN Inf ELSE Largest({y \in Finite : y >= 0 /\ y * y <= x * One})

Floor(x) == IF Infinite(x) THEN x ELSE One * (x \div One)
Ceil(x) == -Floor(-x)

Negative(x) == IF x = NaN THEN NaN ELSE -x
FMax(x, y) == IF x >= y THEN x ELSE y
FMin(x, y) == IF x <= y THEN x ELSE y

-----------------------------------------------------------------------------
(* The functions of interval.h *)

Range(lo, hi) == [lo |-> lo, hi |-> hi, valid |-> TRUE]

Invalid == [lo |-> 0, hi |-> 0, valid |-> FALSE]

Intervals == {Invalid} \cup {r \in {Range(x, y) : x, y \in Doubles} : r.lo <= r.hi}

FromDouble(x) == IF x = NaN THEN Invalid ELSE Range(NextDown(x), NextUp(x))
Exact(x) == IF x = NaN THEN Invalid ELSE Range(x, x)
FromInt(i) == Range(Down(i * One, 1), Up(i * One, 1))

Neither(lo, hi) == IF lo = NaN \/ hi = NaN THEN Invalid ELSE Range(lo, hi)

IntervalAdd(a, b) ==
  IF ~a.valid \/ ~b.valid THEN Invalid
  ELSE Neither(Negative(PlusUp(-a.lo, -b.lo)), PlusUp(a.hi, b.hi))

IntervalSub(a, b) ==
  IF ~a.valid \/ ~b.valid THEN Invalid
  ELSE Neither(Negative(PlusUp(b.hi, -a.lo)), PlusUp(a.hi, -b.lo))

(* The bounds are the least and largest of the values computed for the ends. *)
Hull(downs, ups) == IF NaN \in downs \cup ups THEN Invalid
                    ELSE Range(Smallest(downs), Largest(ups))

IntervalMul(a, b) ==
  IF ~a.valid \/ ~b.valid THEN Invalid
  ELSE Hull({Times(x, y, Down) : x \in {a.lo, a.hi}, y \in {b.lo, b.hi}},
            {Times(x, y, Up) : x \in {a.lo, a.hi}, y \in {b.lo, b.hi}})

IntervalFma(a, b, c) ==
  IF ~a.valid \/ ~b.valid \/ ~c.valid THEN Invalid
  ELSE Hull({TimesPlus(x, y, c.lo, Down) : x \in {a.lo, a.hi}, y \in {b.lo, b.hi}},
            {TimesPlus(x, y, c.hi, Up) : x \in {a.lo, a.hi}, y \in {b.lo, b.hi}})

(* The bounds of the quotients for the part of the divisor from 0 to its end y: the
   near one comes from an end of a, and the far one is infinite. *)
PartDown(a, y) == IF a.lo >= 0 /\ y > 0 THEN Over(a.lo, y, Down)
                  ELSE IF a.lo < 0 /\ a.hi <= 0 /\ y < 0 THEN Over(a.hi, y, Down)
                  ELSE -Inf
PartUp(a, y) == IF a.lo >= 0 /\ y < 0 THEN Over(a.lo, y, Up)
                ELSE IF a.lo < 0 /\ a.hi <= 0 /\ y > 0 THEN Over(a.hi, y, Up)
                ELSE Inf

DivZero(a, b) ==
  LET ends == {b.lo, b.hi} \ {0}
  IN  IF ends = {} THEN Invalid
      ELSE IF a.lo = 0 /\ a.hi = 0 THEN Exact(0)
      ELSE Hull({PartDown(a, y) : y \in ends}, {PartUp(a, y) : y \in ends})

\* Mutant: a divisor that reaches from 0 is divided by like any other.
IntervalDivInside(a, b) ==
  IF ~a.valid \/ ~b.valid THEN Invalid
  ELSE IF b.lo * b.hi < 0 \/ b = Exact(0) THEN DivZero(a, b)
  ELSE LET ends == {b.lo, b.hi} \ {0}
       IN  Hull({Over(x, y, Down) : x \in {a.lo, a.hi}, y \in ends},
                {Over(x, y, Up) : x \in {a.lo, a.hi}, y \in ends})

IntervalDiv(a, b) ==
  IF ~a.valid \/ ~b.valid THEN Invalid
  ELSE IF b.lo <= 0 /\ b.hi >= 0 THEN DivZero(a, b)
  ELSE Hull({Over(x, y, Down) : x \in {a.lo, a.hi}, y \in {b.lo, b.hi}},
            {Over(x, y, Up) : x \in {a.lo, a.hi}, y \in {b.lo, b.hi}})

IntervalFmax(a, b) == IF ~a.valid \/ ~b.valid THEN Invalid
                      ELSE Range(FMax(a.lo, b.lo), FMax(a.hi, b.hi))
IntervalFmin(a, b) == IF ~a.valid \/ ~b.valid THEN Invalid
                      ELSE Range(FMin(a.lo, b.lo), FMin(a.hi, b.hi))

IntervalSqrt(a) == IF ~a.valid \/ a.hi < 0 THEN Invalid
                   ELSE Range(RootDown(FMax(a.lo, 0)), RootUp(a.hi))

IntervalFloor(a) == IF a.valid THEN Range(Floor(a.lo), Floor(a.hi)) ELSE Invalid
IntervalCeil(a) == IF a.valid THEN Range(Ceil(a.lo), Ceil(a.hi)) ELSE Invalid
IntervalNeg(a) == IF a.valid THEN Range(-a.hi, -a.lo) ELSE Invalid

IntervalFabs(a) == IF ~a.valid THEN Invalid
                   ELSE IF a.lo >= 0 THEN a
                   ELSE IF a.hi <= 0 THEN IntervalNeg(a)
                   ELSE Range(0, FMax(-a.lo, a.hi))

(* add_many, with memory: the two intervals of smallest magnitude are added until one
   is left, by a queue whose order is reversed. *)
Key(a) == LET Abs(x) == IF x < 0 THEN -x ELSE x
          IN  FMax(Abs(a.lo), Abs(a.hi))

Entry(a) == [key |-> Key(a), value |-> a]

IntervalAddMany(s) ==
  LET n == Len(s)
      Pushed[i \in 0 .. n] == IF i = 0 THEN <<>> ELSE SiftUp(-1, Pushed[i - 1], Entry(s[i]))
      Added[i \in 0 .. n - 1] ==
        IF i = 0 THEN Pushed[n]
        ELSE LET rest == WithoutTop(-1, Added[i - 1])
             IN  SiftUp(-1, WithoutTop(-1, rest),
                        Entry(IntervalAdd(Added[i - 1][1].value, rest[1].value)))
  IN  IF n = 0 \/ \E i \in DOMAIN s : ~s[i].valid THEN Invalid
      ELSE IF n = 1 THEN s[1]
      ELSE IF n = 2 THEN IntervalAdd(s[1], s[2])
      ELSE Added[n - 1][1].value

(* The loop over the bits of e: the squares of a that belong to a bit are multiplied. *)
Power(a, e) ==
  LET Square[i \in 0 .. e] == IF i = 0 THEN a ELSE IntervalMul(Square[i - 1], Square[i - 1])
      Product[i \in 0 .. e] == IF i = 0 THEN Exact(One)
                               ELSE IF (e \div 2 ^ (i - 1)) % 2 = 0 THEN Product[i - 1]
                               ELSE IntervalMul(Product[i - 1], Square[i - 1])
  IN  Product[e]

PowPoint(x, e) == Power(Exact(x), e)

\* Mutant: the interval is multiplied by itself, whatever its signs.
IntervalPowProduct(a, e) == IF a.valid THEN Power(a, e) ELSE Invalid

\* Mutant: a product that overflowed is the answer.
IntervalPowOverflown(a, e) ==
  LET l == PowPoint(a.lo, e)
      h == PowPoint(a.hi, e)
  IN  IF ~a.valid THEN Invalid
      ELSE IF e = 0 THEN Exact(One)
      ELSE IF a.lo >= 0 \/ a.hi <= 0 THEN Power(a, e)
      ELSE IF e % 2 = 1 THEN Neither(l.lo, h.hi)
      ELSE Neither(0, FMax(l.hi, h.hi))

IntervalPowUint(a, e) ==
  LET oneSign == a.lo >= 0 \/ a.hi <= 0
      l == PowPoint(a.lo, e)
      h == PowPoint(a.hi, e)
  IN  IF ~a.valid THEN Invalid
      ELSE IF e = 0 THEN Exact(One)
      ELSE IF oneSign /\ Power(a, e).valid THEN Power(a, e)
      ELSE IF e % 2 = 1 \/ a.lo >= 0 THEN Neither(l.lo, h.hi)
      ELSE IF a.hi <= 0 THEN Neither(h.lo, l.hi)
      ELSE Neither(0, FMax(l.hi, h.hi))

IntervalPowInt(a, e) == IF e >= 0 THEN IntervalPowUint(a, e)
                        ELSE IntervalDiv(Exact(One), IntervalPowUint(a, -e))
=============================================================================
