---------------------------- MODULE IntervalTurns ----------------------------
(* sin and cos of src/include/interval.h: whether an interval contains an extremum.
   Between extrema the functions are monotone, and the values at the ends, which the
   math library computes, bound them; those values are left out. *)
EXTENDS Interval

CONSTANTS Pi2n, Pi2d,      \* pi / 2 is Pi2n / Pi2d units: a fraction in its place
          Pi2,             \* M_PI_2, the double next to it
          Turns            \* numbers of turns that are looked at

VARIABLE turn              \* the call in progress, or NULL

(* In quarter turns from the extremum at quarter c, in whole turns: computed while
   rounding downward *)
WholeTurns(quarters, c) == Floor(Over(Negative(PlusUp(-quarters, c * One)), 4 * One, Down))

\* Mutant: the quotients are used as they were rounded.
ExtremumUnstepped(a, c) ==
  WholeTurns(Over(a.lo, Pi2, Down), c) # WholeTurns(Over(a.hi, Pi2, Up), c)

(* The quotients step outward by one double: M_PI_2 is not pi / 2. *)
Extremum(a, c) ==
  WholeTurns(NextDown(Over(a.lo, Pi2, Down)), c) # WholeTurns(NextUp(Over(a.hi, Pi2, Up)), c)

(* Whether the upper bound becomes 1, and the lower one -1 *)
Sin(a) == [f |-> "sin", a |-> a, max |-> Extremum(a, 1), min |-> Extremum(a, 3)]
Cos(a) == [f |-> "cos", a |-> a, max |-> Extremum(a, 0), min |-> Extremum(a, 2)]

TurnsInit == turn = NULL

Turn == \E lo, hi \in Finite \cup {Inf, -Inf} :
          turn = NULL /\ lo <= hi /\ turn' \in {Sin(Range(lo, hi)), Cos(Range(lo, hi))}

TurnsNext == Turn \/ (turn # NULL /\ turn' = NULL)

-----------------------------------------------------------------------------
(* Whether a whole turn after quarter c falls into a *)
Contains(a, c) == \E k \in Turns : /\ a.lo * Pi2d <= (c + 4 * k) * Pi2n
                                   /\ (c + 4 * k) * Pi2n <= a.hi * Pi2d

Wider(a) == Range(NextDown(NextDown(NextDown(a.lo))), NextUp(NextUp(NextUp(a.hi))))

(* Every extremum in an interval is noticed, although it is looked for with a rounded
   pi / 2, and none is seen that is more than three doubles away. *)
ExtremaSeen ==
  turn # NULL =>
    LET quarter == IF turn.f = "sin" THEN 1 ELSE 0
    IN  /\ Contains(turn.a, quarter) => turn.max
        /\ Contains(turn.a, quarter + 2) => turn.min
        /\ turn.max => Contains(Wider(turn.a), quarter)
        /\ turn.min => Contains(Wider(turn.a), quarter + 2)
=============================================================================
