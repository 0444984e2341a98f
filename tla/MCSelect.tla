------------------------------ MODULE MCSelect ------------------------------
(* Two channels of one value: two threads compete for the first one, one of them sends
   to both, and a third receives from both and has a case without a channel, which it
   has to finish before it may select. *)
EXTENDS Select

CONSTANTS p, q, r, c1, c2

MCThread == {p, q, r}
MCChannel == {c1, c2}
MCCapacity == [c \in MCChannel |-> 1]

Case(c, ty) == [c |-> c, type |-> ty]
MCCases == [t \in MCThread |->
              CASE t = p -> <<Case(c1, "SEND"), Case(c2, "SEND")>>
                [] t = q -> <<Case(c1, "SEND")>>
                [] t = r -> <<Case(c1, "RECV"), Case(c2, "RECV"), Case(NULL, "RECV")>>]
=============================================================================
