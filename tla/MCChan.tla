------------------------------- MODULE MCChan -------------------------------
(* Instances of Chan for TLC. *)
EXTENDS ChanInv, TLC

CONSTANTS a, b, c

(* Two threads send and two receive; one does both, and closes. *)
MCOps == (a :> {"send", "trysend"}) @@ (b :> {"recv", "tryrecv"})
           @@ (c :> {"trysend", "tryrecv", "close"})

(* The same threads, calling only the operations that wait. *)
MCBlockingOps == (a :> {"send"}) @@ (b :> {"recv"}) @@ (c :> {"send", "recv", "close"})
=============================================================================
