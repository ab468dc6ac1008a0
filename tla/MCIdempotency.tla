--------------------------- MODULE MCIdempotency ---------------------------
(***************************************************************************)
(* Instances of Idempotency for TLC.  Calls are c1, c2, ...  Requests are  *)
(* all alike, or c3's differs from the others' in what the hash keeps and  *)
(* c2's from c1's in what it drops.                                        *)
(***************************************************************************)
EXTENDS Idempotency

CONSTANTS c1, c2, c3, c4, a, b

OneOdd == [c \in Calls |-> [kept |-> IF c = c3 THEN b ELSE a,
                            nested |-> IF c = c2 THEN b ELSE a]]
AllAlike == [c \in Calls |-> [kept |-> a, nested |-> a]]
=============================================================================
