------------------------- MODULE MCCriticalSection -------------------------
(* Three accounts, and transactions that cross, meet in an account, are refused *)
(* or go from an account to itself.                                             *)
EXTENDS CriticalSection

Move(a, b, d) == [from |-> a, to |-> b, dollars |-> d]

MCDraws == {Move(0, 1, 2), Move(1, 0, 1), Move(1, 2, 3), Move(2, 2, 1)}
=============================================================================
