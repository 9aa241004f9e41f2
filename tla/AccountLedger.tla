---------------------------- MODULE AccountLedger ----------------------------
(***************************************************************************)
(* What the NYX balances promise, without workers, statements or tables:   *)
(* accounts are opened with a starting balance, credited, and charged only *)
(* when they can pay, for a product or to another account.                 *)
(***************************************************************************)
EXTENDS Integers

CONSTANTS Users, StartBalance, Credits, Prices

VARIABLES opened, balance

lvars == <<opened, balance>>

LedgerInit ==
    /\ opened = {}
    /\ balance = [u \in Users |-> 0]

Open(u) ==
    /\ u \notin opened
    /\ opened' = opened \cup {u}
    /\ balance' = [balance EXCEPT ![u] = StartBalance]

Credit(u, a) ==
    /\ u \in opened
    /\ balance' = [balance EXCEPT ![u] = @ + a]
    /\ UNCHANGED opened

Charge(u, p) ==
    /\ u \in opened
    /\ balance[u] >= p
    /\ balance' = [balance EXCEPT ![u] = @ - p]
    /\ UNCHANGED opened

Pay(u, v, p) ==
    /\ {u, v} \subseteq opened
    /\ u # v
    /\ balance[u] >= p
    /\ balance' = [balance EXCEPT ![u] = @ - p, ![v] = @ + p]
    /\ UNCHANGED opened

LedgerNext ==
    \/ \E u \in Users : Open(u)
    \/ \E u \in Users, a \in Credits : Credit(u, a)
    \/ \E u \in Users, p \in Prices : Charge(u, p)
    \/ \E u, v \in Users, p \in Prices : Pay(u, v, p)

LedgerSpec == LedgerInit /\ [][LedgerNext]_lvars

=============================================================================
