---------------------------- MODULE PullPayments ----------------------------
(***************************************************************************)
(* What the social realms promise about the coins they hold: every coin    *)
(* backs something or is owed to somebody, and it leaves only when the     *)
(* payee collects, all at once, what was credited to them.  Nothing is     *)
(* said of what backs what, nor of who earns a credit.                     *)
(***************************************************************************)
EXTENDS Integers

CONSTANT Address

VARIABLES
    held,      \* the coins at the realm's address
    locked,    \* of these, the coins that back something
    owed,      \* of these, the coins credited to somebody
    credits    \* what each address may collect

vars == <<held, locked, owed, credits>>

Balanced == held = locked + owed

Init ==
    /\ held = 0 /\ locked = 0 /\ owed = 0
    /\ credits = [a \in Address |-> 0]

\* Coins come in, or what they stand for changes; no credit shrinks.
Book ==
    /\ held' >= held
    /\ Balanced'
    /\ owed' >= owed
    /\ \A a \in Address : credits'[a] >= credits[a]
    /\ credits' = credits <=> owed' = owed

Collect(a) ==
    /\ credits[a] > 0
    /\ credits' = [credits EXCEPT ![a] = 0]
    /\ owed' = owed - credits[a]
    /\ held' = held - credits[a]
    /\ UNCHANGED locked

Next == Book \/ \E a \in Address : Collect(a)

Spec == Init /\ [][Next]_vars
=============================================================================
