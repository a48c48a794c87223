---------------------------- MODULE GrantTreasury ----------------------------
(***************************************************************************)
(* What a grant program promises about its money, and nothing of how it is *)
(* decided: a pot, the tranches promised so far and those paid.  Tranches  *)
(* are promised a whole grant at a time, each is paid at most once, in the *)
(* order of its grant and never beyond the pot, and a promise is never     *)
(* withdrawn.  r/moul/grant is shown to implement this.                    *)
(***************************************************************************)
EXTENDS Integers

CONSTANT Treasury   \* the address of the pot itself

VARIABLES
    pot,        \* the coins held
    promised,   \* the tranches promised: [request, milestone, to, amount]
    paid        \* those of them that were paid

vars == <<pot, promised, paid>>

Init == pot = 0 /\ promised = {} /\ paid = {}

\* Coins only ever come in freely; they go out through Pay.
Deposit ==
    /\ pot' > pot
    /\ UNCHANGED <<promised, paid>>

\* The tranches of one grant that promised nothing before.
Promise ==
    /\ promised \subseteq promised'
    /\ promised' # promised
    /\ \A s, t \in promised' \ promised : s.request = t.request
    /\ \A s \in promised, t \in promised' \ promised : s.request # t.request
    /\ UNCHANGED <<pot, paid>>

Pay(t) ==
    /\ t \notin paid
    /\ t.amount <= pot
    /\ \A s \in promised : s.request = t.request /\ s.milestone < t.milestone
                           => s \in paid
    /\ paid' = paid \cup {t}
    /\ pot' = IF t.to = Treasury THEN pot ELSE pot - t.amount
    /\ UNCHANGED promised

Next == Deposit \/ Promise \/ \E t \in promised : Pay(t)

Spec == Init /\ [][Next]_vars
=============================================================================
