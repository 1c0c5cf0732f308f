----------------------------- MODULE StockBook -----------------------------
(***************************************************************************)
(* What the inventory promises to its users, without saying how: a journal *)
(* that only grows, and for every key the quantity and value on hand,      *)
(* which change only by what a batch of new journal entries says and are   *)
(* never negative.                                                         *)
(***************************************************************************)
EXTENDS Sums, Sequences

CONSTANT Keys

VARIABLES journal,   \* sequence of [key, quantity, amount]
          onHand     \* per key, [quantity, amount]

bookVars == <<journal, onHand>>

Init == /\ journal = << >>
        /\ onHand = [k \in Keys |-> [quantity |-> 0, amount |-> 0]]

\* What the entries after the first n say about key k.
QuantityAfter(entries, n, k) ==
    SumUpTo([i \in 1..(Len(entries) - n) |->
                IF entries[n + i].key = k THEN entries[n + i].quantity ELSE 0],
            Len(entries) - n)

AmountAfter(entries, n, k) ==
    SumUpTo([i \in 1..(Len(entries) - n) |->
                IF entries[n + i].key = k THEN entries[n + i].amount ELSE 0],
            Len(entries) - n)

\* A batch of entries is appended and takes effect at once.
Post ==
    /\ Len(journal') > Len(journal)
    /\ SubSeq(journal', 1, Len(journal)) = journal
    /\ onHand' = [k \in Keys |->
          [quantity |-> onHand[k].quantity
                            + QuantityAfter(journal', Len(journal), k),
           amount   |-> onHand[k].amount
                            + AmountAfter(journal', Len(journal), k)]]
    /\ \A k \in Keys : onHand'[k].quantity >= 0 /\ onHand'[k].amount >= 0

Spec == Init /\ [][Post]_bookVars

=============================================================================
