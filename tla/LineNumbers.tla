---------------------------- MODULE LineNumbers ----------------------------
(***************************************************************************)
(* The lines of a document and their unique line numbers.  The lines are   *)
(* rows of their own table, numbered 1, 2, ... in document order, under a  *)
(* unique key on (document, line number): uk_rc_line of a stock count,     *)
(* uk_pri_line of a requisition.  A row has an id, its primary key.        *)
(***************************************************************************)
EXTENDS Integers, Sequences

\* The id of a row inserted as line i of a document that has these rows; ids
\* grow with every insert (AUTO_INCREMENT).
FreshId(rows, i) ==
    LET ids == {rows[j].id : j \in 1..Len(rows)}
    IN  i + (IF ids = {} THEN 0 ELSE CHOOSE m \in ids : \A n \in ids : n <= m)

\* Whether the unit of work can replace the rows old by the rows new, those
\* with an id of old being kept ones.  It renumbers the kept rows in the order
\* of their ids, then inserts the new rows, and deletes the dropped ones last,
\* so the row whose number is taken over must be a kept one with a smaller id.
LinesFit(old, new) ==
    \A p \in 1..Len(old) : p <= Len(new) =>
        \/ new[p].id = old[p].id
        \/ /\ \E i \in 1..Len(new) : new[i].id = old[p].id
           /\ new[p].id > old[p].id

\* The rows without the i-th one.
Dropped(rows, i) == SubSeq(rows, 1, i - 1) \o SubSeq(rows, i + 1, Len(rows))

=============================================================================
