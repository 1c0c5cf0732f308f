------------------------------ MODULE Locking ------------------------------
(***************************************************************************)
(* The row locks of the transactions that move stock.  A request is the    *)
(* sequence of the row locks its statements take, in the order of the      *)
(* code; it holds them until COMMIT.  An UPDATE, a SELECT ... FOR UPDATE   *)
(* and an upsert lock a row exclusively (X), the foreign-key check of an   *)
(* INSERT locks the parent row in shared mode (S).                         *)
(*                                                                         *)
(* Left out are rows that cannot be part of a cycle: new rows, and parents *)
(* (users, warehouses, materials) that the others lock in mode S or as     *)
(* their only row.                                                         *)
(***************************************************************************)
EXTENDS Integers, Sequences, FiniteSets, Functions

CONSTANTS
    Sessions,
    Receipts,     \* receipts: [id, order, warehouse, lines], lines in id order
    Counts,       \* stock counts: [id, warehouse, materials], in line order
    Cancellable,  \* orders that may be cancelled
    MaterialOf,   \* the material of every order line
    Dates         \* business dates of the requests

\* The connection pool bounds the sessions.  Ids are integers, and a line
\* belongs to one order.
ASSUME LockingAssumption ==
    /\ IsFiniteSet(Sessions)
    /\ \A l \in DOMAIN MaterialOf : MaterialOf[l] \in Int
    /\ \A r \in Receipts : r.lines \in Seq(DOMAIN MaterialOf)
    /\ \A q, r \in Receipts : Range(q.lines) \cap Range(r.lines) # {} => q.order = r.order
    /\ \A c \in Counts : c.materials \in Seq(Int)

VARIABLES program,  \* per session the locks of its request, << >> when idle
          asked,    \* per session the number of locks it has asked for
          queue     \* per row the requests, granted or waiting, as they came

vars == <<program, asked, queue>>

X(row) == [row |-> row, mode |-> "X"]
S(row) == [row |-> row, mode |-> "S"]

-----------------------------------------------------------------------------
(* The locks of the requests *)

\* The members of a finite set of integers in ascending order.
Ascending(set) ==
    CHOOSE f \in [1..Cardinality(set) -> set] :
        /\ Range(f) = set
        /\ \A i, j \in 1..Cardinality(set) : i < j => f[i] < f[j]

\* The balances are locked in the order of the document lines.
Bug_SortedKeys(materials) == materials

\* sort_keys: distinct materials of one warehouse, ascending.
SortedKeys(materials) == Ascending(Range(materials))

\* lock_balances.
LockBalances(w, materials) ==
    LET keys == SortedKeys(materials)
    IN  [i \in 1..Len(keys) |-> X(<<"balance", w, keys[i]>>)]

\* next_sequence_value of a daily counter.
LockSequence(key, date) == <<X(<<"sequence", key, date>>)>>

MaterialsOf(receipt) ==
    [i \in 1..Len(receipt.lines) |-> MaterialOf[receipt.lines[i]]]

\* The loop over the lines: the compare-and-set of the order line, then the
\* number of the ledger row.
LockLines(receipt, date) ==
    [i \in 1..2 * Len(receipt.lines) |->
        IF i % 2 = 1 THEN X(<<"line", receipt.lines[(i + 1) \div 2]>>)
        ELSE LockSequence("TXN", date)[1]]

\* recompute_po_status writes the order if its status changes.
LockStatus(order, changes) == IF changes THEN <<X(<<"order", order>>)>> ELSE << >>

CreateReceipt(receipt, date, changes) ==
    LockBalances(receipt.warehouse, MaterialsOf(receipt))
        \o LockSequence("RCV", date)
        \o <<S(<<"order", receipt.order>>)>>
        \o LockLines(receipt, date)
        \o LockStatus(receipt.order, changes)

ReverseReceipt(receipt, date, changes) ==
    <<X(<<"receipt", receipt.id>>)>>
        \o LockBalances(receipt.warehouse, MaterialsOf(receipt))
        \o LockLines(receipt, date)
        \o LockStatus(receipt.order, changes)

ApproveReconciliation(count, date) ==
    <<X(<<"count", count.id>>)>>
        \o LockBalances(count.warehouse, count.materials)
        \o LockSequence("TXN", date)

\* The requisition rows that cancel_po locks next are no concern of the
\* others here.
CancelPo(order) == <<X(<<"order", order>>)>>

Programs ==
    {CreateReceipt(r, d, c) : r \in Receipts, d \in Dates, c \in BOOLEAN}
    \cup {ReverseReceipt(r, d, c) : r \in Receipts, d \in Dates, c \in BOOLEAN}
    \cup {ApproveReconciliation(c, d) : c \in Counts, d \in Dates}
    \cup {CancelPo(o) : o \in Cancellable}

-----------------------------------------------------------------------------
(* The lock table (InnoDB) *)

Rows == UNION {{p[i].row : i \in 1..Len(p)} : p \in Programs}

Conflict(a, b) == a.session # b.session /\ "X" \in {a.mode, b.mode}

\* The i-th request for a row.  A session that has the row in this mode or a
\* stronger one does not wait; any other request waits for the conflicting
\* ones before it, the waiting ones included.
Granted(row, i) ==
    \/ \A j \in 1..(i - 1) : ~Conflict(queue[row][j], queue[row][i])
    \/ \E j \in 1..(i - 1) :
          /\ queue[row][j].session = queue[row][i].session
          /\ queue[row][j].mode \in {"X", queue[row][i].mode}

\* The request of session s for a row that is not granted, if any.
Pending(s, row) == {i \in 1..Len(queue[row]) : /\ queue[row][i].session = s
                                               /\ ~Granted(row, i)}

Waiting(s) == \E row \in Rows : Pending(s, row) # {}

\* Session s waits for a lock that t has or has asked for before.
WaitsFor(s, t) == \E row \in Rows : \E i \in Pending(s, row), j \in 1..Len(queue[row]) :
                      /\ j < i
                      /\ queue[row][j].session = t
                      /\ Conflict(queue[row][j], queue[row][i])

-----------------------------------------------------------------------------

Init == /\ program = [s \in Sessions |-> << >>]
        /\ asked = [s \in Sessions |-> 0]
        /\ queue = [row \in Rows |-> << >>]

Start(s, p) == /\ program[s] = << >>
               /\ program' = [program EXCEPT ![s] = p]
               /\ UNCHANGED <<asked, queue>>

\* The next statement of the request asks for its lock.
Request(s) ==
    LET lock == program[s][asked[s] + 1]
    IN  /\ asked[s] < Len(program[s])
        /\ ~Waiting(s)
        /\ asked' = [asked EXCEPT ![s] = @ + 1]
        /\ queue' = [queue EXCEPT ![lock.row] =
                        Append(@, [session |-> s, mode |-> lock.mode])]
        /\ UNCHANGED program

\* The claim on a stock count outlives the request.
Bug_Released(s, row) ==
    LET kept == {i \in 1..Len(queue[row]) : queue[row][i].session # s \/ row[1] = "count"}
    IN  [n \in 1..Cardinality(kept) |-> queue[row][Ascending(kept)[n]]]

\* COMMIT gives up all locks of the session; the other requests for a row
\* keep their order.
Released(s, row) ==
    LET kept == {i \in 1..Len(queue[row]) : queue[row][i].session # s}
    IN  [n \in 1..Cardinality(kept) |-> queue[row][Ascending(kept)[n]]]

Commit(s) == /\ program[s] # << >>
             /\ asked[s] = Len(program[s])
             /\ ~Waiting(s)
             /\ program' = [program EXCEPT ![s] = << >>]
             /\ asked' = [asked EXCEPT ![s] = 0]
             /\ queue' = [row \in Rows |-> Released(s, row)]

Next == \E s \in Sessions : \/ \E p \in Programs : Start(s, p)
                            \/ Request(s)
                            \/ Commit(s)

\* A request runs on as long as it is not kept waiting for a lock.
Spec == /\ Init /\ [][Next]_vars
        /\ \A s \in Sessions : WF_vars(Request(s)) /\ WF_vars(Commit(s))

-----------------------------------------------------------------------------
(* Properties *)

\* No requests wait for each other: there is no set of sessions each of which
\* waits for a member of the set (purchase_receipt_service: taking the
\* balances first, in key order, leaves no cross waits).
NoCrossWait ==
    \A T \in SUBSET Sessions : T # {} =>
        \E s \in T : \A t \in T : ~WaitsFor(s, t)

\* The deliveries of an order are serialised by a balance: any two bring some
\* material in common into the same warehouse, and the order is not cancelled
\* meanwhile.  Without it the shared lock on the order and the line locks can
\* close a circle, which the balances do not prevent.
WholeDeliveries ==
    \A q, r \in Receipts : q.order = r.order =>
        /\ q.warehouse = r.warehouse
        /\ Range(MaterialsOf(q)) \cap Range(MaterialsOf(r)) # {}
        /\ q.order \notin Cancellable

\* Every request comes to its COMMIT, however many others keep arriving for
\* the same balances, counters and orders: nobody is overtaken for ever.
RequestsFinish == \A s \in Sessions : program[s] # << >> ~> program[s] = << >>

=============================================================================
