----------------------------- MODULE Numbering -----------------------------
(***************************************************************************)
(* Document numbers (numbering_service) and the audit row (audit_service)  *)
(* of the request that creates a document, statement by statement.  A      *)
(* request draws its numbers one after the other: an upsert advances the   *)
(* counter row and keeps it X-locked until the transaction ends, a plain   *)
(* SELECT reads the value back, and the document is inserted under it.     *)
(* Then the audit row is added and the transaction commits.  A crash or an *)
(* error in between rolls all of it back, the counters too.                *)
(*                                                                         *)
(* A counter row is a pair of key and date: MAT, SUP and WH count on a     *)
(* fixed date, PR, PO, RCV, TXN and CNT on the business date, which the    *)
(* client may choose.                                                      *)
(***************************************************************************)
EXTENDS Naturals, Sequences, FiniteSets

CONSTANTS
    Sessions,
    DailyKeys,      \* keys whose counters start anew every day
    GlobalKeys,     \* GLOBAL_SEQUENCE_KEYS
    Dates,          \* business dates
    GlobalDate,     \* _GLOBAL_DATE, 1970-01-01
    Programs,       \* the keys the handlers draw from, in order
    MaxDocuments    \* bound: documents ever committed

ASSUME NumberingAssumption ==
    /\ DailyKeys \cap GlobalKeys = {}
    /\ Programs \subseteq Seq(DailyKeys \cup GlobalKeys)
    /\ << >> \notin Programs
    \* A request is about its first document; the ledger rows it posts draw
    \* from a key (TXN) under which no handler creates a document of its own.
    /\ \A p, q \in Programs : \A i \in 2..Len(p) : p[i] # q[1]
    /\ MaxDocuments \in Nat

VARIABLES
    counter,     \* committed number_sequences.current_value, 0 for no row
    documents,   \* committed documents, by counter row and number
    audit,       \* committed operation_logs rows, by their document
    request,     \* per session the counter rows to draw from, << >> when idle
    step,        \* per session its next statement
    seen,        \* per session the counters of its snapshot
    draft,       \* per session the counter rows it wrote, 0 for the others
    numbers      \* per session the numbers of the documents it inserted

vars == <<counter, documents, audit, request, step, seen, draft, numbers>>

\* The date next_sequence_value counts on.
SequenceDate(key, date) == IF key \in GlobalKeys THEN GlobalDate ELSE date

Rows == {<<key, SequenceDate(key, date)>> :
            key \in DailyKeys \cup GlobalKeys, date \in Dates}

Document == [row : Rows, number : Nat]

\* A handler called for a business date.
Requests == {[i \in 1..Len(p) |-> <<p[i], SequenceDate(p[i], date)>>] :
                p \in Programs, date \in Dates}

TypeOK == /\ counter \in [Rows -> Nat]
          /\ documents \subseteq Document
          /\ audit \subseteq Document
          /\ request \in [Sessions -> Requests \cup {<< >>}]
          /\ step \in [Sessions -> {"upsert", "read", "insert", "audit", "commit"}]
          /\ seen \in [Sessions -> [Rows -> Nat]]
          /\ draft \in [Sessions -> [Rows -> Nat]]
          /\ numbers \in [Sessions -> Seq(Nat)]

NoRows == [row \in Rows |-> 0]

Init == /\ counter = NoRows
        /\ documents = {}
        /\ audit = {}
        /\ request = [s \in Sessions |-> << >>]
        /\ step = [s \in Sessions |-> "upsert"]
        /\ seen = [s \in Sessions |-> NoRows]
        /\ draft = [s \in Sessions |-> NoRows]
        /\ numbers = [s \in Sessions |-> << >>]

-----------------------------------------------------------------------------
(* The statements of a request *)

IsOpen(s) == request[s] # << >>

\* The documents session s has inserted, and the one it is about to insert,
\* under number 0 until the number is read back.
Inserted(s) == {[row |-> request[s][i], number |-> numbers[s][i]] :
                   i \in 1..Len(numbers[s])}

\* The counter row of the next number.
RowOf(s) == request[s][IF step[s] = "upsert" THEN Len(numbers[s]) + 1
                       ELSE Len(numbers[s])]

Locked(s, row) == \E t \in Sessions \ {s} : draft[t][row] # 0

\* The value the upsert finds, its own version or the committed one.
Current(s, row) == IF draft[s][row] # 0 THEN draft[s][row] ELSE counter[row]

Start(s, r) ==
    /\ ~IsOpen(s)
    /\ request' = [request EXCEPT ![s] = r]
    /\ step' = [step EXCEPT ![s] = "upsert"]
    /\ seen' = [seen EXCEPT ![s] = counter]
    /\ UNCHANGED <<counter, documents, audit, draft, numbers>>

\* INSERT ... ON DUPLICATE KEY UPDATE.
Upsert(s) ==
    /\ IsOpen(s)
    /\ step[s] = "upsert"
    /\ ~Locked(s, RowOf(s))
    /\ draft' = [draft EXCEPT ![s][RowOf(s)] = Current(s, RowOf(s)) + 1]
    /\ numbers' = [numbers EXCEPT ![s] = Append(@, 0)]
    /\ step' = [step EXCEPT ![s] = "read"]
    /\ UNCHANGED <<counter, documents, audit, request, seen>>

\* The read-back shows the snapshot although the session wrote the row.
Bug_ReadSnapshot(s, row) == seen[s][row] + 1

\* The number is taken from LAST_INSERT_ID(), which for the first draw of a row
\* is the AUTO_INCREMENT id of the row.
Bug_LastInsertId(s, row) ==
    IF draft[s][row] = 1
    THEN Cardinality({q \in Rows : counter[q] # 0 \/ \E t \in Sessions : draft[t][q] # 0})
    ELSE draft[s][row]

\* What a plain SELECT of a counter row shows: a row the transaction wrote
\* itself in its own version, any other one as of the snapshot.
ReadBack(s, row) == IF draft[s][row] # 0 THEN draft[s][row] ELSE seen[s][row]

Read(s) ==
    /\ IsOpen(s)
    /\ step[s] = "read"
    /\ numbers' = [numbers EXCEPT ![s][Len(numbers[s])] = ReadBack(s, RowOf(s))]
    /\ step' = [step EXCEPT ![s] = "insert"]
    /\ UNCHANGED <<counter, documents, audit, request, seen, draft>>

\* Another transaction has the document, committed or not.
Taken(s, d) == \/ d \in documents
               \/ \E t \in Sessions \ {s} : d \in Inserted(t)
               \/ \E i \in 1..(Len(numbers[s]) - 1) :
                     d = [row |-> request[s][i], number |-> numbers[s][i]]

\* The INSERT of the document; its number column is UNIQUE.
Insert(s) ==
    /\ IsOpen(s)
    /\ step[s] = "insert"
    /\ ~Taken(s, [row |-> RowOf(s), number |-> numbers[s][Len(numbers[s])]])
    /\ step' = [step EXCEPT ![s] = IF Len(numbers[s]) < Len(request[s])
                                   THEN "upsert" ELSE "audit"]
    /\ UNCHANGED <<counter, documents, audit, request, seen, draft, numbers>>

\* write_audit on the session of the request; the row names the document the
\* request is about, its first one.
WriteAudit(s) ==
    /\ IsOpen(s)
    /\ step[s] = "audit"
    /\ step' = [step EXCEPT ![s] = "commit"]
    /\ UNCHANGED <<counter, documents, audit, request, seen, draft, numbers>>

Close(s) == /\ request' = [request EXCEPT ![s] = << >>]
            /\ step' = [step EXCEPT ![s] = "upsert"]
            /\ seen' = [seen EXCEPT ![s] = NoRows]
            /\ draft' = [draft EXCEPT ![s] = NoRows]
            /\ numbers' = [numbers EXCEPT ![s] = << >>]

\* The document a request is about.
Subject(s) == [row |-> request[s][1], number |-> numbers[s][1]]

Commit(s) ==
    /\ IsOpen(s)
    /\ step[s] = "commit"
    /\ Cardinality(documents) + Len(request[s]) <= MaxDocuments
    /\ counter' = [row \in Rows |-> Current(s, row)]
    /\ documents' = documents \cup Inserted(s)
    /\ audit' = audit \cup {Subject(s)}
    /\ Close(s)

\* The counters after a rollback: the upserts are undone.
UndoneCounter(s) == counter

\* The audit row is written in a transaction of its own.
Bug_AuditStays(s) == IF step[s] = "commit" THEN audit \cup {Subject(s)} ELSE audit

\* The audit rows after a rollback.
UndoneAudit(s) == audit

\* An error of any statement (the UNIQUE key, a check of the handler between
\* the draws, a deadlock), a failed COMMIT or a crash.
Rollback(s) ==
    /\ IsOpen(s)
    /\ counter' = UndoneCounter(s)
    /\ audit' = UndoneAudit(s)
    /\ UNCHANGED documents
    /\ Close(s)

Next == \E s \in Sessions :
            \/ \E r \in Requests : Start(s, r)
            \/ Upsert(s)
            \/ Read(s)
            \/ Insert(s)
            \/ WriteAudit(s)
            \/ Commit(s)
            \/ Rollback(s)

Spec == Init /\ [][Next]_vars

-----------------------------------------------------------------------------
(* Properties *)

\* A number that was read back is free: the UNIQUE key of the document never
\* refuses it, whichever requests draw from the counter at the same time, the
\* first ones of the day included (numbering_service: "values never repeat").
NeverCollides ==
    \A s \in Sessions : IsOpen(s) /\ step[s] = "insert" =>
        LET d == [row |-> RowOf(s), number |-> numbers[s][Len(numbers[s])]]
        IN  d.number > 0 /\ ~Taken(s, d)

\* Every committed request has left its audit row and no other request has:
\* a row of operation_logs neither outlives the document it is about nor
\* misses (audit_service: "if the business rolls back, the log rolls back
\* too").
AuditFollowsDocuments ==
    /\ audit \subseteq documents
    /\ \A d \in documents : d.row[1] \in {p[1] : p \in Programs} => d \in audit

Book == INSTANCE NumberBook WITH
            issued <- [row \in Rows |-> {d.number : d \in {e \in documents : e.row = row}}]

\* The numbers of the committed documents are a book: no commit, however the
\* statements of the draws interleave and whichever of them roll back, adds a
\* number that repeats an earlier one or is smaller, and it adds one for every
\* draw (numbering_service: "serialized at the DB level, so values never
\* repeat").
NumbersAreABook == Book!Spec

\* A number is drawn in a transaction of its own, so a request that rolls back
\* has spent it (models/support.py, database-design 6.2: "no number
\* recycling").  The code does not do this: Rollback undoes the upsert too.
DrawnIsSpent ==
    [][\A s \in Sessions, row \in Rows :
          draft[s][row] # 0 /\ draft'[s][row] = 0 => counter'[row] >= draft[s][row]]_vars

=============================================================================
