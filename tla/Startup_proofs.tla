--------------------------- MODULE Startup_proofs ---------------------------
(***************************************************************************)
(* The life of the container, for every number of sessions, users, roles,  *)
(* departments, requests and faults: what a serving process can rely on,   *)
(* whichever boots were cut short before, and what the administration of   *)
(* users, departments and roles keeps true across restarts.                *)
(***************************************************************************)
EXTENDS Startup, FiniteSetTheorems, TLAPS

-----------------------------------------------------------------------------
(* The revisions *)

\* What a revision drops, it adds again later.
Restores(rev) ==
    \A i \in DOMAIN rev : \A o \in rev[i].drops :
        \E j \in DOMAIN rev : i < j /\ o \in rev[j].adds

IsRevision(rev) == Len(rev) \in Nat /\ DOMAIN rev = 1..Len(rev) /\ Restores(rev)

\* A revision leaves the triggers of the ledger alone.
NoTriggers(rev) ==
    \A i \in DOMAIN rev : Triggers \cap (rev[i].adds \cup rev[i].alters) = {}

Statements(rev) == {rev[i] : i \in DOMAIN rev}

\* The base revision creates, and drops nothing.
LEMMA BaseParts ==
  ASSUME NEW part \in {BaseSystemTables, BaseStockTables, BaseDocumentTables, BaseGuards}
  PROVE  part \in Seq(Statements(part)) /\ \A stmt \in Statements(part) : stmt.drops = {}
<1>1. /\ BaseSystemTables \in Seq(Statements(BaseSystemTables))
      /\ \A stmt \in Statements(BaseSystemTables) : stmt.drops = {}
  <2>1. BaseSystemTables \in Seq(Statements(BaseSystemTables))
    BY DEF BaseSystemTables, Statements
  <2>2. \A stmt \in Statements(BaseSystemTables) : stmt.drops = {}
    BY DEF BaseSystemTables, Statements, Create, Add
  <2> QED
    BY <2>1, <2>2
<1>2. /\ BaseStockTables \in Seq(Statements(BaseStockTables))
      /\ \A stmt \in Statements(BaseStockTables) : stmt.drops = {}
  <2>1. BaseStockTables \in Seq(Statements(BaseStockTables))
    BY DEF BaseStockTables, Statements
  <2>2. \A stmt \in Statements(BaseStockTables) : stmt.drops = {}
    BY DEF BaseStockTables, Statements, Create, Add
  <2> QED
    BY <2>1, <2>2
<1>3. /\ BaseDocumentTables \in Seq(Statements(BaseDocumentTables))
      /\ \A stmt \in Statements(BaseDocumentTables) : stmt.drops = {}
  <2>1. BaseDocumentTables \in Seq(Statements(BaseDocumentTables))
    BY DEF BaseDocumentTables, Statements
  <2>2. \A stmt \in Statements(BaseDocumentTables) : stmt.drops = {}
    BY DEF BaseDocumentTables, Statements, Create, Add
  <2> QED
    BY <2>1, <2>2
<1>4. /\ BaseGuards \in Seq(Statements(BaseGuards))
      /\ \A stmt \in Statements(BaseGuards) : stmt.drops = {}
  <2>1. BaseGuards \in Seq(Statements(BaseGuards))
    BY DEF BaseGuards, Statements
  <2>2. \A stmt \in Statements(BaseGuards) : stmt.drops = {}
    BY DEF BaseGuards, Statements, Create, Add
  <2> QED
    BY <2>1, <2>2
<1> QED
  BY <1>1, <1>2, <1>3, <1>4

LEMMA Concatenated ==
  ASSUME NEW S, NEW a \in Seq(S), NEW b \in Seq(S)
  PROVE  /\ a \o b \in Seq(S)
         /\ Len(a) \in Nat /\ Len(a \o b) = Len(a) + Len(b)
         /\ \A i \in 1..Len(b) : (a \o b)[Len(a) + i] = b[i]
  OBVIOUS

LEMMA BaseRevision ==
  /\ IsRevision(Revisions[1])
  /\ \A t \in Triggers : \E i \in DOMAIN Revisions[1] : t \in Revisions[1][i].adds
<1> DEFINE S == Statements(BaseSystemTables) \cup Statements(BaseStockTables)
                \cup Statements(BaseDocumentTables) \cup Statements(BaseGuards)
           tables3 == BaseSystemTables \o BaseStockTables \o BaseDocumentTables
           base == tables3 \o BaseGuards
<1>1. Revisions[1] = base
  BY DEF Revisions
<1>2. /\ BaseSystemTables \in Seq(S) /\ BaseStockTables \in Seq(S)
      /\ BaseDocumentTables \in Seq(S) /\ BaseGuards \in Seq(S)
      /\ \A stmt \in S : stmt.drops = {}
  BY BaseParts
<1> HIDE DEF S
<1>3. tables3 \in Seq(S)
  BY <1>2
<1> HIDE DEF tables3
<1>4. base \in Seq(S)
  BY <1>2, <1>3
<1>5. Len(tables3) \in Nat /\ Len(BaseGuards) = 4 /\ Len(base) = Len(tables3) + Len(BaseGuards)
  <2>1. Len(BaseGuards) = 4
    BY DEF BaseGuards
  <2> QED
    BY <2>1, <1>2, <1>3, Concatenated
<1>6. base[Len(tables3) + 3] = BaseGuards[3] /\ base[Len(tables3) + 4] = BaseGuards[4]
  BY <1>2, <1>3, <1>5, Concatenated
<1>7. Len(base) \in Nat /\ DOMAIN base = 1..Len(base) /\ \A i \in 1..Len(base) : base[i] \in S
  BY <1>4
<1>8. Len(tables3) + 3 \in DOMAIN base /\ Len(tables3) + 4 \in DOMAIN base
  BY <1>5, <1>7
<1>9. "trg_it_no_update" \in BaseGuards[3].adds /\ "trg_it_no_delete" \in BaseGuards[4].adds
  BY DEF BaseGuards, Add, Create
<1> HIDE DEF base
<1>10. IsRevision(base)
  BY <1>2, <1>7 DEF IsRevision, Restores
<1>11. \A t \in Triggers : \E i \in DOMAIN base : t \in base[i].adds
  BY <1>6, <1>8, <1>9 DEF Triggers
<1> QED
  BY <1>1, <1>10, <1>11

LEMMA LaterRevisions ==
  ASSUME NEW rev \in {MasterdataAudit, PurchaseRequisition, ApprovalWorkflow, PurchaseOrder,
                      ReceiptInventory, TxnAmountSign, StockReconciliationTables, LedgerWatermark}
  PROVE  IsRevision(rev) /\ NoTriggers(rev)
<1>1. IsRevision(MasterdataAudit) /\ NoTriggers(MasterdataAudit)
  <2>1. IsRevision(MasterdataAudit)
    BY DEF MasterdataAudit, IsRevision, Restores, Add, Create, Drop, Alter
  <2>2. NoTriggers(MasterdataAudit)
    BY DEF MasterdataAudit, NoTriggers, Triggers, Add, Create, Drop, Alter
  <2> QED
    BY <2>1, <2>2
<1>2. IsRevision(PurchaseRequisition) /\ NoTriggers(PurchaseRequisition)
  <2>1. IsRevision(PurchaseRequisition)
    BY DEF PurchaseRequisition, IsRevision, Restores, Add, Create, Drop, Alter
  <2>2. NoTriggers(PurchaseRequisition)
    BY DEF PurchaseRequisition, NoTriggers, Triggers, Add, Create, Drop, Alter
  <2> QED
    BY <2>1, <2>2
<1>3. IsRevision(ApprovalWorkflow) /\ NoTriggers(ApprovalWorkflow)
  <2>1. IsRevision(ApprovalWorkflow)
    BY DEF ApprovalWorkflow, IsRevision, Restores, Add, Create, Drop, Alter
  <2>2. NoTriggers(ApprovalWorkflow)
    BY DEF ApprovalWorkflow, NoTriggers, Triggers, Add, Create, Drop, Alter
  <2> QED
    BY <2>1, <2>2
<1>4. IsRevision(PurchaseOrder) /\ NoTriggers(PurchaseOrder)
  <2>1. IsRevision(PurchaseOrder)
    BY DEF PurchaseOrder, IsRevision, Restores, Add, Create, Drop, Alter
  <2>2. NoTriggers(PurchaseOrder)
    BY DEF PurchaseOrder, NoTriggers, Triggers, Add, Create, Drop, Alter
  <2> QED
    BY <2>1, <2>2
<1>5. IsRevision(ReceiptInventory) /\ NoTriggers(ReceiptInventory)
  <2>1. IsRevision(ReceiptInventory)
    BY DEF ReceiptInventory, IsRevision, Restores, Add, Create, Drop, Alter
  <2>2. NoTriggers(ReceiptInventory)
    BY DEF ReceiptInventory, NoTriggers, Triggers, Add, Create, Drop, Alter
  <2> QED
    BY <2>1, <2>2
<1>6. IsRevision(TxnAmountSign) /\ NoTriggers(TxnAmountSign)
  <2>1. IsRevision(TxnAmountSign)
    BY DEF TxnAmountSign, IsRevision, Restores, Add, Create, Drop, Alter
  <2>2. NoTriggers(TxnAmountSign)
    BY DEF TxnAmountSign, NoTriggers, Triggers, Add, Create, Drop, Alter
  <2> QED
    BY <2>1, <2>2
<1>7. IsRevision(StockReconciliationTables) /\ NoTriggers(StockReconciliationTables)
  <2>1. IsRevision(StockReconciliationTables)
    BY DEF StockReconciliationTables, IsRevision, Restores, Add, Create, Drop, Alter
  <2>2. NoTriggers(StockReconciliationTables)
    BY DEF StockReconciliationTables, NoTriggers, Triggers, Add, Create, Drop, Alter
  <2> QED
    BY <2>1, <2>2
<1>8. IsRevision(LedgerWatermark) /\ NoTriggers(LedgerWatermark)
  <2>1. IsRevision(LedgerWatermark)
    BY DEF LedgerWatermark, IsRevision, Restores, Add, Create, Drop, Alter
  <2>2. NoTriggers(LedgerWatermark)
    BY DEF LedgerWatermark, NoTriggers, Triggers, Add, Create, Drop, Alter
  <2> QED
    BY <2>1, <2>2
<1> QED
  BY <1>1, <1>2, <1>3, <1>4, <1>5, <1>6, <1>7, <1>8

LEMMA RevisionFacts ==
  /\ Latest = 9
  /\ \A r \in 1..Latest : IsRevision(Revisions[r])
  /\ \A r \in 2..Latest : NoTriggers(Revisions[r])
<1>1. Latest = 9
  BY DEF Latest, Revisions
<1>2. \A r \in 2..9 : Revisions[r] \in {MasterdataAudit, PurchaseRequisition, ApprovalWorkflow, PurchaseOrder,
                      ReceiptInventory, TxnAmountSign, StockReconciliationTables, LedgerWatermark}
  BY DEF Revisions
<1>3. \A r \in 2..9 : IsRevision(Revisions[r]) /\ NoTriggers(Revisions[r])
  BY <1>2, LaterRevisions
<1>4. \A r \in 1..9 : r = 1 \/ r \in 2..9
  OBVIOUS
<1> QED
  BY <1>1, <1>3, <1>4, BaseRevision

-----------------------------------------------------------------------------
(* What a completed revision leaves *)

\* An object is touched when a statement creates or redefines it.
LEMMA TouchedBy ==
  ASSUME NEW r \in 1..Latest, NEW o
  PROVE  o \in Touched[r] <=>
            \E i \in DOMAIN Revisions[r] : o \in Revisions[r][i].adds \cup Revisions[r][i].alters
  BY DEF Touched

LEMMA TriggerObjects ==
  /\ Triggers \subseteq Objects
  /\ Triggers \subseteq Touched[1]
  /\ \A r \in 2..Latest : Triggers \cap Touched[r] = {}
<1>1. 1 \in 1..Latest /\ \A r \in 2..Latest : r \in 1..Latest
  BY RevisionFacts
<1>2. Triggers \subseteq Touched[1]
  BY <1>1, BaseRevision, TouchedBy
<1>3. \A r \in 2..Latest : Triggers \cap Touched[r] = {}
  BY <1>1, RevisionFacts, TouchedBy DEF NoTriggers
<1> QED
  BY <1>1, <1>2, <1>3 DEF Objects

\* SchemaAt, one revision after the other.
LEMMA SchemaGrows ==
  /\ \A o \in Objects : SchemaAt[0][o] = 0
  /\ \A v \in 0..(Latest - 1) : \A o \in Objects :
        SchemaAt[v + 1][o] = IF o \in Touched[v + 1] THEN v + 1 ELSE SchemaAt[v][o]
<1>1. Latest \in Nat
  BY RevisionFacts
<1>2. ASSUME NEW o \in Objects PROVE SchemaAt[0][o] = 0
  <2>1. SchemaAt[0][o] = Max({0} \cup {r \in 1..0 : o \in Touched[r]})
    BY <1>1 DEF SchemaAt
  <2>2. {0} \cup {r \in 1..0 : o \in Touched[r]} = {0}
    OBVIOUS
  <2>3. Max({0}) = 0
    BY DEF Max
  <2> QED
    BY <2>1, <2>2, <2>3
<1>3. ASSUME NEW v \in 0..(Latest - 1), NEW o \in Objects
      PROVE  SchemaAt[v + 1][o] = IF o \in Touched[v + 1] THEN v + 1 ELSE SchemaAt[v][o]
  <2> DEFINE S(n) == {0} \cup {r \in 1..n : o \in Touched[r]}
  <2>1. v \in Nat /\ v + 1 \in 0..Latest /\ v \in 0..Latest
    BY <1>1
  <2>2. SchemaAt[v + 1][o] = Max(S(v + 1)) /\ SchemaAt[v][o] = Max(S(v))
    BY <2>1 DEF SchemaAt
  <2>3. CASE o \in Touched[v + 1]
    <3>1. v + 1 \in S(v + 1) /\ \A x \in S(v + 1) : x \in Nat /\ v + 1 >= x
      BY <2>1, <2>3
    <3>2. \A x \in S(v + 1) : (\A y \in S(v + 1) : x >= y) => x = v + 1
      BY <2>1, <3>1
    <3>3. Max(S(v + 1)) = v + 1
      BY <3>1, <3>2 DEF Max
    <3> QED
      BY <2>2, <2>3, <3>3
  <2>4. CASE o \notin Touched[v + 1]
    <3>1. S(v + 1) = S(v)
      BY <2>1, <2>4
    <3> QED
      BY <2>2, <2>4, <3>1
  <2> QED
    BY <2>3, <2>4
<1> QED
  BY <1>2, <1>3

\* The triggers are those of the base revision.
LEMMA TriggerSchema ==
  ASSUME NEW t \in Triggers
  PROVE  SchemaAt[Latest][t] = 1
<1>1. t \in Objects /\ t \in Touched[1] /\ \A r \in 2..9 : t \notin Touched[r]
  BY TriggerObjects, RevisionFacts
<1>2. SchemaAt[1][t] = 1
  BY <1>1, SchemaGrows, RevisionFacts
<1>3. \A v \in 1..8 : SchemaAt[v + 1][t] = SchemaAt[v][t]
  BY <1>1, SchemaGrows, RevisionFacts
<1>4. /\ SchemaAt[2][t] = SchemaAt[1][t] /\ SchemaAt[3][t] = SchemaAt[2][t]
      /\ SchemaAt[4][t] = SchemaAt[3][t] /\ SchemaAt[5][t] = SchemaAt[4][t]
      /\ SchemaAt[6][t] = SchemaAt[5][t] /\ SchemaAt[7][t] = SchemaAt[6][t]
      /\ SchemaAt[8][t] = SchemaAt[7][t] /\ SchemaAt[9][t] = SchemaAt[8][t]
  <2>1. 1 + 1 = 2 /\ 2 + 1 = 3 /\ 3 + 1 = 4 /\ 4 + 1 = 5 /\ 5 + 1 = 6 /\ 6 + 1 = 7 /\ 7 + 1 = 8
        /\ 8 + 1 = 9
    OBVIOUS
  <2> QED
    BY <1>3, <2>1
<1> QED
  BY <1>2, <1>4, RevisionFacts

-----------------------------------------------------------------------------
(* The inductive invariant of the entrypoint *)

\* A statement that creates or redefines o has run, of the first n of rev.
Built(rev, n, o) == \E i \in 1..n : o \in rev[i].adds \cup rev[i].alters

\* The last one to touch o has dropped it.
Dropped(rev, n, o) ==
    \E i \in 1..n : /\ o \in rev[i].drops
                    /\ \A j \in (i + 1)..n : o \notin rev[j].adds \cup rev[j].alters

\* What the first n statements of the revision after v have done.
DoneUpTo(n, v, sch) ==
    \A o \in Objects : Built(Revisions[v + 1], n, o) =>
        sch[o] = v + 1 \/ Dropped(Revisions[v + 1], n, o)

\* What earlier, interrupted attempts at the revision after v left alone.
LeftAlone(v, sch) ==
    \A o \in Objects : o \notin Touched[v + 1] => sch[o] = SchemaAt[v][o]

MigrationOK ==
    version < Latest =>
        /\ LeftAlone(version, schema)
        /\ phase = "migrate" => /\ pc \in 1..(Len(Revision) + 1)
                                /\ DoneUpTo(pc - 1, version, schema)

\* With the head revision, only the demo reset changes the schema: it drops
\* the update trigger while the ledger has rows, and the next reset puts it
\* back.
HeadOK ==
    version = Latest =>
        /\ \A o \in Objects : o \notin Triggers => schema[o] = SchemaAt[Latest][o]
        /\ schema["trg_it_no_delete"] = 1 \/ demoSeed
        /\ \/ schema["trg_it_no_update"] = 1
           \/ /\ demoSeed /\ ledger
              /\ phase \notin {"story", "serve"}
              /\ ~(phase = "wipe" /\ pc \in {5, 6})

PhaseOK ==
    /\ phase \in {"init", "wipe", "story", "serve"} => version = Latest
    /\ phase \in {"wipe", "story"} => demoSeed
    /\ phase = "wipe" /\ pc \in 2..4 => ledger

BootTypeOK == /\ phase \in Phases
              /\ pc \in Nat
              /\ version \in 0..Latest
              /\ schema \in [Objects -> 0..Latest]
              /\ ledger \in BOOLEAN
              /\ demoSeed \in BOOLEAN
              /\ faults \in 0..MaxFaults

BootInv == BootTypeOK /\ MigrationOK /\ HeadOK /\ PhaseOK

\* The bootstrap data is there once init_data has run.
SeededOK ==
    phase \in {"wipe", "story", "serve"} =>
        /\ \A u \in SeededUsers : users[u].status # "NONE"
        /\ \A d \in SeededDepts : depts[d].status # "NONE"

-----------------------------------------------------------------------------
(* The steps of the entrypoint keep it *)

LEMMA TriggerNames ==
  /\ "trg_it_no_update" \in Objects /\ "trg_it_no_delete" \in Objects
  /\ "trg_it_no_update" # "trg_it_no_delete"
  /\ "trg_it_no_update" \in Triggers /\ "trg_it_no_delete" \in Triggers
<1>1. "trg_it_no_update" \in Triggers /\ "trg_it_no_delete" \in Triggers
  BY DEF Triggers
<1> QED
  BY <1>1, TriggerObjects

LEMMA NothingDone ==
  ASSUME NEW v, NEW sch
  PROVE  DoneUpTo(0, v, sch)
  BY DEF DoneUpTo, Built

\* Steps that only leave for a phase before init_data.
LEMMA Restarted ==
  ASSUME BootInv, phase' \in {"down", "wait", "migrate"}, pc' = 1, faults' \in 0..MaxFaults,
         UNCHANGED <<version, schema, ledger, demoSeed>>
  PROVE  BootInv'
<1>1. BootTypeOK'
  BY DEF BootInv, BootTypeOK, Phases
<1>2. MigrationOK'
  <2> SUFFICES ASSUME version < Latest
               PROVE  /\ LeftAlone(version, schema)
                      /\ 1 \in 1..(Len(Revision) + 1) /\ DoneUpTo(0, version, schema)
    BY DEF MigrationOK, Revision
  <2>1. IsRevision(Revision)
    BY RevisionFacts DEF BootInv, BootTypeOK, Revision
  <2> QED
    BY <2>1, NothingDone DEF BootInv, MigrationOK, IsRevision
<1>3. HeadOK'
  BY DEF BootInv, HeadOK
<1>4. PhaseOK'
  BY DEF PhaseOK
<1> QED
  BY <1>1, <1>2, <1>3, <1>4 DEF BootInv

LEMMA BootInit == Init => BootInv
<1> SUFFICES ASSUME Init PROVE BootInv
  OBVIOUS
<1>1. phase = "down" /\ pc = 1 /\ version = 0 /\ schema = NoSchema /\ ledger = FALSE
      /\ demoSeed \in BOOLEAN /\ faults = 0
  BY DEF Init
<1>2. Latest = 9
  BY RevisionFacts
<1>3. \A o \in Objects : schema[o] = 0
  BY <1>1 DEF NoSchema
<1>4. schema \in [Objects -> 0..Latest]
  BY <1>1, <1>2 DEF NoSchema
<1>5. BootTypeOK
  <2>1. 0 \in 0..MaxFaults
    BY StartupAssumption
  <2>2. 0 \in 0..Latest /\ 1 \in Nat
    BY <1>2
  <2>3. "down" \in Phases /\ FALSE \in BOOLEAN
    BY DEF Phases
  <2> QED
    BY <2>1, <2>2, <2>3, <1>1, <1>4, Zenon DEF BootTypeOK
<1>6. MigrationOK
  BY <1>1, <1>3, SchemaGrows DEF MigrationOK, LeftAlone
<1>7. HeadOK /\ PhaseOK
  BY <1>1, <1>2 DEF HeadOK, PhaseOK
<1> QED
  BY <1>5, <1>6, <1>7 DEF BootInv

\* One more statement of a revision.
LEMMA OneStatement ==
  ASSUME NEW v \in 0..(Latest - 1), NEW n \in Nat, n + 1 \in DOMAIN Revisions[v + 1],
         NEW sch, NEW sch1, DoneUpTo(n, v, sch), LeftAlone(v, sch),
         sch1 = Applied(sch, v + 1, Revisions[v + 1][n + 1])
  PROVE  DoneUpTo(n + 1, v, sch1) /\ LeftAlone(v, sch1)
<1>1. PICK rev : rev = Revisions[v + 1]
  OBVIOUS
<1>2. PICK stmt : stmt = rev[n + 1]
  OBVIOUS
<1>3. v \in Nat /\ v + 1 \in 1..Latest
  BY RevisionFacts
<1>4. IsRevision(rev)
  BY <1>1, <1>3, RevisionFacts
<1>5. \A o \in Objects :
          sch1[o] = IF o \in stmt.drops THEN 0
                    ELSE IF o \in stmt.adds \cup stmt.alters THEN v + 1 ELSE sch[o]
  BY <1>1, <1>2 DEF Applied
<1>6. DoneUpTo(n + 1, v, sch1)
  <2> SUFFICES ASSUME NEW o \in Objects, Built(rev, n + 1, o)
               PROVE  sch1[o] = v + 1 \/ Dropped(rev, n + 1, o)
    BY <1>1 DEF DoneUpTo
  <2>1. CASE o \in stmt.drops
    BY <2>1, <1>2 DEF Dropped
  <2>2. CASE o \notin stmt.drops /\ o \in stmt.adds \cup stmt.alters
    BY <2>2, <1>5
  <2>3. CASE o \notin stmt.drops /\ o \notin stmt.adds \cup stmt.alters
    <3>1. Built(rev, n, o)
      <4>1. PICK i \in 1..(n + 1) : o \in rev[i].adds \cup rev[i].alters
        BY DEF Built
      <4>2. i # n + 1
        BY <4>1, <2>3, <1>2
      <4>3. i \in 1..n
        BY <4>2
      <4> QED
        BY <4>1, <4>3 DEF Built
    <3>2. sch[o] = v + 1 \/ Dropped(rev, n, o)
      BY <3>1, <1>1 DEF DoneUpTo
    <3>3. CASE Dropped(rev, n, o)
      <4>1. PICK i \in 1..n : /\ o \in rev[i].drops
                              /\ \A j \in (i + 1)..n : o \notin rev[j].adds \cup rev[j].alters
        BY <3>3 DEF Dropped
      <4>2. \A j \in (i + 1)..(n + 1) : j = n + 1 \/ j \in (i + 1)..n
        OBVIOUS
      <4>3. \A j \in (i + 1)..(n + 1) : o \notin rev[j].adds \cup rev[j].alters
        BY <4>1, <4>2, <2>3, <1>2
      <4>4. i \in 1..(n + 1)
        OBVIOUS
      <4> QED
        BY <4>1, <4>3, <4>4 DEF Dropped
    <3> QED
      BY <3>2, <3>3, <2>3, <1>5
  <2> QED
    BY <2>1, <2>2, <2>3
<1>7. LeftAlone(v, sch1)
  <2> SUFFICES ASSUME NEW o \in Objects, o \notin Touched[v + 1]
               PROVE  sch1[o] = SchemaAt[v][o]
    BY DEF LeftAlone
  <2>1. \A i \in DOMAIN rev : o \notin rev[i].adds \cup rev[i].alters
    BY <1>1, <1>3, TouchedBy
  <2>2. o \notin stmt.drops
    BY <2>1, <1>1, <1>2, <1>4 DEF IsRevision, Restores
  <2>3. sch1[o] = sch[o]
    BY <2>1, <2>2, <1>1, <1>2, <1>5
  <2> QED
    BY <2>3 DEF LeftAlone
<1> QED
  BY <1>6, <1>7

\* After the last statement of a revision the schema is the one of the revision.
LEMMA RevisionDone ==
  ASSUME NEW v \in 0..(Latest - 1), NEW sch,
         DoneUpTo(Len(Revisions[v + 1]), v, sch), LeftAlone(v, sch), NEW o \in Objects
  PROVE  sch[o] = SchemaAt[v + 1][o]
<1>1. PICK rev : rev = Revisions[v + 1]
  OBVIOUS
<1>2. v \in Nat /\ v + 1 \in 1..Latest
  BY RevisionFacts
<1>3. IsRevision(rev)
  BY <1>1, <1>2, RevisionFacts
<1>4. CASE o \in Touched[v + 1]
  <2>1. Built(rev, Len(rev), o)
    BY <1>1, <1>2, <1>3, <1>4, TouchedBy DEF Built, IsRevision
  <2>2. ~Dropped(rev, Len(rev), o)
    <3> SUFFICES ASSUME Dropped(rev, Len(rev), o) PROVE FALSE
      OBVIOUS
    <3>1. PICK i \in 1..Len(rev) :
              /\ o \in rev[i].drops
              /\ \A j \in (i + 1)..Len(rev) : o \notin rev[j].adds \cup rev[j].alters
      BY DEF Dropped
    <3>2. PICK j \in 1..Len(rev) : i < j /\ o \in rev[j].adds
      BY <3>1, <1>3 DEF IsRevision, Restores
    <3>3. j \in (i + 1)..Len(rev)
      BY <3>2, <1>3 DEF IsRevision
    <3> QED
      BY <3>1, <3>2, <3>3
  <2>3. sch[o] = v + 1
    BY <2>1, <2>2, <1>1 DEF DoneUpTo
  <2> QED
    BY <2>3, <1>4, SchemaGrows
<1>5. CASE o \notin Touched[v + 1]
  BY <1>5, SchemaGrows DEF LeftAlone
<1> QED
  BY <1>4, <1>5

LEMMA MigrateStep ==
  ASSUME BootInv, Migrate
  PROVE  BootInv'
<1>1. /\ phase = "migrate" /\ version < Latest /\ pc <= Len(Revision)
      /\ schema' = Applied(schema, version + 1, Revision[pc])
      /\ pc' = pc + 1 /\ UNCHANGED <<phase, version, ledger, demoSeed, faults>>
  BY DEF Migrate, Migrating
<1>2. BootTypeOK /\ MigrationOK
  BY DEF BootInv
<1>3. /\ version \in 0..(Latest - 1) /\ version + 1 \in 1..Latest /\ version # Latest
      /\ Latest \in Nat
  BY <1>1, <1>2, RevisionFacts DEF BootTypeOK
<1>4. IsRevision(Revision)
  BY <1>3, RevisionFacts DEF Revision
<1>5. /\ pc \in 1..(Len(Revision) + 1) /\ DoneUpTo(pc - 1, version, schema)
      /\ LeftAlone(version, schema)
  BY <1>1, <1>2 DEF MigrationOK
<1>6. PICK n \in Nat : pc = n + 1 /\ pc - 1 = n /\ pc' - 1 = n + 1
  <2>1. pc - 1 \in Nat /\ pc = (pc - 1) + 1 /\ pc' - 1 = (pc - 1) + 1
    BY <1>1, <1>4, <1>5 DEF IsRevision
  <2> QED
    BY <2>1
<1>7. n + 1 \in DOMAIN Revisions[version + 1]
  BY <1>1, <1>4, <1>5, <1>6 DEF IsRevision, Revision
<1>8. schema' = Applied(schema, version + 1, Revisions[version + 1][n + 1])
  BY <1>1, <1>6 DEF Revision
<1>9. DoneUpTo(n + 1, version, schema') /\ LeftAlone(version, schema')
  BY <1>3, <1>5, <1>6, <1>7, <1>8, OneStatement
<1>10. MigrationOK'
  <2>1. pc' \in 1..(Len(Revision) + 1)
    BY <1>1, <1>4, <1>5 DEF IsRevision
  <2>2. Revision' = Revision
    BY <1>1 DEF Revision
  <2> QED
    BY <2>1, <2>2, <1>1, <1>6, <1>9 DEF MigrationOK
<1>11. BootTypeOK'
  <2>1. schema' \in [Objects -> 0..Latest]
    BY <1>1, <1>2, <1>3 DEF BootTypeOK, Applied
  <2>2. pc' \in Nat
    BY <1>1, <1>2 DEF BootTypeOK
  <2> QED
    BY <2>1, <2>2, <1>1, <1>2 DEF BootTypeOK
<1>12. HeadOK' /\ PhaseOK'
  BY <1>1, <1>3 DEF HeadOK, PhaseOK
<1> QED
  BY <1>10, <1>11, <1>12 DEF BootInv

LEMMA StampStep ==
  ASSUME BootInv, Stamp
  PROVE  BootInv'
<1>1. /\ phase = "migrate" /\ version < Latest /\ pc > Len(Revision)
      /\ version' = version + 1
      /\ pc' = 1 /\ UNCHANGED <<phase, schema, ledger, demoSeed, faults>>
  BY DEF Stamp, Stampable, Migrating
<1>2. BootTypeOK /\ MigrationOK
  BY DEF BootInv
<1>3. /\ version \in 0..(Latest - 1) /\ version + 1 \in 1..Latest /\ version \in Nat
      /\ Latest \in Nat
  BY <1>1, <1>2, RevisionFacts DEF BootTypeOK
<1>4. IsRevision(Revision)
  BY <1>3, RevisionFacts DEF Revision
<1>5. /\ pc - 1 = Len(Revisions[version + 1]) /\ DoneUpTo(pc - 1, version, schema)
      /\ LeftAlone(version, schema)
  BY <1>1, <1>2, <1>4 DEF MigrationOK, IsRevision, Revision
<1>6. \A o \in Objects : schema[o] = SchemaAt[version + 1][o]
  BY <1>3, <1>5, RevisionDone
<1>7. BootTypeOK'
  <2>1. version' \in 0..Latest /\ pc' \in Nat
    BY <1>1, <1>3
  <2> QED
    BY <2>1, <1>1, <1>2 DEF BootTypeOK
<1>8. MigrationOK'
  <2> SUFFICES ASSUME version' < Latest
               PROVE  /\ LeftAlone(version', schema')
                      /\ pc' \in 1..(Len(Revision') + 1) /\ DoneUpTo(pc' - 1, version', schema')
    BY DEF MigrationOK
  <2>1. IsRevision(Revision')
    BY <1>1, <1>3, RevisionFacts DEF Revision
  <2>2. LeftAlone(version', schema')
    BY <1>1, <1>6 DEF LeftAlone
  <2>3. pc' - 1 = 0
    BY <1>1
  <2> QED
    BY <2>1, <2>2, <2>3, <1>1, NothingDone DEF IsRevision
<1>9. HeadOK'
  <2> SUFFICES ASSUME version' = Latest
               PROVE  /\ \A o \in Objects : o \notin Triggers => schema[o] = SchemaAt[Latest][o]
                      /\ schema["trg_it_no_delete"] = 1 /\ schema["trg_it_no_update"] = 1
    BY <1>1 DEF HeadOK
  <2>1. \A o \in Objects : schema[o] = SchemaAt[Latest][o]
    BY <1>1, <1>6
  <2> QED
    BY <2>1, TriggerNames, TriggerSchema
<1>10. PhaseOK'
  BY <1>1 DEF PhaseOK
<1> QED
  BY <1>7, <1>8, <1>9, <1>10 DEF BootInv

\* Steps of a process on the head revision that leave the schema alone.
LEMMA OnHead ==
  ASSUME BootInv, version = Latest, UNCHANGED <<version, schema, demoSeed>>,
         BootTypeOK', PhaseOK',
         \/ schema["trg_it_no_update"] = 1
         \/ /\ ledger' /\ phase' \notin {"story", "serve"}
            /\ ~(phase' = "wipe" /\ pc' \in {5, 6})
  PROVE  BootInv'
<1>1. MigrationOK'
  <2>1. ~(version' < Latest)
    BY RevisionFacts
  <2> QED
    BY <2>1 DEF MigrationOK
<1>2. HeadOK'
  BY DEF BootInv, HeadOK
<1> QED
  BY <1>1, <1>2 DEF BootInv

LEMMA MigratedStep ==
  ASSUME BootInv, Migrated
  PROVE  BootInv'
<1>1. /\ phase = "migrate" /\ version = Latest /\ phase' = "init" /\ pc' = 1
      /\ UNCHANGED <<version, schema, ledger, demoSeed, faults>>
  BY DEF Migrated, Goto
<1>2. BootTypeOK'
  BY <1>1 DEF BootInv, BootTypeOK, Phases
<1>3. PhaseOK'
  BY <1>1 DEF PhaseOK
<1> QED
  BY <1>1, <1>2, <1>3, OnHead DEF BootInv, HeadOK

LEMMA InitDataBoot ==
  ASSUME BootInv, InitData
  PROVE  BootInv'
<1>1. /\ phase = "init" /\ phase' = AfterInit /\ pc' = 1
      /\ UNCHANGED <<version, schema, ledger, demoSeed, faults>>
  BY DEF InitData, Goto
<1>2. version = Latest
  BY <1>1 DEF BootInv, PhaseOK
<1>3. phase' = IF demoSeed THEN "wipe" ELSE "serve"
  BY <1>1 DEF AfterInit
<1>4. BootTypeOK'
  BY <1>1, <1>3 DEF BootInv, BootTypeOK, Phases
<1>5. PhaseOK'
  BY <1>1, <1>2, <1>3 DEF PhaseOK
<1> QED
  BY <1>1, <1>2, <1>3, <1>4, <1>5, OnHead DEF BootInv, HeadOK

LEMMA TriggerSet ==
  ASSUME BootTypeOK, NEW t, NEW r \in {0, 1}, schema' = [schema EXCEPT ![t] = r],
         ledger' \in BOOLEAN, pc' \in Nat, UNCHANGED <<phase, version, demoSeed, faults>>
  PROVE  BootTypeOK'
<1>1. r \in 0..Latest
  BY RevisionFacts
<1>2. schema' \in [Objects -> 0..Latest]
  BY <1>1 DEF BootTypeOK
<1> QED
  BY <1>2 DEF BootTypeOK

LEMMA WipeStep ==
  ASSUME BootInv, Wipe
  PROVE  BootInv'
<1>1. phase = "wipe" /\ UNCHANGED <<version, demoSeed, faults>>
  BY DEF Wipe, WipeCount, DropUpdateTrigger, DropDeleteTrigger, CreateUpdateTrigger,
         CreateDeleteTrigger, WipeRest, Wiping
<1>2. /\ version = Latest /\ demoSeed /\ (pc \in 2..4 => ledger)
      /\ BootTypeOK /\ HeadOK
  BY <1>1 DEF BootInv, PhaseOK
<1>3. Latest = 9
  BY RevisionFacts
<1>4. \A o \in Objects : o \notin Triggers => schema[o] = SchemaAt[Latest][o]
  BY <1>2 DEF HeadOK
<1>5. MigrationOK'
  <2>1. ~(version' < Latest)
    BY <1>1, <1>2, <1>3
  <2> QED
    BY <2>1 DEF MigrationOK
<1>6. CASE WipeCount
  <2>1. /\ pc = 1 /\ pc' = (IF ledger THEN 2 ELSE 6)
        /\ UNCHANGED <<phase, version, schema, ledger, demoSeed, faults>>
    BY <1>6 DEF WipeCount, Wiping
  <2>2. BootTypeOK'
    BY <2>1, <1>2 DEF BootTypeOK
  <2>3. PhaseOK'
    BY <2>1, <1>1, <1>2 DEF PhaseOK
  <2>4. schema["trg_it_no_update"] = 1 \/ (ledger' /\ pc' = 2 /\ phase' = "wipe")
    BY <2>1, <1>1, <1>2 DEF HeadOK
  <2> QED
    BY <2>1, <2>2, <2>3, <2>4, <1>2, OnHead
<1>7. CASE DropUpdateTrigger
  <2>1. /\ pc = 2 /\ pc' = 3 /\ schema' = [schema EXCEPT !["trg_it_no_update"] = 0]
        /\ UNCHANGED <<phase, version, ledger, demoSeed, faults>>
    BY <1>7 DEF DropUpdateTrigger, Wiping, SetTrigger
  <2>2. ledger
    BY <2>1, <1>2
  <2>3. BootTypeOK'
    <3>1. ledger' \in BOOLEAN
      BY <2>1, <1>2, Zenon DEF BootTypeOK
    <3>2. pc' \in Nat
      BY <2>1
    <3> QED
      BY <2>1, <3>1, <3>2, <1>2, TriggerSet
  <2>4. PhaseOK'
    BY <2>1, <2>2, <1>2 DEF PhaseOK
  <2>5. \A o \in Objects : o \notin Triggers => schema'[o] = SchemaAt[Latest][o]
    BY <2>1, <1>2, <1>4, TriggerNames DEF BootTypeOK
  <2>6. HeadOK'
    BY <2>1, <2>2, <2>5, <1>1, <1>2 DEF HeadOK
  <2> QED
    BY <2>3, <2>4, <2>6, <1>5 DEF BootInv
<1>8. CASE DropDeleteTrigger
  <2>1. /\ pc = 3 /\ pc' = 4 /\ schema' = [schema EXCEPT !["trg_it_no_delete"] = 0]
        /\ UNCHANGED <<phase, version, ledger, demoSeed, faults>>
    BY <1>8 DEF DropDeleteTrigger, Wiping, SetTrigger
  <2>2. ledger
    BY <2>1, <1>2
  <2>3. BootTypeOK'
    <3>1. ledger' \in BOOLEAN
      BY <2>1, <1>2, Zenon DEF BootTypeOK
    <3>2. pc' \in Nat
      BY <2>1
    <3> QED
      BY <2>1, <3>1, <3>2, <1>2, TriggerSet
  <2>4. PhaseOK'
    BY <2>1, <2>2, <1>2 DEF PhaseOK
  <2>5. \A o \in Objects : o \notin Triggers => schema'[o] = SchemaAt[Latest][o]
    BY <2>1, <1>2, <1>4, TriggerNames DEF BootTypeOK
  <2>6. HeadOK'
    BY <2>1, <2>2, <2>5, <1>1, <1>2 DEF HeadOK
  <2> QED
    BY <2>3, <2>4, <2>6, <1>5 DEF BootInv
<1>9. CASE CreateUpdateTrigger
  <2>1. /\ pc = 4 /\ pc' = 5 /\ schema' = [schema EXCEPT !["trg_it_no_update"] = 1]
        /\ ledger' = FALSE /\ UNCHANGED <<phase, version, demoSeed, faults>>
    BY <1>9 DEF CreateUpdateTrigger, Wiping, SetTrigger
  <2>2. BootTypeOK'
    <3>1. ledger' \in BOOLEAN
      BY <2>1, <1>2, Zenon DEF BootTypeOK
    <3>2. pc' \in Nat
      BY <2>1
    <3> QED
      BY <2>1, <3>1, <3>2, <1>2, TriggerSet
  <2>3. PhaseOK'
    BY <2>1, <1>2 DEF PhaseOK
  <2>4. \A o \in Objects : o \notin Triggers => schema'[o] = SchemaAt[Latest][o]
    BY <2>1, <1>2, <1>4, TriggerNames DEF BootTypeOK
  <2>5. schema'["trg_it_no_update"] = 1
    BY <2>1, <1>2, TriggerNames DEF BootTypeOK
  <2>6. HeadOK'
    BY <2>1, <2>4, <2>5, <1>1, <1>2 DEF HeadOK
  <2> QED
    BY <2>2, <2>3, <2>6, <1>5 DEF BootInv
<1>10. CASE CreateDeleteTrigger
  <2>1. /\ pc = 5 /\ pc' = 6 /\ schema' = [schema EXCEPT !["trg_it_no_delete"] = 1]
        /\ UNCHANGED <<phase, version, ledger, demoSeed, faults>>
    BY <1>10 DEF CreateDeleteTrigger, Wiping, SetTrigger
  <2>2. BootTypeOK'
    <3>1. ledger' \in BOOLEAN
      BY <2>1, <1>2, Zenon DEF BootTypeOK
    <3>2. pc' \in Nat
      BY <2>1
    <3> QED
      BY <2>1, <3>1, <3>2, <1>2, TriggerSet
  <2>3. PhaseOK'
    BY <2>1, <1>2 DEF PhaseOK
  <2>4. \A o \in Objects : o \notin Triggers => schema'[o] = SchemaAt[Latest][o]
    BY <2>1, <1>2, <1>4, TriggerNames DEF BootTypeOK
  <2>5. schema["trg_it_no_update"] = 1
    BY <2>1, <1>1, <1>2 DEF HeadOK
  <2>6. schema'["trg_it_no_update"] = 1
    BY <2>1, <2>5, <1>2, TriggerNames DEF BootTypeOK
  <2>7. HeadOK'
    BY <2>1, <2>4, <2>6, <1>1, <1>2 DEF HeadOK
  <2> QED
    BY <2>2, <2>3, <2>7, <1>5 DEF BootInv
<1>11. CASE WipeRest
  <2>1. /\ pc = 6 /\ pc' = 1 /\ phase' = "story"
        /\ UNCHANGED <<version, schema, ledger, demoSeed, faults>>
    BY <1>11 DEF WipeRest, Wiping, Goto
  <2>2. BootTypeOK'
    BY <2>1, <1>2 DEF BootTypeOK, Phases
  <2>3. PhaseOK'
    BY <2>1, <1>2 DEF PhaseOK
  <2>4. schema["trg_it_no_update"] = 1
    BY <2>1, <1>1, <1>2 DEF HeadOK
  <2> QED
    BY <2>1, <2>2, <2>3, <2>4, <1>2, OnHead
<1> QED
  BY <1>6, <1>7, <1>8, <1>9, <1>10, <1>11 DEF Wipe

\* The story and the service on the whole schema.
LEMMA RunningStep ==
  ASSUME BootInv, StoryReceipt \/ StoryDone \/ Post \/ Serve
  PROVE  BootInv'
<1>1. /\ phase \in {"story", "serve"} /\ phase' \in {phase, "serve"}
      /\ pc' \in {pc, 1} /\ ledger' \in {ledger, TRUE}
      /\ UNCHANGED <<version, schema, demoSeed, faults>>
  BY DEF StoryReceipt, StoryDone, Post, Serve, bootVars, Goto
<1>2. version = Latest /\ BootTypeOK /\ HeadOK
  BY <1>1 DEF BootInv, PhaseOK
<1>3. BootTypeOK'
  <2>1. ledger' \in BOOLEAN
    BY <1>1, <1>2, Zenon DEF BootTypeOK
  <2>2. phase' \in Phases /\ pc' \in Nat
    BY <1>1, <1>2 DEF BootTypeOK, Phases
  <2> QED
    BY <2>1, <2>2, <1>1, <1>2 DEF BootTypeOK
<1>4. PhaseOK'
  BY <1>1, <1>2 DEF PhaseOK, BootInv
<1>5. schema["trg_it_no_update"] = 1
  BY <1>1, <1>2 DEF HeadOK
<1> QED
  BY <1>1, <1>2, <1>3, <1>4, <1>5, OnHead

-----------------------------------------------------------------------------
(* The steps of users, departments and roles *)

\* No row of users or departments is deleted.
NeverRemoved ==
    /\ \A u \in Users : users[u].status # "NONE" => users'[u].status # "NONE"
    /\ \A d \in Departments : depts[d].status # "NONE" => depts'[d].status # "NONE"

\* What DisableSticks says of a step.
DisableStep ==
    \A u \in Users :
        users[u].status = "DISABLED" /\ users'[u].status = "ACTIVE"
            => \E s \in Sessions, c \in UserChanges : c.status = "ACTIVE" /\ UpdateUser(s, u, c)

\* What a step of Administration may do.
AdminGood == /\ AdminTypeOK'
             /\ NeverRemoved
             /\ DisableStep
             /\ GrantsFollowAudit => GrantsFollowAudit'

LEMMA FinitePermissions ==
  ASSUME NEW granted \in Grants
  PROVE  granted \subseteq Permissions /\ Cardinality(granted) \in Nat
<1>1. granted \in SUBSET Permissions
  BY AdministrationAssumption
<1>2. IsFiniteSet({"user:create"})
  BY FS_Singleton
<1>3. IsFiniteSet({"user:create"} \cup {"user:update"})
  BY <1>2, FS_AddElement
<1>4. IsFiniteSet({"user:create"} \cup {"user:update"} \cup {"user:delete"})
  BY <1>3, FS_AddElement
<1>5. IsFiniteSet({"user:create"} \cup {"user:update"} \cup {"user:delete"}
                  \cup {"department:create"})
  BY <1>4, FS_AddElement
<1>6. IsFiniteSet({"user:create"} \cup {"user:update"} \cup {"user:delete"}
                  \cup {"department:create"} \cup {"department:update"})
  BY <1>5, FS_AddElement
<1>7. IsFiniteSet({"user:create"} \cup {"user:update"} \cup {"user:delete"}
                  \cup {"department:create"} \cup {"department:update"} \cup {"department:delete"})
  BY <1>6, FS_AddElement
<1>8. IsFiniteSet({"user:create"} \cup {"user:update"} \cup {"user:delete"}
                  \cup {"department:create"} \cup {"department:update"} \cup {"department:delete"}
                  \cup {"role:assign"})
  BY <1>7, FS_AddElement
<1>9. Permissions = {"user:create"} \cup {"user:update"} \cup {"user:delete"}
                  \cup {"department:create"} \cup {"department:update"} \cup {"department:delete"}
                  \cup {"role:assign"} \cup {"pr:view"}
  BY DEF Permissions
<1>10. IsFiniteSet(Permissions)
  BY <1>8, <1>9, FS_AddElement
<1>11. IsFiniteSet(granted)
  BY <1>1, <1>10, FS_Subset
<1> QED
  BY <1>1, <1>11, FS_CardinalityType

\* The tables and the newest permission rows stay.
LEMMA SameTables ==
  ASSUME AdminTypeOK', UNCHANGED <<users, depts, perms, grantLog>>
  PROVE  AdminGood
<1>1. NeverRemoved
  BY DEF NeverRemoved
<1>2. DisableStep
  BY DEF DisableStep
<1>3. GrantsFollowAudit => GrantsFollowAudit'
  BY DEF GrantsFollowAudit
<1> QED
  BY <1>1, <1>2, <1>3 DEF AdminGood

LEMMA OpenStep ==
  ASSUME AdminTypeOK, NEW s \in Sessions, NEW actor \in Users \cup {Null}, Open(s, actor)
  PROVE  AdminGood
<1>1. [users |-> users, depts |-> depts, perms |-> perms, actor |-> actor] \in Snapshot
  BY DEF AdminTypeOK, Snapshot
<1>2. snap' \in [Sessions -> Snapshot \cup {NoSnapshot}]
  BY <1>1 DEF AdminTypeOK, Open
<1>3. UNCHANGED <<users, depts, perms, tokens, logins, grantLog, requests>>
  BY DEF Open, tables
<1>4. AdminTypeOK'
  BY <1>2, <1>3 DEF AdminTypeOK
<1> QED
  BY <1>3, <1>4, SameTables

LEMMA CommitEnds ==
  ASSUME AdminTypeOK, NEW s \in Sessions, Commit(s)
  PROVE  /\ snap' \in [Sessions -> Snapshot \cup {NoSnapshot}]
         /\ requests' \in 0..MaxRequests
<1>1. snap' \in [Sessions -> Snapshot \cup {NoSnapshot}]
  BY DEF AdminTypeOK, Commit, Close
<1>2. requests' \in 0..MaxRequests
  BY AdministrationAssumption DEF AdminTypeOK, Commit
<1> QED
  BY <1>1, <1>2

\* The steps of sessions, logins and tokens.
LEMMA QuietStep ==
  ASSUME AdminTypeOK,
         \/ \E s \in Sessions : \/ BeginLogin(s) \/ Rollback(s)
                                \/ \E u \in Users : Begin(s, u) \/ Login(s, u) \/ LoginFailed(s, u)
         \/ \E u \in Users : Expire(u)
  PROVE  AdminGood
<1>1. ASSUME NEW s \in Sessions, BeginLogin(s) PROVE AdminGood
  BY <1>1, OpenStep DEF BeginLogin
<1>2. ASSUME NEW s \in Sessions, Rollback(s) PROVE AdminGood
  <2>1. snap' = [snap EXCEPT ![s] = NoSnapshot]
        /\ UNCHANGED <<users, depts, perms, tokens, logins, grantLog, requests>>
    BY <1>2 DEF Rollback, Close, tables
  <2>2. AdminTypeOK'
    BY <2>1 DEF AdminTypeOK
  <2> QED
    BY <2>1, <2>2, SameTables
<1>3. ASSUME NEW s \in Sessions, NEW u \in Users, Begin(s, u) PROVE AdminGood
  BY <1>3, OpenStep DEF Begin
<1>4. ASSUME NEW s \in Sessions, NEW u \in Users, Login(s, u) PROVE AdminGood
  <2>1. /\ tokens' = tokens \cup {u} /\ logins' = logins \cup {<<"LOGIN", u>>} /\ Commit(s)
        /\ UNCHANGED <<users, depts, perms, grantLog>>
    BY <1>4 DEF Login, tables
  <2>2. AdminTypeOK'
    BY <2>1, CommitEnds DEF AdminTypeOK
  <2> QED
    BY <2>1, <2>2, SameTables
<1>5. ASSUME NEW s \in Sessions, NEW u \in Users, LoginFailed(s, u) PROVE AdminGood
  <2>1. /\ logins' = logins \cup {<<"LOGIN_FAILED", u>>} /\ Commit(s)
        /\ UNCHANGED <<users, depts, perms, tokens, grantLog>>
    BY <1>5 DEF LoginFailed, tables
  <2>2. AdminTypeOK'
    BY <2>1, CommitEnds DEF AdminTypeOK
  <2> QED
    BY <2>1, <2>2, SameTables
<1>6. ASSUME NEW u \in Users, Expire(u) PROVE AdminGood
  <2>1. /\ tokens' = tokens \ {u}
        /\ UNCHANGED <<users, depts, perms, logins, grantLog, requests, snap>>
    BY <1>6 DEF Expire, tables
  <2>2. AdminTypeOK'
    BY <2>1 DEF AdminTypeOK
  <2> QED
    BY <2>1, <2>2, SameTables
<1> QED
  BY <1>1, <1>2, <1>3, <1>4, <1>5, <1>6, Zenon

\* The flush writes the requested value or leaves the column.
LEMMA FlushIs ==
  ASSUME NEW x, NEW loaded, NEW current
  PROVE  Flush(x, loaded, current) = current \/ (x # Absent /\ Flush(x, loaded, current) = x)
  BY DEF Flush

\* A request that writes one row of users.
LEMMA UserWritten ==
  ASSUME AdminTypeOK, NEW s \in Sessions, NEW u \in Users, NEW row \in User,
         WriteUser(s, u, row),
         users[u].status # "NONE" => row.status # "NONE",
         users[u].status = "DISABLED" /\ row.status = "ACTIVE" =>
             \E c \in UserChanges : c.status = "ACTIVE" /\ UpdateUser(s, u, c)
  PROVE  AdminGood
<1>1. /\ users' = [users EXCEPT ![u] = row] /\ Commit(s)
      /\ UNCHANGED <<depts, perms, tokens, logins, grantLog>>
  BY DEF WriteUser
<1>2. users' \in [Users -> User] /\ users'[u] = row
      /\ \A v \in Users : v # u => users'[v] = users[v]
  BY <1>1 DEF AdminTypeOK
<1>3. AdminTypeOK'
  BY <1>1, <1>2, CommitEnds DEF AdminTypeOK
<1>4. NeverRemoved
  BY <1>1, <1>2 DEF NeverRemoved
<1>5. DisableStep
  <2> SUFFICES ASSUME NEW v \in Users, users[v].status = "DISABLED", users'[v].status = "ACTIVE"
               PROVE  \E t \in Sessions, c \in UserChanges :
                         c.status = "ACTIVE" /\ UpdateUser(t, v, c)
    BY DEF DisableStep
  <2>1. v = u
    BY <1>2
  <2> QED
    BY <2>1, <1>2
<1>6. GrantsFollowAudit => GrantsFollowAudit'
  BY <1>1 DEF GrantsFollowAudit
<1> QED
  BY <1>3, <1>4, <1>5, <1>6 DEF AdminGood

LEMMA CreateUserStep ==
  ASSUME AdminTypeOK, NEW s \in Sessions, NEW u \in Users, NEW new \in NewUsers,
         CreateUser(s, u, new.role, new.dept)
  PROVE  AdminGood
<1>0. new.role \in Roles /\ new.dept \in Departments \cup {Null}
  BY AdministrationAssumption
<1>1. PICK row : row = [status |-> "ACTIVE", role |-> new.role, dept |-> new.dept,
                        password |-> "changed"]
  OBVIOUS
<1>2. row \in User /\ row.status = "ACTIVE"
  BY <1>0, <1>1 DEF User, UserStatus, Password
<1>3. WriteUser(s, u, row) /\ users[u].status = "NONE"
  BY <1>1 DEF CreateUser
<1> QED
  BY <1>2, <1>3, UserWritten

LEMMA UpdateUserStep ==
  ASSUME AdminTypeOK, NEW s \in Sessions, NEW u \in Users, NEW c \in UserChanges,
         UpdateUser(s, u, c)
  PROVE  AdminGood
<1>1. PICK row : row = MergedUser(s, u, c)
  OBVIOUS
<1>2. WriteUser(s, u, row)
  BY <1>1 DEF UpdateUser
<1>3. c \in UserChange
  BY AdministrationAssumption
<1>4. /\ c.status \in UserStatus \cup {Absent} /\ c.role \in Roles \cup {Absent}
      /\ c.dept \in Departments \cup {Null, Absent} /\ c.password \in Password \cup {Absent}
  BY <1>3 DEF UserChange
<1>5. users[u] \in User
  BY DEF AdminTypeOK
<1>6. /\ users[u].status \in UserStatus \cup {"NONE"} /\ users[u].role \in Roles \cup {Null}
      /\ users[u].dept \in Departments \cup {Null} /\ users[u].password \in Password
  BY <1>5 DEF User
<1>7. row = [status   |-> Flush(c.status, snap[s].users[u].status, users[u].status),
             role     |-> Flush(c.role, snap[s].users[u].role, users[u].role),
             dept     |-> Flush(c.dept, snap[s].users[u].dept, users[u].dept),
             password |-> IF c.password = Absent THEN users[u].password ELSE c.password]
  BY <1>1 DEF MergedUser
<1>8. /\ row.status = users[u].status \/ (c.status # Absent /\ row.status = c.status)
      /\ row.role = users[u].role \/ (c.role # Absent /\ row.role = c.role)
      /\ row.dept = users[u].dept \/ (c.dept # Absent /\ row.dept = c.dept)
      /\ row.password = users[u].password \/ (c.password # Absent /\ row.password = c.password)
  BY <1>7, FlushIs
<1>9. row \in User
  <2>1. /\ row.status \in UserStatus \cup {"NONE"} /\ row.role \in Roles \cup {Null}
        /\ row.dept \in Departments \cup {Null} /\ row.password \in Password
    BY <1>4, <1>6, <1>8
  <2> QED
    BY <2>1, <1>7 DEF User
<1>10. users[u].status # "NONE" => row.status # "NONE"
  BY <1>4, <1>8 DEF UserStatus
<1>11. users[u].status = "DISABLED" /\ row.status = "ACTIVE" => c.status = "ACTIVE"
  BY <1>8
<1> QED
  BY <1>2, <1>9, <1>10, <1>11, UserWritten

LEMMA DisableUserStep ==
  ASSUME AdminTypeOK, NEW s \in Sessions, NEW u \in Users, DisableUser(s, u)
  PROVE  AdminGood
<1>1. PICK st : st = Flush("DISABLED", snap[s].users[u].status, users[u].status)
  OBVIOUS
<1>2. st \in {"DISABLED", users[u].status}
  BY <1>1, FlushIs
<1>3. WriteUser(s, u, [users[u] EXCEPT !.status = st])
  BY <1>1 DEF DisableUser
<1>4. users[u] \in User
  BY DEF AdminTypeOK
<1>5. PICK row : row = [users[u] EXCEPT !.status = st]
  OBVIOUS
<1>6. row \in User /\ row.status = st
  BY <1>2, <1>4, <1>5 DEF User, UserStatus
<1>7. /\ users[u].status # "NONE" => row.status # "NONE"
      /\ ~(users[u].status = "DISABLED" /\ row.status = "ACTIVE")
  BY <1>2, <1>6
<1> QED
  BY <1>3, <1>5, <1>6, <1>7, UserWritten

\* A request that writes one row of departments.
LEMMA DeptWritten ==
  ASSUME AdminTypeOK, NEW s \in Sessions, NEW d \in Departments, NEW row \in Department,
         WriteDept(s, d, row), depts[d].status # "NONE" => row.status # "NONE"
  PROVE  AdminGood
<1>1. /\ depts' = [depts EXCEPT ![d] = row] /\ Commit(s)
      /\ UNCHANGED <<users, perms, tokens, logins, grantLog>>
  BY DEF WriteDept
<1>2. depts' \in [Departments -> Department] /\ depts'[d] = row
      /\ \A e \in Departments : e # d => depts'[e] = depts[e]
  BY <1>1 DEF AdminTypeOK
<1>3. AdminTypeOK'
  BY <1>1, <1>2, CommitEnds DEF AdminTypeOK
<1>4. NeverRemoved
  BY <1>1, <1>2 DEF NeverRemoved
<1>5. DisableStep
  BY <1>1 DEF DisableStep
<1>6. GrantsFollowAudit => GrantsFollowAudit'
  BY <1>1 DEF GrantsFollowAudit
<1> QED
  BY <1>3, <1>4, <1>5, <1>6 DEF AdminGood

LEMMA DepartmentStep ==
  ASSUME AdminTypeOK, NEW s \in Sessions, NEW d \in Departments,
         \/ DisableDepartment(s, d)
         \/ \E p \in Departments \cup {Null} : CreateDepartment(s, d, p)
         \/ \E c \in DeptChanges : UpdateDepartment(s, d, c)
  PROVE  AdminGood
<1>1. depts[d] \in Department
  BY DEF AdminTypeOK
<1>2. depts[d].status \in DeptStatus \cup {"NONE"} /\ depts[d].parent \in Departments \cup {Null}
  BY <1>1 DEF Department
<1>3. CASE DisableDepartment(s, d)
  <2>1. PICK st : st = Flush("INACTIVE", snap[s].depts[d].status, depts[d].status)
    OBVIOUS
  <2>2. st \in {"INACTIVE", depts[d].status}
    BY <2>1, FlushIs
  <2>3. PICK row : row = [depts[d] EXCEPT !.status = st]
    OBVIOUS
  <2>4. WriteDept(s, d, row)
    BY <1>3, <2>1, <2>3 DEF DisableDepartment
  <2>5. row \in Department /\ row.status = st
    BY <2>2, <2>3, <1>1 DEF Department, DeptStatus
  <2> QED
    BY <2>2, <2>4, <2>5, DeptWritten
<1>4. ASSUME NEW p \in Departments \cup {Null}, CreateDepartment(s, d, p) PROVE AdminGood
  <2>1. PICK row : row = [status |-> "ACTIVE", parent |-> p]
    OBVIOUS
  <2>2. WriteDept(s, d, row)
    BY <1>4, <2>1 DEF CreateDepartment
  <2>3. row \in Department /\ row.status = "ACTIVE"
    BY <2>1 DEF Department, DeptStatus
  <2> QED
    BY <2>2, <2>3, DeptWritten
<1>5. ASSUME NEW c \in DeptChanges, UpdateDepartment(s, d, c) PROVE AdminGood
  <2>1. c \in DeptChange
    BY AdministrationAssumption
  <2>2. c.status \in DeptStatus \cup {Absent} /\ c.parent \in Departments \cup {Absent}
    BY <2>1 DEF DeptChange
  <2>3. PICK row : row = [status |-> Flush(c.status, snap[s].depts[d].status, depts[d].status),
                          parent |-> Flush(c.parent, snap[s].depts[d].parent, depts[d].parent)]
    OBVIOUS
  <2>4. WriteDept(s, d, row)
    BY <1>5, <2>3 DEF UpdateDepartment
  <2>5. /\ row.status = depts[d].status \/ (c.status # Absent /\ row.status = c.status)
        /\ row.parent = depts[d].parent \/ (c.parent # Absent /\ row.parent = c.parent)
    BY <2>3, FlushIs
  <2>6. row.status \in DeptStatus \cup {"NONE"} /\ row.parent \in Departments \cup {Null}
    BY <2>2, <2>5, <1>2
  <2>7. row \in Department
    BY <2>3, <2>6 DEF Department
  <2>8. depts[d].status # "NONE" => row.status # "NONE"
    BY <2>2, <2>5 DEF DeptStatus
  <2> QED
    BY <2>4, <2>7, <2>8, DeptWritten
<1> QED
  BY <1>3, <1>4, <1>5

LEMMA AssignStep ==
  ASSUME AdminTypeOK, NEW s \in Sessions, NEW r \in Roles, NEW granted \in Grants,
         AssignPermissions(s, r, granted)
  PROVE  AdminGood
<1>1. /\ perms' = [perms EXCEPT ![r] = granted]
      /\ grantLog' = [grantLog EXCEPT ![r] = Cardinality(granted)]
      /\ Commit(s) /\ UNCHANGED <<users, depts, tokens, logins>>
  BY DEF AssignPermissions, ReplacePermissions
<1>2. granted \in SUBSET Permissions /\ Cardinality(granted) \in Nat
  BY FinitePermissions
<1>3. perms' \in [Roles -> SUBSET Permissions] /\ grantLog' \in [Roles -> Nat \cup {Null}]
  BY <1>1, <1>2 DEF AdminTypeOK
<1>4. AdminTypeOK'
  BY <1>1, <1>3, CommitEnds DEF AdminTypeOK
<1>5. NeverRemoved /\ DisableStep
  BY <1>1 DEF NeverRemoved, DisableStep
<1>6. /\ perms'[r] = granted /\ grantLog'[r] = Cardinality(granted)
      /\ \A q \in Roles : q # r => perms'[q] = perms[q] /\ grantLog'[q] = grantLog[q]
  BY <1>1 DEF AdminTypeOK
<1>7. GrantsFollowAudit => GrantsFollowAudit'
  <2> SUFFICES ASSUME GrantsFollowAudit, NEW q \in Roles, grantLog'[q] # Null
               PROVE  \E g \in Grants : /\ Cardinality(g) = grantLog'[q]
                                        /\ perms'[q] \in {g, g \cup RolePermissions(q)}
    BY DEF GrantsFollowAudit, RolePermissions
  <2>1. CASE q = r
    BY <2>1, <1>6
  <2>2. CASE q # r
    BY <2>2, <1>6 DEF GrantsFollowAudit
  <2> QED
    BY <2>1, <2>2
<1> QED
  BY <1>4, <1>5, <1>7 DEF AdminGood

LEMMA AdminStep ==
  ASSUME AdminTypeOK, AdminNext
  PROVE  AdminGood
  BY QuietStep, CreateUserStep, UpdateUserStep, DisableUserStep, DepartmentStep, AssignStep,
     Zenon DEF AdminNext

-----------------------------------------------------------------------------
(* The whole specification *)

IInv == AdminTypeOK /\ BootInv /\ SeededOK /\ GrantsFollowAudit

\* init_data adds rows and permissions and changes none.
LEMMA InitDataAdmin ==
  ASSUME AdminTypeOK, InitData
  PROVE  AdminGood
<1>1. /\ users' = SeedUsers /\ depts' = SeedDepartments
      /\ perms' = [r \in Roles |-> perms[r] \cup RolePermissions(r)]
      /\ UNCHANGED <<tokens, logins, grantLog, requests, snap>>
  BY DEF InitData
<1>2. \A u \in SeededUsers : SeededUser(u) \in User /\ SeededUser(u).status = "ACTIVE"
  <2> SUFFICES ASSUME NEW u \in SeededUsers
               PROVE  SeededUser(u) \in User /\ SeededUser(u).status = "ACTIVE"
    OBVIOUS
  <2>1. RoleOf[u] \in Roles /\ HomeOf[u] \in Departments
    BY StartupAssumption
  <2> QED
    BY <2>1 DEF SeededUser, User, UserStatus, Password
<1>3. \A u \in Users :
          users'[u] = IF u \in SeededUsers /\ users[u].status = "NONE"
                      THEN SeededUser(u) ELSE users[u]
  BY <1>1 DEF SeedUsers
<1>4. \A u \in Users : users[u] \in User
  BY DEF AdminTypeOK
<1>5. users' \in [Users -> User]
  <2>1. \A u \in Users : users'[u] \in User
    BY <1>2, <1>3, <1>4
  <2> QED
    BY <2>1, <1>1 DEF SeedUsers
<1>6. [status |-> "ACTIVE", parent |-> Null] \in Department
  BY DEF Department, DeptStatus
<1>7. \A d \in Departments :
          depts'[d] = IF d \in SeededDepts /\ depts[d].status = "NONE"
                      THEN [status |-> "ACTIVE", parent |-> Null] ELSE depts[d]
  BY <1>1 DEF SeedDepartments
<1>8. \A d \in Departments : depts[d] \in Department
  BY DEF AdminTypeOK
<1>9. depts' \in [Departments -> Department]
  <2>1. \A d \in Departments : depts'[d] \in Department
    BY <1>6, <1>7, <1>8
  <2> QED
    BY <2>1, <1>1 DEF SeedDepartments
<1>10. perms' \in [Roles -> SUBSET Permissions]
  <2>1. "pr:view" \in Permissions
    BY DEF Permissions
  <2>2. \A r \in Roles : RolePermissions(r) \subseteq Permissions
    BY <2>1 DEF RolePermissions
  <2>3. perms \in [Roles -> SUBSET Permissions]
    BY DEF AdminTypeOK
  <2> QED
    BY <1>1, <2>2, <2>3
<1>11. AdminTypeOK'
  BY <1>1, <1>5, <1>9, <1>10 DEF AdminTypeOK
<1>12. NeverRemoved
  BY <1>3, <1>7 DEF NeverRemoved
<1>13. DisableStep
  BY <1>3 DEF DisableStep
<1>14. GrantsFollowAudit => GrantsFollowAudit'
  <2> SUFFICES ASSUME GrantsFollowAudit, NEW r \in Roles, grantLog'[r] # Null
               PROVE  \E g \in Grants : /\ Cardinality(g) = grantLog'[r]
                                        /\ perms'[r] \in {g, g \cup RolePermissions(r)}
    BY DEF GrantsFollowAudit, RolePermissions
  <2>1. PICK g \in Grants : /\ Cardinality(g) = grantLog[r]
                            /\ perms[r] \in {g, g \cup RolePermissions(r)}
    BY <1>1 DEF GrantsFollowAudit
  <2>2. perms'[r] = perms[r] \cup RolePermissions(r)
    BY <1>1
  <2>3. perms'[r] = g \cup RolePermissions(r)
    BY <2>1, <2>2
  <2> QED
    BY <2>1, <2>3, <1>1
<1> QED
  BY <1>11, <1>12, <1>13, <1>14 DEF AdminGood

\* The rows of the story's logins.
LEMMA StoryLoginsType ==
  ASSUME AdminTypeOK, NEW done \in SUBSET Users, NEW refused \in SUBSET Users
  PROVE  StoryLogins(done, refused) \subseteq {"LOGIN", "LOGIN_FAILED"} \X Users
<1>1. logins \subseteq {"LOGIN", "LOGIN_FAILED"} \X Users
  BY DEF AdminTypeOK
<1>2. {"LOGIN"} \X done \subseteq {"LOGIN", "LOGIN_FAILED"} \X Users
  OBVIOUS
<1>3. {"LOGIN_FAILED"} \X refused \subseteq {"LOGIN", "LOGIN_FAILED"} \X Users
  OBVIOUS
<1> QED
  BY <1>1, <1>2, <1>3 DEF StoryLogins

LEMMA StoryAdmin ==
  ASSUME AdminTypeOK, StoryReceipt \/ StoryFails
  PROVE  AdminGood
<1>1. SeededUsers \in SUBSET Users /\ {} \in SUBSET Users
  BY StartupAssumption
<1>2. UNCHANGED <<users, depts, perms, tokens, grantLog, requests, snap>>
  BY DEF StoryReceipt, StoryFails, tables
<1>3. logins' \subseteq {"LOGIN", "LOGIN_FAILED"} \X Users
  <2>1. \E done \in SUBSET Users, refused \in SUBSET Users : logins' = StoryLogins(done, refused)
    <3>1. CASE StoryReceipt
      BY <3>1, <1>1 DEF StoryReceipt
    <3>2. CASE StoryFails
      <4>1. CASE logins' = StoryLogins(SeededUsers, {})
        BY <4>1, <1>1
      <4>2. ASSUME NEW bad \in SUBSET SeededUsers, NEW wrong \in SUBSET SeededUsers,
                   NEW u \in bad, NEW done \in SUBSET (SeededUsers \ bad),
                   logins' = StoryLogins(done, {u} \cap wrong)
            PROVE  \E done1 \in SUBSET Users, refused \in SUBSET Users :
                       logins' = StoryLogins(done1, refused)
        <5>1. done \in SUBSET Users /\ {u} \cap wrong \in SUBSET Users
          BY <1>1
        <5> QED
          BY <5>1, <4>2
      <4>3. PICK wrong, bad :
                /\ wrong \in SUBSET SeededUsers /\ bad \in SUBSET SeededUsers
                /\ \/ logins' = StoryLogins(SeededUsers, {})
                   \/ \E u \in bad, done \in SUBSET (SeededUsers \ bad) :
                         logins' = StoryLogins(done, {u} \cap wrong)
        <5> DEFINE wrongPassword == {u \in SeededUsers : users[u].password # "seeded"}
                   refused == wrongPassword \cup {u \in SeededUsers : users[u].status # "ACTIVE"}
        <5>1. /\ wrongPassword \in SUBSET SeededUsers /\ refused \in SUBSET SeededUsers
              /\ \/ logins' = StoryLogins(SeededUsers, {})
                 \/ \E u \in refused, done \in SUBSET (SeededUsers \ refused) :
                       logins' = StoryLogins(done, {u} \cap wrongPassword)
          BY <3>2 DEF StoryFails
        <5> HIDE DEF wrongPassword, refused
        <5> QED
          BY <5>1
      <4> QED
        BY <4>1, <4>2, <4>3
    <3> QED
      BY <3>1, <3>2
  <2> QED
    BY <2>1, StoryLoginsType
<1>4. AdminTypeOK'
  BY <1>2, <1>3 DEF AdminTypeOK
<1> QED
  BY <1>2, <1>4, SameTables

\* The other steps of the container do not touch the tables.
LEMMA OtherAdmin ==
  ASSUME AdminTypeOK, UNCHANGED adminVars \/ Die
  PROVE  AdminGood
<1>1. CASE UNCHANGED adminVars
  <2>1. UNCHANGED <<users, depts, perms, tokens, logins, grantLog, requests, snap>>
    BY <1>1 DEF adminVars, tables
  <2>2. AdminTypeOK'
    BY <2>1 DEF AdminTypeOK
  <2> QED
    BY <2>1, <2>2, SameTables
<1>2. CASE Die
  <2>1. /\ snap' = [s \in Sessions |-> NoSnapshot]
        /\ UNCHANGED <<users, depts, perms, tokens, logins, grantLog, requests>>
    BY <1>2 DEF Die, tables
  <2>2. AdminTypeOK'
    BY <2>1 DEF AdminTypeOK
  <2> QED
    BY <2>1, <2>2, SameTables
<1> QED
  BY <1>1, <1>2

\* Which steps leave the tables of Administration alone.
LEMMA QuietBoot ==
  ASSUME \/ Start \/ WaitForDb \/ WaitTimeout \/ Migrate \/ MigrateFails \/ Stamp \/ Migrated
         \/ Wipe \/ StoryDone \/ Post
  PROVE  UNCHANGED adminVars
<1>1. Wipe => UNCHANGED adminVars
  BY DEF Wipe, WipeCount, DropUpdateTrigger, DropDeleteTrigger, CreateUpdateTrigger,
         CreateDeleteTrigger, WipeRest, Wiping
<1> QED
  BY <1>1 DEF Start, WaitForDb, WaitTimeout, Migrate, MigrateFails, Stamp, Migrated, StoryDone, Post

LEMMA AdminSide ==
  ASSUME AdminTypeOK, Next
  PROVE  AdminGood
<1>1. Serve => AdminNext
  BY DEF Serve
<1> QED
  BY <1>1, AdminStep, InitDataAdmin, StoryAdmin, OtherAdmin, QuietBoot, Zenon DEF Next, Boot

\* Steps back to a phase before init_data.
LEMMA BackStep ==
  ASSUME BootInv, Start \/ WaitForDb \/ WaitTimeout \/ Die \/ MigrateFails \/ StoryFails
  PROVE  BootInv'
<1>1. faults' \in 0..MaxFaults
  <2>1. faults \in 0..MaxFaults /\ MaxFaults \in Nat
    BY StartupAssumption DEF BootInv, BootTypeOK
  <2>2. faults' = faults \/ (faults < MaxFaults /\ faults' = faults + 1)
    BY DEF Start, WaitForDb, WaitTimeout, Die, MigrateFails, StoryFails
  <2> QED
    BY <2>1, <2>2
<1>2. /\ phase' \in {"down", "wait", "migrate"} /\ pc' = 1
      /\ UNCHANGED <<version, schema, ledger, demoSeed>>
  BY DEF Start, WaitForDb, WaitTimeout, Die, MigrateFails, StoryFails, Goto
<1> QED
  BY <1>1, <1>2, Restarted

LEMMA BootSide ==
  ASSUME BootInv, Next
  PROVE  BootInv'
  BY BackStep, MigrateStep, StampStep, MigratedStep, InitDataBoot, WipeStep, RunningStep,
     Zenon DEF Next, Boot

\* The bootstrap data is there from init_data on.
LEMMA SeededSide ==
  ASSUME AdminTypeOK, BootInv, SeededOK, Next
  PROVE  SeededOK'
<1>1. NeverRemoved
  BY AdminSide DEF AdminGood
<1>2. SeededUsers \subseteq Users /\ SeededDepts \subseteq Departments
  BY StartupAssumption
<1>3. CASE InitData
  <2>1. ASSUME NEW u \in SeededUsers PROVE users'[u].status # "NONE"
    <3>1. users'[u] = IF users[u].status = "NONE" THEN SeededUser(u) ELSE users[u]
      BY <1>2, <1>3 DEF InitData, SeedUsers
    <3> QED
      BY <3>1 DEF SeededUser
  <2>2. ASSUME NEW d \in SeededDepts PROVE depts'[d].status # "NONE"
    <3>1. depts'[d] = IF depts[d].status = "NONE"
                      THEN [status |-> "ACTIVE", parent |-> Null] ELSE depts[d]
      BY <1>2, <1>3 DEF InitData, SeedDepartments
    <3> QED
      BY <3>1
  <2> QED
    BY <2>1, <2>2 DEF SeededOK
<1>4. CASE ~InitData
  <2>1. phase' \in {"wipe", "story", "serve"} => phase \in {"wipe", "story", "serve"}
    BY <1>4 DEF Next, Boot, Start, WaitForDb, WaitTimeout, Die, Migrate, MigrateFails, Stamp,
                Migrating, Migrated, Wipe, WipeCount, DropUpdateTrigger, DropDeleteTrigger,
                CreateUpdateTrigger, CreateDeleteTrigger, WipeRest, Wiping, StoryReceipt,
                StoryDone, StoryFails, Serve, Post, Goto, bootVars
  <2> QED
    BY <2>1, <1>1, <1>2 DEF SeededOK, NeverRemoved
<1> QED
  BY <1>3, <1>4

LEMMA InvariantInit == Init => IInv
<1> SUFFICES ASSUME Init PROVE IInv
  OBVIOUS
<1>1. AdminInit /\ phase = "down"
  BY DEF Init
<1>2. NoUser \in User /\ NoDepartment \in Department
  BY DEF NoUser, User, Password, NoDepartment, Department
<1>3. 0 \in 0..MaxRequests
  BY AdministrationAssumption
<1>4. AdminTypeOK
  BY <1>1, <1>2, <1>3 DEF AdminInit, AdminTypeOK
<1>5. GrantsFollowAudit
  BY <1>1 DEF AdminInit, GrantsFollowAudit
<1>6. SeededOK
  BY <1>1 DEF SeededOK
<1> QED
  BY <1>4, <1>5, <1>6, BootInit DEF IInv

LEMMA InvariantStep == IInv /\ [Next]_vars => IInv'
<1> SUFFICES ASSUME IInv, [Next]_vars PROVE IInv'
  OBVIOUS
<1>1. CASE Next
  BY <1>1, AdminSide, BootSide, SeededSide DEF IInv, AdminGood
<1>2. CASE UNCHANGED vars
  <2>1. /\ UNCHANGED adminVars
        /\ UNCHANGED <<phase, pc, version, schema, ledger, demoSeed, faults>>
    BY <1>2 DEF vars, bootVars
  <2>2. AdminGood
    BY <2>1, OtherAdmin DEF IInv
  <2>3. BootInv'
    BY <2>1 DEF IInv, BootInv, BootTypeOK, MigrationOK, HeadOK, PhaseOK, Revision
  <2>4. SeededOK'
    BY <2>1, <2>2 DEF IInv, SeededOK, adminVars, tables
  <2> QED
    BY <2>2, <2>3, <2>4 DEF IInv, AdminGood
<1> QED
  BY <1>1, <1>2

\* Every reachable state of the container and of the tables of Administration
\* is well typed.
THEOREM TypeCorrect == Spec => []TypeOK
<1>1. Spec => []IInv
  BY InvariantInit, InvariantStep, PTL DEF Spec
<1>2. IInv => TypeOK
  BY DEF IInv, BootInv, BootTypeOK, TypeOK
<1> QED
  BY <1>1, <1>2, PTL

\* A process that serves has the schema of the head revision, but for the
\* delete trigger that a reset may have lost, and the bootstrap data
\* (docker-entrypoint.sh, alembic upgrade, init_data, seed_demo.wipe_chain):
\* wherever earlier boots died, a revision is stamped only after all its
\* statements ran in one attempt.
THEOREM ServiceIsComplete == Spec => []ServesComplete
<1>1. Spec => []IInv
  BY InvariantInit, InvariantStep, PTL DEF Spec
<1>2. IInv => ServesComplete
  <2> SUFFICES ASSUME IInv, phase = "serve"
               PROVE  /\ version = Latest
                      /\ \A o \in Objects : \/ demoSeed /\ o = "trg_it_no_delete"
                                            \/ schema[o] = SchemaAt[Latest][o]
                      /\ \A u \in SeededUsers : users[u].status # "NONE"
                      /\ \A d \in SeededDepts : depts[d].status # "NONE"
    BY DEF ServesComplete
  <2>1. version = Latest /\ HeadOK /\ SeededOK
    BY DEF IInv, BootInv, PhaseOK
  <2>2. /\ \A o \in Objects : o \notin Triggers => schema[o] = SchemaAt[Latest][o]
        /\ schema["trg_it_no_delete"] = 1 \/ demoSeed
        /\ schema["trg_it_no_update"] = 1
    BY <2>1 DEF HeadOK
  <2>3. ASSUME NEW o \in Triggers
        PROVE  (demoSeed /\ o = "trg_it_no_delete") \/ schema[o] = SchemaAt[Latest][o]
    <3>1. SchemaAt[Latest][o] = 1
      BY TriggerSchema
    <3>2. o = "trg_it_no_update" \/ o = "trg_it_no_delete"
      BY DEF Triggers
    <3> QED
      BY <3>1, <3>2, <2>2
  <2> QED
    BY <2>1, <2>2, <2>3 DEF SeededOK
<1> QED
  BY <1>1, <1>2, PTL

\* Whatever assignments race and whenever the process restarts, a role has the
\* permissions its newest PERMISSION_CHANGE row counts, or those and its part
\* of the seeded matrix (role_service.assign_permissions, init_data._seed).
THEOREM GrantsAreAudited == Spec => []GrantsFollowAudit
<1>1. Spec => []IInv
  BY InvariantInit, InvariantStep, PTL DEF Spec
<1>2. IInv => GrantsFollowAudit
  BY DEF IInv
<1> QED
  BY <1>1, <1>2, PTL

\* Only a request that says so makes a disabled account active again: no
\* racing edit of another column, no restart, no demo story
\* (user_service.update_user, init_data._seed).
THEOREM DisabledStays == Spec => DisableSticks
<1>1. Spec => []IInv
  BY InvariantInit, InvariantStep, PTL DEF Spec
<1>2. IInv /\ [Next]_vars => [DisableStep]_adminVars
  <2>1. IInv /\ Next => DisableStep
    BY AdminSide DEF IInv, AdminGood
  <2>2. UNCHANGED vars => UNCHANGED adminVars
    BY DEF vars
  <2> QED
    BY <2>1, <2>2
<1> QED
  BY <1>1, <1>2, PTL DEF Spec, DisableSticks, DisableStep

-----------------------------------------------------------------------------
(* Requests that do not overlap *)

\* One request at a time.
Serial == \A s, t \in Sessions : s = t

\* Only a serving process has sessions, and they see the users as they are.
SeesNow == \A s \in Sessions : IsOpen(s) => phase = "serve" /\ snap[s].users = users

\* A handler opens its session first, and ends with closing it.
LEMMA OneSession ==
  ASSUME AdminNext
  PROVE  \/ \E s \in Sessions, actor \in Users \cup {Null} : Open(s, actor)
         \/ \E s \in Sessions : Close(s)
         \/ UNCHANGED <<users, snap>>
<1>1. ASSUME NEW s \in Sessions, NEW u \in Users, Begin(s, u)
      PROVE  \E actor \in Users \cup {Null} : Open(s, actor)
  BY <1>1 DEF Begin
<1>2. ASSUME NEW s \in Sessions, BeginLogin(s)
      PROVE  \E actor \in Users \cup {Null} : Open(s, actor)
  BY <1>2 DEF BeginLogin
<1>3. ASSUME NEW s \in Sessions, Rollback(s) PROVE Close(s)
  BY <1>3 DEF Rollback
<1>4. ASSUME NEW s \in Sessions, NEW u \in Users,
             \/ Login(s, u) \/ LoginFailed(s, u) \/ DisableUser(s, u)
             \/ \E new \in NewUsers : CreateUser(s, u, new.role, new.dept)
             \/ \E c \in UserChanges : UpdateUser(s, u, c)
      PROVE  Close(s)
  BY <1>4 DEF Login, LoginFailed, DisableUser, CreateUser, UpdateUser, WriteUser, Commit
<1>5. ASSUME NEW s \in Sessions, NEW d \in Departments,
             \/ DisableDepartment(s, d)
             \/ \E p \in Departments \cup {Null} : CreateDepartment(s, d, p)
             \/ \E c \in DeptChanges : UpdateDepartment(s, d, c)
      PROVE  Close(s)
  BY <1>5 DEF DisableDepartment, CreateDepartment, UpdateDepartment, WriteDept, Commit
<1>6. ASSUME NEW s \in Sessions, NEW r \in Roles, NEW granted \in Grants,
             AssignPermissions(s, r, granted)
      PROVE  Close(s)
  BY <1>6 DEF AssignPermissions, Commit
<1>7. ASSUME NEW u \in Users, Expire(u) PROVE UNCHANGED <<users, snap>>
  BY <1>7 DEF Expire, tables
<1> QED
  BY <1>1, <1>2, <1>3, <1>4, <1>5, <1>6, <1>7, Zenon DEF AdminNext

LEMMA SeesNowStep ==
  ASSUME Serial, AdminTypeOK, SeesNow, [Next]_vars
  PROVE  SeesNow'
<1>0. DOMAIN snap = Sessions
  BY DEF AdminTypeOK
<1>1. CASE Serve
  <2>1. phase = "serve" /\ phase' = "serve" /\ AdminNext
    BY <1>1 DEF Serve, bootVars
  <2>2. ASSUME NEW s \in Sessions, NEW actor \in Users \cup {Null}, Open(s, actor) PROVE SeesNow'
    <3>1. snap'[s].users = users /\ users' = users
      BY <1>0, <2>2 DEF Open, tables
    <3>2. \A t \in Sessions : t = s
      BY DEF Serial
    <3> QED
      BY <2>1, <3>1, <3>2 DEF SeesNow
  <2>3. ASSUME NEW s \in Sessions, Close(s) PROVE SeesNow'
    <3>1. snap'[s] = NoSnapshot
      BY <1>0, <2>3 DEF Close
    <3>2. \A t \in Sessions : t = s
      BY DEF Serial
    <3> QED
      BY <3>1, <3>2 DEF SeesNow, IsOpen
  <2>4. CASE UNCHANGED <<users, snap>>
    BY <2>1, <2>4 DEF SeesNow, IsOpen
  <2> QED
    BY <2>1, <2>2, <2>3, <2>4, OneSession
<1>2. CASE Die
  BY <1>2 DEF Die, SeesNow, IsOpen
<1>3. CASE Post \/ UNCHANGED vars
  <2>1. UNCHANGED <<users, snap, phase>>
    BY <1>3 DEF Post, vars, bootVars, adminVars, tables
  <2> QED
    BY <2>1 DEF SeesNow, IsOpen
<1>4. CASE Boot \/ WaitTimeout
  <2>1. phase # "serve" /\ UNCHANGED snap
    BY <1>4 DEF Boot, Start, WaitForDb, WaitTimeout, Migrate, MigrateFails, Stamp, Migrating,
                Migrated, InitData, Wipe, WipeCount, DropUpdateTrigger, DropDeleteTrigger,
                CreateUpdateTrigger, CreateDeleteTrigger, WipeRest, Wiping, StoryReceipt,
                StoryDone, StoryFails, adminVars
  <2> QED
    BY <2>1 DEF SeesNow, IsOpen
<1> QED
  BY <1>1, <1>2, <1>3, <1>4 DEF Next

\* disable_department refuses a department that a user references
\* (department_service.py:70): so it does when requests do not overlap.
THEOREM UsersBlockWhenSerial ==
  ASSUME Serial
  PROVE  Spec => UsersBlockDisabling
<1> DEFINE BlockStep == \A s \in Sessions, d \in Departments :
                           DisableDepartment(s, d) => \A u \in Users : users[u].dept # d
           Inv == IInv /\ SeesNow
<1>1. Init => Inv
  <2>1. Init => SeesNow
    BY DEF Init, AdminInit, SeesNow, IsOpen
  <2> QED
    BY <2>1, InvariantInit
<1>2. Inv /\ [Next]_vars => Inv'
  <2>1. IInv => AdminTypeOK
    BY DEF IInv
  <2> QED
    BY <2>1, InvariantStep, SeesNowStep
<1>3. Inv => BlockStep
  <2> SUFFICES ASSUME SeesNow, NEW s \in Sessions, NEW d \in Departments,
                      DisableDepartment(s, d)
               PROVE  \A u \in Users : users[u].dept # d
    OBVIOUS
  <2>1. snap[s].users = users
    BY DEF DisableDepartment, Guarded, SeesNow
  <2> QED
    BY <2>1 DEF DisableDepartment, InUse
<1>4. Inv /\ [Next]_vars => [BlockStep]_adminVars
  BY <1>3
<1> HIDE DEF Inv, BlockStep
<1>5. Spec => [][BlockStep]_adminVars
  BY <1>1, <1>2, <1>4, PTL DEF Spec
<1> QED
  BY <1>5 DEF UsersBlockDisabling, BlockStep

=============================================================================
