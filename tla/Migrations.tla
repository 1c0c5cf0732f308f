----------------------------- MODULE Migrations -----------------------------
(***************************************************************************)
(* The nine alembic revisions under backend/alembic/versions, each the     *)
(* sequence of DDL statements of its upgrade().  MySQL commits every DDL   *)
(* statement by itself, and alembic stamps alembic_version after the last  *)
(* statement of a revision.  The revisions are applied in Startup.         *)
(*                                                                         *)
(* A schema says, for every object, which revision gave it its present     *)
(* definition, 0 when it is absent.  The objects are the tables (with      *)
(* their indexes and constraints), the triggers, and the columns and       *)
(* constraints that a later revision touches, as "table.object".           *)
(***************************************************************************)
EXTENDS Naturals, Sequences, FiniteSetsExt

\* The kinds of statements: a CREATE or ADD fails on what is there, a DROP,
\* MODIFY or ALTER on what is not.
Create(os) == [adds |-> os, drops |-> {}, alters |-> {}]
Add(o)     == Create({o})
Drop(o)    == [adds |-> {}, drops |-> {o}, alters |-> {}]
Alter(o)   == [adds |-> {}, drops |-> {}, alters |-> {o}]

-----------------------------------------------------------------------------
(* 0d8e51ed6370: the 22 base tables, two late foreign keys, two triggers *)

BaseSystemTables ==
    <<Add("departments"), Create({"number_sequences", "number_sequences.sequence_key"}),
      Add("permissions"), Add("roles"), Add("users"),
      Create({"approval_records", "approval_records.result_status"}),
      Add("department_managers"), Add("materials"),
      Create({"operation_logs", "operation_logs.action"})>>

BaseStockTables ==
    <<Create({"purchase_requisitions", "purchase_requisitions.total_estimated_amount"}),
      Add("role_permissions"), Add("suppliers"), Add("warehouses"),
      Create({"inventory_balances", "inventory_balances.total_amount"}),
      Create({"inventory_policies", "inventory_policies.max_stock_check"}),
      Create({"inventory_transactions", "inventory_transactions.amount",
              "inventory_transactions.source_type", "inventory_transactions.it_sign"})>>

BaseDocumentTables ==
    <<Create({"purchase_orders", "purchase_orders.total_amount"}),
      Create({"purchase_requisition_items", "purchase_requisition_items.estimated_amount"}),
      Create({"purchase_order_items", "purchase_order_items.amount"}),
      Create({"purchase_receipts", "purchase_receipts.reverse_reason",
              "purchase_receipts.receipt_no"}),
      Add("purchase_order_item_sources"),
      Create({"purchase_receipt_items", "purchase_receipt_items.amount"})>>

BaseGuards ==
    <<Add("departments.created_by_fk"), Add("departments.updated_by_fk"),
      Add("trg_it_no_update"), Add("trg_it_no_delete")>>

-----------------------------------------------------------------------------
(* The revisions of the later phases *)

MasterdataAudit ==          \* 9f2e7c1a4b8d
    <<Alter("operation_logs.action"),
      Drop("inventory_policies.max_stock_check"), Add("inventory_policies.max_stock_check")>>

PurchaseRequisition ==      \* f2a7d3b5c9e1
    <<Add("purchase_requisitions.submitted_at"), Add("purchase_requisitions.version"),
      Alter("purchase_requisitions.total_estimated_amount"),
      Drop("purchase_requisition_items.estimated_amount"),
      Add("purchase_requisition_items.estimated_amount"),
      Add("purchase_requisition_items.price_check"),
      Add("operation_logs.document_no"), Alter("operation_logs.action")>>

ApprovalWorkflow ==         \* b7c4d9e1a3f6
    <<Add("approval_records.document_no"), Add("approval_records.from_status"),
      Add("approval_records.to_status"), Alter("approval_records.result_status"),
      Add("purchase_requisitions.ix_pr_dept_status"), Alter("operation_logs.action")>>

PurchaseOrder ==            \* a1b2c3d4e5f6
    <<Add("purchase_orders.version"), Alter("purchase_orders.total_amount"),
      Drop("purchase_order_items.amount"), Add("purchase_order_items.amount"),
      Alter("operation_logs.action")>>

ReceiptInventory ==         \* c3f8a1d2b7e9
    <<Drop("purchase_receipt_items.amount"), Add("purchase_receipt_items.amount"),
      Alter("inventory_balances.total_amount"), Alter("inventory_transactions.amount"),
      Alter("purchase_receipts.reverse_reason"), Alter("purchase_receipts.receipt_no"),
      Alter("number_sequences.sequence_key")>>

TxnAmountSign ==            \* e5f6a7b8c9d0
    <<Drop("inventory_transactions.it_sign"), Add("inventory_transactions.it_sign")>>

StockReconciliationTables ==  \* a7b9c1d2e3f4a5b6
    <<Alter("operation_logs.action"), Alter("inventory_transactions.source_type"),
      Add("stock_reconciliations"), Add("stock_reconciliations.ix_reconcile_wh_status"),
      Add("stock_reconciliations.ix_reconcile_counted_on"),
      Add("stock_reconciliations.ix_reconcile_status"),
      Add("stock_reconciliation_items"), Add("stock_reconciliation_items.ix_rc_mat")>>

LedgerWatermark ==          \* d4e5f6a7b8c9d0a1
    <<Add("stock_reconciliation_items.book_last_transaction_id_snapshot"),
      Add("stock_reconciliation_items.ck_rc_wm_null_or_pos")>>

Revisions ==
    <<BaseSystemTables \o BaseStockTables \o BaseDocumentTables \o BaseGuards,
      MasterdataAudit, PurchaseRequisition, ApprovalWorkflow, PurchaseOrder,
      ReceiptInventory, TxnAmountSign, StockReconciliationTables, LedgerWatermark>>

Latest == Len(Revisions)

-----------------------------------------------------------------------------
(* Running a statement *)

\* What the statements of a revision create or redefine.
Touched == [r \in 1..Latest |->
              UNION {Revisions[r][i].adds \cup Revisions[r][i].alters : i \in DOMAIN Revisions[r]}]

Objects == UNION {Touched[r] : r \in 1..Latest}

Triggers == {"trg_it_no_update", "trg_it_no_delete"}

NoSchema == [o \in Objects |-> 0]

Applicable(schema, stmt) ==
    /\ \A o \in stmt.adds : schema[o] = 0
    /\ \A o \in stmt.drops \cup stmt.alters : schema[o] # 0

\* The schema after a statement of revision r.
Applied(schema, r, stmt) ==
    [o \in Objects |-> IF o \in stmt.drops THEN 0
                       ELSE IF o \in stmt.adds \cup stmt.alters THEN r
                       ELSE schema[o]]

\* The schema of a database at revision v: every object as the last revision
\* up to v that touches it defines it.
SchemaAt ==
    [v \in 0..Latest |->
        [o \in Objects |-> Max({0} \cup {r \in 1..v : o \in Touched[r]})]]
=============================================================================
