----------------------------- MODULE MasterData -----------------------------
(***************************************************************************)
(* Master data: materials, suppliers and warehouses (material_service,     *)
(* supplier_service, warehouse_service), the stock thresholds of a         *)
(* material in a warehouse (inventory_policy_service), and the audit row   *)
(* every change writes in its transaction (audit_service).                 *)
(*                                                                         *)
(* Transactions are those of Procurement: a session opens with a snapshot  *)
(* and its handler takes effect in one step.  The handlers take no locking *)
(* reads: they check what the snapshot shows, and the flush of the ORM     *)
(* object updates, by id alone, the columns whose new value differs from   *)
(* the one that was loaded.  The code that a new row is given is modelled  *)
(* in Numbering; names, units, contacts and remarks are left out.          *)
(***************************************************************************)
EXTENDS Naturals

CONSTANTS
    Sessions,
    NoSnapshot,    \* the "snapshot" of a closed session
    Materials,
    Suppliers,
    Warehouses,
    Thresholds,    \* quantities a policy may name
    Null,          \* SQL NULL, and a field that a request leaves out
    NoPolicy,      \* a pair of warehouse and material without a policy
    MaxRows        \* bound: rows of operation_logs

ASSUME MasterDataAssumption ==
    /\ Thresholds \subseteq Nat
    /\ Null \notin Nat
    /\ MaxRows \in Nat

VARIABLES
    status,    \* status of every row, "NONE" before its INSERT
    stocked,   \* warehouses that hold stock
    policy,    \* inventory_policies by warehouse and material (uk_invpol)
    log,       \* what the newest audit row on a row's status says
    rows,      \* number of audit rows
    snap       \* the snapshot of every session

tables == <<status, stocked, policy>>
vars == <<tables, log, rows, snap>>

Entities == Materials \cup Suppliers \cup Warehouses
Pairs == Warehouses \X Materials

Status == {"NONE", "ACTIVE", "DISABLED"}

\* safety_stock is NOT NULL; max_stock is positive.
Policy == [safety_stock : Thresholds,
           reorder_point : Thresholds \cup {Null},
           max_stock : (Thresholds \ {0}) \cup {Null}]

\* InventoryPolicyUpdate: every field is optional.
PolicyChange == [safety_stock : Thresholds \cup {Null},
                 reorder_point : Thresholds \cup {Null},
                 max_stock : (Thresholds \ {0}) \cup {Null}]

Snapshot == [status : [Entities -> Status], stocked : SUBSET Warehouses,
             policy : [Pairs -> Policy \cup {NoPolicy}]]

TypeOK == /\ status \in [Entities -> Status]
          /\ stocked \in SUBSET Warehouses
          /\ policy \in [Pairs -> Policy \cup {NoPolicy}]
          /\ log \in [Entities -> Status]
          /\ rows \in Nat
          /\ snap \in [Sessions -> Snapshot \cup {NoSnapshot}]

Init == /\ status = [d \in Entities |-> "NONE"]
        /\ stocked = {}
        /\ policy = [p \in Pairs |-> NoPolicy]
        /\ log = [d \in Entities |-> "NONE"]
        /\ rows = 0
        /\ snap = [s \in Sessions |-> NoSnapshot]

-----------------------------------------------------------------------------
(* Sessions and the audit log *)

View == [status |-> status, stocked |-> stocked, policy |-> policy]

IsOpen(s) == snap[s] # NoSnapshot

Begin(s) == /\ ~IsOpen(s)
            /\ snap' = [snap EXCEPT ![s] = View]
            /\ UNCHANGED <<tables, log, rows>>

Commit(s) == snap' = [snap EXCEPT ![s] = NoSnapshot]

Rollback(s) == IsOpen(s) /\ Commit(s) /\ UNCHANGED <<tables, log, rows>>

\* write_audit: one more row.
WriteAudit == rows < MaxRows /\ rows' = rows + 1

\* An audit row that says what the status of d is from now on.
WriteStatusAudit(d, value) == WriteAudit /\ log' = [log EXCEPT ![d] = value]

\* Goods come into or leave a warehouse (receipts, reversals, counts).  Only
\* receipts ask whether the warehouse is active.
MoveStock(w) == /\ status[w] # "NONE"
                /\ stocked' = (stocked \ {w}) \cup ({w} \ stocked)
                /\ UNCHANGED <<status, policy, log, rows, snap>>

-----------------------------------------------------------------------------
(* Materials, suppliers and warehouses *)

Exists(s, d) == IsOpen(s) /\ snap[s].status[d] # "NONE"

\* The whole row is written, with the status of the snapshot.
Bug_FlushRow(s, d, value) == value

\* The flush of status = value: the column is written when it differs from
\* the one that was loaded.
FlushStatus(s, d, value) ==
    IF snap[s].status[d] # value THEN value ELSE status[d]

SetStatus(s, d, value) ==
    /\ Exists(s, d)
    /\ status' = [status EXCEPT ![d] = FlushStatus(s, d, value)]
    /\ WriteStatusAudit(d, value)
    /\ Commit(s)
    /\ UNCHANGED <<stocked, policy>>

Create(s, d) ==
    /\ IsOpen(s)
    /\ status[d] = "NONE"
    /\ status' = [status EXCEPT ![d] = "ACTIVE"]
    /\ WriteStatusAudit(d, "ACTIVE")
    /\ Commit(s)
    /\ UNCHANGED <<stocked, policy>>

\* The update handlers never assign the status; the ORM object carries the
\* loaded one.
Update(s, d) ==
    /\ Exists(s, d)
    /\ status' = [status EXCEPT ![d] = FlushStatus(s, d, snap[s].status[d])]
    /\ WriteAudit
    /\ Commit(s)
    /\ UNCHANGED <<stocked, policy, log>>

CreateMaterial(s, m)   == Create(s, m)
UpdateMaterial(s, m)   == Update(s, m)
DisableMaterial(s, m)  == SetStatus(s, m, "DISABLED")
EnableMaterial(s, m)   == SetStatus(s, m, "ACTIVE")

CreateSupplier(s, v)   == Create(s, v)
UpdateSupplier(s, v)   == Update(s, v)
DisableSupplier(s, v)  == SetStatus(s, v, "DISABLED")
EnableSupplier(s, v)   == SetStatus(s, v, "ACTIVE")

CreateWarehouse(s, w)  == Create(s, w)
UpdateWarehouse(s, w)  == Update(s, w)
DisableWarehouse(s, w) == /\ IsOpen(s)
                          /\ w \notin snap[s].stocked
                          /\ SetStatus(s, w, "DISABLED")
EnableWarehouse(s, w)  == SetStatus(s, w, "ACTIVE")

-----------------------------------------------------------------------------
(* Inventory policies *)

AtMost(a, b) == a # Null /\ b # Null => a <= b

\* _validate_ranges: safety_stock <= reorder_point <= max_stock, as far as
\* they are configured.
RangesOK(p) == /\ AtMost(p.safety_stock, p.reorder_point)
               /\ AtMost(p.reorder_point, p.max_stock)
               /\ AtMost(p.safety_stock, p.max_stock)

\* _validate_refs.
RefsActive(s, w, m) == /\ snap[s].status[m] = "ACTIVE"
                       /\ snap[s].status[w] = "ACTIVE"

CreatePolicy(s, w, m, p) ==
    /\ IsOpen(s)
    /\ RefsActive(s, w, m)
    /\ RangesOK(p)
    /\ snap[s].policy[<<w, m>>] = NoPolicy
    /\ policy[<<w, m>>] = NoPolicy
    /\ policy' = [policy EXCEPT ![<<w, m>>] = p]
    /\ WriteAudit
    /\ Commit(s)
    /\ UNCHANGED <<status, stocked, log>>

\* A row with the fields of a request put in.
Merge(row, change) ==
    [f \in DOMAIN row |-> IF change[f] # Null THEN change[f] ELSE row[f]]

\* Only the fields of the request are checked against each other.
Bug_RequestedRanges(s, w, m, change) == RangesOK(change)

\* The ranges that update_policy checks: the request on top of the snapshot.
MergedRanges(s, w, m, change) == RangesOK(Merge(snap[s].policy[<<w, m>>], change))

\* A field that equals the loaded one is not written.
Written(s, w, m, change) ==
    [f \in DOMAIN change |->
        IF change[f] = snap[s].policy[<<w, m>>][f] THEN Null ELSE change[f]]

UpdatePolicy(s, w, m, change) ==
    /\ IsOpen(s)
    /\ snap[s].policy[<<w, m>>] # NoPolicy
    /\ RefsActive(s, w, m)
    /\ MergedRanges(s, w, m, change)
    /\ policy' = [policy EXCEPT ![<<w, m>>] = Merge(@, Written(s, w, m, change))]
    /\ WriteAudit
    /\ Commit(s)
    /\ UNCHANGED <<status, stocked, log>>

-----------------------------------------------------------------------------

Next ==
    \/ \E w \in Warehouses : MoveStock(w)
    \/ \E s \in Sessions :
        \/ Begin(s)
        \/ Rollback(s)
        \/ \E m \in Materials : \/ CreateMaterial(s, m)
                                \/ UpdateMaterial(s, m)
                                \/ DisableMaterial(s, m)
                                \/ EnableMaterial(s, m)
        \/ \E v \in Suppliers : \/ CreateSupplier(s, v)
                                \/ UpdateSupplier(s, v)
                                \/ DisableSupplier(s, v)
                                \/ EnableSupplier(s, v)
        \/ \E w \in Warehouses : \/ CreateWarehouse(s, w)
                                 \/ UpdateWarehouse(s, w)
                                 \/ DisableWarehouse(s, w)
                                 \/ EnableWarehouse(s, w)
        \/ \E w \in Warehouses, m \in Materials :
              \/ \E p \in Policy : CreatePolicy(s, w, m, p)
              \/ \E c \in PolicyChange : UpdatePolicy(s, w, m, c)

Spec == Init /\ [][Next]_vars

-----------------------------------------------------------------------------
(* Properties *)

\* A session that takes its last step.
Ends(s) == IsOpen(s) /\ snap'[s] = NoSnapshot

\* A policy whose thresholds are out of order, or a policy that changes while
\* its material or warehouse is disabled, is always the work of a request that
\* started before the row or the two statuses took their present values:
\* requests that do not overlap keep the rules of inventory_policy_service,
\* however the updates follow each other field by field.
PolicyRulesBreakOnlyInRaces ==
    [][\A w \in Warehouses, m \in Materials :
          LET p == <<w, m>>
              broken == /\ policy'[p] # policy[p]
                        /\ \/ ~RangesOK(policy'[p])
                           \/ "DISABLED" \in {status[w], status[m]}
          IN  broken => \E s \in Sessions :
                           /\ Ends(s)
                           /\ \/ snap[s].policy[p] # policy[p]
                              \/ snap[s].status[w] # status[w]
                              \/ snap[s].status[m] # status[m]]_vars

\* The thresholds of every policy are in order ("When all three are
\* configured: safety_stock <= reorder_point <= max_stock").  Two updates that
\* overlap, each in order with what it has read, break it: PolicySkew.cfg.
PoliciesInRange == \A p \in Pairs : policy[p] # NoPolicy => RangesOK(policy[p])

\* A row that was disabled becomes active again only by a request to enable
\* it, which also leaves its audit row: an edit that started before the row
\* was disabled does not bring it back.
DisabledUntilEnabled ==
    [][\A d \in Entities : status[d] = "DISABLED" /\ status'[d] # "DISABLED" =>
          /\ status'[d] = "ACTIVE"
          /\ log'[d] = "ACTIVE"
          /\ rows' = rows + 1
          /\ \E s \in Sessions : Ends(s) /\ snap[s].status[d] = "DISABLED"]_vars

=============================================================================
