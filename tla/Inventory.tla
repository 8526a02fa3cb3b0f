------------------------------ MODULE Inventory ------------------------------
(***************************************************************************)
(* The stock every document moves: one balance row per warehouse and item, *)
(* its version, and the append-only ledger (supabase/migrations/0001).     *)
(* Exactly one warehouse per purpose is active (0001:117-118), so a        *)
(* warehouse is named by its purpose.  The ledger is kept as the running   *)
(* sum of quantity_delta per warehouse and item: entries are only ever     *)
(* inserted, and no property below tells two entries apart.                *)
(***************************************************************************)
EXTENDS Integers

CONSTANTS
    Items,      \* the item ids of uniform_items
    Opening     \* stock of each item in each warehouse at cutover

Warehouses == {"HR", "GENERAL"}

ASSUME OpeningAssumption == Opening \in [Warehouses -> [Items -> Nat]]

VARIABLES
    onHand,     \* inventory_balances.on_hand_quantity
    version,    \* inventory_balances.version
    ledger      \* sum of inventory_ledger_entries.quantity_delta

inventoryVars == <<onHand, version, ledger>>

InventoryInit ==
    /\ onHand = Opening
    /\ version = [w \in Warehouses |-> [i \in Items |-> 0]]
    /\ ledger = [w \in Warehouses |-> [i \in Items |-> 0]]

InventoryTypeOK ==
    /\ onHand \in [Warehouses -> [Items -> Int]]
    /\ version \in [Warehouses -> [Items -> Nat]]
    /\ ledger \in [Warehouses -> [Items -> Int]]

CombinedOnHand(i) == onHand["HR"][i] + onHand["GENERAL"][i]

Lesser(a, b) == IF a <= b THEN a ELSE b

\* Point-wise sum of a per-warehouse, per-item table and a change to it.
Plus(table, change) ==
    [w \in Warehouses |-> [i \in Items |-> table[w][i] + change[w][i]]]

\* Every balance row a document writes moves to its next version.
Touch(touched) ==
    [w \in Warehouses |-> [i \in Items |->
        IF i \in touched THEN version[w][i] + 1 ELSE version[w][i]]]
=============================================================================
