--------------------------- MODULE MCInventorySync ---------------------------
(* Two syncs on two workers, over one VM and one datastore.                *)
EXTENDS InventorySync
ResourcesDef == <<{"vm-1"}, {"datastore-1"}, {}>>
=============================================================================
