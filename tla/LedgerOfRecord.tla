--------------------------- MODULE LedgerOfRecord ---------------------------
(***************************************************************************)
(* What onboarding promises of the tenant store (api/onboarding.py, docstring *)
(* and load).  A load that reconciled is offered: rows of one tenant.  It      *)
(* lands whole, in one step, or is withdrawn whole; a row once of record stays *)
(* of record, though a later load may restate it; no load touches the rows of  *)
(* another tenant; and a tenant comes onto the screens only by the landing of  *)
(* a load of its own that leaves it with rows.                                 *)
(***************************************************************************)
CONSTANTS Tenants

VARIABLES rows,   \* id -> row, every row with the tenant it belongs to
          offer,  \* the load that may land: <<>> or <<[tenant, rows]>>
          shown   \* the tenants on the screens: at most one

rvars == <<rows, offer, shown>>

Init == rows = <<>> /\ offer = <<>> /\ shown = {}

(* A load reconciles: every row it offers is its tenant's. *)
Offer ==
  /\ offer = <<>> /\ offer' # <<>>
  /\ offer'[1].tenant \in Tenants
  /\ \A id \in DOMAIN offer'[1].rows : offer'[1].rows[id].tenant = offer'[1].tenant
  /\ UNCHANGED <<rows, shown>>

(* All of the offer is of record, over what was there; what is shown then is  *)
(* the tenant of the load, if it has rows now, or as before, nobody else.     *)
Land ==
  /\ offer # <<>> /\ offer' = <<>>
  /\ rows' = [id \in DOMAIN rows \cup DOMAIN offer[1].rows |->
                IF id \in DOMAIN offer[1].rows THEN offer[1].rows[id] ELSE rows[id]]
  /\ \A id \in DOMAIN rows : rows[id].tenant # offer[1].tenant => rows'[id] = rows[id]
  /\ \/ /\ \E id \in DOMAIN rows' : rows'[id].tenant = offer[1].tenant
        /\ shown' = {offer[1].tenant}
     \/ UNCHANGED shown /\ shown \subseteq {offer[1].tenant}

(* The commit fails, or the process does: nothing of the offer is of record. *)
Withdraw == offer # <<>> /\ offer' = <<>> /\ UNCHANGED rows /\ shown' \in {shown, {}}

Hide == shown' = {} /\ UNCHANGED <<rows, offer>>

Next == Offer \/ Land \/ Withdraw \/ Hide

Spec == Init /\ [][Next]_rvars
=============================================================================
