------------------------------ MODULE Accounts ------------------------------
(* Accounts and their tenants: what MailedLinks and BrowserPages share.     *)

CONSTANTS
    Users,
    Tenants,
    Home,   \* users.tenant_id
    None    \* Option::None

ASSUME AccountAssumption == Home \in [Users -> Tenants] /\ None \notin Users \cup Tenants
=============================================================================
