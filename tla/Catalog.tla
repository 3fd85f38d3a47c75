------------------------------ MODULE Catalog ------------------------------
(***************************************************************************)
(* The catalog application (smart_contracts/_catalogo.py): the directory    *)
(* in which every roaming provider publishes the application id of its SLA  *)
(* contract.  An entry lives in the local state of the provider's account,  *)
(* so that the account has one entry, and only that account writes it.      *)
(*                                                                          *)
(* A LoRaWAN NetID belongs to one provider, so an entry is indexed by the   *)
(* provider and its NetID and name are not repeated in it.  Every call is   *)
(* one Algorand transaction: it happens as a whole or, when an Assert       *)
(* fails, not at all.                                                       *)
(***************************************************************************)
EXTENDS Naturals

CONSTANTS
    Provider,    \* provider accounts
    MaxApps      \* bound on the number of contracts ever deployed

ASSUME MaxAppsAssumption == MaxApps \in Nat

VARIABLE entry   \* entry[p]: the local state of account p in the catalog

\* Application ids; 0 is what the ledger returns for a key that is not set.
AppId == 0 .. MaxApps

\* opted: the account holds local state; exists: the key Endpoint_SC is set.
Entry == [opted : BOOLEAN, exists : BOOLEAN, endpoint : AppId]

NotOptedIn == [opted |-> FALSE, exists |-> FALSE, endpoint |-> 0]

Unset == [opted |-> TRUE, exists |-> FALSE, endpoint |-> 0]

CatalogTypeOK == entry \in [Provider -> Entry]

CatalogInit == entry = [p \in Provider |-> NotOptedIn]
-----------------------------------------------------------------------------
\* opt_in: the participation fee comes in the same atomic group, then
\* initialize_local_state sets every key to its default, Endpoint_SC to 0.
opt_in(p) ==
    /\ ~ entry[p].opted
    /\ entry' = [entry EXCEPT ![p] = [opted |-> TRUE, exists |-> TRUE, endpoint |-> 0]]

\* close_out and clear_state both give the local state back to the ledger.
close_out(p) ==
    /\ entry[p].opted
    /\ entry' = [entry EXCEPT ![p] = NotOptedIn]

clear_state(p) ==
    /\ entry[p].opted
    /\ entry' = [entry EXCEPT ![p] = NotOptedIn]

\* set_entry_provider writes (or overwrites) the sender's own entry.
set_entry_provider(p, a) ==
    /\ entry[p].opted
    /\ a > 0
    /\ entry' = [entry EXCEPT ![p] = [opted |-> TRUE, exists |-> TRUE, endpoint |-> a]]

\* delete_endpoint removes the keys; the account stays opted in.
delete_endpoint(p) ==
    /\ entry[p].opted
    /\ entry[p].exists
    /\ entry' = [entry EXCEPT ![p] = Unset]

\* provider_exists, and the Assert of get_entry_provider.
provider_exists(p) == entry[p].exists

\* get_entry_provider aborts its caller unless the entry exists.
get_entry_provider(p, a) == provider_exists(p) /\ entry[p].endpoint = a
=============================================================================
