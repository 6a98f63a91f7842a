-------------------------- MODULE VersionSelection --------------------------
(***************************************************************************)
(* What resolveObjectVersions promises for one objects entry with a        *)
(* version history, while the vault's owners create, disable and enable    *)
(* versions: in one step, the entry's newest versions out of a set that    *)
(* has every version enabled throughout the call and none that was never   *)
(* enabled during it.                                                      *)
(***************************************************************************)
EXTENDS KeyVaultObject

CONSTANTS
    Entries,       \* the objects entries
    MaxVersions,   \* bound: versions the object may reach
    MaxChanges     \* bound: changes to them during the call

VARIABLES
    kv,            \* the entry
    status,        \* "calling", "done" or "error"
    objects,       \* the result
    created,       \* creation time of each version
    enabled,       \* the versions that are enabled
    changes,       \* how often that has changed
    throughout,    \* the versions enabled ever since the call
    sometime       \* the versions enabled at some time since the call

callVars == <<kv, status, objects>>
vaultVars == <<created, enabled, changes, throughout, sometime>>
vars == <<callVars, vaultVars>>

\* Any vault: creation times have a resolution of a second and count from the
\* first version's, and only their order matters.
VaultInit ==
    /\ created \in {s \in UNION {[1..n -> 1..MaxVersions] : n \in 0..MaxVersions} :
                        /\ s # <<>> => s[1] = 1
                        /\ \A i \in 1..(Len(s) - 1) : s[i + 1] \in {s[i], s[i] + 1}}
    /\ enabled \in SUBSET (1..Len(created))
    /\ changes = 0
    /\ throughout = enabled
    /\ sometime = enabled

Init ==
    /\ kv \in Entries
    /\ status = "calling"
    /\ objects = <<>>
    /\ VaultInit

Select ==
    /\ status = "calling"
    /\ status' = "done"
    /\ \E listed \in Listings(throughout, sometime) :
          \E list \in SortedLists(listed, created) :
              objects' = GetLatestNKeyVaultObjects(kv, list)
    /\ UNCHANGED <<kv, vaultVars>>

\* The listing failed.
Refuse ==
    /\ status = "calling"
    /\ status' = "error"
    /\ UNCHANGED <<kv, objects, vaultVars>>

Create ==
    /\ Len(created) < MaxVersions
    /\ \E t \in IF created = <<>> THEN {1} ELSE {Last(created), Last(created) + 1} :
          created' = Append(created, t)
    /\ enabled' = enabled \cup {Len(created) + 1}
    /\ sometime' = sometime \cup {Len(created) + 1}
    /\ UNCHANGED throughout

Disable(v) ==
    /\ v \in enabled
    /\ enabled' = enabled \ {v}
    /\ throughout' = throughout \ {v}
    /\ UNCHANGED <<created, sometime>>

Enable(v) ==
    /\ v \in DOMAIN created \ enabled
    /\ enabled' = enabled \cup {v}
    /\ sometime' = sometime \cup {v}
    /\ UNCHANGED <<created, throughout>>

Vault ==
    /\ changes < MaxChanges
    /\ changes' = changes + 1
    /\ Create \/ \E v \in DOMAIN created : Disable(v) \/ Enable(v)

Next == Select \/ Refuse \/ (Vault /\ UNCHANGED callVars)

Spec == Init /\ [][Next]_vars
=============================================================================
