--------------------------- MODULE LatestVersions ---------------------------
(***************************************************************************)
(* resolveObjectVersions as the code runs it: a listing that goes to Key   *)
(* Vault page by page, sort.Sort on what it found, and the loop of         *)
(* getLatestNKeyVaultObjects.  The vault's owners create, disable and      *)
(* enable versions between any two of these steps.  The context of the RPC *)
(* has a deadline, which is all that ends a listing whose pages go on.     *)
(*                                                                         *)
(* The three listings of pkg/provider/keyvault.go, for secrets, keys and   *)
(* certificates, are the same code.                                        *)
(***************************************************************************)
EXTENDS KeyVaultObject

CONSTANTS
    Entries,       \* the objects entries
    MaxVersions,   \* bound: versions the object may reach
    MaxChanges,    \* bound: changes to them during the call
    PageSize       \* versions on a page of the listing

VARIABLES
    kv,            \* the entry
    phase,         \* what the code is doing
    expired,       \* whether the deadline of the call's context has passed
    nextLink,      \* the pager's link to the next page, never twice the same
    visited,       \* the versions the pager has been past
    kept,          \* the versions kept from the pages
    versions,      \* the same, sorted
    next,          \* the loop's index into them
    foundFirst,
    objects,
    created,       \* creation time of each version
    enabled,       \* the versions that are enabled
    changes,       \* how often that has changed
    existing,      \* aux: how many versions there were at the call
    throughout,    \* aux: the versions enabled ever since the call
    sometime       \* aux: the versions enabled at some time since the call

Selection == INSTANCE VersionSelection WITH
    status  <- IF phase \in {"done", "error"} THEN phase ELSE "calling",
    objects <- IF phase = "done" THEN objects ELSE <<>>

ASSUME LatestVersionsAssumption ==
    /\ \A o \in Entries : o \in KeyVaultObjects({o.ObjectName, o.ObjectAlias} \ {""})
    /\ \A o \in Entries : o.ObjectVersionHistory \in Nat
    /\ MaxVersions \in Nat /\ MaxChanges \in Nat /\ PageSize \in Nat \ {0}

loopVars == <<versions, next, foundFirst, objects>>
callVars == <<kv, phase, expired, nextLink, visited, kept, loopVars, existing>>
vaultVars == <<created, enabled, changes, throughout, sometime>>
vars == <<callVars, vaultVars>>

Phases == {"list", "sort", "scan", "done", "error"}

TypeOK ==
    /\ kv \in Entries
    /\ phase \in Phases
    /\ expired \in BOOLEAN /\ nextLink \in {0, 1}
    /\ created \in Seq(Nat)
    /\ existing \in Nat /\ changes \in 0..MaxChanges
    /\ {visited, kept, enabled, throughout, sometime} \subseteq SUBSET (1..Len(created))
    /\ versions \in Seq(1..Len(created))
    /\ next \in Nat \ {0}
    /\ foundFirst \in BOOLEAN
    /\ objects \in Seq(KeyVaultObjects({kv.ObjectName, kv.ObjectAlias} \ {""}))

Init ==
    /\ kv \in Entries
    /\ phase = "list"
    /\ expired = FALSE /\ nextLink = 0
    /\ visited = {} /\ kept = {}
    /\ versions = <<>>
    /\ next = 1
    /\ foundFirst = FALSE
    /\ objects = <<>>
    /\ Selection!VaultInit
    /\ existing = Len(created)
-----------------------------------------------------------------------------
\* A page of Key Vault's listing: versions it has not returned before, in any
\* order.  It may be empty and have a link to another all the same.  It is the
\* last one only when no version that existed at the start of the listing is
\* left.
Pages ==
    {P \in SUBSET (DOMAIN created \ visited) : Cardinality(P) <= PageSize}

MayBeLast(P) == 1..existing \subseteq visited \cup P

\* Mutant: the versions that are disabled are kept.
KeepsAll(P) == P

\* The versions of a page the loop keeps.  One without attributes is passed over
\* like one that is disabled; Key Vault always sends them, and when it was created.
Kept(P) == P \cap enabled

PagerIsGone == visited' = {} /\ nextLink' = 0

\* Mutant: the pages are asked for with a context of their own.
NextPageInBackground ==
    /\ phase = "list"
    /\ \E P \in Pages :
          /\ kept' = kept \cup Kept(P)
          /\ \/ phase' = "list" /\ visited' = visited \cup P /\ nextLink' = 1 - nextLink
             \/ MayBeLast(P) /\ phase' = "sort" /\ PagerIsGone
    /\ UNCHANGED <<kv, expired, loopVars, existing, vaultVars>>

\* The order of what it keeps is lost in sort.Sort: it is a set until then.
NextPage ==
    /\ phase = "list" /\ ~expired
    /\ \E P \in Pages :
          /\ kept' = kept \cup Kept(P)
          /\ \/ phase' = "list" /\ visited' = visited \cup P /\ nextLink' = 1 - nextLink
             \/ MayBeLast(P) /\ phase' = "sort" /\ PagerIsGone
    /\ UNCHANGED <<kv, expired, loopVars, existing, vaultVars>>

\* A page that cannot be had ends the call; after the deadline none can.
NextPageFails ==
    /\ phase = "list"
    /\ phase' = "error"
    /\ PagerIsGone
    /\ kept' = {}
    /\ UNCHANGED <<kv, expired, loopVars, existing, vaultVars>>

\* sort.Sort, and the loop's start.
Sort ==
    /\ phase = "sort"
    /\ phase' = "scan"
    /\ versions' \in SortedLists(kept, created)
    /\ foundFirst' = (kv.ObjectVersion \in {NoVersion, LatestVersion})
    /\ UNCHANGED <<kv, expired, nextLink, visited, kept, next, objects, existing, vaultVars>>

\* Mutant: the loop goes on one version longer.
FullOneLater == Len(objects) > kv.ObjectVersionHistory

\* The loop's break, after an append that found "length" objects.
Full == Len(objects) + 1 > kv.ObjectVersionHistory

\* Mutant: the loop walks the list the other way.
IndexBefore == next - 1

IndexAfter == next + 1

\* One round of the loop.
Scan ==
    /\ phase = "scan"
    /\ next <= Len(versions)
    /\ foundFirst' = (foundFirst \/ versions[next] = kv.ObjectVersion)
    /\ objects' = IF foundFirst'
                  THEN Append(objects,
                         [kv EXCEPT !.ObjectAlias = GetFileName(kv),
                                    !.ObjectIndex = Len(objects),
                                    !.ObjectVersion = versions[next]])
                  ELSE objects
    /\ next' = IndexAfter
    /\ phase' = IF foundFirst' /\ Full THEN "done" ELSE "scan"
    /\ UNCHANGED <<kv, expired, nextLink, visited, kept, versions, existing, vaultVars>>

EndOfVersions ==
    /\ phase = "scan"
    /\ next > Len(versions)
    /\ phase' = "done"
    /\ UNCHANGED <<kv, expired, nextLink, visited, kept, loopVars, existing, vaultVars>>

ResolveObjectVersions == NextPage \/ NextPageFails \/ Sort \/ Scan \/ EndOfVersions

\* The time the driver gave the RPC is over.  The code after the listing does not
\* look at it, so it is left out there.
Deadline ==
    /\ phase = "list" /\ ~expired
    /\ expired' = TRUE
    /\ UNCHANGED <<kv, phase, nextLink, visited, kept, loopVars, existing, vaultVars>>

Next == ResolveObjectVersions \/ Deadline \/ (Selection!Vault /\ UNCHANGED callVars)

Spec == Init /\ [][Next]_vars

\* The call runs, a request for a page ends, and time passes.  Nothing is
\* assumed of the vault: its listing need not have a last page.
FairSpec == Spec /\ WF_vars(ResolveObjectVersions) /\ WF_vars(Deadline)
-----------------------------------------------------------------------------
\* Page by page and version by version, the call gives what one look at the
\* vault could have given: the newest versions, numbered in order, out of a set
\* that misses no version enabled throughout and has none that was disabled all
\* along (GetSecretVersions, getLatestNKeyVaultObjects).
ImplementsSelection == Selection!Spec

\* The call ends, at the latest with the first page asked for after the deadline,
\* even if the listing has a next page for ever: the loops of keyvault.go have no
\* other bound than the context that each page is asked for with.
CallEnds == <>(phase \in {"done", "error"})
=============================================================================
