------------------------ MODULE LatestVersionsProofs ------------------------
(***************************************************************************)
(* LatestVersions implements VersionSelection, for every entry, vault and  *)
(* page size: what the pages kept is a listing of the vault, and the loop  *)
(* over it has, at every round, a prefix of the selection.                 *)
(***************************************************************************)
EXTENDS LatestVersions, KeyVaultObjectProofs

Name(o) == {o.ObjectName, o.ObjectAlias} \ {""}

\* The vault, and what the pages brought so far: of the versions the pager has
\* been past, none that was enabled throughout is missing.
ListingInv ==
    /\ throughout \subseteq enabled
    /\ enabled \subseteq sometime
    /\ throughout \subseteq 1..existing
    /\ kept \subseteq sometime
    /\ throughout \cap visited \subseteq kept
    /\ phase \in {"sort", "scan"} => throughout \subseteq kept

\* The loop: before the first wanted version it has nothing, and from there on
\* an object for every version it has been past.
LoopInv ==
    /\ phase \in {"list", "sort"} => next = 1 /\ objects = <<>>
    /\ phase = "scan" =>
          /\ versions \in SortedLists(kept, created)
          /\ next \in 1..(Len(versions) + 1)
          /\ ~foundFirst =>
                /\ kv.ObjectVersion \notin {NoVersion, LatestVersion}
                /\ \A j \in 1..(next - 1) : versions[j] # kv.ObjectVersion
                /\ objects = <<>>
          /\ foundFirst =>
                /\ FirstWanted(kv, versions) \in 1..next
                /\ Len(objects) = next - FirstWanted(kv, versions)
                /\ Len(objects) <= kv.ObjectVersionHistory
                /\ \A i \in 1..Len(objects) :
                      objects[i] = ResolvedObject(kv, versions, FirstWanted(kv, versions), i)

IndInv == TypeOK /\ ListingInv /\ LoopInv
-----------------------------------------------------------------------------
\* The first wanted version is the first one the loop meets.
LEMMA FirstWantedIs ==
    ASSUME NEW o, o.ObjectVersion \notin {NoVersion, LatestVersion},
           NEW list, Len(list) \in Nat,
           NEW n \in 1..(Len(list) + 1),
           n <= Len(list) => list[n] = o.ObjectVersion,
           \A j \in 1..(n - 1) : list[j] # o.ObjectVersion
    PROVE  FirstWanted(o, list) = n
<1> DEFINE P(m) == /\ m <= Len(list) => list[m] = o.ObjectVersion
                   /\ \A j \in 1..(m - 1) : list[j] # o.ObjectVersion
           c == CHOOSE m \in 1..(Len(list) + 1) : P(m)
<1>1. P(n)
  OBVIOUS
<1>2. c \in 1..(Len(list) + 1) /\ P(c)
  BY <1>1
<1>3. FirstWanted(o, list) = c
  BY DEF FirstWanted
<1> HIDE DEF c
<1>4. c = n
  <2>1. CASE c < n
    BY <1>2, <2>1
  <2>2. CASE n < c
    BY <1>1, <1>2, <2>2
  <2> QED
    BY <1>2, <2>1, <2>2
<1> QED
  BY <1>3, <1>4

\* An appended creation time changes no order of versions there are.
LEMMA SortedListsGrow ==
    ASSUME NEW c \in Seq(Nat), NEW t \in Nat, NEW S \in SUBSET (1..Len(c)),
           NEW list \in SortedLists(S, c)
    PROVE  list \in SortedLists(S, Append(c, t))
<1>1. list \in SetToSeqs(S)
  BY DEF SortedLists
<1>2. DOMAIN list = 1..Len(list) /\ \A a \in 1..Len(list) : list[a] \in S
  <2>1. Len(c) \in Nat
    OBVIOUS
  <2> QED
    BY <2>1, SortedListsType
<1>3. \A v \in S : Append(c, t)[v] = c[v]
  OBVIOUS
<1>4. \A a, b \in DOMAIN list : a < b => c[list[a]] >= c[list[b]]
  BY DEF SortedLists
<1>5. \A a, b \in DOMAIN list : a < b => Append(c, t)[list[a]] >= Append(c, t)[list[b]]
  BY <1>2, <1>3, <1>4
<1> QED
  BY <1>1, <1>5 DEF SortedLists
-----------------------------------------------------------------------------
LEMMA Bounds == MaxVersions \in Nat /\ MaxChanges \in Nat
  BY LatestVersionsAssumption

LEMMA InitIndInv == Init => IndInv
<1> SUFFICES ASSUME Init PROVE IndInv
  OBVIOUS
<1> USE DEF Init, Selection!VaultInit
<1>1. created \in Seq(Nat) /\ Len(created) \in Nat
  <2>1. PICK n \in 0..MaxVersions : created \in [1..n -> 1..MaxVersions]
    OBVIOUS
  <2>2. created \in [1..n -> Nat] /\ n \in Nat
    BY <2>1, Bounds
  <2>3. created = [i \in 1..n |-> created[i]]
    BY <2>2
  <2> QED
    BY <2>2, <2>3
<1>2. TypeOK
  <2>1. changes \in 0..MaxChanges
    BY Bounds
  <2>2. versions \in Seq(1..Len(created)) /\ objects \in Seq(KeyVaultObjects(Name(kv)))
    OBVIOUS
  <2>3. {visited, kept, enabled, throughout, sometime} \subseteq SUBSET (1..Len(created))
    OBVIOUS
  <2>4. kv \in Entries /\ phase \in Phases /\ existing \in Nat /\ next \in Nat \ {0}
    BY <1>1 DEF Phases
  <2>5. foundFirst \in BOOLEAN
    BY Zenon
  <2> QED
    BY <1>1, <2>1, <2>2, <2>3, <2>4, <2>5 DEF TypeOK, Name
<1>3. ListingInv
  BY DEF ListingInv
<1>4. LoopInv
  BY DEF LoopInv
<1> QED
  BY <1>2, <1>3, <1>4 DEF IndInv
-----------------------------------------------------------------------------
\* What TypeOK says of the vault and of the entry.
LEMMA TypeParts ==
    ASSUME TypeOK
    PROVE  /\ created \in Seq(Nat) /\ Len(created) \in Nat /\ DOMAIN created = 1..Len(created)
           /\ {visited, kept, enabled, throughout, sometime} \subseteq SUBSET (1..Len(created))
           /\ kept \in SUBSET (1..Len(created))
           /\ versions \in Seq(1..Len(created))
           /\ kv.ObjectVersionHistory \in Nat
           /\ kv \in KeyVaultObjects(Name(kv))
           /\ objects \in Seq(KeyVaultObjects(Name(kv)))
<1>1. created \in Seq(Nat) /\ kv \in Entries
  BY Zenon DEF TypeOK
<1>2. Len(created) \in Nat /\ DOMAIN created = 1..Len(created)
  BY <1>1
<1>3. {visited, kept, enabled, throughout, sometime} \subseteq SUBSET (1..Len(created))
  BY Zenon DEF TypeOK
<1>4. kept \in SUBSET (1..Len(created))
  BY <1>3
<1>5. versions \in Seq(1..Len(created)) /\ objects \in Seq(KeyVaultObjects(Name(kv)))
  BY Zenon DEF TypeOK, Name
<1>6. kv.ObjectVersionHistory \in Nat /\ kv \in KeyVaultObjects(Name(kv))
  BY <1>1, LatestVersionsAssumption, Zenon DEF Name
<1> QED
  BY <1>1, <1>2, <1>3, <1>4, <1>5, <1>6

\* The invariant is about the call and about the vault; each changes alone.
LEMMA VaultIndInv ==
    ASSUME IndInv, Selection!Vault, UNCHANGED callVars
    PROVE  IndInv'
<1> USE DEF IndInv, callVars, loopVars
<1>0. created \in Seq(Nat) /\ Len(created) \in Nat /\ DOMAIN created = 1..Len(created)
  BY TypeParts
<1>1. /\ {visited, kept, enabled, throughout, sometime} \subseteq SUBSET (1..Len(created))
      /\ versions \in Seq(1..Len(created))
  BY TypeParts
<1>2. changes' \in 0..MaxChanges
  <2>1. changes \in 0..MaxChanges
    BY Zenon DEF TypeOK
  <2> QED
    BY <2>1, Bounds DEF Selection!Vault
<1>3. CASE Selection!Create
  <2> USE <1>3 DEF Selection!Create
  <2>1. PICK t \in Nat : created' = Append(created, t)
    <3>1. created # <<>> => Last(created) \in Nat
      BY <1>0 DEF Last
    <3> QED
      BY <3>1 DEF Selection!Last, Last
  <2>2. created' \in Seq(Nat) /\ Len(created') = Len(created) + 1
    BY <1>0, <2>1
  <2>3. {visited, kept, enabled, throughout, sometime}' \subseteq SUBSET (1..Len(created'))
    BY <1>0, <1>1, <2>2
  <2>4. versions' \in Seq(1..Len(created'))
    BY <1>0, <1>1, <2>2
  <2>5. TypeOK'
    BY <1>2, <2>2, <2>3, <2>4 DEF TypeOK
  <2>6. ListingInv'
    BY DEF ListingInv
  <2>7. versions \in SortedLists(kept, created) => versions \in SortedLists(kept, created')
    BY <1>0, <1>1, <2>1, SortedListsGrow
  <2>8. LoopInv'
    BY <2>7 DEF LoopInv
  <2> QED
    BY <2>5, <2>6, <2>8
<1>4. CASE \E v \in DOMAIN created : Selection!Disable(v) \/ Selection!Enable(v)
  <2>1. PICK v \in 1..Len(created) : Selection!Disable(v) \/ Selection!Enable(v)
    BY <1>0, <1>4
  <2> USE <2>1 DEF Selection!Disable, Selection!Enable
  <2>2. created' = created
    OBVIOUS
  <2>3. {visited, kept, enabled, throughout, sometime}' \subseteq SUBSET (1..Len(created'))
    BY <1>0, <1>1
  <2>4. TypeOK'
    BY <1>2, <2>2, <2>3 DEF TypeOK
  <2>5. ListingInv'
    BY DEF ListingInv
  <2>6. LoopInv'
    BY <2>2 DEF LoopInv
  <2> QED
    BY <2>4, <2>5, <2>6
<1> QED
  BY <1>3, <1>4 DEF Selection!Vault

\* A page adds what it has of the versions enabled now.
LEMMA NextPageIndInv ==
    ASSUME IndInv, NextPage
    PROVE  IndInv'
<1> USE DEF IndInv, NextPage, loopVars
<1>1. PICK P \in Pages :
          /\ kept' = kept \cup Kept(P)
          /\ \/ phase' = "list" /\ visited' = visited \cup P /\ nextLink' = 1 - nextLink
             \/ MayBeLast(P) /\ phase' = "sort" /\ visited' = {} /\ nextLink' = 0
  BY DEF PagerIsGone
<1>2. P \subseteq 1..Len(created)
  BY TypeParts DEF Pages
<1>3. TypeOK'
  <2>1. {visited, kept, enabled, throughout, sometime}' \subseteq SUBSET (1..Len(created'))
    BY <1>1, <1>2 DEF TypeOK, Kept, vaultVars
  <2>2. phase' \in Phases /\ nextLink' \in {0, 1}
    <3>1. nextLink \in {0, 1}
      BY Zenon DEF TypeOK
    <3> QED
      BY <1>1, <3>1 DEF Phases
  <2> QED
    BY <2>1, <2>2, Zenon DEF TypeOK, vaultVars
<1>4. ListingInv'
  BY <1>1, <1>2 DEF ListingInv, Kept, MayBeLast, vaultVars
<1>5. LoopInv'
  BY <1>1 DEF LoopInv
<1> QED
  BY <1>3, <1>4, <1>5

LEMMA NextPageFailsIndInv ==
    ASSUME IndInv, NextPageFails
    PROVE  IndInv'
<1> USE DEF IndInv, NextPageFails, PagerIsGone, loopVars, vaultVars
<1>1. TypeOK'
  BY DEF TypeOK, Phases
<1>2. ListingInv'
  BY DEF ListingInv
<1>3. LoopInv'
  BY DEF LoopInv
<1> QED
  BY <1>1, <1>2, <1>3

\* What the loop starts with is an order of what the pages kept.
LEMMA SortIndInv ==
    ASSUME IndInv, Sort
    PROVE  IndInv'
<1> USE DEF IndInv, Sort, vaultVars
<1>1. /\ Len(created) \in Nat /\ kept \in SUBSET (1..Len(created))
      /\ kv.ObjectVersionHistory \in Nat
  BY TypeParts
<1>2. /\ versions' \in Seq(Nat) /\ Len(versions') \in Nat
      /\ \A m \in 1..Len(versions') : versions'[m] \in 1..Len(created)
  <2>1. PICK list \in SortedLists(kept, created) : list = versions'
    OBVIOUS
  <2>2. list \in Seq(Nat) /\ \A m \in 1..Len(list) : list[m] \in kept
    BY <1>1, SortedListsType
  <2>3. Len(list) \in Nat
    BY <2>2
  <2> QED
    BY <1>1, <2>1, <2>2, <2>3
<1>3. versions' \in Seq(1..Len(created))
  BY <1>2
<1>4. foundFirst' \in BOOLEAN
  <2>1. foundFirst' = (kv.ObjectVersion \in {NoVersion, LatestVersion})
    OBVIOUS
  <2> QED
    BY <2>1
<1>5. TypeOK'
  BY <1>3, <1>4 DEF TypeOK, Phases
<1>6. ListingInv'
  BY DEF ListingInv
<1>7. LoopInv'
  <2>1. next' = 1 /\ objects' = <<>> /\ phase' = "scan"
    BY DEF LoopInv
  <2>2. foundFirst' => FirstWanted(kv', versions') = 1
    BY DEF FirstWanted
  <2>3. ~foundFirst' => kv'.ObjectVersion \notin {NoVersion, LatestVersion}
    OBVIOUS
  <2>4. Len(objects') = 0 /\ kv' = kv
    BY <2>1
  <2> QED
    BY <1>1, <1>2, <2>1, <2>2, <2>3, <2>4 DEF LoopInv
<1> QED
  BY <1>5, <1>6, <1>7
-----------------------------------------------------------------------------
\* A sequence that has what getLatestNKeyVaultObjects appends, and as much of it,
\* is its result.
LEMMA SelectedIs ==
    ASSUME NEW o, NEW list, NEW S, NEW objs \in Seq(S),
           NEW found, found = Len(list) + 1 - FirstWanted(o, list), NEW limit, limit = VersionLimit(o),
           Len(objs) = IF found < limit THEN found ELSE limit,
           \A i \in 1..Len(objs) : objs[i] = ResolvedObject(o, list, FirstWanted(o, list), i)
    PROVE  GetLatestNKeyVaultObjects(o, list) = objs
<1>1. objs = [i \in 1..Len(objs) |-> objs[i]]
  OBVIOUS
<1>2. [i \in 1..Len(objs) |-> objs[i]]
        = [i \in 1..Len(objs) |-> ResolvedObject(o, list, FirstWanted(o, list), i)]
  OBVIOUS
<1>3. GetLatestNKeyVaultObjects(o, list)
        = [i \in 1..Len(objs) |-> ResolvedObject(o, list, FirstWanted(o, list), i)]
  BY DEF GetLatestNKeyVaultObjects
<1> QED
  BY <1>1, <1>2, <1>3

\* Where a round of the loop finds the list.
LEMMA ScanParts ==
    ASSUME IndInv, phase = "scan"
    PROVE  /\ Len(versions) \in Nat /\ next \in 1..(Len(versions) + 1)
           /\ \A m \in 1..Len(versions) : versions[m] \in Nat
<1>1. versions \in Seq(1..Len(created)) /\ Len(created) \in Nat
  BY TypeParts DEF IndInv
<1> QED
  BY <1>1 DEF IndInv, LoopInv

\* A round that appends: the first wanted version is behind it or here, and the
\* object it appends is the next one of the selection.
LEMMA ScanAppends ==
    ASSUME IndInv, Scan, foundFirst',
           NEW first, first = FirstWanted(kv, versions)
    PROVE  /\ first \in 1..next
           /\ Len(objects) \in Nat /\ Len(objects) = next - first
           /\ Len(objects) <= kv.ObjectVersionHistory
           /\ objects' \in Seq(KeyVaultObjects(Name(kv)))
           /\ Len(objects') = Len(objects) + 1
           /\ \A i \in 1..Len(objects') : objects'[i] = ResolvedObject(kv, versions, first, i)
<1> USE DEF IndInv
<1> DEFINE new == [kv EXCEPT !.ObjectAlias = GetFileName(kv), !.ObjectIndex = Len(objects),
                             !.ObjectVersion = versions[next]]
<1>1. phase = "scan" /\ next <= Len(versions) /\ objects' = Append(objects, new)
  BY DEF Scan
<1>2. /\ Len(versions) \in Nat /\ next \in 1..(Len(versions) + 1)
      /\ \A m \in 1..Len(versions) : versions[m] \in Nat
  BY <1>1, ScanParts
<1>3. objects \in Seq(KeyVaultObjects(Name(kv))) /\ kv.ObjectVersionHistory \in Nat
  BY TypeParts
<1>4. /\ first \in 1..next /\ Len(objects) = next - first
      /\ Len(objects) <= kv.ObjectVersionHistory
      /\ \A i \in 1..Len(objects) : objects[i] = ResolvedObject(kv, versions, first, i)
  <2>1. CASE foundFirst
    BY <1>1, <2>1 DEF LoopInv
  <2>2. CASE ~foundFirst
    <3>1. /\ kv.ObjectVersion \notin {NoVersion, LatestVersion}
          /\ \A j \in 1..(next - 1) : versions[j] # kv.ObjectVersion
          /\ objects = <<>>
      BY <1>1, <2>2 DEF LoopInv
    <3>2. versions[next] = kv.ObjectVersion
      BY <2>2 DEF Scan
    <3>3. first = next
      BY <1>2, <3>1, <3>2, FirstWantedIs
    <3>4. Len(objects) = 0
      BY <3>1
    <3> QED
      BY <1>2, <1>3, <3>3, <3>4
  <2> QED
    BY <2>1, <2>2
<1>5. new = ResolvedObject(kv, versions, first, Len(objects) + 1)
  <2>1. PICK k : k = Len(objects) + 1
    OBVIOUS
  <2>2. k - 1 = Len(objects) /\ first + k - 1 = next
    BY <1>2, <1>3, <1>4, <2>1
  <2>3. new = ResolvedObject(kv, versions, first, k)
    BY <2>2, Zenon DEF ResolvedObject
  <2> QED
    BY <2>1, <2>3
<1>6. new \in KeyVaultObjects(Name(kv))
  <2>1. kv \in KeyVaultObjects(Name(kv)) /\ Len(objects) \in Nat
    BY <1>3, TypeParts
  <2>2. GetFileName(kv) \in Name(kv)
    BY <2>1, FileNameType
  <2>3. versions[next] \in Int
    BY <1>1, <1>2
  <2> QED
    BY <2>1, <2>2, <2>3, ResolvedType
<1> HIDE DEF new
<1>7. /\ objects' \in Seq(KeyVaultObjects(Name(kv))) /\ Len(objects) \in Nat
      /\ Len(objects') = Len(objects) + 1
      /\ objects'[Len(objects) + 1] = new
      /\ \A i \in 1..Len(objects) : objects'[i] = objects[i]
  BY <1>1, <1>3, <1>6
<1>8. \A i \in 1..Len(objects') : i = Len(objects) + 1 \/ i \in 1..Len(objects)
  BY <1>7
<1> QED
  BY <1>4, <1>5, <1>7, <1>8

LEMMA ScanIndInv ==
    ASSUME IndInv, Scan
    PROVE  IndInv'
<1> USE DEF IndInv
<1>1. /\ Len(versions) \in Nat /\ next \in 1..Len(versions) /\ next' = next + 1
      /\ phase = "scan" /\ versions' = versions /\ kv' = kv /\ UNCHANGED <<kept, created>>
  BY ScanParts DEF Scan, IndexAfter, vaultVars
<1>2. foundFirst' \in BOOLEAN
  <2>1. foundFirst' = (foundFirst \/ versions[next] = kv.ObjectVersion)
    BY DEF Scan
  <2> QED
    BY <2>1
<1>3. ListingInv'
  BY <1>1 DEF ListingInv, Scan, vaultVars
<1>4. phase' \in Phases /\ next' \in Nat \ {0}
  BY <1>1 DEF Scan, Phases
<1>5. CASE foundFirst'
  <2>1. PICK first : first = FirstWanted(kv, versions)
    OBVIOUS
  <2>2. /\ first \in 1..next
        /\ Len(objects) \in Nat /\ Len(objects) = next - first
        /\ objects' \in Seq(KeyVaultObjects(Name(kv)))
        /\ Len(objects') = Len(objects) + 1
        /\ \A i \in 1..Len(objects') : objects'[i] = ResolvedObject(kv, versions, first, i)
    BY <1>5, <2>1, ScanAppends
  <2>3. TypeOK'
    <3>1. objects' \in Seq(KeyVaultObjects(Name(kv')))
      BY <1>1, <2>2
    <3> QED
      BY <1>2, <1>4, <3>1, Zenon DEF TypeOK, Scan, vaultVars, Name
  <2>4. kv.ObjectVersionHistory \in Nat
    BY TypeParts
  <2>5. phase' = "scan" => Len(objects') <= kv.ObjectVersionHistory
    BY <1>5, <2>2, <2>4 DEF Scan, Full
  <2>6. phase' \in {"scan", "done"}
    BY DEF Scan
  <2>7. LoopInv'
    BY <1>1, <1>5, <2>1, <2>2, <2>5, <2>6 DEF LoopInv
  <2> QED
    BY <1>3, <2>3, <2>7
<1>6. CASE ~foundFirst'
  <2>1. ~foundFirst /\ versions[next] # kv.ObjectVersion /\ objects' = objects /\ phase' = "scan"
    BY <1>6 DEF Scan
  <2>2. TypeOK'
    BY <1>2, <1>4, <2>1, Zenon DEF TypeOK, Scan, vaultVars
  <2>3. LoopInv'
    BY <1>1, <1>6, <2>1 DEF LoopInv
  <2> QED
    BY <1>3, <2>2, <2>3
<1> QED
  BY <1>5, <1>6

LEMMA EndOfVersionsIndInv ==
    ASSUME IndInv, EndOfVersions
    PROVE  IndInv'
<1> USE DEF IndInv, EndOfVersions, loopVars, vaultVars
<1>1. TypeOK'
  BY DEF TypeOK, Phases
<1>2. ListingInv'
  BY DEF ListingInv
<1>3. LoopInv'
  BY DEF LoopInv
<1> QED
  BY <1>1, <1>2, <1>3

\* Time passes and nothing else happens.
LEMMA DeadlineIndInv ==
    ASSUME IndInv, Deadline
    PROVE  IndInv'
<1> USE DEF IndInv, Deadline, loopVars, vaultVars
<1>1. TypeOK'
  BY DEF TypeOK, Phases
<1>2. ListingInv'
  BY DEF ListingInv
<1>3. LoopInv'
  BY DEF LoopInv
<1> QED
  BY <1>1, <1>2, <1>3

LEMMA Invariance == Spec => []IndInv
<1>1. IndInv /\ [Next]_vars => IndInv'
  <2> SUFFICES ASSUME IndInv, [Next]_vars PROVE IndInv'
    OBVIOUS
  <2>1. CASE UNCHANGED vars
    BY <2>1 DEF IndInv, TypeOK, ListingInv, LoopInv, vars, callVars, loopVars, vaultVars
  <2> QED
    BY <2>1, VaultIndInv, NextPageIndInv, NextPageFailsIndInv, SortIndInv, ScanIndInv,
       EndOfVersionsIndInv, DeadlineIndInv DEF Next, ResolveObjectVersions
<1> QED
  BY <1>1, InitIndInv, PTL DEF Spec

\* At every step the call's state is well formed.
THEOREM TypeCorrect == Spec => []TypeOK
  BY Invariance, PTL DEF IndInv
-----------------------------------------------------------------------------
\* The copy of KeyVaultObject in VersionSelection is the same.
LEMMA SameOperators ==
    /\ \A o, list : Selection!GetLatestNKeyVaultObjects(o, list) = GetLatestNKeyVaultObjects(o, list)
    /\ \A S, T : Selection!Listings(S, T) = Listings(S, T)
    /\ \A S, c : Selection!SortedLists(S, c) = SortedLists(S, c)
<1>1. ASSUME NEW o, NEW list
      PROVE  Selection!GetLatestNKeyVaultObjects(o, list) = GetLatestNKeyVaultObjects(o, list)
  BY DEF Selection!GetLatestNKeyVaultObjects, GetLatestNKeyVaultObjects, Selection!FirstWanted,
         FirstWanted, Selection!VersionLimit, VersionLimit, Selection!ResolvedObject, ResolvedObject,
         Selection!GetFileName, GetFileName, Selection!NoVersion, NoVersion,
         Selection!LatestVersion, LatestVersion
<1>2. ASSUME NEW S, NEW T PROVE Selection!Listings(S, T) = Listings(S, T)
  BY DEF Selection!Listings, Listings
<1>3. ASSUME NEW S, NEW c PROVE Selection!SortedLists(S, c) = SortedLists(S, c)
  <2>1. Selection!Cardinality(S) = Cardinality(S)
    BY Zenon DEF Selection!Cardinality, Cardinality
  <2>2. Selection!SetToSeqs(S) = SetToSeqs(S)
    BY <2>1 DEF Selection!SetToSeqs, SetToSeqs
  <2> QED
    BY <2>2 DEF Selection!SortedLists, SortedLists
<1> QED
  BY <1>1, <1>2, <1>3

\* What the pages kept is a listing, so the call may end with what the loop makes
\* of it.
LEMMA EndsWithSelection ==
    ASSUME IndInv, phase = "scan", phase' = "done",
           objects' = GetLatestNKeyVaultObjects(kv, versions),
           UNCHANGED <<kv, vaultVars>>
    PROVE  Selection!Next
<1>1. kept \in Listings(throughout, sometime)
  BY DEF IndInv, ListingInv, Listings
<1>2. versions \in SortedLists(kept, created)
  BY DEF IndInv, LoopInv
<1>3. Selection!Select
  BY <1>1, <1>2, SameOperators DEF Selection!Select, vaultVars, Selection!vaultVars
<1> QED
  BY <1>3 DEF Selection!Next

\* The round that fills the history ends with the selection.
LEMMA ScanSelects ==
    ASSUME IndInv, Scan, phase' = "done"
    PROVE  objects' = GetLatestNKeyVaultObjects(kv, versions)
<1>1. PICK first : first = FirstWanted(kv, versions)
  OBVIOUS
<1>2. foundFirst' /\ Len(objects) + 1 > kv.ObjectVersionHistory
  BY DEF Scan, Full
<1>3. /\ first \in 1..next
      /\ Len(objects) \in Nat /\ Len(objects) = next - first
      /\ Len(objects) <= kv.ObjectVersionHistory
      /\ objects' \in Seq(KeyVaultObjects(Name(kv)))
      /\ Len(objects') = Len(objects) + 1
      /\ \A i \in 1..Len(objects') : objects'[i] = ResolvedObject(kv, versions, first, i)
  BY <1>1, <1>2, ScanAppends
<1>4. Len(versions) \in Nat /\ next \in 1..Len(versions) /\ kv.ObjectVersionHistory \in Nat
  BY ScanParts, TypeParts DEF Scan, IndInv
<1>5. Len(objects') = kv.ObjectVersionHistory + 1 /\ Len(objects') <= Len(versions) + 1 - first
  BY <1>2, <1>3, <1>4
<1>6. /\ Len(objects') = IF Len(versions) + 1 - first < VersionLimit(kv)
                         THEN Len(versions) + 1 - first ELSE VersionLimit(kv)
  BY <1>3, <1>4, <1>5 DEF VersionLimit
<1> QED
  BY <1>1, <1>3, <1>6, SelectedIs

\* So does the end of the list.
LEMMA EndSelects ==
    ASSUME IndInv, EndOfVersions
    PROVE  objects' = GetLatestNKeyVaultObjects(kv, versions)
<1> USE DEF IndInv
<1>1. phase = "scan" /\ next > Len(versions) /\ objects' = objects
  BY DEF EndOfVersions, loopVars
<1>2. Len(versions) \in Nat /\ next = Len(versions) + 1 /\ kv.ObjectVersionHistory \in Nat
  BY <1>1, ScanParts, TypeParts
<1>3. objects \in Seq(KeyVaultObjects(Name(kv)))
  BY TypeParts
<1>4. PICK first : first = FirstWanted(kv, versions)
  OBVIOUS
<1>5. /\ first \in 1..next /\ Len(objects) = next - first
      /\ Len(objects) <= kv.ObjectVersionHistory
      /\ \A i \in 1..Len(objects) : objects[i] = ResolvedObject(kv, versions, first, i)
  <2>1. CASE foundFirst
    BY <1>1, <1>4, <2>1 DEF LoopInv
  <2>2. CASE ~foundFirst
    <3>1. /\ kv.ObjectVersion \notin {NoVersion, LatestVersion}
          /\ \A j \in 1..(next - 1) : versions[j] # kv.ObjectVersion
          /\ objects = <<>>
      BY <1>1, <2>2 DEF LoopInv
    <3>2. first = next
      BY <1>2, <1>4, <3>1, FirstWantedIs
    <3>3. Len(objects) = 0
      BY <3>1
    <3> QED
      BY <1>2, <3>2, <3>3
  <2> QED
    BY <2>1, <2>2
<1>6. Len(objects) = IF Len(versions) + 1 - first < VersionLimit(kv)
                     THEN Len(versions) + 1 - first ELSE VersionLimit(kv)
  BY <1>2, <1>5 DEF VersionLimit
<1>7. GetLatestNKeyVaultObjects(kv, versions) = objects
  BY <1>3, <1>4, <1>5, <1>6, SelectedIs
<1> QED
  BY <1>1, <1>7

\* Every step of the call is a step of the abstract one, or none.
LEMMA Step ==
    ASSUME IndInv, [Next]_vars
    PROVE  [Selection!Next]_(Selection!vars)
<1> USE DEF Selection!vars, Selection!callVars, Selection!vaultVars, loopVars
<1>1. CASE NextPage
  BY <1>1 DEF NextPage, vaultVars
<1>2. CASE NextPageFails
  BY <1>2 DEF NextPageFails, vaultVars, Selection!Next, Selection!Refuse
<1>3. CASE Sort
  BY <1>3 DEF Sort, vaultVars
<1>4. CASE Scan
  <2>1. CASE phase' = "done"
    BY <1>4, <2>1, ScanSelects, EndsWithSelection DEF Scan
  <2>2. CASE phase' = "scan"
    BY <1>4, <2>2 DEF Scan, vaultVars
  <2> QED
    BY <1>4, <2>1, <2>2 DEF Scan
<1>5. CASE EndOfVersions
  BY <1>5, EndSelects, EndsWithSelection DEF EndOfVersions
<1>6. CASE Selection!Vault /\ UNCHANGED callVars
  BY <1>6 DEF callVars, Selection!Next
<1>7. CASE Deadline
  BY <1>7 DEF Deadline, vaultVars
<1>8. CASE UNCHANGED vars
  BY <1>8 DEF vars, callVars, vaultVars
<1> QED
  BY <1>1, <1>2, <1>3, <1>4, <1>5, <1>6, <1>7, <1>8 DEF Next, ResolveObjectVersions

\* The paged listing, the sort and the loop of getLatestNKeyVaultObjects give,
\* whatever happens in the vault meanwhile, what one look at it could have given.
THEOREM Refinement == Spec => ImplementsSelection
<1>1. Init => Selection!Init
  BY DEF Init, Selection!Init
<1>2. IndInv /\ [Next]_vars => [Selection!Next]_(Selection!vars)
  BY Step
<1> QED
  BY <1>1, <1>2, Invariance, PTL DEF Spec, ImplementsSelection, Selection!Spec
=============================================================================
