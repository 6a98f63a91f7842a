------------------------ MODULE KeyVaultObjectProofs ------------------------
(***************************************************************************)
(* What the operators of KeyVaultObject return, for any entry, any content *)
(* and any list of versions.                                               *)
(***************************************************************************)
EXTENDS KeyVaultObject, FiniteSetTheorems, TLAPS

\* Sequences of one and of three elements.
LEMMA ShortSequences ==
    ASSUME NEW S, NEW x \in S, NEW y \in S, NEW z \in S
    PROVE  <<x>> \in Seq(S) /\ <<x, y, z>> \in Seq(S)
  OBVIOUS

\* foundFirst turns true at the pinned version, or past the end of the list.
LEMMA FirstWantedPosition ==
    ASSUME NEW kv, NEW list \in Seq(Nat),
           \A m, n \in 1..Len(list) : m # n => list[m] # list[n]
    PROVE  /\ FirstWanted(kv, list) \in 1..(Len(list) + 1)
           /\ kv.ObjectVersion \in {NoVersion, LatestVersion} => FirstWanted(kv, list) = 1
           /\ kv.ObjectVersion \notin {NoVersion, LatestVersion} =>
                /\ FirstWanted(kv, list) <= Len(list) =>
                       list[FirstWanted(kv, list)] = kv.ObjectVersion
                /\ \A j \in 1..(FirstWanted(kv, list) - 1) : list[j] # kv.ObjectVersion
<1> DEFINE P(m) == /\ m <= Len(list) => list[m] = kv.ObjectVersion
                   /\ \A j \in 1..(m - 1) : list[j] # kv.ObjectVersion
           c == CHOOSE m \in 1..(Len(list) + 1) : P(m)
<1>0. Len(list) \in Nat
  OBVIOUS
<1>1. \E m \in 1..(Len(list) + 1) : P(m)
  <2>1. CASE \E m \in 1..Len(list) : list[m] = kv.ObjectVersion
    <3>1. PICK m \in 1..Len(list) : list[m] = kv.ObjectVersion
      BY <2>1
    <3>2. P(m)
      BY <1>0, <3>1
    <3> QED
      BY <1>0, <3>2
  <2>2. CASE \A m \in 1..Len(list) : list[m] # kv.ObjectVersion
    <3>1. P(Len(list) + 1)
      BY <1>0, <2>2
    <3> QED
      BY <1>0, <3>1
  <2> QED
    BY <2>1, <2>2
<1>2. c \in 1..(Len(list) + 1) /\ P(c)
  BY <1>1
<1>3. FirstWanted(kv, list) = IF kv.ObjectVersion \in {NoVersion, LatestVersion} THEN 1 ELSE c
  BY DEF FirstWanted
<1> HIDE DEF c
<1> QED
  BY <1>0, <1>2, <1>3

\* The base name of an entry's files.
LEMMA FileNameType ==
    ASSUME NEW N, NEW kv \in KeyVaultObjects(N)
    PROVE  GetFileName(kv) \in N
  BY DEF GetFileName, KeyVaultObjects

\* A resolved version of an entry.
LEMMA ResolvedType ==
    ASSUME NEW N, NEW kv \in KeyVaultObjects(N), NEW alias \in N, NEW index \in Nat,
           NEW version \in Int
    PROVE  [kv EXCEPT !.ObjectAlias = alias, !.ObjectIndex = index, !.ObjectVersion = version]
                \in KeyVaultObjects(N)
<1>1. PICK named : named = [kv EXCEPT !.ObjectAlias = alias]
  OBVIOUS
<1>2. PICK indexed : indexed = [named EXCEPT !.ObjectIndex = index]
  OBVIOUS
<1>3. PICK new : new = [indexed EXCEPT !.ObjectVersion = version]
  OBVIOUS
<1>4. named \in KeyVaultObjects(N)
  BY <1>1 DEF KeyVaultObjects
<1>5. indexed \in KeyVaultObjects(N)
  BY <1>2, <1>4 DEF KeyVaultObjects
<1>6. new \in KeyVaultObjects(N)
  BY <1>3, <1>5 DEF KeyVaultObjects
<1>7. new = [kv EXCEPT !.ObjectAlias = alias, !.ObjectIndex = index, !.ObjectVersion = version]
  BY <1>1, <1>2, <1>3
<1> QED
  BY <1>6, <1>7

\* getLatestNKeyVaultObjects returns the versions of the list from the first
\* wanted one on, under the indexes 0, 1, 2, ..., up to the limit.
LEMMA LatestObjects ==
    ASSUME NEW N, NEW kv \in KeyVaultObjects(N), ~IsSyncingSingleVersion(kv),
           NEW list \in Seq(Nat),
           \A m, n \in 1..Len(list) : m # n => list[m] # list[n],
           NEW objects, objects = GetLatestNKeyVaultObjects(kv, list)
    PROVE  /\ objects \in Seq(KeyVaultObjects(N))
           /\ LET first == FirstWanted(kv, list)
                  found == Len(list) + 1 - first
                  limit == kv.ObjectVersionHistory + 1
              IN  /\ Len(objects) = IF found < limit THEN found ELSE limit
                  /\ \A j \in 1..Len(objects) :
                        /\ objects[j].ObjectIndex = j - 1
                        /\ objects[j].ObjectVersion = list[first + j - 1]
                        /\ objects[j].ObjectType = kv.ObjectType
                        /\ objects[j].ObjectName = kv.ObjectName
<1> DEFINE first == FirstWanted(kv, list)
           found == Len(list) + 1 - first
           limit == kv.ObjectVersionHistory + 1
           n == IF found < limit THEN found ELSE limit
           new(m) == [kv EXCEPT !.ObjectAlias = GetFileName(kv), !.ObjectIndex = m - 1,
                                !.ObjectVersion = list[first + m - 1]]
<1>0. Len(list) \in Nat /\ first \in 1..(Len(list) + 1)
  BY FirstWantedPosition
<1>1. kv.ObjectVersionHistory \in Int /\ kv.ObjectVersionHistory > 1
  <2>1. kv.ObjectVersionHistory \in Int
    BY DEF KeyVaultObjects
  <2> QED
    BY <2>1 DEF IsSyncingSingleVersion
<1>2. n \in Nat /\ n <= found
  BY <1>0, <1>1
<1>3. ASSUME NEW m \in 1..n PROVE new(m) \in KeyVaultObjects(N)
  <2>1. list[first + m - 1] \in Int
    BY <1>0, <1>2
  <2>2. m - 1 \in Nat
    BY <1>2
  <2>3. GetFileName(kv) \in N
    BY FileNameType
  <2> QED
    BY <2>1, <2>2, <2>3, ResolvedType
<1>4. objects = [m \in 1..n |-> new(m)]
  BY DEF GetLatestNKeyVaultObjects, VersionLimit, ResolvedObject
<1>5. ASSUME NEW m
      PROVE  /\ new(m).ObjectIndex = m - 1 /\ new(m).ObjectVersion = list[first + m - 1]
             /\ new(m).ObjectType = kv.ObjectType /\ new(m).ObjectName = kv.ObjectName
  BY DEF KeyVaultObjects
<1>6. /\ objects \in Seq(KeyVaultObjects(N)) /\ Len(objects) = n
      /\ \A j \in 1..n : objects[j] = new(j)
  <2> HIDE DEF n, new
  <2> QED
    BY <1>2, <1>3, <1>4
<1> HIDE DEF new
<1> QED
  BY <1>5, <1>6

Parts == [content : Contents, fileNameSuffix : FileNameSuffixes]

\* Key Vault's answer becomes a sequence of parts.
LEMMA ContentType ==
    ASSUME NEW kv, NEW bundle
    PROVE  ObjectContent(kv, bundle) \in Seq(Parts)
<1>1. ASSUME NEW c \in Contents, NEW s \in FileNameSuffixes PROVE Part(c, s) \in Parts
  BY DEF Part, Parts
<1> USE DEF Contents, FileNameSuffixes
<1>2. ASSUME NEW c \in Contents PROVE CertParts(c) \in Seq(Parts)
  <2> DEFINE x == SplitCertAndKey(c)[1]
             y == SplitCertAndKey(c)[2]
  <2>1. x \in Contents /\ y \in Contents
    <3>1. /\ <<"certs", "privateKey">>[1] = "certs" /\ <<"certs", "privateKey">>[2] = "privateKey"
          /\ <<"empty", "empty">>[1] = "empty" /\ <<"empty", "empty">>[2] = "empty"
      OBVIOUS
    <3>2. /\ SplitCertAndKey(c)[1] \in {"certs", "empty"}
          /\ SplitCertAndKey(c)[2] \in {"privateKey", "empty"}
      BY <3>1 DEF SplitCertAndKey
    <3> QED
      BY <3>2
  <2> HIDE DEF x, y
  <2>2. Part(c, "") \in Parts /\ Part(x, ".crt") \in Parts /\ Part(y, ".key") \in Parts
    BY <1>1, <2>1
  <2>3. <<Part(c, "")>> \in Seq(Parts) /\ <<Part(x, ".crt"), Part(y, ".key"), Part(c, "")>> \in Seq(Parts)
    BY <2>2, ShortSequences
  <2>4. \/ CertParts(c) = <<Part(c, "")>>
        \/ CertParts(c) = <<Part(x, ".crt"), Part(y, ".key"), Part(c, "")>>
    BY Zenon DEF CertParts, x, y
  <2> QED
    BY <2>3, <2>4
<1>3. /\ <<>> \in Seq(Parts)
      /\ bundle \in {"text", "base64Text", "hexText"} => <<Part(bundle, "")>> \in Seq(Parts)
      /\ <<Part("publicKey", "")>> \in Seq(Parts)
      /\ <<Part("certs", "")>> \in Seq(Parts)
  <2>1. /\ bundle \in {"text", "base64Text", "hexText"} => Part(bundle, "") \in Parts
        /\ Part("publicKey", "") \in Parts
        /\ Part("certs", "") \in Parts
    BY <1>1
  <2>2. <<>> \in Seq(Parts)
    OBVIOUS
  <2> HIDE DEF Contents, FileNameSuffixes
  <2> QED
    BY <2>1, <2>2, ShortSequences, Zenon
<1>4. CertContent(kv, bundle) \in {"pem", "pfx", "invalid"}
  BY DEF CertContent, DecodePKCS12
<1>5. CertParts(CertContent(kv, bundle)) \in Seq(Parts)
  BY <1>2, <1>4
<1>6. GetSecret(kv, bundle) \in Seq(Parts)
  BY <1>3, <1>5 DEF GetSecret
<1>7. GetKey(bundle) \in Seq(Parts) /\ GetCertificate(bundle) \in Seq(Parts)
  BY <1>3, Zenon DEF GetKey, GetCertificate
<1> QED
  BY <1>3, <1>6, <1>7 DEF ObjectContent

\* A sorted list has listed versions, none of them twice.
LEMMA SortedListsType ==
    ASSUME NEW m \in Nat, NEW listed \in SUBSET (1..m), NEW created,
           NEW list \in SortedLists(listed, created)
    PROVE  /\ list \in Seq(Nat) /\ DOMAIN list = 1..Len(list)
           /\ \A a, b \in 1..Len(list) : a # b => list[a] # list[b]
           /\ \A a \in 1..Len(list) : list[a] \in listed
<1> DEFINE n == Cardinality(listed)
<1>1. n \in Nat
  <2>1. IsFiniteSet(1..m)
    BY FS_Interval
  <2>2. IsFiniteSet(listed)
    BY <2>1, FS_Subset
  <2> QED
    BY <2>2, FS_CardinalityType
<1>2. /\ list \in [1..n -> listed]
      /\ \A a, b \in 1..n : a # b => list[a] # list[b]
  BY DEF SortedLists, SetToSeqs
<1> HIDE DEF n
<1>3. \A a \in 1..n : list[a] \in Nat
  <2>1. \A v \in listed : v \in Nat
    OBVIOUS
  <2> QED
    BY <1>2, <2>1
<1>4. list = [a \in 1..n |-> list[a]]
  BY <1>2
<1>5. list \in Seq(Nat) /\ Len(list) = n
  BY <1>1, <1>3, <1>4
<1> QED
  BY <1>2, <1>5

\* It has all of them, in descending order of creation.
LEMMA SortedListsAre ==
    ASSUME NEW m \in Nat, NEW listed \in SUBSET (1..m), NEW created,
           NEW list \in SortedLists(listed, created)
    PROVE  /\ \A v \in listed : \E a \in 1..Len(list) : list[a] = v
           /\ \A a, b \in 1..Len(list) : a < b => created[list[a]] >= created[list[b]]
<1> DEFINE n == Cardinality(listed)
<1>1. IsFiniteSet(listed) /\ n \in Nat
  <2>1. IsFiniteSet(1..m)
    BY FS_Interval
  <2> QED
    BY <2>1, FS_Subset, FS_CardinalityType
<1>2. /\ list \in [1..n -> listed]
      /\ \A a, b \in 1..n : a # b => list[a] # list[b]
  BY DEF SortedLists, SetToSeqs
<1>3. DOMAIN list = 1..Len(list)
  BY SortedListsType
<1>4. \A v \in listed : \E a \in DOMAIN list : list[a] = v
  <2>1. list \in Injection(1..n, listed)
    BY <1>2 DEF Injection, IsInjective
  <2>2. Cardinality(1..n) = n
    BY <1>1, FS_Interval
  <2>3. list \in Surjection(1..n, listed)
    BY <1>1, <2>1, <2>2, FS_Injection
  <2> QED
    BY <2>3 DEF Surjection
<1>5. \A a, b \in DOMAIN list : a < b => created[list[a]] >= created[list[b]]
  BY Zenon DEF SortedLists
<1> QED
  BY <1>3, <1>4, <1>5, Zenon
=============================================================================
