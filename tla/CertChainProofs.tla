--------------------------- MODULE CertChainProofs ---------------------------
(***************************************************************************)
(* fetchCertChains, for any number of certificates with any key            *)
(* identifiers: what it writes in a new order is a permutation of what it  *)
(* read, linked from issued to issuer, server first and root last when it  *)
(* is complete, and it reports a cycle only when there is one.             *)
(*                                                                         *)
(* The walk remembers no node it has visited.  That it still repeats none  *)
(* rests on RepeatMeansCircle: since every node has at most one parent,    *)
(* once a node repeats the walk can only go on to nodes it has been        *)
(* through, so it never arrives at the end of the list.                    *)
(***************************************************************************)
EXTENDS CertChain, FiniteSetTheorems, TLAPS

Decoded ==
    /\ Len(nodes) <= Len(data)
    /\ pc \notin {"decode", "unparsable"} => Len(nodes) = Len(data)

ParentIsIssuer ==
    /\ pc = "decode" => \A c \in 1..Len(nodes) : parent[c] = NoNode
    /\ \A c \in 1..Len(nodes) : parent[c] # NoNode => Issued(parent[c], c)

ChainFollowsParents ==
    /\ pc \in {"decode", "link", "leaf"} => newCertChain = <<>>
    /\ \A k \in 1..(Len(newCertChain) - 1) : newCertChain[k + 1] = parent[newCertChain[k]]
    /\ newCertChain # <<>> => leaf = parent[newCertChain[Len(newCertChain)]]

RepeatMeansCircle ==
    \A j, k \in 1..Len(newCertChain) :
        j # k /\ newCertChain[j] = newCertChain[k] =>
            \E m \in 1..Len(newCertChain) : newCertChain[m] = leaf

HowItReturned ==
    /\ pc = "reordered" => leaf = NoNode /\ Len(newCertChain) = Len(nodes)
    /\ pc = "cycle" => leaf # NoNode /\ Len(newCertChain) = Len(nodes)
    /\ Len(newCertChain) <= Len(nodes)

\* The inductive invariant.
Inv ==
    /\ TypeOK
    /\ Decoded
    /\ ParentIsIssuer
    /\ ChainFollowsParents
    /\ RepeatMeansCircle
    /\ HowItReturned
-----------------------------------------------------------------------------
\* The input is a sequence of blocks, at most MaxCerts of them.
LEMMA InputsAreSequences ==
    ASSUME NEW d \in Inputs
    PROVE  d \in Seq(Certificates \cup {Garbage})
<1>1. PICK n \in 0..MaxCerts : d \in [1..n -> Certificates \cup {Garbage}]
  BY DEF Inputs
<1>2. n \in Nat
  BY CertChainAssumption
<1> QED
  BY <1>1, <1>2

\* A sequence of n distinct numbers of 1..n has every one of them.
LEMMA DistinctIsOnto ==
    ASSUME NEW n \in Nat, NEW s \in [1..n -> 1..n],
           \A j, k \in 1..n : s[j] = s[k] => j = k
    PROVE  \A m \in 1..n : \E k \in 1..n : s[k] = m
<1>1. s \in Injection(1..n, 1..n)
  BY DEF Injection, IsInjective
<1>2. IsFiniteSet(1..n)
  BY FS_Interval
<1>3. s \in Surjection(1..n, 1..n)
  BY <1>1, <1>2, FS_Injection
<1> QED
  BY <1>3 DEF Surjection

\* A function on 1..n is a sequence of length n.
LEMMA FunctionIsSequence ==
    ASSUME NEW n \in Nat, NEW S, NEW f \in [1..n -> S]
    PROVE  f \in Seq(S) /\ Len(f) = n
  OBVIOUS

\* Nothing has been decoded or walked yet.
LEMMA InitInv == Init => Inv
<1> SUFFICES ASSUME Init PROVE Inv
  OBVIOUS
<1> USE DEF Init
<1>1. Len(nodes) = 0 /\ Len(newCertChain) = 0
  OBVIOUS
<1>2. data \in Seq(Certificates \cup {Garbage})
  BY InputsAreSequences
<1>3. TypeOK
  <2>1. parent \in [1..Len(nodes) -> 0..Len(nodes)]
    BY <1>1
  <2> QED
    BY <1>1, <2>1 DEF TypeOK, Loops, NoNode
<1>4. Decoded
  BY <1>1, <1>2 DEF Decoded
<1>5. ParentIsIssuer /\ ChainFollowsParents /\ RepeatMeansCircle /\ HowItReturned
  BY <1>1 DEF ParentIsIssuer, ChainFollowsParents, RepeatMeansCircle, HowItReturned
<1> QED
  BY <1>3, <1>4, <1>5 DEF Inv

\* A block that becomes a node.
LEMMA DecodeInv == Inv /\ Decode => Inv'
<1> SUFFICES ASSUME Inv, Decode PROVE Inv'
  OBVIOUS
<1> USE DEF Inv
<1>0. data \in Seq(Certificates \cup {Garbage}) /\ Len(nodes) \in Nat /\ Len(data) \in Nat
  BY InputsAreSequences DEF TypeOK
<1>n. newCertChain = <<>> /\ Len(newCertChain) = 0
  BY DEF Decode, ChainFollowsParents
<1>1. CASE UNCHANGED <<nodes, parent>>
  <2>1. TypeOK'
    BY <1>1 DEF Decode, TypeOK, Loops, Returned
  <2>2. Decoded'
    BY <1>0, <1>1 DEF Decode, Decoded
  <2>3. ParentIsIssuer'
    BY <1>1 DEF Decode, ParentIsIssuer, Issued
  <2>4. ChainFollowsParents' /\ RepeatMeansCircle' /\ HowItReturned'
    BY <1>n, <1>0, <1>1 DEF Decode, ChainFollowsParents, RepeatMeansCircle, HowItReturned
  <2> QED
    BY <2>1, <2>2, <2>3, <2>4
<1>2. CASE /\ Len(nodes) + 1 <= Len(data)
           /\ data[Len(nodes) + 1] # Garbage
           /\ nodes' = Append(nodes, data[Len(nodes) + 1])
           /\ parent' = Append(parent, NoNode)
           /\ UNCHANGED pc
  <2> DEFINE n == Len(nodes)
  <2>1. data[n + 1] \in Certificates
    BY <1>0, <1>2
  <2>2. nodes' \in Seq(Certificates) /\ Len(nodes') = n + 1
    BY <1>2, <2>1 DEF TypeOK
  <2>3. parent' \in [1..(n + 1) -> 0..n] /\ \A c \in 1..(n + 1) : parent'[c] = NoNode
    <3>1. parent \in Seq(0..n) /\ Len(parent) = n
      <4>1. parent \in [1..n -> 0..n]
        BY DEF TypeOK
      <4> QED
        BY <1>0, <4>1, FunctionIsSequence
    <3>2. parent' \in Seq(0..n) /\ Len(parent') = n + 1
      <4>1. parent' = Append(parent, 0) /\ 0 \in 0..n
        BY <1>0, <1>2 DEF NoNode
      <4> QED
        BY <3>1, <4>1
    <3>3. \A c \in 1..n : parent[c] = NoNode
      BY DEF Decode, ParentIsIssuer
    <3>4. \A c \in 1..(n + 1) : parent'[c] = NoNode
      BY <1>0, <1>2, <3>1, <3>3
    <3> QED
      BY <1>0, <3>2, <3>4
  <2>4. TypeOK'
    <3>1. i' \in 1..(n + 2) /\ isParent' \subseteq 1..(n + 1) /\ leaf' \in 0..(n + 1)
      BY <1>0 DEF Decode, TypeOK
    <3>2. newCertChain' \in Seq(1..(n + 1))
      BY <1>n DEF Decode
    <3>3. parent' \in [1..(n + 1) -> 0..(n + 1)]
      BY <1>0, <2>3
    <3> QED
      BY <1>0, <1>2, <2>2, <3>1, <3>2, <3>3 DEF Decode, TypeOK
  <2>5. Decoded'
    BY <1>0, <1>2, <2>2 DEF Decode, Decoded
  <2>6. ParentIsIssuer'
    BY <2>2, <2>3 DEF ParentIsIssuer
  <2>7. ChainFollowsParents' /\ RepeatMeansCircle' /\ HowItReturned'
    BY <1>n, <1>0, <1>2, <2>2 DEF Decode, ChainFollowsParents, RepeatMeansCircle, HowItReturned
  <2> QED
    BY <2>4, <2>5, <2>6, <2>7
<1> QED
  BY <1>1, <1>2 DEF Decode

\* A node gets its first issuer for a parent, or none.
LEMMA LinkInv == Inv /\ Link => Inv'
<1> SUFFICES ASSUME Inv, Link PROVE Inv'
  OBVIOUS
<1> USE DEF Inv
<1>0. Len(nodes) \in Nat
  BY DEF TypeOK
<1>n. newCertChain = <<>> /\ Len(newCertChain) = 0 /\ UNCHANGED <<data, nodes, leaf, newCertChain>>
  BY DEF Link, ChainFollowsParents
<1>p. /\ parent' \in [1..Len(nodes) -> 0..Len(nodes)]
      /\ \A c \in 1..Len(nodes) : parent'[c] # NoNode => Issued(parent'[c], c)
  <2>1. CASE parent' = parent
    BY <2>1 DEF TypeOK, ParentIsIssuer
  <2>2. CASE i <= Len(nodes) /\ \E p \in 1..Len(nodes) :
                Issued(p, i) /\ parent' = [parent EXCEPT ![i] = p]
    BY <2>2, <1>0 DEF TypeOK, ParentIsIssuer
  <2> QED
    BY <2>1, <2>2 DEF Link
<1>1. TypeOK'
  <2>1. pc' \in Loops /\ i' \in 1..(Len(nodes) + 1)
    BY <1>0 DEF Link, TypeOK, Loops
  <2>2. isParent' \subseteq 1..Len(nodes)
    <3>1. isParent' = isParent \/ \E p \in 1..Len(nodes) : isParent' = isParent \cup {p}
      BY Zenon DEF Link
    <3> QED
      BY <3>1 DEF TypeOK
  <2> QED
    BY <1>0, <1>n, <1>p, <2>1, <2>2 DEF TypeOK
<1>2. Decoded'
  BY <1>n DEF Link, Decoded
<1>3. ParentIsIssuer'
  BY <1>n, <1>p DEF Link, ParentIsIssuer, Issued
<1>4. ChainFollowsParents' /\ RepeatMeansCircle' /\ HowItReturned'
  BY <1>n, <1>0 DEF Link, ChainFollowsParents, RepeatMeansCircle, HowItReturned
<1> QED
  BY <1>1, <1>2, <1>3, <1>4

\* The walk starts with an empty chain.
LEMMA FindLeafInv == Inv /\ FindLeaf => Inv'
<1> SUFFICES ASSUME Inv, FindLeaf PROVE Inv'
  OBVIOUS
<1> USE DEF Inv
<1>n. newCertChain = <<>> /\ Len(newCertChain) = 0 /\ Len(nodes) \in Nat
  BY DEF FindLeaf, ChainFollowsParents, TypeOK
<1>1. TypeOK'
  BY <1>n DEF FindLeaf, TypeOK, Loops, Returned
<1>2. Decoded' /\ ParentIsIssuer'
  BY DEF FindLeaf, Decoded, ParentIsIssuer, Issued
<1>3. ChainFollowsParents' /\ RepeatMeansCircle' /\ HowItReturned'
  BY <1>n DEF FindLeaf, ChainFollowsParents, RepeatMeansCircle, HowItReturned
<1> QED
  BY <1>1, <1>2, <1>3

\* One node further along the parents.
LEMMA WalkInv == Inv /\ Walk => Inv'
<1> SUFFICES ASSUME Inv, Walk PROVE Inv'
  OBVIOUS
<1> USE DEF Inv
<1>0. Len(nodes) \in Nat /\ Len(newCertChain) \in Nat /\ UNCHANGED <<data, nodes, i, parent, isParent>>
  BY DEF TypeOK, Walk, ChainResult, CycleDetected, ChainWithLeaf
<1>1. CASE UNCHANGED <<leaf, newCertChain>>
  <2>1. TypeOK' /\ Decoded' /\ ParentIsIssuer'
    BY <1>0, <1>1 DEF Walk, ChainResult, CycleDetected, ChainWithLeaf, TypeOK, Loops,
                      Returned, Decoded, ParentIsIssuer, Issued
  <2>2. ChainFollowsParents' /\ RepeatMeansCircle'
    BY <1>0, <1>1 DEF Walk, ChainResult, CycleDetected, ChainWithLeaf, ChainFollowsParents, RepeatMeansCircle
  <2>3. HowItReturned'
    BY <1>0, <1>1 DEF Walk, ChainResult, CycleDetected, ChainWithLeaf, HowItReturned
  <2> QED
    BY <2>1, <2>2, <2>3
<1>2. CASE /\ leaf # NoNode
           /\ Len(newCertChain) + 1 <= Len(nodes)
           /\ newCertChain' = Append(newCertChain, leaf)
           /\ leaf' = parent[leaf]
           /\ UNCHANGED pc
  <2> DEFINE n == Len(newCertChain)
  <2>1. leaf \in 1..Len(nodes)
    BY <1>0, <1>2 DEF TypeOK, NoNode
  <2>2. /\ newCertChain' \in Seq(1..Len(nodes))
        /\ Len(newCertChain') = n + 1
        /\ \A k \in 1..n : newCertChain'[k] = newCertChain[k]
        /\ newCertChain'[n + 1] = leaf
    BY <1>0, <1>2, <2>1 DEF TypeOK
  <2>3. TypeOK' /\ Decoded' /\ ParentIsIssuer' /\ HowItReturned'
    <3>1. TypeOK'
      BY <1>0, <1>2, <2>1, <2>2 DEF TypeOK
    <3>2. Decoded' /\ ParentIsIssuer'
      BY <1>0, <1>2 DEF Decoded, ParentIsIssuer, Issued
    <3>3. HowItReturned'
      BY <1>0, <1>2, <2>2 DEF Walk, ChainResult, CycleDetected, ChainWithLeaf, HowItReturned
    <3> QED
      BY <3>1, <3>2, <3>3
  <2>4. \A k \in 1..n : newCertChain'[k + 1] = parent[newCertChain'[k]]
    <3> SUFFICES ASSUME NEW k \in 1..n PROVE newCertChain'[k + 1] = parent[newCertChain'[k]]
      OBVIOUS
    <3>1. CASE k < n
      <4>1. k \in 1..(n - 1) /\ k + 1 \in 1..n
        BY <1>0, <3>1
      <4> QED
        BY <2>2, <4>1 DEF ChainFollowsParents
    <3>2. CASE k = n
      <4>1. newCertChain # <<>>
        BY <1>0, <3>2
      <4> QED
        BY <2>2, <3>2, <4>1 DEF ChainFollowsParents
    <3> QED
      BY <1>0, <3>1, <3>2
  <2>5. ChainFollowsParents'
    <3>1. pc' = "walk" /\ newCertChain' # <<>>
      BY <1>0, <1>2, <2>2 DEF Walk, ChainResult, CycleDetected, ChainWithLeaf
    <3>2. \A k \in 1..(Len(newCertChain') - 1) : newCertChain'[k + 1] = parent'[newCertChain'[k]]
      BY <1>0, <2>2, <2>4
    <3>3. leaf' = parent'[newCertChain'[Len(newCertChain')]]
      BY <1>0, <1>2, <2>2
    <3> QED
      BY <3>1, <3>2, <3>3 DEF ChainFollowsParents
  <2>6. RepeatMeansCircle'
    <3> SUFFICES ASSUME NEW j \in 1..(n + 1), NEW k \in 1..(n + 1), j # k,
                        newCertChain'[j] = newCertChain'[k]
                 PROVE  \E m \in 1..(n + 1) : newCertChain'[m] = leaf'
      BY <2>2 DEF RepeatMeansCircle
    <3>1. PICK m \in 1..n : newCertChain[m] = leaf
      <4>1. CASE j \in 1..n /\ k \in 1..n
        BY <2>2, <4>1 DEF RepeatMeansCircle
      <4>2. CASE j = n + 1 /\ k \in 1..n
        BY <2>2, <4>2
      <4>3. CASE k = n + 1 /\ j \in 1..n
        BY <2>2, <4>3
      <4> QED
        BY <1>0, <4>1, <4>2, <4>3
    <3>2. newCertChain'[m + 1] = leaf'
      BY <1>2, <2>2, <2>4, <3>1
    <3> QED
      BY <1>0, <3>1, <3>2
  <2> QED
    BY <2>3, <2>5, <2>6
<1> QED
  BY <1>1, <1>2 DEF Walk, ChainResult, CycleDetected, ChainWithLeaf

\* Every loop of fetchCertChains preserves the invariant.
LEMMA StepInv == Inv /\ [Next]_vars => Inv'
<1>1. Inv /\ UNCHANGED vars => Inv'
  BY DEF vars, Inv, TypeOK, Decoded, ParentIsIssuer, Issued, ChainFollowsParents,
         RepeatMeansCircle, HowItReturned
<1> QED
  BY <1>1, DecodeInv, LinkInv, FindLeafInv, WalkInv DEF Next

\* fetchCertChains keeps its types and the inductive invariant.
THEOREM Invariance == Spec => []Inv
  BY InitInv, StepInv, PTL DEF Spec

\* The type invariant of fetchCertChains' state, for any input.
THEOREM TypeCorrect == Spec => []TypeOK
<1>1. Inv => TypeOK
  BY DEF Inv
<1> QED
  BY Invariance, <1>1, PTL

-----------------------------------------------------------------------------
\* The chain that is written in the new order is a permutation of the
\* certificates, each followed by its issuer.
THEOREM ReorderingIsCorrect == Spec => []ReorderedIsChain
<1>1. Inv => ReorderedIsChain
  <2> SUFFICES ASSUME Inv, pc = "reordered" PROVE ReorderedIsChain
    BY DEF ReorderedIsChain
  <2> DEFINE n == Len(nodes)
  <2>1. n \in Nat /\ newCertChain \in Seq(1..n) /\ Len(newCertChain) = n /\ leaf = NoNode
    BY DEF Inv, TypeOK, HowItReturned
  <2>2. Len(nodes) = Len(data)
    BY DEF Inv, Decoded
  <2>3. \A m \in 1..n : newCertChain[m] \in 1..n
    BY <2>1
  <2>4. \A j, k \in 1..n : newCertChain[j] = newCertChain[k] => j = k
    <3>1. ~\E m \in 1..n : newCertChain[m] = leaf
      BY <2>1, <2>3 DEF NoNode
    <3> QED
      BY <2>1, <3>1 DEF Inv, RepeatMeansCircle
  <2>5. \A m \in 1..n : \E k \in 1..n : newCertChain[k] = m
    <3>1. newCertChain \in [1..n -> 1..n]
      BY <2>1
    <3> QED
      BY <2>1, <2>4, <3>1, DistinctIsOnto
  <2>6. \A k \in 1..(n - 1) : Issued(newCertChain[k + 1], newCertChain[k])
    <3> SUFFICES ASSUME NEW k \in 1..(n - 1) PROVE Issued(newCertChain[k + 1], newCertChain[k])
      OBVIOUS
    <3>1. newCertChain[k] \in 1..n /\ newCertChain[k + 1] \in 1..n
      BY <2>1, <2>3
    <3>2. newCertChain[k + 1] = parent[newCertChain[k]]
      BY <2>1 DEF Inv, ChainFollowsParents
    <3> QED
      BY <3>1, <3>2 DEF Inv, ParentIsIssuer, NoNode
  <2> QED
    BY <2>1, <2>2, <2>4, <2>5, <2>6 DEF ReorderedIsChain
<1> QED
  BY Invariance, <1>1, PTL

\* The cycle error is returned only for certificates that form one: when the
\* counter runs out, the walk has either repeated a node or been through all.
THEOREM CycleErrorIsCorrect == Spec => []CycleIsReal
<1>1. Inv => CycleIsReal
  <2> SUFFICES ASSUME Inv, pc = "cycle" PROVE CycleIsReal
    BY DEF CycleIsReal
  <2> DEFINE n == Len(nodes)
             S == {newCertChain[k] : k \in 1..n}
  <2>1. /\ n \in Nat /\ newCertChain \in [1..n -> 1..n] /\ Len(newCertChain) = n
        /\ leaf \in 1..n
    <3>1. /\ n \in Nat /\ newCertChain \in Seq(1..n) /\ Len(newCertChain) = n
          /\ leaf \in 0..n /\ leaf # 0
      BY DEF Inv, TypeOK, HowItReturned, NoNode
    <3>2. leaf \in 1..n
      BY <3>1
    <3> QED
      BY <3>1, <3>2
  <2>2. \E m \in 1..n : newCertChain[m] = leaf
    <3>1. CASE \A j, k \in 1..n : newCertChain[j] = newCertChain[k] => j = k
      <4>1. \A m \in 1..n : \E k \in 1..n : newCertChain[k] = m
        BY <2>1, <3>1, DistinctIsOnto
      <4> QED
        BY <2>1, <4>1
    <3>2. CASE \E j, k \in 1..n : newCertChain[j] = newCertChain[k] /\ j # k
      BY <2>1, <3>2 DEF Inv, RepeatMeansCircle
    <3> QED
      BY <3>1, <3>2
  <2>3. S \in SUBSET (1..n) /\ S # {}
    BY <2>1, <2>2
  <2>4. ASSUME NEW c \in S PROVE \E p \in S : Issued(p, c)
    <3>1. PICK k \in 1..n : c = newCertChain[k]
      OBVIOUS
    <3>2. parent[c] \in S
      <4>1. CASE k < n
        <5>1. k \in 1..(n - 1) /\ k + 1 \in 1..n
          BY <2>1, <4>1
        <5> QED
          BY <2>1, <3>1, <5>1 DEF Inv, ChainFollowsParents
      <4>2. CASE k = n
        <5>1. newCertChain # <<>>
          BY <2>1, <4>2
        <5>2. leaf = parent[c]
          BY <2>1, <3>1, <4>2, <5>1 DEF Inv, ChainFollowsParents
        <5> QED
          BY <2>2, <5>2
      <4> QED
        BY <2>1, <4>1, <4>2
    <3>3. c \in 1..n /\ parent[c] # NoNode
      BY <2>1, <2>3, <3>1, <3>2 DEF NoNode
    <3> QED
      BY <3>2, <3>3 DEF Inv, ParentIsIssuer
  <2> QED
    BY <2>3, <2>4 DEF CycleIsReal
<1> QED
  BY Invariance, <1>1, PTL

-----------------------------------------------------------------------------
(***************************************************************************)
(* Complete chains.  What the loops have found out so far (LoopsInv) makes *)
(* the parents of a complete chain p the ones p says (CompleteParents), so *)
(* the walk starts at p[1] and goes along p (AlongTheChain).               *)
(***************************************************************************)

DecodedBlocks ==
    /\ \A c \in 1..Len(nodes) : nodes[c] = data[c]
    /\ pc = "unparsable" => \E c \in 1..Len(data) : data[c] = Garbage
    /\ pc = "decode" => i = 1 /\ isParent = {}

LinkedSoFar ==
    /\ pc \notin {"decode", "unparsable", "link"} => i > Len(nodes)
    /\ \A c \in 1..Len(nodes) :
          IF c < i THEN parent[c] = NoNode => \A q \in 1..Len(nodes) : ~Issued(q, c)
                   ELSE parent[c] = NoNode
    /\ \A q \in isParent : \E c \in 1..Len(nodes) : parent[c] = q
    /\ \A c \in 1..Len(nodes) : parent[c] # NoNode => parent[c] \in isParent

LeafAndResult ==
    /\ pc = "noLeaf" => isParent = 1..Len(nodes)
    /\ pc = "original" => leaf = NoNode /\ Len(newCertChain) # Len(nodes)

AlongTheChain ==
    pc \in {"walk", "reordered", "original", "cycle"} /\ data # <<>> =>
        \A p \in Orders : IsCompleteChain(p) =>
            /\ \A k \in 1..Len(newCertChain) : newCertChain[k] = p[k]
            /\ leaf = IF Len(newCertChain) < Len(nodes)
                      THEN p[Len(newCertChain) + 1] ELSE NoNode

LoopsInv == DecodedBlocks /\ LinkedSoFar /\ LeafAndResult
-----------------------------------------------------------------------------
\* Nothing has been decoded or linked yet.
LEMMA LoopsInit == Init => LoopsInv /\ AlongTheChain
<1> SUFFICES ASSUME Init PROVE LoopsInv /\ AlongTheChain
  OBVIOUS
<1>1. Len(nodes) = 0
  BY DEF Init
<1> QED
  BY <1>1 DEF Init, LoopsInv, DecodedBlocks, LinkedSoFar, LeafAndResult, AlongTheChain

\* Decoding keeps the blocks' order.
LEMMA LoopsDecode == Inv /\ LoopsInv /\ Decode => LoopsInv'
<1> SUFFICES ASSUME Inv, LoopsInv, Decode PROVE LoopsInv'
  OBVIOUS
<1>0. data \in Seq(Certificates \cup {Garbage}) /\ Len(nodes) \in Nat /\ Len(data) \in Nat
  BY InputsAreSequences DEF Inv, TypeOK
<1>n. i = 1 /\ isParent = {} /\ UNCHANGED <<data, i, isParent, leaf, newCertChain>>
  BY DEF LoopsInv, DecodedBlocks, Decode
<1>1. CASE UNCHANGED <<nodes, parent>>
  <2>1. DecodedBlocks'
    BY <1>0, <1>1, <1>n DEF Decode, LoopsInv, DecodedBlocks
  <2>2. LinkedSoFar'
    BY <1>0, <1>1, <1>n DEF Decode, LoopsInv, LinkedSoFar, Inv, ParentIsIssuer, Issued
  <2>3. LeafAndResult'
    BY <1>1 DEF Decode, LeafAndResult
  <2> QED
    BY <2>1, <2>2, <2>3 DEF LoopsInv
<1>2. CASE /\ Len(nodes) + 1 <= Len(data)
           /\ nodes' = Append(nodes, data[Len(nodes) + 1])
           /\ parent' = Append(parent, NoNode)
           /\ UNCHANGED pc
  <2> DEFINE n == Len(nodes)
  <2>1. Len(nodes') = n + 1 /\ \A c \in 1..(n + 1) : nodes'[c] = data[c]
    <3>1. nodes \in Seq(Certificates) /\ \A c \in 1..n : nodes[c] = data[c]
      BY DEF Inv, TypeOK, LoopsInv, DecodedBlocks
    <3>2. Len(nodes') = n + 1 /\ nodes'[n + 1] = data[n + 1] /\ \A c \in 1..n : nodes'[c] = nodes[c]
      BY <1>2, <3>1
    <3> QED
      BY <1>0, <3>1, <3>2
  <2>2. \A c \in 1..(n + 1) : parent'[c] = NoNode
    <3>1. parent \in Seq(0..n) /\ Len(parent) = n
      <4>1. parent \in [1..n -> 0..n]
        BY DEF Inv, TypeOK
      <4> QED
        BY <1>0, <4>1, FunctionIsSequence
    <3>2. \A c \in 1..n : parent[c] = NoNode
      BY DEF Decode, Inv, ParentIsIssuer
    <3> QED
      BY <1>0, <1>2, <3>1, <3>2
  <2>3. DecodedBlocks'
    BY <1>2, <1>n, <2>1 DEF Decode, DecodedBlocks
  <2>4. LinkedSoFar'
    <3>1. i' = 1 /\ isParent' = {} /\ pc' = "decode"
      BY <1>2, <1>n DEF Decode
    <3>2. \A c \in 1..Len(nodes') : ~(c < i') /\ parent'[c] = NoNode
      BY <1>0, <2>1, <2>2, <3>1
    <3> QED
      BY <3>1, <3>2 DEF LinkedSoFar
  <2>5. LeafAndResult'
    BY <1>2 DEF Decode, LeafAndResult
  <2> QED
    BY <2>3, <2>4, <2>5 DEF LoopsInv
<1> QED
  BY <1>1, <1>2 DEF Decode

\* A node that is left without a parent has no issuer, and isParent is the set
\* of parents.
LEMMA LoopsLink == Inv /\ LoopsInv /\ Link => LoopsInv'
<1> SUFFICES ASSUME Inv, LoopsInv, Link PROVE LoopsInv'
  OBVIOUS
<1> DEFINE n == Len(nodes)
<1>0. /\ n \in Nat /\ i \in 1..(n + 1) /\ parent \in [1..n -> 0..n]
      /\ isParent \subseteq 1..n
  BY DEF Inv, TypeOK
<1>n. pc = "link" /\ pc' \in {"link", "leaf"} /\ UNCHANGED <<data, nodes, leaf, newCertChain>>
  BY DEF Link
<1>1. DecodedBlocks' /\ LeafAndResult'
  BY <1>n DEF LoopsInv, DecodedBlocks, LeafAndResult
<1>2. CASE i > n /\ pc' = "leaf" /\ UNCHANGED <<i, parent, isParent>>
  <2>1. LinkedSoFar'
    BY <1>0, <1>n, <1>2 DEF LoopsInv, LinkedSoFar, Issued
  <2> QED
    BY <1>1, <2>1 DEF LoopsInv
<1>3. CASE /\ i <= n /\ i' = i + 1 /\ pc' = pc
           /\ \A p \in 1..n : ~Issued(p, i)
           /\ UNCHANGED <<parent, isParent>>
  <2>1. LinkedSoFar'
    BY <1>0, <1>n, <1>3 DEF LoopsInv, LinkedSoFar, Issued
  <2> QED
    BY <1>1, <2>1 DEF LoopsInv
<1>4. CASE /\ i <= n /\ i' = i + 1 /\ pc' = pc
           /\ \E p \in 1..n : /\ parent' = [parent EXCEPT ![i] = p]
                              /\ isParent' = isParent \cup {p}
  <2>1. PICK p \in 1..n : parent' = [parent EXCEPT ![i] = p] /\ isParent' = isParent \cup {p}
    BY <1>4
  <2>2. i \in 1..n /\ parent[i] = NoNode
    BY <1>0, <1>4 DEF LoopsInv, LinkedSoFar
  <2>3. /\ parent'[i] = p /\ p # NoNode
        /\ \A c \in 1..n : c # i => parent'[c] = parent[c]
    BY <1>0, <2>1, <2>2 DEF NoNode
  <2>4. \A c \in 1..n :
          IF c < i + 1 THEN parent'[c] = NoNode => \A q \in 1..n : ~Issued(q, c)
                       ELSE parent'[c] = NoNode
    BY <1>0, <2>2, <2>3 DEF LoopsInv, LinkedSoFar
  <2>5. \A q \in isParent' : \E c \in 1..n : parent'[c] = q
    <3> SUFFICES ASSUME NEW q \in isParent' PROVE \E c \in 1..n : parent'[c] = q
      OBVIOUS
    <3>1. CASE q = p
      BY <2>2, <2>3, <3>1
    <3>2. CASE q \in isParent
      <4>1. PICK c \in 1..n : parent[c] = q
        BY <3>2 DEF LoopsInv, LinkedSoFar
      <4>2. c # i
        BY <1>0, <2>2, <3>2, <4>1 DEF NoNode
      <4> QED
        BY <2>3, <4>1, <4>2
    <3> QED
      BY <2>1, <3>1, <3>2
  <2>6. \A c \in 1..n : parent'[c] # NoNode => parent'[c] \in isParent'
    BY <2>1, <2>3 DEF LoopsInv, LinkedSoFar
  <2>7. LinkedSoFar'
    BY <1>4, <1>n, <2>4, <2>5, <2>6 DEF LinkedSoFar, Issued
  <2> QED
    BY <1>1, <2>7 DEF LoopsInv
<1> QED
  BY <1>2, <1>3, <1>4 DEF Link

\* The last two loops link nothing.
LEMMA LoopsFindWalk == Inv /\ LoopsInv /\ (FindLeaf \/ Walk) => LoopsInv'
<1> SUFFICES ASSUME Inv, LoopsInv, FindLeaf \/ Walk PROVE LoopsInv'
  OBVIOUS
<1>1. UNCHANGED <<data, nodes, i, parent, isParent>>
  BY DEF FindLeaf, Walk
<1>2. /\ pc \in {"leaf", "walk"}
      /\ pc' \in {"noLeaf", "walk", "cycle", "original", "reordered"}
  BY DEF FindLeaf, Walk, ChainResult
<1>3. DecodedBlocks'
  BY <1>1, <1>2 DEF LoopsInv, DecodedBlocks
<1>4. LinkedSoFar'
  BY <1>1, <1>2 DEF LoopsInv, LinkedSoFar, Issued
<1>5. LeafAndResult'
  BY <1>1 DEF FindLeaf, Walk, ChainResult, LeafAndResult
<1> QED
  BY <1>3, <1>4, <1>5 DEF LoopsInv

\* A complete chain has no block that cannot be parsed, and its subject keys
\* are identifiers or, for the server certificate, absent.
LEMMA CompleteIsParsable ==
    ASSUME TypeOK, data # <<>>, NEW p \in Orders, IsCompleteChain(p)
    PROVE  /\ Len(data) \in Nat \ {0}
           /\ p \in [1..Len(data) -> 1..Len(data)] /\ Len(p) = Len(data)
           /\ \A c \in 1..Len(data) : \E k \in 1..Len(data) : p[k] = c
           /\ \A k \in 1..Len(data) : data[p[k]].SubjectKeyId \in KeyIds \cup {Nil}
           /\ \A c \in 1..Len(data) : data[c] # Garbage
<1> DEFINE n == Len(data)
<1>1. n \in Nat \ {0}
  BY InputsAreSequences DEF TypeOK
<1>2. p \in [1..n -> 1..n] /\ (\A j, k \in 1..n : p[j] = p[k] => j = k)
  BY DEF Orders
<1>3. Len(p) = n
  BY <1>1, <1>2
<1>4. \A c \in 1..n : \E k \in 1..n : p[k] = c
  BY <1>1, <1>2, DistinctIsOnto
<1>5. ASSUME NEW k \in 1..n PROVE data[p[k]].SubjectKeyId \in KeyIds \cup {Nil}
  <2>1. CASE k = 1
    BY <1>3, <2>1 DEF IsCompleteChain
  <2>2. CASE k > 1
    <3>1. k - 1 \in 1..(n - 1) /\ (k - 1) + 1 = k
      BY <1>1, <2>2
    <3>2. /\ data[p[k - 1]].AuthorityKeyId \in KeyIds
          /\ data[p[k - 1]].AuthorityKeyId = data[p[(k - 1) + 1]].SubjectKeyId
      BY <1>3, <3>1 DEF IsCompleteChain
    <3> QED
      BY <3>1, <3>2
  <2> QED
    BY <1>1, <2>1, <2>2
<1>6. ASSUME NEW c \in 1..n PROVE data[c] # Garbage
  <2>1. PICK k \in 1..n : p[k] = c
    BY <1>4
  <2>2. data[c].SubjectKeyId \in KeyIds \cup {Nil}
    BY <1>5, <2>1
  <2>3. Garbage.SubjectKeyId \notin KeyIds \cup {Nil}
    BY CertChainAssumption DEF Garbage, Nil
  <2> QED
    BY <2>2, <2>3
<1> QED
  BY <1>1, <1>2, <1>3, <1>4, <1>5, <1>6

\* Once all nodes are linked, the parents of a complete chain are the next ones
\* in it, and its server certificate is the only node that is nobody's parent.
LEMMA CompleteParents ==
    ASSUME Inv, LoopsInv, pc \notin {"decode", "unparsable", "link"},
           data # <<>>, NEW p \in Orders, IsCompleteChain(p)
    PROVE  /\ \A k \in 1..(Len(nodes) - 1) : parent[p[k]] = p[k + 1]
           /\ parent[p[Len(nodes)]] = NoNode
           /\ p[1] \notin isParent
           /\ \A c \in (1..Len(nodes)) \ isParent : c = p[1]
<1> DEFINE n == Len(nodes)
           A(k) == data[p[k]].AuthorityKeyId
           S(k) == data[p[k]].SubjectKeyId
<1>0. n = Len(data)
  BY DEF Inv, Decoded
<1>1. /\ n \in Nat \ {0} /\ p \in [1..n -> 1..n] /\ Len(p) = n
      /\ \A c \in 1..n : \E k \in 1..n : p[k] = c
      /\ \A k \in 1..n : S(k) \in KeyIds \cup {Nil}
  BY <1>0, CompleteIsParsable DEF Inv
<1>p. n \in Nat \ {0} /\ p \in [1..n -> 1..n]
  BY <1>1
<1>2. \A k \in 1..n : nodes[p[k]] = data[p[k]]
  BY <1>1 DEF LoopsInv, DecodedBlocks
<1>k. Nil \notin KeyIds /\ Empty \notin KeyIds /\ Nil # Empty
  BY CertChainAssumption DEF Nil, Empty
<1>c. /\ \A k \in 1..(n - 1) : A(k) \in KeyIds /\ A(k) = S(k + 1)
      /\ \A j, k \in 1..n : S(j) = S(k) => j = k
      /\ A(n) \in {Nil, S(n)}
  BY <1>1 DEF IsCompleteChain
<1>3. \A j, k \in 1..n : Issued(p[j], p[k]) <=>
          p[j] # p[k] /\ ~(A(k) = Nil /\ S(j) = Nil) /\ Bytes(A(k)) = Bytes(S(j))
  BY <1>2 DEF Issued
<1>4. \A k \in 1..n : Bytes(S(k)) = S(k)
  BY <1>1, <1>k DEF Bytes
<1>5. \A c \in 1..n : parent[c] \in 0..n /\ (parent[c] = NoNode \/ Issued(parent[c], c))
  BY DEF Inv, TypeOK, ParentIsIssuer
<1>6. \A c \in 1..n : parent[c] = NoNode => \A q \in 1..n : ~Issued(q, c)
  BY DEF LoopsInv, LinkedSoFar, Inv, TypeOK
<1>7. ASSUME NEW k \in 1..(n - 1) PROVE parent[p[k]] = p[k + 1]
  <2>1. k \in 1..n /\ k + 1 \in 1..n /\ k # k + 1
    BY <1>1
  <2>2. Bytes(A(k)) = A(k) /\ A(k) # Nil
    BY <1>c, <1>k DEF Bytes
  <2>3. p[k + 1] # p[k]
    BY <1>0, <1>1, <2>1 DEF Orders
  <2>4. Issued(p[k + 1], p[k])
    BY <1>3, <1>4, <1>c, <2>1, <2>2, <2>3
  <2>5. ASSUME NEW j \in 1..n, Issued(p[j], p[k]) PROVE j = k + 1
    BY <1>3, <1>4, <1>c, <2>1, <2>2, <2>5
  <2>6. p[k] \in 1..n /\ p[k + 1] \in 1..n
    BY <1>1, <2>1
  <2>7. parent[p[k]] # NoNode /\ Issued(parent[p[k]], p[k])
    BY <1>5, <1>6, <2>4, <2>6
  <2>8. PICK j \in 1..n : p[j] = parent[p[k]]
    <3>1. parent[p[k]] \in 1..n
      BY <1>p, <1>5, <2>6, <2>7 DEF NoNode
    <3> QED
      BY <1>1, <3>1
  <2> QED
    BY <2>5, <2>7, <2>8
<1>8. parent[p[n]] = NoNode
  <2>1. n \in 1..n /\ p[n] \in 1..n
    BY <1>p
  <2>2. ASSUME NEW j \in 1..n, Issued(p[j], p[n]) PROVE FALSE
    <3>1. p[j] # p[n] /\ ~(A(n) = Nil /\ S(j) = Nil) /\ Bytes(A(n)) = S(j)
      BY <1>3, <1>4, <2>1, <2>2
    <3>2. Bytes(A(n)) = A(n)
      <4>1. S(n) \in KeyIds \cup {Nil}
        BY <1>1, <2>1
      <4> QED
        BY <1>c, <1>k, <4>1 DEF Bytes
    <3>3. A(n) = S(n)
      BY <1>c, <3>1, <3>2
    <3> QED
      BY <1>c, <2>1, <3>1, <3>2, <3>3
  <2>3. CASE parent[p[n]] # NoNode
    <3>1. parent[p[n]] \in 1..n /\ Issued(parent[p[n]], p[n])
      BY <1>p, <1>5, <2>1, <2>3 DEF NoNode
    <3>2. PICK j \in 1..n : p[j] = parent[p[n]]
      BY <1>1, <3>1
    <3> QED
      BY <2>2, <3>1, <3>2
  <2> QED
    BY <2>3
<1>9. p[1] \notin isParent
  <2> SUFFICES ASSUME p[1] \in isParent PROVE FALSE
    OBVIOUS
  <2>1. PICK c \in 1..n : parent[c] = p[1]
    BY DEF LoopsInv, LinkedSoFar
  <2>2. PICK k \in 1..n : p[k] = c
    BY <1>1
  <2>3. p[1] \in 1..n /\ p[1] # NoNode
    BY <1>p DEF NoNode
  <2>4. k # n
    BY <1>8, <2>1, <2>2, <2>3
  <2>5. k \in 1..(n - 1) /\ k + 1 \in 1..n /\ k + 1 # 1 /\ 1 \in 1..n
    BY <1>p, <2>4
  <2>6. p[k + 1] = p[1]
    BY <1>7, <2>1, <2>2, <2>5
  <2> QED
    BY <1>0, <2>5, <2>6 DEF Orders
<1>10. ASSUME NEW c \in (1..n) \ isParent PROVE c = p[1]
  <2>1. PICK k \in 1..n : p[k] = c
    BY <1>1
  <2>2. CASE k = 1
    BY <2>1, <2>2
  <2>3. CASE k # 1
    <3>1. k - 1 \in 1..(n - 1) /\ k - 1 \in 1..n /\ (k - 1) + 1 = k
      BY <1>1, <2>3
    <3>2. parent[p[k - 1]] = c /\ p[k - 1] \in 1..n
      BY <1>1, <1>7, <2>1, <3>1
    <3>3. c \in isParent
      BY <3>2 DEF LoopsInv, LinkedSoFar, NoNode
    <3> QED
      BY <3>3
  <2> QED
    BY <2>2, <2>3
<1> QED
  BY <1>7, <1>8, <1>9, <1>10

\* The walk starts at the server certificate and stays on the chain.
LEMMA AlongStep == Inv /\ LoopsInv /\ AlongTheChain /\ Next => AlongTheChain'
<1> SUFFICES ASSUME Inv, LoopsInv, AlongTheChain, Next,
                    pc' \in {"walk", "reordered", "original", "cycle"}, data' # <<>>,
                    NEW p \in Orders', IsCompleteChain(p)'
             PROVE  /\ \A k \in 1..Len(newCertChain') : newCertChain'[k] = p[k]
                    /\ leaf' = IF Len(newCertChain') < Len(nodes')
                               THEN p[Len(newCertChain') + 1] ELSE NoNode
  BY DEF AlongTheChain
<1>1. FindLeaf \/ Walk
  BY DEF Next, Decode, Link
<1>2. UNCHANGED <<data, nodes, parent, isParent>>
  BY <1>1 DEF FindLeaf, Walk
<1>3. p \in Orders /\ IsCompleteChain(p) /\ data # <<>>
  BY <1>2 DEF Orders, IsCompleteChain
<1> DEFINE n == Len(nodes)
           m == Len(newCertChain)
<1>4. pc \notin {"decode", "unparsable", "link"}
  BY <1>1 DEF FindLeaf, Walk
<1>5. /\ \A k \in 1..(n - 1) : parent[p[k]] = p[k + 1]
      /\ parent[p[n]] = NoNode
      /\ \A c \in (1..n) \ isParent : c = p[1]
  BY <1>3, <1>4, CompleteParents
<1>6. n \in Nat \ {0} /\ p \in [1..n -> 1..n]
  BY <1>3, <1>4, CompleteIsParsable DEF Inv, Decoded
<1>7. newCertChain \in Seq(1..n) /\ m \in Nat
  BY DEF Inv, TypeOK
<1>8. CASE FindLeaf
  <2>1. newCertChain' = <<>>
    BY <1>8 DEF FindLeaf, Inv, ChainFollowsParents
  <2>2. leaf' \in (1..n) \ isParent
    BY <1>8 DEF FindLeaf
  <2> QED
    BY <1>2, <1>5, <1>6, <2>1, <2>2
<1>9. CASE Walk
  <2>1. pc = "walk"
    BY <1>9 DEF Walk
  <2>2. /\ \A k \in 1..m : newCertChain[k] = p[k]
        /\ leaf = IF m < n THEN p[m + 1] ELSE NoNode
    BY <1>3, <2>1 DEF AlongTheChain
  <2>3. CASE UNCHANGED <<leaf, newCertChain>>
    BY <1>2, <2>2, <2>3
  <2>4. CASE leaf # NoNode /\ newCertChain' = Append(newCertChain, leaf) /\ leaf' = parent[leaf]
    <3>1. m < n /\ leaf = p[m + 1] /\ m + 1 \in 1..n /\ leaf \in 1..n
      BY <1>6, <1>7, <2>2, <2>4
    <3>2. /\ Len(newCertChain') = m + 1
          /\ \A k \in 1..m : newCertChain'[k] = newCertChain[k]
          /\ newCertChain'[m + 1] = leaf
      BY <1>7, <2>4, <3>1
    <3>3. \A k \in 1..(m + 1) : newCertChain'[k] = p[k]
      BY <1>7, <2>2, <3>1, <3>2
    <3>4. leaf' = IF m + 1 < n THEN p[m + 2] ELSE NoNode
      <4>1. CASE m + 1 < n
        <5>1. m + 1 \in 1..(n - 1) /\ (m + 1) + 1 = m + 2
          BY <1>6, <1>7, <4>1
        <5> QED
          BY <1>5, <2>4, <3>1, <4>1, <5>1
      <4>2. CASE m + 1 = n
        BY <1>5, <2>4, <3>1, <4>2
      <4> QED
        BY <1>6, <1>7, <3>1, <4>1, <4>2
    <3> QED
      BY <1>2, <1>7, <3>2, <3>3, <3>4
  <2> QED
    BY <1>9, <2>3, <2>4 DEF Walk, ChainWithLeaf
<1> QED
  BY <1>1, <1>8, <1>9

\* A complete chain, in whatever order Key Vault keeps it, is written server
\* first and root last.
THEOREM CompleteChainsAreReordered == Spec => []CompleteChainIsReordered
<1> DEFINE ChainInv == Inv /\ LoopsInv /\ AlongTheChain
<1>1. Init => ChainInv
  BY InitInv, LoopsInit
<1>2. ChainInv /\ [Next]_vars => ChainInv'
  <2>1. ChainInv /\ Next => ChainInv'
    BY StepInv, LoopsDecode, LoopsLink, LoopsFindWalk, AlongStep DEF Next
  <2>2. ChainInv /\ UNCHANGED vars => ChainInv'
    <3> SUFFICES ASSUME ChainInv, UNCHANGED vars PROVE ChainInv'
      OBVIOUS
    <3>1. Inv'
      BY StepInv
    <3>2. LoopsInv'
      BY DEF vars, LoopsInv, DecodedBlocks, LinkedSoFar, Issued, LeafAndResult
    <3>3. AlongTheChain'
      <4>1. Orders' = Orders
        BY DEF vars, Orders
      <4>2. \A p : IsCompleteChain(p)' <=> IsCompleteChain(p)
        BY DEF vars, IsCompleteChain
      <4> QED
        BY <4>1, <4>2 DEF vars, AlongTheChain
    <3> QED
      BY <3>1, <3>2, <3>3
  <2> QED
    BY <2>1, <2>2
<1>3. ChainInv => CompleteChainIsReordered
  <2> SUFFICES ASSUME ChainInv, pc \in Returned, data # <<>>,
                      NEW p \in Orders, IsCompleteChain(p)
               PROVE  pc = "reordered" /\ newCertChain = p
    BY DEF CompleteChainIsReordered
  <2> DEFINE n == Len(data)
  <2>1. /\ n \in Nat \ {0} /\ p \in [1..n -> 1..n]
        /\ \A c \in 1..n : data[c] # Garbage
    BY CompleteIsParsable DEF Inv
  <2>2. pc \in {"reordered", "original", "noLeaf", "cycle"}
    BY <2>1 DEF Returned, LoopsInv, DecodedBlocks
  <2>3. Len(nodes) = n
    BY <2>2 DEF Inv, Decoded
  <2>4. pc # "noLeaf"
    <3>1. p[1] \notin isParent /\ p[1] \in 1..n
      BY <2>1, <2>2, CompleteParents
    <3> QED
      BY <2>3, <3>1 DEF LoopsInv, LeafAndResult
  <2>5. newCertChain \in Seq(1..n) /\ Len(newCertChain) \in Nat /\ Len(newCertChain) <= n
    BY <2>3 DEF Inv, TypeOK, HowItReturned
  <2>6. /\ \A k \in 1..Len(newCertChain) : newCertChain[k] = p[k]
        /\ leaf = IF Len(newCertChain) < n THEN p[Len(newCertChain) + 1] ELSE NoNode
    BY <2>2, <2>3, <2>4 DEF AlongTheChain
  <2>7. pc # "cycle"
    BY <2>3, <2>6 DEF Inv, HowItReturned
  <2>8. pc # "original"
    <3>1. CASE Len(newCertChain) < n
      <4>1. leaf # NoNode
        BY <2>1, <2>5, <2>6, <3>1 DEF NoNode
      <4> QED
        BY <4>1 DEF LoopsInv, LeafAndResult
    <3>2. CASE Len(newCertChain) = n
      BY <2>3, <3>2 DEF LoopsInv, LeafAndResult
    <3> QED
      BY <2>1, <2>5, <3>1, <3>2
  <2>9. pc = "reordered" /\ Len(newCertChain) = n
    BY <2>2, <2>3, <2>4, <2>7, <2>8 DEF Inv, HowItReturned
  <2>10. newCertChain = p
    BY <2>1, <2>5, <2>6, <2>9
  <2> QED
    BY <2>9, <2>10
<1> QED
  BY <1>1, <1>2, <1>3, PTL DEF Spec
=============================================================================
