------------------------------ MODULE CertChain ------------------------------
(***************************************************************************)
(* fetchCertChains of pkg/provider/provider.go: the certificates of a PFX  *)
(* secret, in whatever order Key Vault has them, are put in the order      *)
(* server, intermediates, root.  decodePKCS12 calls it when the provider   *)
(* runs with constructPEMChain.                                            *)
(*                                                                         *)
(* The key identifiers are whatever the certificates' authors wrote: they  *)
(* may be absent, repeat, or refer to each other in a circle.              *)
(***************************************************************************)
EXTENDS Integers, Sequences

CONSTANTS
    KeyIds,      \* non-empty key identifiers
    MaxCerts     \* bound: certificates of a PFX

ASSUME CertChainAssumption ==
    /\ MaxCerts \in Nat
    /\ KeyIds \cap {"nil", "empty", "garbage"} = {}

Nil == "nil"         \* the extension is absent
Empty == "empty"     \* it is there and has no bytes

Certificates == [AuthorityKeyId : KeyIds \cup {Nil, Empty},
                 SubjectKeyId   : KeyIds \cup {Nil, Empty}]

\* A CERTIFICATE block that x509.ParseCertificate refuses.
Garbage == [AuthorityKeyId |-> "garbage", SubjectKeyId |-> "garbage"]

Inputs == UNION {[1..n -> Certificates \cup {Garbage}] : n \in 0..MaxCerts}

NoNode == 0

VARIABLES
    pc,            \* the loop it is in, or how it has returned
    data,          \* the CERTIFICATE blocks
    nodes,         \* the certificates decoded so far
    i,             \* the node the linking loop is at
    parent,        \* each linked node's parent, NoNode for none
    isParent,      \* the nodes that are some node's parent
    leaf,          \* the node the last loop is at
    newCertChain   \* the nodes it has been through

vars == <<pc, data, nodes, i, parent, isParent, leaf, newCertChain>>

Loops == {"decode", "link", "leaf", "walk"}
Returned == {"reordered", "original", "unparsable", "noLeaf", "cycle"}

TypeOK ==
    /\ pc \in Loops \cup Returned
    /\ data \in Inputs
    /\ nodes \in Seq(Certificates)
    /\ i \in 1..(Len(nodes) + 1)
    /\ parent \in [1..Len(nodes) -> 0..Len(nodes)]
    /\ isParent \subseteq 1..Len(nodes)
    /\ leaf \in 0..Len(nodes)
    /\ newCertChain \in Seq(1..Len(nodes))

Init ==
    /\ pc = "decode"
    /\ data \in Inputs
    /\ nodes = <<>>
    /\ i = 1
    /\ parent = <<>>
    /\ isParent = {}
    /\ leaf = NoNode
    /\ newCertChain = <<>>

\* The next block becomes a node, until none is left.
Decode ==
    /\ pc = "decode"
    /\ LET next == Len(nodes) + 1
       IN  \/ /\ next > Len(data)
              /\ pc' = "link"
              /\ UNCHANGED <<nodes, parent>>
           \/ /\ next <= Len(data)
              /\ data[next] = Garbage
              /\ pc' = "unparsable"
              /\ UNCHANGED <<nodes, parent>>
           \/ /\ next <= Len(data)
              /\ data[next] # Garbage
              /\ nodes' = Append(nodes, data[next])
              /\ parent' = Append(parent, NoNode)
              /\ UNCHANGED pc
    /\ UNCHANGED <<data, i, isParent, leaf, newCertChain>>

\* Go's string(id): an absent identifier and an empty one are the same.
Bytes(id) == IF id = Empty THEN Nil ELSE id

\* Mutant: two absent identifiers match.
IssuedByNil(p, c) ==
    p # c /\ Bytes(nodes[c].AuthorityKeyId) = Bytes(nodes[p].SubjectKeyId)

\* Whether node p is taken for the issuer of node c.
Issued(p, c) ==
    /\ p # c
    /\ ~(nodes[c].AuthorityKeyId = Nil /\ nodes[p].SubjectKeyId = Nil)
    /\ Bytes(nodes[c].AuthorityKeyId) = Bytes(nodes[p].SubjectKeyId)

\* The first issuer of node i becomes its parent.
Link ==
    /\ pc = "link"
    /\ \/ /\ i > Len(nodes)
          /\ pc' = "leaf"
          /\ UNCHANGED <<i, parent, isParent>>
       \/ /\ i <= Len(nodes)
          /\ \A p \in 1..Len(nodes) : ~Issued(p, i)
          /\ i' = i + 1
          /\ UNCHANGED <<pc, parent, isParent>>
       \/ /\ i <= Len(nodes)
          /\ \E p \in 1..Len(nodes) :
                /\ Issued(p, i)
                /\ \A q \in 1..(p - 1) : ~Issued(q, i)
                /\ parent' = [parent EXCEPT ![i] = p]
                /\ isParent' = isParent \cup {p}
          /\ i' = i + 1
          /\ UNCHANGED pc
    /\ UNCHANGED <<data, nodes, leaf, newCertChain>>

\* The first node that is nobody's parent.
FindLeaf ==
    /\ pc = "leaf"
    /\ \/ /\ isParent = 1..Len(nodes)
          /\ pc' = "noLeaf"
          /\ UNCHANGED leaf
       \/ \E n \in (1..Len(nodes)) \ isParent :
             /\ 1..(n - 1) \subseteq isParent
             /\ leaf' = n
             /\ pc' = "walk"
    /\ UNCHANGED <<data, nodes, i, parent, isParent, newCertChain>>

\* Mutant: certificates that are not on the path are not missed.
ChainResultUnchecked == "reordered"

ChainResult == IF Len(nodes) # Len(newCertChain) THEN "original" ELSE "reordered"

\* Mutant: the last node is taken for a circle.
CycleAtLastNode == Len(newCertChain) + 1 >= Len(nodes)

\* processedNodes, one more than the chain's length, exceeds the number of nodes.
CycleDetected == Len(newCertChain) + 1 > Len(nodes)

\* Mutant: the parent is appended in place of the node.
ChainWithParent == Append(newCertChain, parent[leaf])

\* Mutant: a node seen before is not counted again.
ChainWithNewLeaf ==
    IF \E k \in 1..Len(newCertChain) : newCertChain[k] = leaf
    THEN newCertChain ELSE Append(newCertChain, leaf)

ChainWithLeaf == Append(newCertChain, leaf)

\* From the leaf along the parents.
Walk ==
    /\ pc = "walk"
    /\ \/ /\ leaf = NoNode
          /\ pc' = ChainResult
          /\ UNCHANGED <<leaf, newCertChain>>
       \/ /\ leaf # NoNode
          /\ CycleDetected
          /\ pc' = "cycle"
          /\ UNCHANGED <<leaf, newCertChain>>
       \/ /\ leaf # NoNode
          /\ ~CycleDetected
          /\ newCertChain' = ChainWithLeaf
          /\ leaf' = parent[leaf]
          /\ UNCHANGED pc
    /\ UNCHANGED <<data, nodes, i, parent, isParent>>

Next == Decode \/ Link \/ FindLeaf \/ Walk

Spec == Init /\ [][Next]_vars

\* The function runs until it returns.
FairSpec == Spec /\ WF_vars(Next)
-----------------------------------------------------------------------------
(***************************************************************************)
(* Properties.                                                             *)
(***************************************************************************)

\* A chain that is written in the new order holds every certificate of the
\* secret exactly once, and each one is followed by a certificate whose subject
\* key is its authority key: following parents can neither repeat nor lose one,
\* although nothing but a counter watches for circles (fetchCertChains).
ReorderedIsChain ==
    pc = "reordered" =>
        /\ Len(nodes) = Len(data)
        /\ \A n \in 1..Len(nodes) : \E k \in 1..Len(newCertChain) : newCertChain[k] = n
        /\ \A j, k \in 1..Len(newCertChain) : newCertChain[j] = newCertChain[k] => j = k
        /\ \A k \in 1..(Len(newCertChain) - 1) :
              Issued(newCertChain[k + 1], newCertChain[k])

\* The mount fails with "constructing chain resulted in cycle" only when the
\* secret really has a circle: some certificates each of which was issued by
\* another one of them.  The counter never stops a chain that ends.
CycleIsReal ==
    pc = "cycle" =>
        \E S \in SUBSET (1..Len(nodes)) :
            /\ S # {}
            /\ \A c \in S : \E p \in S : Issued(p, c)

\* The certificates in the order p are a complete chain: distinct subject
\* keys, each one's authority the next one's subject, the root its own issuer
\* or nobody's.  The server certificate may lack a subject key (RFC 3280).
IsCompleteChain(p) ==
    /\ \A k \in 1..(Len(p) - 1) :
          /\ data[p[k]].AuthorityKeyId \in KeyIds
          /\ data[p[k]].AuthorityKeyId = data[p[k + 1]].SubjectKeyId
    /\ \A j, k \in 1..Len(p) : data[p[j]].SubjectKeyId = data[p[k]].SubjectKeyId => j = k
    /\ data[p[1]].SubjectKeyId \in KeyIds \cup {Nil}
    /\ data[p[Len(p)]].AuthorityKeyId \in {Nil, data[p[Len(p)]].SubjectKeyId}

Orders == {p \in [1..Len(data) -> 1..Len(data)] :
              \A j, k \in 1..Len(data) : p[j] = p[k] => j = k}

\* Whatever order Key Vault keeps a complete chain in, the provider writes it
\* server first and root last, as the documentation of constructPEMChain
\* promises.
CompleteChainIsReordered ==
    pc \in Returned /\ data # <<>> =>
        \A p \in Orders :
            IsCompleteChain(p) => pc = "reordered" /\ newCertChain = p

\* fetchCertChains returns, circles or not.
Returns == <>(pc \in Returned)
=============================================================================
