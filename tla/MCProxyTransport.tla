-------------------------- MODULE MCProxyTransport --------------------------
(***************************************************************************)
(* An instance of ProxyTransport for TLC: certificates with no API server  *)
(* name, with one, with an empty one before it, with two, and with one     *)
(* whose prefix and suffix overlap before and behind another.              *)
(***************************************************************************)
EXTENDS ProxyTransport

Name(id) == [apiServer |-> TRUE, id |-> id]
OtherName == [apiServer |-> FALSE, id |-> ""]

MCLeaves ==
    {<<>>, <<OtherName>>, <<OtherName, Name("c1")>>, <<Name(""), Name("c1")>>,
     <<Name("c2"), Name("c1")>>, <<Name(Overlap), Name("c1")>>, <<Name("c1"), Name(Overlap)>>}

MCServerNames == [id \in ClusterIDs |-> IF id = "c1" THEN "a1.ests.aks" ELSE "a2.ests.aks"]
=============================================================================
