----------------------------- MODULE MCCertChain -----------------------------
(***************************************************************************)
(* An instance of CertChain for TLC: room for a server certificate, an     *)
(* intermediate, a root and a certificate that belongs to none of them.    *)
(***************************************************************************)
EXTENDS CertChain
=============================================================================
