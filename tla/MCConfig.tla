------------------------------ MODULE MCConfig ------------------------------
EXTENDS Config
(* Neither, one or both; the key alone mirrors the certificate alone.      *)
MCOffers == {{}, {"cert"}, {"cert", "key"}}
=============================================================================
