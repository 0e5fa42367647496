--------------------------- MODULE MC_AS3TLSObjects ---------------------------
(* Instantiates AS3TLSObjects for TLC. *)
EXTENDS AS3TLSObjects

CONSTANTS k1, cipherA, ca1

MC_CertIds == {k1}
MC_Ciphers == {cipherA}
MC_CARefs == {ca1}
\* Stand-ins for the name prefixes.
MC_PREFIX_TLS_LISTENER == "tls_listener_"
MC_PREFIX_TLS_POOL == "tls_pool_"
=============================================================================
