CONSTANTS
  k1 = k1
  cipherA = cipherA
  ca1 = ca1
  None = None
  Unset = Unset
  CertIds <- MC_CertIds
  Ciphers <- MC_Ciphers
  CARefs <- MC_CARefs
  PREFIX_TLS_LISTENER <- MC_PREFIX_TLS_LISTENER
  PREFIX_TLS_POOL <- MC_PREFIX_TLS_POOL
SPECIFICATION Spec
INVARIANT UnsetOptionsAbsent
