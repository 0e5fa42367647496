----------------------------- MODULE AS3TLSObjects -----------------------------
(***************************************************************************)
(* The TLS object builders of src/octavia_f5/restclient/as3objects/tls.py, *)
(* get_tls_server and get_tls_client, with the options they read from the *)
(* f5_tls_server and f5_tls_client groups of                               *)
(* src/octavia_f5/common/config.py.  A built object is a function from the *)
(* AS3 property names passed to TLS_Server/TLS_Client to their values; a   *)
(* property the code does not pass is outside its domain.                  *)
(*                                                                         *)
(* The state is one build request -- the loaded configuration and the     *)
(* listener or pool -- and the object the driver last built from it.      *)
(***************************************************************************)
EXTENDS FiniteSets, Sequences, Functions, TLC

CONSTANTS
  CertIds,     \* reference ids of AS3 certificate objects
  Ciphers,     \* cipher strings (listener.tls_ciphers, default_ciphers)
  CARefs,      \* references to AS3 CA, client certificate and CRL objects
  None,        \* Python's None
  Unset,       \* an option the configuration file does not set
  PREFIX_TLS_LISTENER,  \* octavia_f5.common.constants (not under src/)
  PREFIX_TLS_POOL

\* octavia_lib constants SSL_VERSION_3 ... TLS_VERSION_1_3.
SSL_VERSION_3 == "SSLv3"
TLS_VERSION_1 == "TLSv1"
TLS_VERSION_1_1 == "TLSv1.1"
TLS_VERSION_1_2 == "TLSv1.2"
TLS_VERSION_1_3 == "TLSv1.3"
Versions == {SSL_VERSION_3, TLS_VERSION_1, TLS_VERSION_1_1, TLS_VERSION_1_2,
             TLS_VERSION_1_3}
ClientAuths == {"NONE", "OPTIONAL", "MANDATORY"}  \* octavia's allowed values

(***************************************************************************)
(* config.py: the boolean options of f5_tls_shared and f5_tls_server_opts *)
(* that tls.py reads, and their registered defaults; f5_tls_client is      *)
(* registered with f5_tls_shared alone.  A configuration file leaves an    *)
(* option unset, or sets it.                                               *)
(***************************************************************************)
SharedBoolOpts == {"forward_proxy_bypass", "forward_proxy",
                   "insert_empty_fragments", "single_use_dh"}
ServerBoolOpts == SharedBoolOpts \cup {"cache_certificate", "stapler_ocsp"}
ClientBoolOpts == SharedBoolOpts
BoolDefault == [o \in ServerBoolOpts |-> FALSE]
CipherDefault == None

\* The value CONF.<group>.<opt> has after cfg.CONF(): the file's, or the default.
ConfValue(setting, default) == IF setting = Unset THEN default ELSE setting

\* The AS3 property each boolean option is passed as.
OptField ==
  [forward_proxy_bypass   |-> "forwardProxyBypassEnabled",
   forward_proxy          |-> "forwardProxyEnabled",
   insert_empty_fragments |-> "insertEmptyFragmentsEnabled",
   single_use_dh          |-> "singleUseDhEnabled",
   cache_certificate      |-> "cacheCertificateEnabled",
   stapler_ocsp           |-> "staplerOCSPEnabled"]

\* Keyword arguments built one by one: f @@ (k :> v) adds key k.
NoArgs == [k \in {} |-> None]

\* Mutant: forward_proxy's block copy-pasted from forward_proxy_bypass's.
OptionArgsCopyPaste(conf, opts) ==
  LET src(o) == IF o = "forward_proxy" THEN "forward_proxy_bypass" ELSE o
      loaded == [o \in opts |-> ConfValue(conf[src(o)], BoolDefault[o])]
  IN [f \in {OptField[o] : o \in {o \in opts : loaded[o] # None}} |->
        loaded[CHOOSE o \in opts : OptField[o] = f]]

\* Mutant: the options passed under their oslo names instead of AS3's.
OptionArgsOptNames(conf, opts) ==
  LET loaded == [o \in opts |-> ConfValue(conf[o], BoolDefault[o])]
  IN [o \in {o \in opts : loaded[o] # None} |-> loaded[o]]

(***************************************************************************)
(* The "if CONF.<group>.<opt> is not None:" blocks (tls.py lines 66-77 and *)
(* 111-118): each option not None is passed as its property.               *)
(***************************************************************************)
OptionArgs(conf, opts) ==
  LET loaded == [o \in opts |-> ConfValue(conf[o], BoolDefault[o])]
  IN [f \in {OptField[o] : o \in {o \in opts : loaded[o] # None}} |->
        loaded[CHOOSE o \in opts : OptField[o] = f]]

\* Mutant: the tls1_1Enabled line tests TLS_VERSION_1.
VersionArgsCopyPaste(versions) ==
  ("ssl3Enabled" :> (SSL_VERSION_3 \in versions)) @@
  ("tls1_0Enabled" :> (TLS_VERSION_1 \in versions)) @@
  ("tls1_1Enabled" :> (TLS_VERSION_1 \in versions)) @@
  ("tls1_2Enabled" :> (TLS_VERSION_1_2 \in versions)) @@
  ("tls1_3Enabled" :> (TLS_VERSION_1_3 \in versions))

\* "Set TLS version": one membership test per version (lines 80-85, 121-126).
VersionArgs(versions) ==
  ("ssl3Enabled" :> (SSL_VERSION_3 \in versions)) @@
  ("tls1_0Enabled" :> (TLS_VERSION_1 \in versions)) @@
  ("tls1_1Enabled" :> (TLS_VERSION_1_1 \in versions)) @@
  ("tls1_2Enabled" :> (TLS_VERSION_1_2 \in versions)) @@
  ("tls1_3Enabled" :> (TLS_VERSION_1_3 \in versions))

\* Mutant: OPTIONAL mapped to "require".
mode_map_swapped ==
  ("NONE" :> "ignore") @@ ("OPTIONAL" :> "require") @@ ("MANDATORY" :> "require")

mode_map ==
  ("NONE" :> "ignore") @@ ("OPTIONAL" :> "request") @@ ("MANDATORY" :> "require")

(***************************************************************************)
(* get_tls_server(certificate_ids, listener, authentication_ca), lines     *)
(* 42-87.  The certificate list is built from set(certificate_ids); its    *)
(* order (set iteration order) is abstracted by a set.                     *)
(***************************************************************************)
get_tls_server(conf, certificate_ids, listener, authentication_ca) ==
  LET base == ("certificates" :> {[certificate |-> id] : id \in Range(certificate_ids)})
              @@ ("ciphers" :> listener.tls_ciphers)
      auth == IF authentication_ca # None
              THEN ("authenticationTrustCA" :> authentication_ca)
                   @@ ("authenticationInviteCA" :> authentication_ca)
                   @@ ("authenticationMode" :> mode_map[listener.client_authentication])
              ELSE NoArgs
  IN base @@ auth @@ OptionArgs(conf, ServerBoolOpts)
          @@ VersionArgs(listener.tls_versions)

(***************************************************************************)
(* get_tls_client(pool, trust_ca, client_cert, crl_file), lines 90-128.    *)
(* Pointer(trust_ca) is the AS3 pointer object {"use": trust_ca}.          *)
(***************************************************************************)
get_tls_client(conf, pool, trust_ca, client_cert, crl_file) ==
  LET ciphers == ConfValue(conf["default_ciphers"], CipherDefault)
      refs == (IF trust_ca # None
               THEN ("trustCA" :> [use |-> trust_ca]) @@ ("validateCertificate" :> TRUE)
               ELSE NoArgs)
              @@ (IF client_cert # None THEN "clientCertificate" :> client_cert ELSE NoArgs)
              @@ (IF crl_file # None THEN "crlFile" :> crl_file ELSE NoArgs)
              @@ (IF ciphers # None THEN "ciphers" :> ciphers ELSE NoArgs)
  IN refs @@ OptionArgs(conf, ClientBoolOpts) @@ VersionArgs(pool.tls_versions)

\* get_listener_name (lines 24-30): "{}{}".format(prefix, id) concatenates.
get_listener_name(listener_id) == PREFIX_TLS_LISTENER \o listener_id

\* get_pool_name (lines 33-39).
get_pool_name(pool_id) == PREFIX_TLS_POOL \o pool_id

-----------------------------------------------------------------------------
Settings == {Unset, TRUE, FALSE}
CertLists == {<<id>> : id \in CertIds} \cup {<<a, b>> : a, b \in CertIds}

ServerRequests ==
  [kind : {"server"},
   conf : [ServerBoolOpts -> Settings],
   certificate_ids : CertLists,
   listener : [tls_ciphers : Ciphers, tls_versions : SUBSET Versions,
               client_authentication : ClientAuths],
   authentication_ca : CARefs \cup {None}]

ClientRequests ==
  [kind : {"client"},
   conf : [ClientBoolOpts \cup {"default_ciphers"} -> Settings \cup Ciphers],
   pool : [tls_versions : SUBSET Versions],
   trust_ca : CARefs \cup {None},
   client_cert : CARefs \cup {None},
   crl_file : CARefs \cup {None}]

\* default_ciphers is a StrOpt: unset or a cipher string, never a boolean.
WellTyped(rq) ==
  rq.kind = "client" =>
    /\ rq.conf["default_ciphers"] \in {Unset} \cup Ciphers
    /\ \A o \in ClientBoolOpts : rq.conf[o] \in Settings

VARIABLES
  rq,       \* the build request: configuration and listener or pool
  policy    \* the TLS_Server or TLS_Client last built, or NoArgs

vars == <<rq, policy>>

Init ==
  /\ rq \in {r \in ServerRequests \cup ClientRequests : WellTyped(r)}
  /\ policy = NoArgs

BuildServer ==
  /\ rq.kind = "server"
  /\ policy' = get_tls_server(rq.conf, rq.certificate_ids, rq.listener,
                              rq.authentication_ca)
  /\ UNCHANGED rq

BuildClient ==
  /\ rq.kind = "client"
  /\ policy' = get_tls_client(rq.conf, rq.pool, rq.trust_ca, rq.client_cert,
                              rq.crl_file)
  /\ UNCHANGED rq

Next == BuildServer \/ BuildClient

Spec == Init /\ [][Next]_vars

-----------------------------------------------------------------------------
Built == policy # NoArgs
Versions_(r) == IF r.kind = "server" THEN r.listener.tls_versions ELSE r.pool.tls_versions
BoolOpts(r) == IF r.kind = "server" THEN ServerBoolOpts ELSE ClientBoolOpts

TypeOK ==
  /\ rq \in ServerRequests \cup ClientRequests
  /\ DOMAIN policy \subseteq
       {"certificates", "ciphers", "authenticationTrustCA", "authenticationInviteCA",
        "authenticationMode", "trustCA", "validateCertificate", "clientCertificate",
        "crlFile", "ssl3Enabled", "tls1_0Enabled", "tls1_1Enabled", "tls1_2Enabled",
        "tls1_3Enabled"} \cup {OptField[o] : o \in ServerBoolOpts}

(***************************************************************************)
(* Spec 4.1/8 (reference): the AS3 flag of each protocol version is        *)
(* exactly that version's membership in the listener's or pool's           *)
(* tls_versions -- five independent tests, none inferred from another.     *)
(***************************************************************************)
VersionFlag == SSL_VERSION_3 :> "ssl3Enabled" @@ TLS_VERSION_1 :> "tls1_0Enabled"
               @@ TLS_VERSION_1_1 :> "tls1_1Enabled" @@ TLS_VERSION_1_2 :> "tls1_2Enabled"
               @@ TLS_VERSION_1_3 :> "tls1_3Enabled"

VersionFlagsExact ==
  Built => \A v \in Versions : policy[VersionFlag[v]] = (v \in Versions_(rq))

(***************************************************************************)
(* Spec 4.1/8 (reference): peer authentication.  A server object with an  *)
(* authentication CA trusts and invites that CA and maps NONE, OPTIONAL,  *)
(* MANDATORY to ignore, request, require; without one it carries none of   *)
(* the three.  A client object with a trust CA points at it and validates *)
(* the server certificate; without one it does neither.                   *)
(***************************************************************************)
SpecMode == [NONE |-> "ignore", OPTIONAL |-> "request", MANDATORY |-> "require"]
ServerAuthFields == {"authenticationTrustCA", "authenticationInviteCA", "authenticationMode"}

PeerAuthentication ==
  Built =>
    IF rq.kind = "server"
    THEN IF rq.authentication_ca # None
         THEN /\ policy["authenticationTrustCA"] = rq.authentication_ca
              /\ policy["authenticationInviteCA"] = rq.authentication_ca
              /\ policy["authenticationMode"] = SpecMode[rq.listener.client_authentication]
         ELSE ServerAuthFields \cap DOMAIN policy = {}
    ELSE IF rq.trust_ca # None
         THEN policy["trustCA"] = [use |-> rq.trust_ca] /\ policy["validateCertificate"] = TRUE
         ELSE {"trustCA", "validateCertificate"} \cap DOMAIN policy = {}

(***************************************************************************)
(* Each optional flag the object carries holds the loaded value of its own *)
(* option of its own group, and the server-only options never reach a      *)
(* client object (tls.py lines 66-77, 111-118; config.py lines 98-136).    *)
(***************************************************************************)
OptionFlagsFromOwnOption ==
  Built =>
    \A o \in ServerBoolOpts :
      OptField[o] \in DOMAIN policy =>
        /\ o \in BoolOpts(rq)
        /\ policy[OptField[o]] = ConfValue(rq.conf[o], BoolDefault[o])

(***************************************************************************)
(* Spec 3/4.1/8: an optional setting left unset in the configuration is    *)
(* absent from the built object ("absent is not false").  config.py        *)
(* registers every one of these BoolOpts with default=False, so the        *)
(* "is not None" tests always pass and an unset option is sent as false.   *)
(***************************************************************************)
UnsetOptionsAbsent ==
  Built =>
    \A o \in BoolOpts(rq) : rq.conf[o] = Unset => OptField[o] \notin DOMAIN policy
=============================================================================
