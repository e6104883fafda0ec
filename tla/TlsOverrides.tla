--------------------------- MODULE TlsOverrides ---------------------------
(***************************************************************************)
(* Certificate overrides (net/tls.rs): the verifier that wraps the         *)
(* platform's, the store of certificates a user accepted in spite of an    *)
(* error, and the HSTS policies that forbid it.                            *)
(***************************************************************************)
EXTENDS Hsts, Parts

CONSTANTS Certificates,   \* by fingerprint
          MaxOverrides    \* MAX_TLS_OVERRIDES

\* TlsErrorKind: what the platform's verifier has against a certificate.
CertificateErrors == {"Expired", "NotYetValid", "UnknownIssuer", "HostnameMismatch", "Revoked",
                      "InvalidCertificate"}
TlsErrorKind == CertificateErrors \cup {"Handshake", "Other"}

\* What rustls calls the error, see kind_of.
RustlsErrors == {"Expired", "ExpiredContext", "NotValidYet", "UnknownIssuer", "NotValidForName",
                 "Revoked", "OtherApple", "BadSignature", "InvalidCertRevocationList",
                 "AlertReceived", "PeerIncompatible", "General"}

ASSUME TlsAssumption == MaxOverrides \in Nat \ {0}

VARIABLES overrides,  \* the accepted pairs <<host, certificate>>, in the order of their stamps
          clicked,    \* the pairs the user accepted and did not revoke: history
          conn        \* the last handshake: [host, cert, error, ok]

tlsVars == <<overrides, clicked, conn>>
vars == <<now, hstsVars, overrides, clicked, conn>>

TlsInit == HstsInit /\ overrides = <<>> /\ clicked = {} /\ conn = None

\* kind_of, and apple_kind for the codes that only the message tells.
kind_of(err, apple) ==
    CASE err \in {"Expired", "ExpiredContext"} -> "Expired"
      [] err = "NotValidYet"                   -> "NotYetValid"
      [] err = "UnknownIssuer"                 -> "UnknownIssuer"
      [] err = "NotValidForName"               -> "HostnameMismatch"
      [] err = "Revoked"                       -> "Revoked"
      [] err = "OtherApple"                    -> apple
      [] err \in {"BadSignature", "InvalidCertRevocationList"} -> "InvalidCertificate"
      [] err \in {"AlertReceived", "PeerIncompatible"}         -> "Handshake"
      [] OTHER                                 -> "Other"

AppleKinds == {"UnknownIssuer", "Expired", "NotYetValid", "Revoked", "InvalidCertificate"}

is_certificate_error(kind) == kind \in CertificateErrors

-----------------------------------------------------------------------------
(* InMemoryTlsOverrideStore.                                               *)

Accepted(pair) == \E i \in DOMAIN overrides : overrides[i] = pair
Others(pair) == Retained(overrides, {i \in DOMAIN overrides : overrides[i] # pair})

\* accept: the pair becomes the youngest; past the limit the oldest goes.
accept(pair) ==
    IF Len(overrides) >= MaxOverrides /\ ~Accepted(pair)
    THEN Append(Tail(overrides), pair)
    ELSE Append(Others(pair), pair)

\* revoke: every certificate of the host.
revoke(host) ==
    /\ overrides' = Retained(overrides, {i \in DOMAIN overrides : overrides[i][1] # host})
    /\ clicked' = {p \in clicked : p[1] # host}
    /\ UNCHANGED <<now, hstsVars, conn>>

-----------------------------------------------------------------------------
(* The verifier.  Sessions are never resumed, so every connection is       *)
(* verified.                                                               *)

Verified(host, cert, error, ok) ==
    conn' = [host |-> host, cert |-> cert, error |-> error, ok |-> ok]

verify_accepted_first(host, cert, kind, click) ==
    LET pair == <<host, cert>>
        may  == is_certificate_error(kind)
        asks == may /\ ~Accepted(pair) /\ ~is_known_host(host)
    IN  /\ Verified(host, cert, kind, (may /\ Accepted(pair)) \/ (asks /\ click))
        /\ overrides' = IF asks /\ click THEN accept(pair) ELSE overrides
        /\ clicked' = IF asks /\ click THEN clicked \cup {pair} ELSE clicked
        /\ UNCHANGED <<now, hstsVars>>

\* The platform refused the certificate: HSTS hosts allow no way around it, else an accepted
\* pair passes, else the context's tls_override is asked, and its yes is remembered.
verify_override(host, cert, kind, click) ==
    LET pair == <<host, cert>>
        may  == is_certificate_error(kind) /\ ~is_known_host(host)
        asks == may /\ ~Accepted(pair)
    IN  /\ Verified(host, cert, kind, may /\ (Accepted(pair) \/ click))
        /\ overrides' = IF asks /\ click THEN accept(pair) ELSE overrides
        /\ clicked' = IF asks /\ click THEN clicked \cup {pair} ELSE clicked
        /\ UNCHANGED <<now, hstsVars>>

\* verify_server_cert; error is None when the platform's verifier is content.
verify_server_cert(host, cert, error, apple, click) ==
    IF error = None
    THEN Verified(host, cert, None, TRUE) /\ UNCHANGED <<now, hstsVars, overrides, clicked>>
    ELSE verify_override(host, cert, kind_of(error, apple), click)

\* The host accepts a certificate it was shown (TlsError::fingerprint), after the fact.
ClickThrough(host, cert) ==
    /\ conn # None /\ ~conn.ok /\ conn.host = host /\ conn.cert = cert
    /\ overrides' = accept(<<host, cert>>) /\ clicked' = clicked \cup {<<host, cert>>}
    /\ UNCHANGED <<now, hstsVars, conn>>

\* Handshakes, answers, clicks and time interleave.
TlsStep ==
    \/ HstsStep /\ UNCHANGED tlsVars
    \/ \E host \in Domains, cert \in Certificates :
          \/ ClickThrough(host, cert)
          \/ \E error \in RustlsErrors \cup {None}, apple \in AppleKinds, click \in BOOLEAN :
                verify_server_cert(host, cert, error, apple, click)
    \/ \E host \in Domains : revoke(host)

TlsSpec == now \in Nat /\ TlsInit /\ [][TlsStep]_vars

-----------------------------------------------------------------------------
(* Property.                                                               *)

\* A connection that the platform would refuse stands only if the certificate is what is
\* wrong, the user accepted this very certificate for this very host and did not take it
\* back, and no policy in force covers the host at that moment: neither its own nor one a
\* superdomain extends to it (tls.rs verify_server_cert).
OverrideIsTheUsers ==
    [][conn' # conn /\ conn'.ok /\ conn'.error # None =>
          /\ is_certificate_error(conn'.error)
          /\ <<conn'.host, conn'.cert>> \in clicked'
          /\ \A d \in DOMAIN policies :
                now < policies[d].expires_at /\ Len(d) >= 2 =>
                    ~(conn'.host = d \/ (policies[d].include_subdomains
                        /\ \E n \in 1..(Len(conn'.host) - 1) : d = SubSeq(conn'.host, n + 1, Len(conn'.host))))]_vars
=============================================================================
