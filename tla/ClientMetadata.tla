--------------------------- MODULE ClientMetadata ---------------------------
(***************************************************************************)
(* What the server makes of the metadata document that a client publishes  *)
(* at its client_id (oauth/client/manager.go), and how the client          *)
(* authenticates by it (oauth/provider/client_auth.go).                    *)
(***************************************************************************)
EXTENDS Naturals, FiniteSets

\* A redirect URI, by what the code tells apart: its scheme ("app" is a scheme
\* with a dot in it), its host as url.Hostname returns it (without brackets; "empty"
\* after a "//", "none" without one), whether it carries credentials, and whether
\* the reversed scheme is a local name.
Hosts == {"public", "reserved", "localhost", "127.0.0.1", "::1", "empty", "none"}
\* isLocalHostname: one label only (127.0.0.1 has four), or a reserved last one.
LocalHostname(host) == host \in {"reserved", "localhost", "::1", "empty", "none"}
Uris == [scheme : {"https", "http", "app", "other"}, host : Hosts,
         credentials : BOOLEAN, localApp : BOOLEAN]

Grants == {"authorization_code", "refresh_token", "implicit", "other"}
Methods == {"none", "private_key_jwt", "other"}

\* The rest of the document is in "sound": the scopes, the client_uri, the
\* client_id, subject_type, response_types, dpop_bound_access_tokens, and the
\* parameters that must not be there.
Documents == [sound : BOOLEAN, type : {"web", "native", "none"}, method : Methods,
              alg : BOOLEAN, keys : {"none", "empty", "jwks", "uri"},
              grants : SUBSET Grants, redirect : Uris]

MethodRefused(m) ==
    CASE m.method = "none" -> m.alg
      [] m.method = "private_key_jwt" -> m.keys \in {"none", "empty"} \/ ~m.alg
      [] OTHER -> TRUE

GrantsRefused(m) ==
    \/ m.grants \cap {"implicit", "other"} # {}
    \/ "authorization_code" \notin m.grants

\* Mutant: any kind of client may have a private scheme.
AppRefused(m) == m.redirect.localApp \/ m.redirect.host # "none"
\* A private scheme: the reversed scheme is a public name, and nothing follows
\* that looks like an authority.
PrivateSchemeRefused(m) ==
    m.type # "native" \/ m.redirect.localApp \/ m.redirect.host # "none"

\* The switch over the redirect URI: its first case that applies decides.
RedirectRefused(m) ==
    LET u == m.redirect
    IN  \/ u.credentials
        \/ CASE u.host = "localhost" -> TRUE
             [] u.host = "127.0.0.1" -> m.type # "native" \/ u.scheme # "http"
             [] OTHER ->
                    CASE u.scheme = "http" -> TRUE
                      [] u.scheme = "https" -> LocalHostname(u.host)
                      [] u.scheme = "app" -> PrivateSchemeRefused(m)
                      [] OTHER -> TRUE

\* validateAndParseMetadata.  Its check of the redirect URIs of web clients with
\* the implicit grant is never reached: that grant is refused before it.
Accepted(m) ==
    /\ m.sound
    /\ ~GrantsRefused(m) /\ ~MethodRefused(m)
    /\ m.type = "native" => m.method = "none"
    /\ ~RedirectRefused(m)

\* GetClient: a confidential client needs a key, which it names or links to.
HasKey(m) == m.method = "private_key_jwt" => m.keys \in {"jwks", "uri"}

\* What the rest of the server asks of a client that GetClient answered with.
Client(m) == [native |-> m.type = "native", method |-> m.method, hasKey |-> HasKey(m),
              scheme |-> m.redirect.scheme, host |-> m.redirect.host]
Clients == {Client(m) : m \in {d \in Documents : Accepted(d)}}
=============================================================================
