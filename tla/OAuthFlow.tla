----------------------------- MODULE OAuthFlow ------------------------------
(***************************************************************************)
(* Authorization of a client: the pushed request (server/                  *)
(* handle_oauth_par.go), its approval by a user (handle_oauth_authorize.go),*)
(* the exchange of the code and of refresh tokens (handle_oauth_token.go), *)
(* the account page that shows and revokes sessions (handle_account.go,    *)
(* handle_account_revoke.go) and the daily clean-up (server.go).           *)
(*                                                                         *)
(* Each handler reads and writes with single statements and no transaction.*)
(* A code is named by the approval that made it, a session row by the      *)
(* exchange that created it, and a pair of tokens by the exchange that     *)
(* answered with it.                                                       *)
(***************************************************************************)
EXTENDS ClientMetadata

CONSTANTS
    Users, Requests, Approvals, Exchanges, None

ASSUME NamesAssumption == None \notin Users \cup Requests \cup Approvals \cup Exchanges
                          /\ Approvals \cap Exchanges = {}

VARIABLES
    requests,   \* oauth_authorization_requests rows; "there" is FALSE once deleted
    sessions,   \* oauth_tokens rows
    client,     \* what the metadata in the cache says of the client
    page,       \* the access token of the session that a user's page shows
    pc, arg,
    view,       \* what a first statement read: the user of a code, the row of a
                \* refresh token
    beside,     \* history: calls that were open together
    ended       \* history: session rows that were deleted

rows == <<requests, sessions>>
calls == <<pc, arg, view, beside>>
vars == <<rows, client, page, calls, ended>>

Calls == Approvals \cup Exchanges
Open(c) == pc[c] \in {"update", "create", "rotate"}

\* How long ago, by the limits that the code knows: two weeks (both lifetimes of a
\* public client's session), three months (a refresh token of a confidential
\* client, and the clean-up), two years (its session).
TwoWeeks == 1
ThreeMonths == 2
TwoYears == 3

RequestRow == [there : BOOLEAN, sub : Users \cup {None}, code : Approvals \cup {None},
               bound : BOOLEAN, fresh : BOOLEAN]
SessionRow == [sub : Users, code : Approvals, token : Exchanges, refresh : Exchanges,
               method : {"none", "private_key_jwt"},
               idle : 0..ThreeMonths, old : 0..TwoYears]
ASSUME RowsAssumption == None \notin RequestRow /\ None \notin SessionRow
NoArg == [user |-> None, request |-> None, code |-> None, token |-> None]

Init ==
    /\ requests = [r \in Requests |-> None]
    /\ sessions = [x \in Exchanges |-> None]
    /\ client \in Clients
    /\ page = [u \in Users |-> None]
    /\ pc = [c \in Calls |-> "idle"]
    /\ arg = [c \in Calls |-> NoArg]
    /\ view = [x \in Exchanges |-> None]
    /\ beside = [c \in Calls |-> {}]
    /\ ended = {}

IsRequest(r) == requests[r] # None /\ requests[r].there
Stored(s) == sessions[s] # None

\* A call comes to the statement after its checks.
Begin(c, in, next) ==
    LET others == {d \in Calls : Open(d)}
    IN  /\ pc[c] = "idle"
        /\ pc' = [pc EXCEPT ![c] = next]
        /\ arg' = [arg EXCEPT ![c] = in]
        /\ beside' = [d \in Calls |-> IF d = c THEN others
                                      ELSE IF d \in others THEN beside[d] \cup {c}
                                      ELSE beside[d]]
Answer(c, result) ==
    /\ pc' = [pc EXCEPT ![c] = result]
    /\ UNCHANGED <<arg, beside>>

-----------------------------------------------------------------------------
(* The request and its approval.                                           *)

\* handleOauthPar binds the request to the key of its proof; a request that
\* starts at the authorization page is bound only when it names a key.
Push(r, bound) ==
    /\ requests[r] = None
    /\ requests' = [requests EXCEPT ![r] =
          [there |-> TRUE, sub |-> None, code |-> None, bound |-> bound, fresh |-> TRUE]]
    /\ UNCHANGED <<sessions, client, page, calls, ended>>

\* Five minutes pass.
RequestExpires(r) ==
    /\ IsRequest(r) /\ requests[r].fresh
    /\ requests' = [requests EXCEPT ![r].fresh = FALSE]
    /\ UNCHANGED <<sessions, client, page, calls, ended>>

\* The user says yes; the row that is read here is not read again.
ApproveStart(p, u, r) ==
    /\ IsRequest(r) /\ requests[r].fresh
    /\ requests[r].sub = None /\ requests[r].code = None
    /\ Begin(p, [NoArg EXCEPT !.user = u, !.request = r], "update")
    /\ UNCHANGED <<rows, view, client, page, ended>>

\* Mutant: a code that is already there is kept.
ApprovedKeepsCode(row, p) ==
    [row EXCEPT !.sub = arg[p].user, !.code = IF @ = None THEN p ELSE @]
Approved(row, p) == [row EXCEPT !.sub = arg[p].user, !.code = p]

\* The update by request id, and the redirect with the code.
Approve(p) ==
    /\ pc[p] = "update"
    /\ LET r == arg[p].request
       IN  requests' = IF IsRequest(r)
                       THEN [requests EXCEPT ![r] = Approved(requests[r], p)]
                       ELSE requests
    /\ Answer(p, "ok")
    /\ UNCHANGED <<sessions, view, client, page, ended>>

-----------------------------------------------------------------------------
(* The token endpoint.                                                     *)

\* authorization_code: the request is deleted first and checked then.  "right" is
\* whether the redirect URI is the request's and the verifier fits the challenge
\* (a plain challenge never does: two pointers are compared).
TakeCode(x, p, right) ==
    /\ pc[p] = "ok"
    /\ \E r \in Requests :
          /\ IsRequest(r) /\ requests[r].code = p
          /\ requests' = [requests EXCEPT ![r].there = FALSE]
          /\ view' = [view EXCEPT ![x] = requests[r].sub]
          /\ Begin(x, [NoArg EXCEPT !.code = p],
                   IF right /\ requests[r].bound THEN "create" ELSE "failed")
    /\ UNCHANGED <<sessions, client, page, ended>>

CreateSession(x) ==
    /\ pc[x] = "create"
    /\ sessions' = [sessions EXCEPT ![x] =
          [sub |-> view[x], code |-> arg[x].code, token |-> x, refresh |-> x,
           method |-> client.method, idle |-> 0, old |-> 0]]
    /\ Answer(x, "ok")
    /\ UNCHANGED <<requests, view, client, page, ended>>

SessionLifetime(row) == IF row.method = "none" THEN TwoWeeks ELSE TwoYears
RefreshLifetime(row) == IF row.method = "none" THEN TwoWeeks ELSE ThreeMonths
\* GetSessionAgeFromToken.
Alive(row) == row.old < SessionLifetime(row) /\ row.idle < RefreshLifetime(row)

\* refresh_token: the row of a refresh token that some exchange answered with.
\* The client must authenticate as it did for the code.
FindSession(x, t) ==
    /\ pc[t] = "ok"
    /\ \E s \in Exchanges :
          /\ Stored(s) /\ sessions[s].refresh = t
          /\ Alive(sessions[s]) /\ sessions[s].method = client.method
          /\ view' = [view EXCEPT ![x] = s]
    /\ Begin(x, [NoArg EXCEPT !.token = t], "rotate")
    /\ UNCHANGED <<rows, client, page, ended>>

\* Mutant: the new refresh token is not stored.
RotatedKeepsRefresh(row, x) == [row EXCEPT !.token = x, !.idle = 0]
Rotated(row, x) == [row EXCEPT !.token = x, !.refresh = x, !.idle = 0]

\* The update goes by the old refresh token, and nobody looks whether it found a
\* row: the answer has the new pair in any case.
RotateTokens(x) ==
    /\ pc[x] = "rotate"
    /\ sessions' = [s \in Exchanges |->
          IF Stored(s) /\ sessions[s].refresh = arg[x].token
          THEN Rotated(sessions[s], x) ELSE sessions[s]]
    /\ Answer(x, "ok")
    /\ UNCHANGED <<requests, view, client, page, ended>>

\* handleOauthSessionMiddleware, with a proof by the key that the session is bound
\* to, while the hour of the token lasts: the token is looked up in the rows.
Admits(x) == \E s \in Exchanges : Stored(s) /\ sessions[s].token = x

\* A statement fails, or the account of a code is gone.
StatementFails(c) ==
    /\ Open(c)
    /\ Answer(c, "failed")
    /\ UNCHANGED <<rows, view, client, page, ended>>

-----------------------------------------------------------------------------
(* The account page, the clean-up, and time.                               *)

ShowPage(u, s) ==
    /\ Stored(s) /\ sessions[s].sub = u
    /\ page[u] # sessions[s].token
    /\ page' = [page EXCEPT ![u] = sessions[s].token]
    /\ UNCHANGED <<rows, client, calls, ended>>

DeleteSessions(S) ==
    /\ sessions' = [s \in Exchanges |-> IF s \in S THEN None ELSE sessions[s]]
    /\ ended' = ended \cup S

\* The session of the token on the page, if the token is still its token.
Revoke(u) ==
    /\ page[u] # None
    /\ DeleteSessions({s \in Exchanges : /\ Stored(s) /\ sessions[s].sub = u
                                         /\ sessions[s].token = page[u]})
    /\ page' = [page EXCEPT ![u] = None]
    /\ UNCHANGED <<requests, client, calls>>

\* Mutant: the limit of public clients is used for all.
PublicCutoff == {s \in Exchanges : Stored(s) /\ sessions[s].idle >= TwoWeeks}
Cutoff == {s \in Exchanges : Stored(s) /\ sessions[s].idle >= ThreeMonths}

\* cleanupExpiredSessions.
Cleanup ==
    /\ Cutoff # {}
    /\ DeleteSessions(Cutoff)
    /\ UNCHANGED <<requests, client, page, calls>>

\* Time passes for a session, since it was made and since it was refreshed.
GrowOld(s) ==
    /\ Stored(s)
    /\ \E idle \in 0..ThreeMonths, old \in 0..TwoYears :
          /\ idle >= sessions[s].idle /\ old >= sessions[s].old /\ old >= idle
          /\ sessions' = [sessions EXCEPT ![s].idle = idle, ![s].old = old]
    /\ sessions' # sessions
    /\ UNCHANGED <<requests, client, page, calls, ended>>

\* The client publishes another document, and the cached metadata expires.
ClientChanges ==
    /\ client' \in Clients \ {client}
    /\ UNCHANGED <<rows, page, calls, ended>>

Next ==
    \/ \E r \in Requests : RequestExpires(r) \/ \E bound \in BOOLEAN : Push(r, bound)
    \/ \E p \in Approvals :
          \/ \E u \in Users, r \in Requests : ApproveStart(p, u, r)
          \/ Approve(p)
    \/ \E x \in Exchanges :
          \/ \E p \in Approvals, right \in BOOLEAN : TakeCode(x, p, right)
          \/ CreateSession(x)
          \/ \E t \in Exchanges : FindSession(x, t)
          \/ RotateTokens(x)
    \/ \E c \in Calls : StatementFails(c)
    \/ \E u \in Users : Revoke(u) \/ \E s \in Exchanges : ShowPage(u, s)
    \/ Cleanup
    \/ \E s \in Exchanges : GrowOld(s)
    \/ ClientChanges

Spec == Init /\ [][Next]_vars

-----------------------------------------------------------------------------
(* Properties.                                                             *)

\* handle_oauth_authorize.go:197-210: approvals of one request may overlap, and
\* the later one overwrites the earlier.  A session still belongs to the user
\* whose approval made the code it was bought with, and a code, and a request,
\* buys one session at most.
OneSessionPerRequest ==
    \A s, t \in Exchanges : Stored(s) /\ Stored(t) =>
        /\ sessions[s].sub = arg[sessions[s].code].user
        /\ arg[sessions[s].code].request = arg[sessions[t].code].request => s = t

\* manager.go:385: the check that web clients are sent back over https only is in
\* a branch that is never reached; the ones after it see to it all the same.  Codes
\* go out over https to a public host, or, of a native client, to a loopback address
\* or by a private scheme; and a client can authenticate by the method that its
\* document names.
RedirectsArePrivate ==
    /\ client.hasKey
    /\ \/ client.scheme = "https" /\ client.host = "public"
       \/ client.native /\ client.method = "none"
          /\ \/ client.scheme = "http" /\ client.host = "127.0.0.1"
             \/ client.scheme = "app" /\ client.host = "none"

\* handle_oauth_token.go:240-318: when a refresh was answered, its tokens are good,
\* the one at the middleware and the other for a refresh, or they were exchanged
\* for newer ones, or the session was ended, unless another refresh of the same
\* token was open beside it.
AnsweredTokensExist ==
    \A x \in Exchanges :
        pc[x] = "ok" /\ arg[x].token # None =>
            \/ Admits(x) /\ \E s \in Exchanges : Stored(s) /\ sessions[s].refresh = x
            \/ \E y \in Exchanges : pc[y] = "ok" /\ arg[y].token = x
            \/ view[x] \in ended
            \/ \E y \in Exchanges : arg[y].token = arg[x].token /\ y \in beside[x]

\* server.go:700: a session ends by its user's revocation or when it can no
\* longer be refreshed, and an ended one does not come back, whatever refresh of
\* it is still open.
SessionsEndOnce ==
    [][\A s \in Exchanges :
          /\ Stored(s) /\ sessions'[s] = None =>
                \/ \E u \in Users : page[u] = sessions[s].token /\ page'[u] = None
                \/ ~Alive(sessions[s])
          /\ s \in ended => sessions'[s] = None]_vars
=============================================================================
