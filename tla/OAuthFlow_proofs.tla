-------------------------- MODULE OAuthFlow_proofs --------------------------
(***************************************************************************)
(* Theorems about OAuthFlow, for every set of users, requests, approvals   *)
(* and exchanges.                                                          *)
(***************************************************************************)
EXTENDS OAuthFlow, TLAPS

-----------------------------------------------------------------------------
(* What a client's metadata may say.                                       *)

\* Codes go to a place that only the client can read, and a confidential client
\* has a key.
PrivateClient(c) ==
    /\ c.hasKey
    /\ \/ c.scheme = "https" /\ c.host = "public"
       \/ c.native /\ c.method = "none"
          /\ \/ c.scheme = "http" /\ c.host = "127.0.0.1"
             \/ c.scheme = "app" /\ c.host = "none"

\* A private scheme that is not refused is a native client's and has no authority.
LEMMA PrivateSchemes ==
    ASSUME NEW m, ~PrivateSchemeRefused(m)
    PROVE  m.type = "native" /\ m.redirect.host = "none"
BY DEF PrivateSchemeRefused

\* The methods that are accepted.
LEMMA AcceptedMethods ==
    ASSUME NEW m \in Documents, ~MethodRefused(m)
    PROVE  /\ m.method \in {"none", "private_key_jwt"}
           /\ m.method = "private_key_jwt" => m.keys \notin {"none", "empty"}
<1>1. CASE m.method = "none"
    BY <1>1
<1>2. CASE m.method = "private_key_jwt"
    BY <1>2 DEF MethodRefused
<1>3. CASE m.method = "other"
    BY <1>3 DEF MethodRefused
<1>. QED BY <1>1, <1>2, <1>3 DEF Documents, Methods

\* The redirect URIs that are accepted.
LEMMA AcceptedRedirects ==
    ASSUME NEW m \in Documents, ~RedirectRefused(m)
    PROVE  \/ m.redirect.scheme = "https" /\ m.redirect.host = "public"
           \/ m.type = "native" /\ m.redirect.scheme = "http" /\ m.redirect.host = "127.0.0.1"
           \/ m.type = "native" /\ m.redirect.scheme = "app" /\ m.redirect.host = "none"
<1>. DEFINE u == m.redirect
<1>0. u \in Uris
    BY DEF Documents
<1>1. u.host # "localhost"
    BY DEF RedirectRefused
<1>2. CASE u.host = "127.0.0.1"
    BY <1>2 DEF RedirectRefused
<1>3. CASE u.host # "127.0.0.1"
    <2>1. u.scheme # "http"
        BY <1>1, <1>3 DEF RedirectRefused
    <2>2. u.scheme = "https" => ~LocalHostname(u.host)
        BY <1>1, <1>3 DEF RedirectRefused
    <2>3. u.scheme = "app" => ~PrivateSchemeRefused(m)
        BY <1>1, <1>3 DEF RedirectRefused
    <2>4. u.scheme # "other"
        BY <1>1, <1>3 DEF RedirectRefused
    <2>. QED BY <1>0, <1>1, <1>3, <2>1, <2>2, <2>3, <2>4, PrivateSchemes
             DEF Uris, Hosts, LocalHostname
<1>. QED BY <1>2, <1>3

\* validateAndParseMetadata and GetClient accept private clients only.
LEMMA AcceptedClients ==
    ASSUME NEW c \in Clients
    PROVE  PrivateClient(c) /\ c.method \in {"none", "private_key_jwt"}
<1>1. PICK m \in Documents : Accepted(m) /\ c = Client(m)
    BY DEF Clients
<1>2. /\ c.native = (m.type = "native") /\ c.method = m.method /\ c.hasKey = HasKey(m)
      /\ c.scheme = m.redirect.scheme /\ c.host = m.redirect.host
    BY <1>1 DEF Client
<1>3. HasKey(m)
    BY <1>1, AcceptedMethods DEF HasKey, Accepted, Documents
<1>4. m.type = "native" => m.method = "none"
    BY <1>1 DEF Accepted
<1>. QED BY <1>1, <1>2, <1>3, <1>4, AcceptedMethods, AcceptedRedirects DEF Accepted, PrivateClient

-----------------------------------------------------------------------------
(* Types.                                                                  *)

Places == {"idle", "update", "create", "rotate", "ok", "failed"}
Args == [user : Users \cup {None}, request : Requests \cup {None},
         code : Approvals \cup {None}, token : Exchanges \cup {None}]

TypeOK ==
    /\ requests \in [Requests -> RequestRow \cup {None}]
    /\ sessions \in [Exchanges -> SessionRow \cup {None}]
    /\ client \in Clients
    /\ page \in [Users -> Exchanges \cup {None}]
    /\ pc \in [Calls -> Places]
    /\ arg \in [Calls -> Args]
    /\ view \in [Exchanges -> Users \cup Exchanges \cup {None}]
    /\ beside \in [Calls -> SUBSET Calls]
    /\ ended \subseteq Exchanges

\* What a call is at goes with what it was asked.
Asked ==
    /\ \A p \in Approvals : pc[p] # "idle" => arg[p].user \in Users /\ arg[p].request \in Requests
    /\ \A p \in Approvals : pc[p] \notin {"create", "rotate"}
    /\ \A x \in Exchanges : pc[x] # "update"
    /\ \A x \in Exchanges : pc[x] = "create" => arg[x].code \in Approvals /\ view[x] \in Users
    /\ \A x \in Exchanges : pc[x] = "rotate" => arg[x].token \in Exchanges /\ view[x] \in Exchanges

\* An approved request names its user; TypeOK alone is not inductive, since an
\* exchange takes the user from it.
Coded == \A r \in Requests : requests[r] # None /\ requests[r].code # None =>
                                 requests[r].sub \in Users

TypeInv == TypeOK /\ Asked /\ Coded

\* Nothing has no row.
LEMMA RowsAreThere ==
    /\ \A row \in RequestRow : row # None
    /\ \A row \in SessionRow : row # None
BY RowsAssumption

\* Approvals and exchanges are apart.
LEMMA CallsApart ==
    /\ Approvals \subseteq Calls /\ Exchanges \subseteq Calls
    /\ Approvals \cap Exchanges = {}
    /\ None \notin Approvals /\ None \notin Exchanges /\ None \notin Users /\ None \notin Requests
BY NamesAssumption DEF Calls

\* At first there is nothing.
LEMMA TypeInit == Init => TypeInv
<1>1. NoArg \in Args
    BY DEF NoArg, Args
<1>. QED BY <1>1, CallsApart DEF Init, TypeInv, TypeOK, Asked, Coded, Places

\* A call that begins comes to its place with its input, and the calls that are
\* open beside it and it know each other.
LEMMA Begins ==
    ASSUME TypeInv, NEW c \in Calls, NEW in \in Args, NEW next \in Places, Begin(c, in, next)
    PROVE  /\ pc[c] = "idle" /\ pc'[c] = next /\ arg'[c] = in
           /\ \A d \in Calls \ {c} : pc'[d] = pc[d] /\ arg'[d] = arg[d]
           /\ beside'[c] = {d \in Calls : Open(d)}
           /\ \A d \in Calls \ {c} :
                  beside'[d] = IF Open(d) THEN beside[d] \cup {c} ELSE beside[d]
           /\ pc' \in [Calls -> Places] /\ arg' \in [Calls -> Args]
           /\ beside' \in [Calls -> SUBSET Calls]
<1>. USE DEF TypeInv, TypeOK
<1>1. /\ pc[c] = "idle" /\ pc' = [pc EXCEPT ![c] = next] /\ arg' = [arg EXCEPT ![c] = in]
      /\ beside' = [d \in Calls |-> IF d = c THEN {e \in Calls : Open(e)}
                                    ELSE IF d \in {e \in Calls : Open(e)}
                                         THEN beside[d] \cup {c} ELSE beside[d]]
    BY DEF Begin
<1>2. pc'[c] = next /\ arg'[c] = in /\ \A d \in Calls \ {c} : pc'[d] = pc[d] /\ arg'[d] = arg[d]
    BY <1>1
<1>3. pc' \in [Calls -> Places] /\ arg' \in [Calls -> Args]
    BY <1>1
<1>4. beside'[c] = {d \in Calls : Open(d)}
    BY <1>1
<1>5. \A d \in Calls \ {c} : beside'[d] = IF Open(d) THEN beside[d] \cup {c} ELSE beside[d]
    BY <1>1
<1>6. beside' \in [Calls -> SUBSET Calls]
    BY <1>1
<1>. QED BY <1>1, <1>2, <1>3, <1>4, <1>5, <1>6

\* A call that answers has changed its place only.
LEMMA Answers ==
    ASSUME TypeInv, NEW c \in Calls, NEW result \in Places, Answer(c, result)
    PROVE  /\ pc'[c] = result /\ \A d \in Calls \ {c} : pc'[d] = pc[d]
           /\ arg' = arg /\ beside' = beside /\ pc' \in [Calls -> Places]
BY DEF Answer, TypeInv, TypeOK

\* The requests and the approval of a request keep the types.
LEMMA ApprovalType ==
    ASSUME TypeInv,
           \/ \E r \in Requests : RequestExpires(r) \/ \E bound \in BOOLEAN : Push(r, bound)
           \/ \E p \in Approvals :
                 \/ \E u \in Users, r \in Requests : ApproveStart(p, u, r)
                 \/ Approve(p)
    PROVE  TypeInv'
<1>. USE CallsApart DEF TypeInv, TypeOK
<1>1. ASSUME NEW r \in Requests, RequestExpires(r) PROVE TypeInv'
    <2>1. requests[r] \in RequestRow
        BY <1>1 DEF RequestExpires, IsRequest
    <2>2. /\ [requests[r] EXCEPT !.fresh = FALSE] \in RequestRow
          /\ requests' = [requests EXCEPT ![r] = [requests[r] EXCEPT !.fresh = FALSE]]
        BY <1>1, <2>1 DEF RequestExpires, RequestRow
    <2>3. Coded'
        BY <2>1, <2>2, RowsAreThere DEF Coded, RequestRow
    <2>4. Asked'
        BY <1>1 DEF RequestExpires, Asked, calls
    <2>. QED BY <1>1, <2>2, <2>3, <2>4 DEF RequestExpires, calls
<1>2. ASSUME NEW r \in Requests, NEW bound \in BOOLEAN, Push(r, bound) PROVE TypeInv'
    <2>. DEFINE row == [there |-> TRUE, sub |-> None, code |-> None, bound |-> bound,
                        fresh |-> TRUE]
    <2>1. row \in RequestRow /\ requests' = [requests EXCEPT ![r] = row]
        BY <1>2 DEF Push, RequestRow
    <2>2. Coded'
        BY <2>1 DEF Coded
    <2>3. Asked'
        BY <1>2 DEF Push, Asked, calls
    <2>. QED BY <1>2, <2>1, <2>2, <2>3 DEF Push, calls
<1>3. ASSUME NEW p \in Approvals, NEW u \in Users, NEW r \in Requests, ApproveStart(p, u, r)
      PROVE  TypeInv'
    <2>. DEFINE in == [NoArg EXCEPT !.user = u, !.request = r]
    <2>1. in \in Args /\ in.user = u /\ in.request = r /\ p \in Calls
        BY DEF NoArg, Args
    <2>2. Begin(p, in, "update") /\ UNCHANGED <<rows, view, client, page, ended>>
        BY <1>3 DEF ApproveStart
    <2>. HIDE DEF in
    <2>3. /\ pc[p] = "idle" /\ pc'[p] = "update" /\ arg'[p] = in
          /\ \A d \in Calls \ {p} : pc'[d] = pc[d] /\ arg'[d] = arg[d]
          /\ pc' \in [Calls -> Places] /\ arg' \in [Calls -> Args]
          /\ beside' \in [Calls -> SUBSET Calls]
        BY <2>1, <2>2, Begins DEF Places
    <2>4. Asked'
        BY <2>1, <2>2, <2>3 DEF Asked
    <2>. QED BY <2>2, <2>3, <2>4 DEF Coded, rows
<1>4. ASSUME NEW p \in Approvals, Approve(p) PROVE TypeInv'
    <2>. DEFINE q == arg[p].request
    <2>1. pc[p] = "update" /\ Answer(p, "ok") /\ UNCHANGED <<sessions, view, client, page, ended>>
        BY <1>4 DEF Approve
    <2>2. /\ pc'[p] = "ok" /\ \A d \in Calls \ {p} : pc'[d] = pc[d]
          /\ arg' = arg /\ beside' = beside /\ pc' \in [Calls -> Places]
        BY <2>1, Answers DEF Places
    <2>3. Asked'
        BY <2>1, <2>2 DEF Asked
    <2>4. \/ requests' = requests
          \/ /\ IsRequest(q) /\ requests' = [requests EXCEPT ![q] = Approved(requests[q], p)]
        BY <1>4 DEF Approve
    <2>5. q \in Requests /\ arg[p].user \in Users
        BY <2>1 DEF Asked
    <2>6. ASSUME IsRequest(q)
          PROVE  /\ Approved(requests[q], p) \in RequestRow
                 /\ Approved(requests[q], p).sub = arg[p].user
        <3>1. requests[q] \in RequestRow
            BY <2>5, <2>6 DEF IsRequest
        <3>. QED BY <2>5, <3>1 DEF Approved, RequestRow
    <2>7. requests' \in [Requests -> RequestRow \cup {None}] /\ Coded'
        BY <2>4, <2>5, <2>6 DEF Coded
    <2>. QED BY <2>1, <2>2, <2>3, <2>7
<1>. QED BY <1>1, <1>2, <1>3, <1>4

\* The exchange of codes and of refresh tokens keeps the types.
LEMMA ExchangeType ==
    ASSUME TypeInv, NEW x \in Exchanges,
           \/ \E p \in Approvals, right \in BOOLEAN : TakeCode(x, p, right)
           \/ CreateSession(x)
           \/ \E t \in Exchanges : FindSession(x, t)
           \/ RotateTokens(x)
    PROVE  TypeInv'
<1>. USE CallsApart DEF TypeInv, TypeOK
<1>1. ASSUME NEW p \in Approvals, NEW right \in BOOLEAN, TakeCode(x, p, right) PROVE TypeInv'
    <2>. DEFINE in == [NoArg EXCEPT !.code = p]
    <2>1. in \in Args /\ in.code = p /\ x \in Calls
        BY DEF NoArg, Args
    <2>2. PICK r \in Requests :
              /\ IsRequest(r) /\ requests[r].code = p
              /\ requests' = [requests EXCEPT ![r].there = FALSE]
              /\ view' = [view EXCEPT ![x] = requests[r].sub]
              /\ Begin(x, in, IF right /\ requests[r].bound THEN "create" ELSE "failed")
        BY <1>1 DEF TakeCode
    <2>3. PICK next \in {"create", "failed"} : Begin(x, in, next)
        BY <2>2
    <2>. HIDE DEF in
    <2>4. /\ pc[x] = "idle" /\ pc'[x] = next /\ arg'[x] = in
          /\ \A d \in Calls \ {x} : pc'[d] = pc[d] /\ arg'[d] = arg[d]
          /\ pc' \in [Calls -> Places] /\ arg' \in [Calls -> Args]
          /\ beside' \in [Calls -> SUBSET Calls]
        BY <2>1, <2>3, Begins DEF Places
    <2>5. requests[r] \in RequestRow /\ requests[r].sub \in Users
        BY <2>2 DEF IsRequest, Coded
    <2>6. requests' \in [Requests -> RequestRow \cup {None}] /\ Coded'
        <3>1. [requests[r] EXCEPT !.there = FALSE] \in RequestRow
              /\ [requests[r] EXCEPT !.there = FALSE].sub \in Users
            BY <2>5 DEF RequestRow
        <3>2. requests' = [requests EXCEPT ![r] = [requests[r] EXCEPT !.there = FALSE]]
            BY <2>2
        <3>. QED BY <3>1, <3>2 DEF Coded
    <2>7. Asked'
        BY <2>1, <2>2, <2>4, <2>5 DEF Asked
    <2>8. UNCHANGED <<sessions, client, page, ended>>
        BY <1>1 DEF TakeCode
    <2>. QED BY <2>2, <2>4, <2>5, <2>6, <2>7, <2>8
<1>2. CASE CreateSession(x)
    <2>. DEFINE row == [sub |-> view[x], code |-> arg[x].code, token |-> x, refresh |-> x,
                        method |-> client.method, idle |-> 0, old |-> 0]
    <2>1. pc[x] = "create" /\ Answer(x, "ok") /\ sessions' = [sessions EXCEPT ![x] = row]
          /\ UNCHANGED <<requests, view, client, page, ended>>
        BY <1>2 DEF CreateSession
    <2>2. row \in SessionRow
        <3>1. view[x] \in Users /\ arg[x].code \in Approvals
            BY <2>1 DEF Asked
        <3>2. client.method \in {"none", "private_key_jwt"}
            BY AcceptedClients
        <3>. QED BY <3>1, <3>2 DEF SessionRow, ThreeMonths, TwoYears
    <2>3. /\ pc'[x] = "ok" /\ \A d \in Calls \ {x} : pc'[d] = pc[d]
          /\ arg' = arg /\ beside' = beside /\ pc' \in [Calls -> Places]
        BY <2>1, Answers DEF Places
    <2>4. Asked'
        BY <2>1, <2>3 DEF Asked
    <2>. QED BY <2>1, <2>2, <2>3, <2>4 DEF Coded
<1>3. ASSUME NEW t \in Exchanges, FindSession(x, t) PROVE TypeInv'
    <2>. DEFINE in == [NoArg EXCEPT !.token = t]
    <2>1. in \in Args /\ in.token = t /\ x \in Calls
        BY DEF NoArg, Args
    <2>2. PICK s \in Exchanges : view' = [view EXCEPT ![x] = s]
        BY <1>3 DEF FindSession
    <2>3. Begin(x, in, "rotate") /\ UNCHANGED <<rows, client, page, ended>>
        BY <1>3 DEF FindSession
    <2>. HIDE DEF in
    <2>4. /\ pc[x] = "idle" /\ pc'[x] = "rotate" /\ arg'[x] = in
          /\ \A d \in Calls \ {x} : pc'[d] = pc[d] /\ arg'[d] = arg[d]
          /\ pc' \in [Calls -> Places] /\ arg' \in [Calls -> Args]
          /\ beside' \in [Calls -> SUBSET Calls]
        BY <2>1, <2>3, Begins DEF Places
    <2>5. Asked'
        BY <2>1, <2>2, <2>4 DEF Asked
    <2>. QED BY <2>2, <2>3, <2>4, <2>5 DEF Coded, rows
<1>4. CASE RotateTokens(x)
    <2>1. pc[x] = "rotate" /\ Answer(x, "ok") /\ UNCHANGED <<requests, view, client, page, ended>>
        BY <1>4 DEF RotateTokens
    <2>2. /\ pc'[x] = "ok" /\ \A d \in Calls \ {x} : pc'[d] = pc[d]
          /\ arg' = arg /\ beside' = beside /\ pc' \in [Calls -> Places]
        BY <2>1, Answers DEF Places
    <2>3. Asked'
        BY <2>1, <2>2 DEF Asked
    <2>4. ASSUME NEW s \in Exchanges, Stored(s) PROVE Rotated(sessions[s], x) \in SessionRow
        <3>1. sessions[s] \in SessionRow
            BY <2>4 DEF Stored
        <3>2. 0 \in 0..ThreeMonths
            BY DEF ThreeMonths
        <3>. QED BY <3>1, <3>2 DEF Rotated, SessionRow
    <2>5. sessions' \in [Exchanges -> SessionRow \cup {None}]
        BY <1>4, <2>4 DEF RotateTokens
    <2>. QED BY <2>1, <2>2, <2>3, <2>5 DEF Coded
<1>. QED BY <1>1, <1>2, <1>3, <1>4

\* Failures, the account page, the clean-up and time keep the types.
LEMMA OtherType ==
    ASSUME TypeInv,
           \/ \E c \in Calls : StatementFails(c)
           \/ \E u \in Users : Revoke(u) \/ \E s \in Exchanges : ShowPage(u, s)
           \/ Cleanup
           \/ \E s \in Exchanges : GrowOld(s)
           \/ ClientChanges
           \/ UNCHANGED vars
    PROVE  TypeInv'
<1>. USE CallsApart DEF TypeInv, TypeOK
<1>1. ASSUME NEW c \in Calls, StatementFails(c) PROVE TypeInv'
    <2>1. Answer(c, "failed") /\ UNCHANGED <<rows, view, client, page, ended>>
        BY <1>1 DEF StatementFails
    <2>2. /\ pc'[c] = "failed" /\ \A d \in Calls \ {c} : pc'[d] = pc[d]
          /\ arg' = arg /\ beside' = beside /\ pc' \in [Calls -> Places]
        BY <2>1, Answers DEF Places
    <2>3. Asked'
        <3>1. pc[c] # "idle"
            BY <1>1 DEF StatementFails, Open
        <3>. QED BY <2>1, <2>2, <3>1 DEF Asked
    <2>. QED BY <2>1, <2>2, <2>3 DEF Coded, rows
<1>2. ASSUME NEW u \in Users, Revoke(u) PROVE TypeInv'
    BY <1>2 DEF Revoke, DeleteSessions, calls, Asked, Coded
<1>3. ASSUME NEW u \in Users, NEW s \in Exchanges, ShowPage(u, s) PROVE TypeInv'
    <2>1. sessions[s].token \in Exchanges
        BY <1>3 DEF ShowPage, Stored, SessionRow
    <2>. QED BY <1>3, <2>1 DEF ShowPage, rows, calls, Asked, Coded
<1>4. CASE Cleanup
    BY <1>4 DEF Cleanup, DeleteSessions, Cutoff, calls, Asked, Coded
<1>5. ASSUME NEW s \in Exchanges, GrowOld(s) PROVE TypeInv'
    <2>1. PICK i \in 0..ThreeMonths, o \in 0..TwoYears :
              sessions' = [sessions EXCEPT ![s].idle = i, ![s].old = o]
        BY <1>5 DEF GrowOld
    <2>2. sessions[s] \in SessionRow
        BY <1>5 DEF GrowOld, Stored
    <2>3. [sessions[s] EXCEPT !.idle = i, !.old = o] \in SessionRow
        BY <2>2 DEF SessionRow
    <2>4. sessions' = [sessions EXCEPT ![s] = [sessions[s] EXCEPT !.idle = i, !.old = o]]
        BY <2>1
    <2>5. sessions' \in [Exchanges -> SessionRow \cup {None}]
        BY <2>3, <2>4
    <2>. QED BY <1>5, <2>5 DEF GrowOld, calls, Asked, Coded
<1>6. CASE ClientChanges
    BY <1>6 DEF ClientChanges, rows, calls, Asked, Coded
<1>7. CASE UNCHANGED vars
    BY <1>7 DEF vars, rows, calls, Asked, Coded
<1>. QED BY <1>1, <1>2, <1>3, <1>4, <1>5, <1>6, <1>7

\* The typing invariant is inductive.
LEMMA TypeStep == TypeInv /\ [Next]_vars => TypeInv'
BY ApprovalType, ExchangeType, OtherType DEF Next

\* Whatever a client publishes, and whenever it publishes something else, codes go
\* only where it alone can read them.
THEOREM CodesGoToPrivatePlaces == Spec => []RedirectsArePrivate
<1>1. TypeInv => RedirectsArePrivate
    BY AcceptedClients DEF TypeInv, TypeOK, PrivateClient, RedirectsArePrivate
<1>. QED BY TypeInit, TypeStep, <1>1, PTL DEF Spec

-----------------------------------------------------------------------------
(* What calls leave of each other.                                         *)

\* An input, and what a first statement read, are kept; a call that has answered
\* has answered; the list of calls beside it grows.
CallsKept ==
    \A c \in Calls :
        /\ pc[c] # "idle" =>
               pc'[c] # "idle" /\ arg'[c] = arg[c] /\ beside[c] \subseteq beside'[c]
        /\ pc[c] \in {"ok", "failed"} => pc'[c] = pc[c]

\* No step forgets what a call was asked, or opens it again.
LEMMA Kept ==
    ASSUME TypeInv, [Next]_vars
    PROVE  /\ CallsKept
           /\ \A x \in Exchanges : pc[x] # "idle" => view'[x] = view[x]
<1>. USE CallsApart DEF TypeInv, TypeOK
<1>1. ASSUME NEW c \in Calls, NEW in \in Args, NEW next \in Places \ {"idle"}, Begin(c, in, next)
      PROVE  CallsKept
    <2>1. SUFFICES ASSUME NEW d \in Calls, pc[d] # "idle"
                   PROVE  /\ pc'[d] = pc[d] /\ arg'[d] = arg[d]
                          /\ beside[d] \subseteq beside'[d]
        BY DEF CallsKept
    <2>2. d # c
        BY <1>1, <2>1 DEF Begin
    <2>3. /\ pc'[d] = pc[d] /\ arg'[d] = arg[d]
          /\ beside'[d] = IF Open(d) THEN beside[d] \cup {c} ELSE beside[d]
        BY <1>1, <2>1, <2>2, Begins
    <2>4. beside[d] \subseteq beside'[d]
        BY <2>3
    <2>. QED BY <2>3, <2>4
<1>2. ASSUME NEW c \in Calls, pc[c] \in {"update", "create", "rotate"},
             NEW result \in {"ok", "failed"}, Answer(c, result)
      PROVE  CallsKept
    BY <1>2, Answers DEF Places, CallsKept
<1>3. CASE \E r \in Requests : RequestExpires(r) \/ \E bound \in BOOLEAN : Push(r, bound)
    BY <1>3 DEF RequestExpires, Push, calls, CallsKept
<1>4. ASSUME NEW p \in Approvals, NEW u \in Users, NEW r \in Requests, ApproveStart(p, u, r)
      PROVE  CallsKept /\ view' = view
    <2>1. Begin(p, [NoArg EXCEPT !.user = u, !.request = r], "update") /\ view' = view
        BY <1>4 DEF ApproveStart
    <2>2. [NoArg EXCEPT !.user = u, !.request = r] \in Args
        BY DEF NoArg, Args
    <2>. QED BY <1>1, <2>1, <2>2 DEF Places
<1>5. ASSUME NEW p \in Approvals, Approve(p)
      PROVE  CallsKept /\ view' = view
    BY <1>2, <1>5 DEF Approve
<1>6. ASSUME NEW x \in Exchanges, NEW p \in Approvals, NEW right \in BOOLEAN,
             TakeCode(x, p, right)
      PROVE  CallsKept /\ \A y \in Exchanges : pc[y] # "idle" => view'[y] = view[y]
    <2>1. PICK r \in Requests :
              /\ view' = [view EXCEPT ![x] = requests[r].sub]
              /\ Begin(x, [NoArg EXCEPT !.code = p],
                       IF right /\ requests[r].bound THEN "create" ELSE "failed")
        BY <1>6 DEF TakeCode
    <2>2. PICK next \in {"create", "failed"} : Begin(x, [NoArg EXCEPT !.code = p], next)
        BY <2>1
    <2>3. [NoArg EXCEPT !.code = p] \in Args
        BY DEF NoArg, Args
    <2>4. pc[x] = "idle"
        BY <2>2 DEF Begin
    <2>. QED BY <1>1, <2>1, <2>2, <2>3, <2>4 DEF Places
<1>7. ASSUME NEW x \in Exchanges, NEW t \in Exchanges, FindSession(x, t)
      PROVE  CallsKept /\ \A y \in Exchanges : pc[y] # "idle" => view'[y] = view[y]
    <2>1. PICK s \in Exchanges : view' = [view EXCEPT ![x] = s]
        BY <1>7 DEF FindSession
    <2>2. Begin(x, [NoArg EXCEPT !.token = t], "rotate")
        BY <1>7 DEF FindSession
    <2>3. [NoArg EXCEPT !.token = t] \in Args
        BY DEF NoArg, Args
    <2>4. pc[x] = "idle"
        BY <2>2 DEF Begin
    <2>. QED BY <1>1, <2>1, <2>2, <2>3, <2>4 DEF Places
<1>8. ASSUME NEW x \in Exchanges, CreateSession(x) \/ RotateTokens(x)
      PROVE  CallsKept /\ view' = view
    BY <1>2, <1>8 DEF CreateSession, RotateTokens
<1>9. ASSUME NEW c \in Calls, StatementFails(c)
      PROVE  CallsKept /\ view' = view
    BY <1>2, <1>9 DEF StatementFails, Open
<1>10. CASE \/ \E u \in Users : Revoke(u) \/ \E s \in Exchanges : ShowPage(u, s)
            \/ Cleanup
            \/ \E s \in Exchanges : GrowOld(s)
            \/ ClientChanges
            \/ UNCHANGED vars
    BY <1>10 DEF Revoke, ShowPage, Cleanup, GrowOld, ClientChanges, vars, calls, CallsKept
<1>. QED BY <1>3, <1>4, <1>5, <1>6, <1>7, <1>8, <1>9, <1>10 DEF Next

\* The calls that are open together know it, and only calls that were made are
\* known.
TogetherInv ==
    /\ \A c, d \in Calls : Open(c) /\ Open(d) /\ c # d => d \in beside[c]
    /\ \A c \in Calls : \A d \in beside[c] : pc[d] # "idle"

\* That calls know who is beside them is inductive.
LEMMA TogetherStep == TypeInv /\ TogetherInv /\ [Next]_vars => TogetherInv'
<1>. SUFFICES ASSUME TypeInv, TogetherInv, [Next]_vars PROVE TogetherInv'
    OBVIOUS
<1>0. /\ \A c \in Calls : pc[c] # "idle" => pc'[c] # "idle" /\ beside[c] \subseteq beside'[c]
      /\ \A c \in Calls : Open(c)' => Open(c) \/ pc[c] = "idle"
    <2>1. CallsKept
        BY Kept
    <2>2. ASSUME NEW c \in Calls, Open(c)', ~Open(c) PROVE pc[c] = "idle"
        BY <2>1, <2>2 DEF CallsKept, Open, TypeInv, TypeOK, Places
    <2>. QED BY <2>1, <2>2 DEF CallsKept
<1>1. ASSUME NEW c \in Calls, NEW in \in Args, NEW next \in Places \ {"idle"}, Begin(c, in, next)
      PROVE  TogetherInv'
    <2>1. /\ pc[c] = "idle" /\ pc'[c] = next
          /\ \A d \in Calls \ {c} : pc'[d] = pc[d]
          /\ beside'[c] = {d \in Calls : Open(d)}
          /\ \A d \in Calls \ {c} : beside'[d] = IF Open(d) THEN beside[d] \cup {c} ELSE beside[d]
        BY <1>1, Begins
    <2>2. ASSUME NEW d \in Calls, NEW e \in Calls, Open(d)', Open(e)', d # e
          PROVE  e \in beside'[d]
        <3>1. CASE d = c
            BY <2>1, <2>2, <3>1 DEF Open
        <3>2. CASE e = c
            BY <2>1, <2>2, <3>2 DEF Open
        <3>3. CASE d # c /\ e # c
            BY <2>1, <2>2, <3>3 DEF Open, TogetherInv
        <3>. QED BY <3>1, <3>2, <3>3
    <2>3. ASSUME NEW d \in Calls, NEW e \in beside'[d] PROVE pc'[e] # "idle"
        <3>1. e \in Calls
            BY <1>1, Begins
        <3>2. CASE e = c
            BY <2>1, <3>2
        <3>3. CASE e # c /\ d = c
            BY <2>1, <2>3, <3>1, <3>3 DEF Open
        <3>4. CASE e # c /\ d # c
            <4>1. e \in beside[d]
                BY <2>1, <2>3, <3>4
            <4>. QED BY <2>1, <3>1, <3>4, <4>1 DEF TogetherInv
        <3>. QED BY <3>2, <3>3, <3>4
    <2>. QED BY <2>2, <2>3 DEF TogetherInv
<1>2. ASSUME beside' = beside, \A c \in Calls : pc[c] = "idle" => pc'[c] = "idle"
      PROVE  TogetherInv'
    BY <1>0, <1>2 DEF TogetherInv, Open, TypeInv, TypeOK
<1>3. ASSUME NEW p \in Approvals, NEW u \in Users, NEW r \in Requests, ApproveStart(p, u, r)
      PROVE  TogetherInv'
    <2>1. Begin(p, [NoArg EXCEPT !.user = u, !.request = r], "update")
        BY <1>3 DEF ApproveStart
    <2>2. [NoArg EXCEPT !.user = u, !.request = r] \in Args
        BY DEF NoArg, Args
    <2>. QED BY <1>1, <2>1, <2>2, CallsApart DEF Places
<1>4. ASSUME NEW x \in Exchanges, NEW p \in Approvals, NEW right \in BOOLEAN,
             TakeCode(x, p, right)
      PROVE  TogetherInv'
    <2>1. PICK r \in Requests :
              Begin(x, [NoArg EXCEPT !.code = p],
                    IF right /\ requests[r].bound THEN "create" ELSE "failed")
        BY <1>4 DEF TakeCode
    <2>2. PICK next \in {"create", "failed"} : Begin(x, [NoArg EXCEPT !.code = p], next)
        BY <2>1
    <2>3. [NoArg EXCEPT !.code = p] \in Args
        BY DEF NoArg, Args
    <2>. QED BY <1>1, <2>2, <2>3, CallsApart DEF Places
<1>5. ASSUME NEW x \in Exchanges, NEW t \in Exchanges, FindSession(x, t) PROVE TogetherInv'
    <2>1. Begin(x, [NoArg EXCEPT !.token = t], "rotate")
        BY <1>5 DEF FindSession
    <2>2. [NoArg EXCEPT !.token = t] \in Args
        BY DEF NoArg, Args
    <2>. QED BY <1>1, <2>1, <2>2, CallsApart DEF Places
<1>6. ASSUME NEW c \in Calls, NEW result, Answer(c, result), pc[c] # "idle" PROVE TogetherInv'
    BY <1>2, <1>6 DEF Answer, TypeInv, TypeOK
<1>7. CASE \/ \E r \in Requests : RequestExpires(r) \/ \E bound \in BOOLEAN : Push(r, bound)
           \/ \E u \in Users : Revoke(u) \/ \E s \in Exchanges : ShowPage(u, s)
           \/ Cleanup
           \/ \E s \in Exchanges : GrowOld(s)
           \/ ClientChanges
           \/ UNCHANGED vars
    BY <1>2, <1>7 DEF RequestExpires, Push, Revoke, ShowPage, Cleanup, GrowOld, ClientChanges,
           vars, calls
<1>8. CASE \/ \E p \in Approvals : Approve(p)
           \/ \E x \in Exchanges : CreateSession(x) \/ RotateTokens(x)
           \/ \E c \in Calls : StatementFails(c)
    BY <1>6, <1>8, CallsApart DEF Approve, CreateSession, RotateTokens, StatementFails, Open
<1>. QED BY <1>3, <1>4, <1>5, <1>7, <1>8 DEF Next

-----------------------------------------------------------------------------
(* A request, and a code, buy one session.                                 *)

\* The request of the code that an exchange has taken.
RequestOf(x) == arg[arg[x].code].request

\* An exchange that has taken a code: it will store a session, or has.
Bought(x) == pc[x] = "create" \/ Stored(x)

Taken(r) == requests[r] # None /\ ~requests[r].there

\* The code of a request was given out by the last approval to come, whose user
\* it names.
CodeInv ==
    \A r \in Requests : requests[r] # None /\ requests[r].code # None =>
        LET p == requests[r].code
        IN  p \in Approvals /\ pc[p] = "ok" /\ arg[p].request = r /\ arg[p].user = requests[r].sub

\* What was bought was bought with a code that had been given out; its request is
\* gone.
PurchaseInv ==
    \A x \in Exchanges : Bought(x) =>
        /\ arg[x].code \in Approvals /\ pc[arg[x].code] = "ok"
        /\ RequestOf(x) \in Requests /\ Taken(RequestOf(x))
        /\ pc[x] = "create" => ~Stored(x) /\ view[x] = arg[arg[x].code].user
        /\ Stored(x) => /\ pc[x] = "ok" /\ sessions[x].code = arg[x].code
                        /\ sessions[x].sub = arg[arg[x].code].user

OnceInv ==
    \A x, y \in Exchanges : Bought(x) /\ Bought(y) /\ RequestOf(x) = RequestOf(y) => x = y

\* OneSessionPerRequest is not inductive: an exchange takes the user from a
\* request's row when it deletes it, and stores the session later.
SessionInv == CodeInv /\ PurchaseInv /\ OnceInv

\* What was bought stays bought when nobody takes a code or stores a session, and
\* no request comes back.
LEMMA BuysNothing ==
    ASSUME TypeInv, SessionInv, [Next]_vars,
           \A r \in Requests : Taken(r) => Taken(r)',
           \A x \in Exchanges : Stored(x)' => Stored(x) /\
               sessions'[x].code = sessions[x].code /\ sessions'[x].sub = sessions[x].sub,
           \A x \in Exchanges : pc'[x] = "create" => pc[x] = "create"
    PROVE  PurchaseInv' /\ OnceInv'
<1>. USE CallsApart DEF TypeInv, TypeOK
<1>0. CallsKept /\ \A x \in Exchanges : pc[x] # "idle" => view'[x] = view[x]
    BY Kept
<1>1. \A x \in Exchanges : Bought(x)' => Bought(x) /\ arg'[x] = arg[x]
    BY <1>0 DEF Bought, CallsKept, SessionInv, PurchaseInv
<1>2. \A p \in Approvals : pc[p] = "ok" => pc'[p] = "ok" /\ arg'[p] = arg[p]
    BY <1>0 DEF CallsKept
<1>3. ASSUME NEW x \in Exchanges, Bought(x)'
      PROVE  /\ Bought(x) /\ arg'[x] = arg[x] /\ RequestOf(x)' = RequestOf(x)
             /\ arg[x].code \in Approvals /\ pc[arg[x].code] = "ok"
    BY <1>1, <1>2, <1>3 DEF SessionInv, PurchaseInv, RequestOf
<1>4. PurchaseInv'
    <2>1. SUFFICES ASSUME NEW x \in Exchanges, Bought(x)'
                   PROVE  /\ arg'[x].code \in Approvals /\ pc'[arg'[x].code] = "ok"
                          /\ RequestOf(x)' \in Requests /\ Taken(RequestOf(x))'
                          /\ pc'[x] = "create" =>
                                 ~Stored(x)' /\ view'[x] = arg'[arg'[x].code].user
                          /\ Stored(x)' =>
                                 /\ pc'[x] = "ok" /\ sessions'[x].code = arg'[x].code
                                 /\ sessions'[x].sub = arg'[arg'[x].code].user
        BY DEF PurchaseInv
    <2>2. /\ Bought(x) /\ arg'[x] = arg[x] /\ RequestOf(x)' = RequestOf(x)
          /\ arg[x].code \in Approvals /\ pc'[arg[x].code] = "ok"
          /\ arg'[arg[x].code] = arg[arg[x].code]
        BY <1>2, <1>3, <2>1
    <2>3. /\ RequestOf(x) \in Requests /\ Taken(RequestOf(x))
          /\ pc[x] = "create" => ~Stored(x) /\ view[x] = arg[arg[x].code].user
          /\ Stored(x) => /\ pc[x] = "ok" /\ sessions[x].code = arg[x].code
                          /\ sessions[x].sub = arg[arg[x].code].user
        BY <2>2 DEF SessionInv, PurchaseInv
    <2>4. Taken(RequestOf(x))'
        BY <2>2, <2>3 DEF Taken
    <2>5. pc'[x] = "create" => ~Stored(x)' /\ view'[x] = arg[arg[x].code].user
        BY <1>0, <2>3
    <2>6. Stored(x)' => /\ pc'[x] = "ok" /\ sessions'[x].code = arg[x].code
                        /\ sessions'[x].sub = arg[arg[x].code].user
        BY <1>0, <2>3 DEF CallsKept
    <2>. QED BY <2>2, <2>3, <2>4, <2>5, <2>6
<1>5. OnceInv'
    BY <1>3 DEF SessionInv, OnceInv
<1>. QED BY <1>4, <1>5

\* What a code stands for stays when no request gets another.
LEMMA CodesKept ==
    ASSUME TypeInv, SessionInv, [Next]_vars,
           \A r \in Requests : requests'[r] # None /\ requests'[r].code # None =>
               /\ requests[r] # None
               /\ requests'[r].code = requests[r].code /\ requests'[r].sub = requests[r].sub
    PROVE  CodeInv'
<1>1. \A p \in Approvals : pc[p] = "ok" => pc'[p] = "ok" /\ arg'[p] = arg[p]
    BY Kept, CallsApart DEF CallsKept
<1>. QED BY <1>1 DEF SessionInv, CodeInv

\* The requests and the approval of a request.
LEMMA ApprovalOnce ==
    ASSUME TypeInv, SessionInv, [Next]_vars,
           \/ \E r \in Requests : RequestExpires(r) \/ \E bound \in BOOLEAN : Push(r, bound)
           \/ \E p \in Approvals :
                 \/ \E u \in Users, r \in Requests : ApproveStart(p, u, r)
                 \/ Approve(p)
    PROVE  SessionInv'
<1>. USE CallsApart DEF TypeInv, TypeOK
<1>1. ASSUME NEW r \in Requests, RequestExpires(r) PROVE SessionInv'
    <2>1. /\ requests[r] \in RequestRow
          /\ requests' = [requests EXCEPT ![r] = [requests[r] EXCEPT !.fresh = FALSE]]
        BY <1>1 DEF RequestExpires, IsRequest
    <2>2. \A q \in Requests : requests'[q] # None =>
              /\ requests[q] # None /\ requests'[q].there = requests[q].there
              /\ requests'[q].code = requests[q].code /\ requests'[q].sub = requests[q].sub
        BY <2>1, RowsAreThere DEF RequestRow
    <2>3. \A q \in Requests : Taken(q) => Taken(q)'
        BY <1>1, <2>1 DEF Taken, RequestExpires, IsRequest
    <2>4. UNCHANGED <<sessions, pc>>
        BY <1>1 DEF RequestExpires, calls
    <2>. QED BY <2>2, <2>3, <2>4, BuysNothing, CodesKept DEF SessionInv, Stored
<1>2. ASSUME NEW r \in Requests, NEW bound \in BOOLEAN, Push(r, bound) PROVE SessionInv'
    <2>1. /\ requests[r] = None /\ requests'[r].code = None
          /\ \A q \in Requests \ {r} : requests'[q] = requests[q]
        BY <1>2 DEF Push
    <2>2. \A q \in Requests : Taken(q) => Taken(q)'
        BY <2>1 DEF Taken
    <2>3. UNCHANGED <<sessions, pc>>
        BY <1>2 DEF Push, calls
    <2>. QED BY <2>1, <2>2, <2>3, BuysNothing, CodesKept DEF SessionInv, Stored
<1>3. ASSUME NEW p \in Approvals, NEW u \in Users, NEW r \in Requests, ApproveStart(p, u, r)
      PROVE  SessionInv'
    <2>1. UNCHANGED <<requests, sessions>> /\ \A x \in Exchanges : pc'[x] = pc[x]
        BY <1>3 DEF ApproveStart, Begin, rows
    <2>. QED BY <2>1, BuysNothing, CodesKept DEF SessionInv, Stored, Taken
<1>4. ASSUME NEW p \in Approvals, Approve(p) PROVE SessionInv'
    <2>. DEFINE q == arg[p].request
    <2>1. pc[p] = "update" /\ Answer(p, "ok") /\ sessions' = sessions
        BY <1>4 DEF Approve
    <2>2. pc'[p] = "ok" /\ arg' = arg /\ \A d \in Calls \ {p} : pc'[d] = pc[d]
        BY <2>1, Answers DEF Places
    <2>3. q \in Requests
        BY <2>1 DEF Asked
    <2>4. CASE requests' = requests
        BY <2>1, <2>2, <2>4, BuysNothing, CodesKept DEF SessionInv, Stored, Taken
    <2>5. CASE requests' # requests
        <3>1. IsRequest(q) /\ requests' = [requests EXCEPT ![q] = Approved(requests[q], p)]
            BY <1>4, <2>5 DEF Approve
        <3>2. requests[q] \in RequestRow
            BY <2>3, <3>1 DEF IsRequest
        <3>3. requests'[q].code = p /\ requests'[q].sub = arg[p].user
            BY <2>3, <3>1, <3>2 DEF Approved, RequestRow
        <3>4. \A r \in Requests : Taken(r) => Taken(r)'
            BY <2>3, <3>1 DEF Taken, IsRequest
        <3>5. \A r \in Requests \ {q} : requests'[r] = requests[r]
            BY <3>1
        <3>6. CodeInv'
            <4>1. ASSUME NEW r \in Requests, requests'[r] # None, requests'[r].code # None,
                         NEW c, c = requests'[r].code
                  PROVE  c \in Approvals /\ pc'[c] = "ok" /\ arg'[c].request = r
                         /\ arg'[c].user = requests'[r].sub
                <5>1. CASE r = q
                    BY <2>2, <3>3, <4>1, <5>1
                <5>2. CASE r # q
                    <6>1. c \in Approvals /\ pc[c] = "ok" /\ arg[c].request = r
                          /\ arg[c].user = requests[r].sub
                        BY <3>5, <4>1, <5>2 DEF SessionInv, CodeInv
                    <6>2. requests'[r].sub = requests[r].sub /\ c # p
                        BY <2>1, <3>5, <5>2, <6>1
                    <6>. QED BY <2>2, <6>1, <6>2
                <5>. QED BY <5>1, <5>2
            <4>. QED BY <4>1 DEF CodeInv
        <3>7. PurchaseInv' /\ OnceInv'
            BY <2>1, <2>2, <3>4, BuysNothing DEF Stored
        <3>. QED BY <3>6, <3>7 DEF SessionInv
    <2>. QED BY <2>4, <2>5
<1>. QED BY <1>1, <1>2, <1>3, <1>4

\* The first exchange of a code takes its request away, and with it what other
\* exchanges of it could find.
LEMMA TakeOnce ==
    ASSUME TypeInv, SessionInv, [Next]_vars, NEW x \in Exchanges, NEW p \in Approvals,
           NEW right \in BOOLEAN, TakeCode(x, p, right)
    PROVE  SessionInv'
<1>. USE CallsApart DEF TypeInv, TypeOK
<1>. DEFINE in == [NoArg EXCEPT !.code = p]
<1>0. CallsKept /\ \A y \in Exchanges : pc[y] # "idle" => view'[y] = view[y]
    BY Kept
<1>1. in \in Args /\ in.code = p
    BY DEF NoArg, Args
<1>2. PICK r \in Requests :
          /\ IsRequest(r) /\ requests[r].code = p
          /\ requests' = [requests EXCEPT ![r].there = FALSE]
          /\ view' = [view EXCEPT ![x] = requests[r].sub]
          /\ Begin(x, in, IF right /\ requests[r].bound THEN "create" ELSE "failed")
    BY DEF TakeCode
<1>3. PICK next \in {"create", "failed"} : Begin(x, in, next)
    BY <1>2
<1>. HIDE DEF in
<1>4. /\ pc[x] = "idle" /\ pc'[x] = next /\ arg'[x] = in
      /\ \A d \in Calls \ {x} : pc'[d] = pc[d] /\ arg'[d] = arg[d]
    BY <1>1, <1>3, Begins DEF Places
<1>5. sessions' = sessions /\ ~Stored(x)
    BY <1>4 DEF TakeCode, SessionInv, PurchaseInv, Bought
<1>6. requests[r] \in RequestRow /\ pc[p] = "ok"
    BY <1>2 DEF TakeCode, IsRequest
<1>7. \A q \in Requests : requests'[q] # None =>
          /\ requests[q] # None
          /\ requests'[q].code = requests[q].code /\ requests'[q].sub = requests[q].sub
    BY <1>2, <1>6 DEF IsRequest, RequestRow
<1>8. CodeInv'
    BY <1>7, CodesKept
<1>9. (\A q \in Requests : Taken(q) => Taken(q)') /\ Taken(r)'
    <2>1. requests' = [requests EXCEPT ![r] = [requests[r] EXCEPT !.there = FALSE]]
        BY <1>2
    <2>2. [requests[r] EXCEPT !.there = FALSE] # None
        BY <1>6, RowsAreThere DEF RequestRow
    <2>. QED BY <1>2, <1>6, <2>1, <2>2 DEF Taken, IsRequest, RequestRow
<1>10. CASE next = "failed"
    BY <1>4, <1>5, <1>8, <1>9, <1>10, BuysNothing DEF SessionInv, Stored
<1>11. CASE next = "create"
    <2>1. arg[p].request = r /\ arg[p].user = requests[r].sub /\ arg'[p] = arg[p] /\ pc'[p] = "ok"
        BY <1>0, <1>2, <1>6 DEF SessionInv, CodeInv, IsRequest, CallsKept
    <2>2. /\ arg'[x].code = p /\ RequestOf(x)' = r
          /\ view'[x] = arg'[p].user /\ ~Stored(x)' /\ pc'[x] = "create"
        BY <1>1, <1>2, <1>4, <1>5, <1>11, <2>1 DEF RequestOf, Stored
    <2>3. ASSUME NEW y \in Exchanges \ {x}, Bought(y)'
          PROVE  /\ Bought(y) /\ arg'[y] = arg[y] /\ pc'[y] = pc[y] /\ Stored(y)' = Stored(y)
                 /\ arg[y].code \in Approvals /\ pc[arg[y].code] = "ok"
                 /\ arg'[arg[y].code] = arg[arg[y].code] /\ pc'[arg[y].code] = "ok"
                 /\ RequestOf(y)' = RequestOf(y)
        <3>1. Bought(y) /\ arg'[y] = arg[y] /\ pc'[y] = pc[y] /\ Stored(y)' = Stored(y)
            BY <1>4, <1>5, <2>3 DEF Bought, Stored
        <3>2. arg[y].code \in Approvals /\ pc[arg[y].code] = "ok"
            BY <3>1 DEF SessionInv, PurchaseInv
        <3>3. arg'[arg[y].code] = arg[arg[y].code] /\ pc'[arg[y].code] = "ok"
            BY <1>0, <3>2 DEF CallsKept
        <3>. QED BY <3>1, <3>2, <3>3 DEF RequestOf
    <2>4. ASSUME NEW y \in Exchanges \ {x}, Bought(y)'
          PROVE  RequestOf(y) \in Requests /\ Taken(RequestOf(y)) /\ RequestOf(y) # r
        BY <1>2, <2>3, <2>4 DEF SessionInv, PurchaseInv, Taken, IsRequest
    <2>5. PurchaseInv'
        <3>1. SUFFICES ASSUME NEW y \in Exchanges, Bought(y)'
                       PROVE  /\ arg'[y].code \in Approvals /\ pc'[arg'[y].code] = "ok"
                              /\ RequestOf(y)' \in Requests /\ Taken(RequestOf(y))'
                              /\ pc'[y] = "create" =>
                                     ~Stored(y)' /\ view'[y] = arg'[arg'[y].code].user
                              /\ Stored(y)' =>
                                     /\ pc'[y] = "ok" /\ sessions'[y].code = arg'[y].code
                                     /\ sessions'[y].sub = arg'[arg'[y].code].user
            BY DEF PurchaseInv
        <3>2. CASE y = x
            BY <1>9, <2>1, <2>2, <3>2
        <3>3. CASE y # x
            <4>1. Taken(RequestOf(y))' /\ RequestOf(y)' \in Requests
                BY <1>9, <2>3, <2>4, <3>1, <3>3 DEF Taken
            <4>2. /\ pc[y] = "create" => ~Stored(y) /\ view[y] = arg[arg[y].code].user
                  /\ Stored(y) => /\ pc[y] = "ok" /\ sessions[y].code = arg[y].code
                                  /\ sessions[y].sub = arg[arg[y].code].user
                BY <2>3, <3>1, <3>3 DEF SessionInv, PurchaseInv
            <4>3. view'[y] = view[y]
                BY <1>2, <3>3
            <4>. QED BY <1>5, <2>3, <3>1, <3>3, <4>1, <4>2, <4>3
        <3>. QED BY <3>2, <3>3
    <2>6. OnceInv'
        <3>1. SUFFICES ASSUME NEW y \in Exchanges, NEW z \in Exchanges, Bought(y)', Bought(z)',
                              RequestOf(y)' = RequestOf(z)'
                       PROVE  y = z
            BY DEF OnceInv
        <3>2. CASE y = x \/ z = x
            BY <2>2, <2>3, <2>4, <3>1, <3>2
        <3>3. CASE y # x /\ z # x
            BY <2>3, <3>1, <3>3 DEF SessionInv, OnceInv
        <3>. QED BY <3>2, <3>3
    <2>. QED BY <1>8, <2>5, <2>6 DEF SessionInv
<1>. QED BY <1>10, <1>11

\* The session is stored for the user who was read with the code.
LEMMA CreateOnce ==
    ASSUME TypeInv, SessionInv, [Next]_vars, NEW x \in Exchanges, CreateSession(x)
    PROVE  SessionInv'
<1>. USE CallsApart DEF TypeInv, TypeOK
<1>. DEFINE row == [sub |-> view[x], code |-> arg[x].code, token |-> x, refresh |-> x,
                    method |-> client.method, idle |-> 0, old |-> 0]
<1>1. /\ pc[x] = "create" /\ Answer(x, "ok")
      /\ sessions' = [sessions EXCEPT ![x] = row] /\ requests' = requests /\ view' = view
    BY DEF CreateSession
<1>2. /\ pc'[x] = "ok" /\ \A d \in Calls \ {x} : pc'[d] = pc[d]
      /\ arg' = arg
    BY <1>1, Answers DEF Places
<1>3. sessions'[x].code = arg[x].code /\ sessions'[x].sub = view[x]
      /\ \A y \in Exchanges \ {x} : sessions'[y] = sessions[y]
    BY <1>1
<1>4. \A y \in Exchanges : Bought(y)' => Bought(y)
    BY <1>1, <1>2, <1>3 DEF Bought, Stored
<1>5. \A p \in Approvals : pc'[p] = pc[p]
    BY <1>2
<1>6. PurchaseInv'
    <2>1. SUFFICES ASSUME NEW y \in Exchanges, Bought(y)'
                   PROVE  /\ arg[y].code \in Approvals /\ pc'[arg[y].code] = "ok"
                          /\ RequestOf(y) \in Requests /\ Taken(RequestOf(y))
                          /\ pc'[y] = "create" => ~Stored(y)' /\ view[y] = arg[arg[y].code].user
                          /\ Stored(y)' => /\ pc'[y] = "ok" /\ sessions'[y].code = arg[y].code
                                           /\ sessions'[y].sub = arg[arg[y].code].user
        BY <1>1, <1>2 DEF PurchaseInv, RequestOf, Taken
    <2>2. /\ arg[y].code \in Approvals /\ pc[arg[y].code] = "ok"
          /\ RequestOf(y) \in Requests /\ Taken(RequestOf(y))
          /\ pc[y] = "create" => ~Stored(y) /\ view[y] = arg[arg[y].code].user
          /\ Stored(y) => /\ pc[y] = "ok" /\ sessions[y].code = arg[y].code
                          /\ sessions[y].sub = arg[arg[y].code].user
        BY <1>4, <2>1 DEF SessionInv, PurchaseInv
    <2>3. CASE y = x
        BY <1>1, <1>2, <1>3, <1>5, <2>2, <2>3
    <2>4. CASE y # x
        BY <1>2, <1>3, <1>5, <2>2, <2>4 DEF Stored
    <2>. QED BY <2>3, <2>4
<1>7. OnceInv'
    BY <1>2, <1>4 DEF SessionInv, OnceInv, RequestOf
<1>8. CodeInv'
    BY <1>1, CodesKept
<1>. QED BY <1>6, <1>7, <1>8 DEF SessionInv

\* Nothing else stores a session, or changes whose it is.
LEMMA OtherOnce ==
    ASSUME TypeInv, SessionInv, [Next]_vars,
           \/ \E x \in Exchanges : RotateTokens(x) \/ \E t \in Exchanges : FindSession(x, t)
           \/ \E c \in Calls : StatementFails(c)
           \/ \E u \in Users : Revoke(u) \/ \E s \in Exchanges : ShowPage(u, s)
           \/ Cleanup
           \/ \E s \in Exchanges : GrowOld(s)
           \/ ClientChanges
           \/ UNCHANGED vars
    PROVE  SessionInv'
<1>. USE CallsApart DEF TypeInv, TypeOK
<1>1. requests' = requests
    BY DEF RotateTokens, FindSession, StatementFails, Revoke, ShowPage, Cleanup, GrowOld,
           ClientChanges, vars, rows
<1>2. \A x \in Exchanges : pc'[x] = "create" => pc[x] = "create"
    BY DEF RotateTokens, FindSession, StatementFails, Revoke, ShowPage, Cleanup, GrowOld,
           ClientChanges, vars, rows, calls, Begin, Answer
<1>3. ASSUME NEW s \in Exchanges
      PROVE  Stored(s)' => /\ Stored(s) /\ sessions'[s].code = sessions[s].code
                           /\ sessions'[s].sub = sessions[s].sub
    <2>1. ASSUME NEW x \in Exchanges, RotateTokens(x)
          PROVE  \/ sessions'[s] = sessions[s]
                 \/ Stored(s) /\ sessions'[s] = Rotated(sessions[s], x)
        BY <2>1 DEF RotateTokens
    <2>2. ASSUME NEW t \in Exchanges, GrowOld(t)
          PROVE  \/ sessions'[s] = sessions[s]
                 \/ /\ Stored(s)
                    /\ \E i \in 0..ThreeMonths, o \in 0..TwoYears :
                           sessions'[s] = [sessions[s] EXCEPT !.idle = i, !.old = o]
        <3>1. PICK i \in 0..ThreeMonths, o \in 0..TwoYears :
                  sessions' = [sessions EXCEPT ![t].idle = i, ![t].old = o]
            BY <2>2 DEF GrowOld
        <3>. QED BY <2>2, <3>1 DEF GrowOld
    <2>3. CASE \/ \E u \in Users : Revoke(u)
               \/ Cleanup
        BY <2>3 DEF Revoke, Cleanup, DeleteSessions, Stored
    <2>4. CASE \/ \E x \in Exchanges, t \in Exchanges : FindSession(x, t)
               \/ \E c \in Calls : StatementFails(c)
               \/ \E u \in Users, t \in Exchanges : ShowPage(u, t)
               \/ ClientChanges
               \/ UNCHANGED vars
        BY <2>4 DEF FindSession, StatementFails, ShowPage, ClientChanges, vars, rows, Stored
    <2>5. ASSUME Stored(s), NEW x, sessions'[s] = Rotated(sessions[s], x)
          PROVE  sessions'[s].code = sessions[s].code /\ sessions'[s].sub = sessions[s].sub
        BY <2>5 DEF Stored, Rotated, SessionRow
    <2>6. ASSUME Stored(s), NEW i, NEW o,
                 sessions'[s] = [sessions[s] EXCEPT !.idle = i, !.old = o]
          PROVE  sessions'[s].code = sessions[s].code /\ sessions'[s].sub = sessions[s].sub
        BY <2>6 DEF Stored, SessionRow
    <2>. QED BY <2>1, <2>2, <2>3, <2>4, <2>5, <2>6 DEF Stored
<1>. QED BY <1>1, <1>2, <1>3, BuysNothing, CodesKept DEF SessionInv, Taken

\* What a code buys is inductive.
LEMMA SessionStep == TypeInv /\ SessionInv /\ [Next]_vars => SessionInv'
BY ApprovalOnce, TakeOnce, CreateOnce, OtherOnce DEF Next

\* At first nothing was bought.
LEMMA SessionInit == Init => SessionInv
BY CallsApart DEF Init, SessionInv, CodeInv, PurchaseInv, OnceInv, Bought, Stored

\* However approvals and exchanges of a request overlap, it buys one session at
\* most, and that of the user whose approval made the code.
THEOREM RequestsBuyOnce == Spec => []OneSessionPerRequest
<1>1. SessionInv => OneSessionPerRequest
    BY DEF SessionInv, PurchaseInv, OnceInv, Bought, RequestOf, OneSessionPerRequest
<1>. QED BY TypeInit, TypeStep, SessionInit, SessionStep, <1>1, PTL DEF Spec

-----------------------------------------------------------------------------
(* What becomes of a session.                                              *)

\* A rotation finds the session.
Rotates(s, x) == /\ pc[x] = "rotate" /\ pc'[x] = "ok"
                 /\ sessions[s].refresh = arg[x].token
                 /\ sessions'[s].token = x /\ sessions'[s].refresh = x

\* A session ends by its user's revocation or when it can no longer be refreshed.
EndsRightly(s) == /\ s \in ended'
                  /\ \/ \E u \in Users : page[u] = sessions[s].token /\ page'[u] = None
                     \/ ~Alive(sessions[s])

\* What the clean-up deletes could not be refreshed any more.
LEMMA CutoffIsDead ==
    ASSUME TypeInv, NEW s \in Cutoff
    PROVE  s \in Exchanges /\ Stored(s) /\ ~Alive(sessions[s])
<1>1. s \in Exchanges /\ Stored(s) /\ sessions[s].idle >= ThreeMonths
    BY DEF Cutoff
<1>2. sessions[s].idle \in 0..ThreeMonths
    BY <1>1 DEF TypeInv, TypeOK, Stored, SessionRow
<1>3. RefreshLifetime(sessions[s]) \in {TwoWeeks, ThreeMonths}
    BY DEF RefreshLifetime
<1>. QED BY <1>1, <1>2, <1>3 DEF Alive, TwoWeeks, ThreeMonths

\* A step stores a session, ends it, gives it new tokens, or leaves its tokens alone.
LEMMA Fates ==
    ASSUME TypeInv, SessionInv, [Next]_vars, NEW s \in Exchanges
    PROVE  /\ s \in ended => s \in ended'
           /\ s \in ended' => s \in ended \/ (Stored(s) /\ ~Stored(s)')
           /\ ~Stored(s) /\ Stored(s)' => pc[s] = "create"
           /\ Stored(s) /\ ~Stored(s)' => EndsRightly(s)
           /\ Stored(s) /\ Stored(s)' =>
                  \/ /\ sessions'[s].token = sessions[s].token
                     /\ sessions'[s].refresh = sessions[s].refresh
                  \/ \E x \in Exchanges : Rotates(s, x)
<1>. USE CallsApart DEF TypeInv, TypeOK
<1>1. CASE \/ \E r \in Requests : RequestExpires(r) \/ \E bound \in BOOLEAN : Push(r, bound)
           \/ \E p \in Approvals :
                 \/ \E u \in Users, r \in Requests : ApproveStart(p, u, r)
                 \/ Approve(p)
           \/ \E x \in Exchanges, t \in Exchanges : FindSession(x, t)
           \/ \E x \in Exchanges, p \in Approvals, right \in BOOLEAN : TakeCode(x, p, right)
           \/ \E c \in Calls : StatementFails(c)
           \/ \E u \in Users, t \in Exchanges : ShowPage(u, t)
           \/ ClientChanges
           \/ UNCHANGED vars
    <2>1. sessions' = sessions /\ ended' = ended
        BY <1>1 DEF RequestExpires, Push, ApproveStart, Approve, FindSession, TakeCode,
               StatementFails, ShowPage, ClientChanges, vars, rows
    <2>. QED BY <2>1 DEF Stored
<1>2. ASSUME NEW x \in Exchanges, CreateSession(x)
      PROVE  /\ ended' = ended /\ pc[x] = "create" /\ ~Stored(x)
             /\ x # s => sessions'[s] = sessions[s]
    <2>1. ended' = ended /\ pc[x] = "create"
        BY <1>2 DEF CreateSession
    <2>2. ~Stored(x)
        BY <2>1 DEF SessionInv, PurchaseInv, Bought
    <2>3. x # s => sessions'[s] = sessions[s]
        BY <1>2 DEF CreateSession
    <2>. QED BY <2>1, <2>2, <2>3
<1>3. ASSUME NEW x \in Exchanges, RotateTokens(x)
      PROVE  /\ ended' = ended /\ Stored(s)' = Stored(s)
             /\ sessions'[s] # sessions[s] => Rotates(s, x)
    <2>1. /\ pc[x] = "rotate" /\ Answer(x, "ok") /\ ended' = ended
          /\ sessions'[s] = IF Stored(s) /\ sessions[s].refresh = arg[x].token
                            THEN Rotated(sessions[s], x) ELSE sessions[s]
        BY <1>3 DEF RotateTokens
    <2>2. pc'[x] = "ok"
        BY <2>1, Answers DEF Places
    <2>3. CASE sessions'[s] = sessions[s]
        BY <2>1, <2>3 DEF Stored
    <2>4. CASE sessions'[s] # sessions[s]
        <3>1. Stored(s) /\ sessions[s].refresh = arg[x].token
              /\ sessions'[s] = Rotated(sessions[s], x)
            BY <2>1, <2>4
        <3>2. sessions[s] \in SessionRow
            BY <3>1 DEF Stored
        <3>0. 0 \in 0..ThreeMonths
            BY DEF ThreeMonths
        <3>3. sessions'[s] \in SessionRow /\ sessions'[s].token = x /\ sessions'[s].refresh = x
            BY <3>0, <3>1, <3>2 DEF Rotated, SessionRow
        <3>4. Stored(s)'
            BY <3>3, RowsAreThere DEF Stored
        <3>. QED BY <2>1, <2>2, <3>1, <3>3, <3>4 DEF Rotates
    <2>. QED BY <2>3, <2>4
<1>4. ASSUME NEW S \in SUBSET Exchanges, DeleteSessions(S), \A t \in S : Stored(t)
      PROVE  /\ s \in S => ~Stored(s)' /\ Stored(s) /\ s \in ended'
             /\ s \notin S => sessions'[s] = sessions[s] /\ (s \in ended <=> s \in ended')
             /\ ended \subseteq ended'
    BY <1>4 DEF DeleteSessions, Stored
<1>5. ASSUME NEW u \in Users, Revoke(u)
      PROVE  /\ ended \subseteq ended'
             /\ \/ /\ Stored(s) /\ ~Stored(s)' /\ s \in ended'
                   /\ page[u] = sessions[s].token /\ page'[u] = None
                \/ sessions'[s] = sessions[s] /\ (s \in ended <=> s \in ended')
    <2>. DEFINE S == {t \in Exchanges : /\ Stored(t) /\ sessions[t].sub = u
                                        /\ sessions[t].token = page[u]}
    <2>1. DeleteSessions(S) /\ page'[u] = None
        BY <1>5 DEF Revoke
    <2>2. \A t \in S : Stored(t) /\ sessions[t].token = page[u]
        OBVIOUS
    <2>3. S \subseteq Exchanges
        OBVIOUS
    <2>. HIDE DEF S
    <2>. QED BY <1>4, <2>1, <2>2, <2>3
<1>6. ASSUME Cleanup
      PROVE  /\ ended \subseteq ended'
             /\ \/ Stored(s) /\ ~Stored(s)' /\ s \in ended' /\ ~Alive(sessions[s])
                \/ sessions'[s] = sessions[s] /\ (s \in ended <=> s \in ended')
    <2>1. DeleteSessions(Cutoff)
        BY <1>6 DEF Cleanup
    <2>. QED BY <1>4, <2>1, CutoffIsDead
<1>7. ASSUME NEW t \in Exchanges, GrowOld(t)
      PROVE  /\ ended' = ended
             /\ \/ sessions'[s] = sessions[s]
                \/ /\ Stored(s) /\ Stored(s)' /\ sessions'[s].token = sessions[s].token
                   /\ sessions'[s].refresh = sessions[s].refresh
    <2>1. PICK i \in 0..ThreeMonths, o \in 0..TwoYears :
              sessions' = [sessions EXCEPT ![t].idle = i, ![t].old = o]
        BY <1>7 DEF GrowOld
    <2>2. CASE s # t
        BY <1>7, <2>1, <2>2 DEF GrowOld
    <2>3. CASE s = t
        <3>1. sessions[s] \in SessionRow /\ Stored(s)
            BY <1>7, <2>3 DEF GrowOld, Stored
        <3>2. sessions'[s] = [sessions[s] EXCEPT !.idle = i, !.old = o]
            BY <2>1, <2>3
        <3>3. sessions'[s] \in SessionRow /\ sessions'[s].token = sessions[s].token
              /\ sessions'[s].refresh = sessions[s].refresh
            BY <3>1, <3>2 DEF SessionRow
        <3>. QED BY <1>7, <3>1, <3>3, RowsAreThere DEF GrowOld, Stored
    <2>. QED BY <2>2, <2>3
<1>8. CASE \E x \in Exchanges : CreateSession(x) \/ RotateTokens(x)
    BY <1>2, <1>3, <1>8 DEF Stored
<1>9. CASE \/ \E u \in Users : Revoke(u)
           \/ Cleanup
           \/ \E t \in Exchanges : GrowOld(t)
    BY <1>5, <1>6, <1>7, <1>9 DEF Stored, EndsRightly
<1>. QED BY <1>1, <1>8, <1>9 DEF Next

\* An ended session had been stored by an exchange that was answered.
EndedInv == \A s \in ended : ~Stored(s) /\ pc[s] = "ok"

\* That ended sessions stay ended is inductive.
LEMMA EndedStep == TypeInv /\ SessionInv /\ EndedInv /\ [Next]_vars => EndedInv'
<1>. SUFFICES ASSUME TypeInv, SessionInv, EndedInv, [Next]_vars, NEW s \in ended'
              PROVE  ~Stored(s)' /\ pc'[s] = "ok"
    BY DEF EndedInv
<1>1. s \in Exchanges
    BY TypeStep DEF TypeInv, TypeOK
<1>2. /\ s \in ended \/ (Stored(s) /\ ~Stored(s)')
      /\ ~Stored(s) /\ Stored(s)' => pc[s] = "create"
    BY <1>1, Fates
<1>3. pc[s] = "ok"
    BY <1>1, <1>2 DEF EndedInv, SessionInv, PurchaseInv, Bought
<1>4. pc'[s] = "ok"
    BY <1>1, <1>3, Kept, CallsApart DEF CallsKept
<1>. QED BY <1>2, <1>3, <1>4 DEF EndedInv

\* A session ends by its user's revocation or when it can no longer be refreshed,
\* and an ended one does not come back.
THEOREM EndedForGood == Spec => SessionsEndOnce
<1>1. TypeInv /\ SessionInv /\ EndedInv /\ [Next]_vars =>
          [\A s \in Exchanges :
              /\ Stored(s) /\ sessions'[s] = None =>
                    \/ \E u \in Users : page[u] = sessions[s].token /\ page'[u] = None
                    \/ ~Alive(sessions[s])
              /\ s \in ended => sessions'[s] = None]_vars
    <2>. SUFFICES ASSUME TypeInv, SessionInv, EndedInv, [Next]_vars, NEW s \in Exchanges
                  PROVE  /\ Stored(s) /\ sessions'[s] = None =>
                               \/ \E u \in Users : page[u] = sessions[s].token /\ page'[u] = None
                               \/ ~Alive(sessions[s])
                         /\ s \in ended => sessions'[s] = None
        OBVIOUS
    <2>1. Stored(s) /\ sessions'[s] = None => EndsRightly(s)
        BY Fates DEF Stored
    <2>2. s \in ended => sessions'[s] = None
        BY Fates DEF EndedInv, Stored
    <2>. QED BY <2>1, <2>2 DEF EndsRightly
<1>2. Init => EndedInv
    BY DEF Init, EndedInv
<1>. QED BY TypeInit, TypeStep, SessionInit, SessionStep, EndedStep, <1>1, <1>2, PTL
         DEF Spec, SessionsEndOnce

-----------------------------------------------------------------------------
(* The tokens that a refresh answers with.                                 *)

\* The tokens of a refresh may be good no longer: the session was ended, or another
\* refresh of the same token was open beside it.
Overtaken(x) == \/ view[x] \in ended
                \/ \E y \in Exchanges : arg[y].token = arg[x].token /\ y \in beside[x]

\* AnsweredTokensExist is not inductive: a refresh that is under way has its session
\* and the session has its token, or has been overtaken; and of the session that
\* an answered refresh had, the tokens are its own until they are exchanged.
TokenInv ==
    \A x \in Exchanges :
        /\ pc[x] = "create" => arg[x].token = None
        /\ pc[x] = "rotate" =>
               \/ Stored(view[x]) /\ sessions[view[x]].refresh = arg[x].token
               \/ Overtaken(x)
        /\ pc[x] = "ok" /\ arg[x].token # None =>
               /\ view[x] \in Exchanges
               /\ \/ /\ Stored(view[x])
                     /\ sessions[view[x]].token = x /\ sessions[view[x]].refresh = x
                  \/ \E y \in Exchanges : pc[y] = "ok" /\ arg[y].token = x
                  \/ Overtaken(x)

\* A refresh that was overtaken stays so.
LEMMA OvertakenStays ==
    ASSUME TypeInv, SessionInv, TogetherInv, [Next]_vars,
           NEW x \in Exchanges, pc[x] # "idle", Overtaken(x)
    PROVE  Overtaken(x)'
<1>. USE CallsApart
<1>1. /\ CallsKept /\ view'[x] = view[x]
    BY Kept
<1>2. arg'[x] = arg[x] /\ beside[x] \subseteq beside'[x]
    BY <1>1 DEF CallsKept
<1>3. CASE view[x] \in ended
    BY <1>1, <1>3, Fates DEF Overtaken, TypeInv, TypeOK
<1>4. ASSUME NEW y \in Exchanges, arg[y].token = arg[x].token, y \in beside[x]
      PROVE  Overtaken(x)'
    <2>1. pc[y] # "idle"
        BY <1>4 DEF TogetherInv
    <2>2. arg'[y] = arg[y]
        BY <1>1, <2>1 DEF CallsKept
    <2>. QED BY <1>2, <1>4, <2>2 DEF Overtaken
<1>. QED BY <1>3, <1>4 DEF Overtaken

\* What brings an exchange to another place.
LEMMA Moves ==
    ASSUME TypeInv, [Next]_vars, NEW x \in Exchanges, pc'[x] # pc[x], pc'[x] # "failed"
    PROVE  \/ \E p \in Approvals, right \in BOOLEAN : TakeCode(x, p, right)
           \/ CreateSession(x)
           \/ \E t \in Exchanges : FindSession(x, t)
           \/ RotateTokens(x)
<1>. USE CallsApart DEF TypeInv, TypeOK
<1>1. ASSUME NEW p \in Approvals,
             \/ \E u \in Users, r \in Requests : ApproveStart(p, u, r)
             \/ Approve(p)
      PROVE  FALSE
    BY <1>1 DEF ApproveStart, Approve, Begin, Answer
<1>2. ASSUME NEW y \in Exchanges, y # x,
             \/ \E p \in Approvals, right \in BOOLEAN : TakeCode(y, p, right)
             \/ CreateSession(y)
             \/ \E t \in Exchanges : FindSession(y, t)
             \/ RotateTokens(y)
      PROVE  FALSE
    BY <1>2 DEF TakeCode, CreateSession, FindSession, RotateTokens, Begin, Answer
<1>3. ASSUME NEW c \in Calls, StatementFails(c) PROVE FALSE
    BY <1>3 DEF StatementFails, Answer
<1>4. CASE \/ \E r \in Requests : RequestExpires(r) \/ \E bound \in BOOLEAN : Push(r, bound)
           \/ \E u \in Users : Revoke(u) \/ \E s \in Exchanges : ShowPage(u, s)
           \/ Cleanup
           \/ \E s \in Exchanges : GrowOld(s)
           \/ ClientChanges
           \/ UNCHANGED vars
    BY <1>4 DEF RequestExpires, Push, Revoke, ShowPage, Cleanup, GrowOld, ClientChanges,
           vars, calls
<1>. QED BY <1>1, <1>2, <1>3, <1>4 DEF Next

\* The exchange of a code has no token to refresh; a refresh begins with the session
\* that its token finds; only a refresh that gives its tokens to the session of its
\* token, or the exchange of a code, is answered.
LEMMA TokenMoves ==
    ASSUME TypeInv, [Next]_vars, NEW x \in Exchanges, pc'[x] # pc[x]
    PROVE  /\ pc'[x] = "create" => arg'[x].token = None
           /\ pc'[x] = "rotate" =>
                  \E s \in Exchanges : /\ view'[x] = s /\ Stored(s)'
                                       /\ sessions'[s].refresh = arg'[x].token
           /\ pc'[x] = "ok" => pc[x] = "create" \/ (pc[x] = "rotate" /\ RotateTokens(x))
<1>. USE CallsApart DEF TypeInv, TypeOK
<1>1. ASSUME NEW p \in Approvals, NEW right \in BOOLEAN, TakeCode(x, p, right)
      PROVE  arg'[x].token = None /\ pc'[x] \in {"create", "failed"}
    BY <1>1 DEF TakeCode, Begin, NoArg
<1>2. CASE CreateSession(x)
    BY <1>2 DEF CreateSession, Answer
<1>3. ASSUME NEW t \in Exchanges, FindSession(x, t)
      PROVE  /\ pc'[x] = "rotate"
             /\ \E s \in Exchanges : /\ view'[x] = s /\ Stored(s)'
                                     /\ sessions'[s].refresh = arg'[x].token
    <2>1. PICK s \in Exchanges : /\ Stored(s) /\ sessions[s].refresh = t
                                 /\ view' = [view EXCEPT ![x] = s]
        BY <1>3 DEF FindSession
    <2>2. Begin(x, [NoArg EXCEPT !.token = t], "rotate") /\ sessions' = sessions
        BY <1>3 DEF FindSession, rows
    <2>3. arg'[x].token = t /\ pc'[x] = "rotate"
        BY <2>2 DEF Begin, NoArg
    <2>4. view'[x] = s
        BY <2>1
    <2>. QED BY <2>1, <2>2, <2>3, <2>4 DEF Stored
<1>4. CASE RotateTokens(x)
    BY <1>4 DEF RotateTokens, Answer
<1>. QED BY <1>1, <1>2, <1>3, <1>4, Moves

\* A refresh that is under way, and has not been overtaken, has its session.
LEMMA RefreshHasSession ==
    ASSUME TypeInv, SessionInv, TogetherInv, TokenInv, [Next]_vars,
           NEW x \in Exchanges, pc'[x] = "rotate"
    PROVE  \/ Stored(view[x])' /\ sessions'[view'[x]].refresh = arg'[x].token
           \/ Overtaken(x)'
<1>. USE CallsApart
<1>1. CASE pc[x] # "rotate"
    BY <1>1, TokenMoves DEF Stored
<1>2. CASE pc[x] = "rotate"
    <2>1. /\ CallsKept /\ view'[x] = view[x]
        BY <1>2, Kept
    <2>2. arg'[x] = arg[x] /\ view[x] \in Exchanges
        BY <1>2, <2>1 DEF CallsKept, TypeInv, Asked
    <2>3. CASE Overtaken(x)
        BY <1>2, <2>3, OvertakenStays
    <2>. DEFINE s == view[x]
    <2>4. CASE Stored(s) /\ sessions[s].refresh = arg[x].token
        <3>1. CASE ~Stored(s)'
            BY <2>1, <2>2, <2>4, <3>1, Fates DEF EndsRightly, Overtaken
        <3>2. CASE Stored(s)' /\ sessions'[s].refresh = sessions[s].refresh
            BY <2>1, <2>2, <2>4, <3>2 DEF Stored
        <3>3. ASSUME NEW z \in Exchanges, Rotates(s, z) PROVE Overtaken(x)'
            <4>1. arg[z].token = arg[x].token /\ pc[z] = "rotate" /\ z # x
                BY <2>4, <3>3 DEF Rotates
            <4>2. z \in beside[x]
                BY <1>2, <4>1 DEF TogetherInv, Open
            <4>3. Overtaken(x)
                BY <4>1, <4>2 DEF Overtaken
            <4>. QED BY <1>2, <4>3, OvertakenStays
        <3>4. \/ ~Stored(s)'
              \/ Stored(s)' /\ sessions'[s].refresh = sessions[s].refresh
              \/ \E z \in Exchanges : Rotates(s, z)
            BY <2>1, <2>2, <2>4, Fates
        <3>. QED BY <3>1, <3>2, <3>3, <3>4
    <2>. QED BY <1>2, <2>3, <2>4 DEF TokenInv
<1>. QED BY <1>1, <1>2

\* The tokens of an answered refresh are its session's until they are exchanged.
LEMMA TokensHold ==
    ASSUME TypeInv, SessionInv, TogetherInv, TokenInv, [Next]_vars,
           NEW x \in Exchanges, pc'[x] = "ok", arg'[x].token # None
    PROVE  /\ view'[x] \in Exchanges
           /\ \/ /\ Stored(view[x])'
                 /\ sessions'[view'[x]].token = x /\ sessions'[view'[x]].refresh = x
              \/ \E y \in Exchanges : pc'[y] = "ok" /\ arg'[y].token = x
              \/ Overtaken(x)'
<1>. USE CallsApart
<1>. DEFINE s == view[x]
<1>0. CallsKept
    BY Kept
<1>1. /\ pc[x] # "idle" /\ arg'[x] = arg[x] /\ view'[x] = s
    <2>1. pc[x] # "idle"
        BY TokenMoves
    <2>. QED BY <2>1, Kept DEF CallsKept
<1>2. CASE pc[x] # "ok"
    <2>1. pc[x] # "create"
        BY <1>1 DEF TokenInv
    <2>2. pc[x] = "rotate" /\ RotateTokens(x)
        BY <1>2, <2>1, TokenMoves
    <2>3. s \in Exchanges
        BY <2>2 DEF TypeInv, Asked
    <2>4. CASE Overtaken(x)
        BY <1>1, <2>3, <2>4, OvertakenStays
    <2>5. CASE Stored(s) /\ sessions[s].refresh = arg[x].token
        <3>1. sessions'[s] = Rotated(sessions[s], x)
            BY <2>2, <2>3, <2>5 DEF RotateTokens
        <3>2. sessions[s] \in SessionRow
            BY <2>3, <2>5 DEF Stored, TypeInv, TypeOK
        <3>3. 0 \in 0..ThreeMonths
            BY DEF ThreeMonths
        <3>4. sessions'[s] \in SessionRow /\ sessions'[s].token = x /\ sessions'[s].refresh = x
            BY <3>1, <3>2, <3>3 DEF Rotated, SessionRow
        <3>. QED BY <1>1, <2>3, <3>4, RowsAreThere DEF Stored
    <2>. QED BY <2>2, <2>4, <2>5 DEF TokenInv
<1>3. CASE pc[x] = "ok"
    <2>1. s \in Exchanges
        BY <1>1, <1>3 DEF TokenInv
    <2>2. CASE Overtaken(x)
        BY <1>1, <2>1, <2>2, OvertakenStays
    <2>3. ASSUME NEW y \in Exchanges, pc[y] = "ok", arg[y].token = x
          PROVE  pc'[y] = "ok" /\ arg'[y].token = x
        BY <1>0, <2>3 DEF CallsKept
    <2>4. CASE Stored(s) /\ sessions[s].token = x /\ sessions[s].refresh = x
        <3>1. CASE ~Stored(s)'
            BY <1>1, <2>1, <2>4, <3>1, Fates DEF EndsRightly, Overtaken
        <3>2. CASE /\ Stored(s)' /\ sessions'[s].token = sessions[s].token
                   /\ sessions'[s].refresh = sessions[s].refresh
            BY <1>1, <2>1, <2>4, <3>2 DEF Stored
        <3>3. ASSUME NEW z \in Exchanges, Rotates(s, z)
              PROVE  pc'[z] = "ok" /\ arg'[z].token = x
            BY <1>0, <2>4, <3>3 DEF Rotates, CallsKept
        <3>. QED BY <1>1, <2>1, <2>4, <3>1, <3>2, <3>3, Fates
    <2>. QED BY <1>1, <1>3, <2>1, <2>2, <2>3, <2>4 DEF TokenInv
<1>. QED BY <1>2, <1>3

\* What becomes of tokens is inductive.
LEMMA TokenStep == TypeInv /\ SessionInv /\ TogetherInv /\ TokenInv /\ [Next]_vars => TokenInv'
<1>. SUFFICES ASSUME TypeInv, SessionInv, TogetherInv, TokenInv, [Next]_vars PROVE TokenInv'
    OBVIOUS
<1>1. ASSUME NEW x \in Exchanges, pc'[x] = "create" PROVE arg'[x].token = None
    <2>1. CASE pc[x] # "create"
        BY <1>1, <2>1, TokenMoves
    <2>2. CASE pc[x] = "create"
        BY <2>2, Kept, CallsApart DEF CallsKept, TokenInv
    <2>. QED BY <2>1, <2>2
<1>. QED BY <1>1, RefreshHasSession, TokensHold DEF TokenInv

\* When a refresh was answered its tokens are good, or they were exchanged for newer
\* ones, or the session was ended, unless another refresh of the same token was
\* open beside it.
THEOREM RefreshesAreGood == Spec => []AnsweredTokensExist
<1>1. TokenInv => AnsweredTokensExist
    BY DEF TokenInv, AnsweredTokensExist, Admits, Overtaken, Stored
<1>2. Init => TogetherInv /\ TokenInv
    BY CallsApart DEF Init, TogetherInv, TokenInv, Open
<1>. QED BY TypeInit, TypeStep, SessionInit, SessionStep, TogetherStep, TokenStep, <1>1, <1>2,
            PTL DEF Spec

=============================================================================
