-------------------------- MODULE Accounts_proofs ---------------------------
(***************************************************************************)
(* Theorems about Accounts, for every set of calls, accounts, handles,     *)
(* addresses and invites, and every bound.                                 *)
(***************************************************************************)
EXTENDS Accounts, TLAPS

-----------------------------------------------------------------------------
(* Types.                                                                  *)

Places == Ended \cup {"idle", "check", "publish", "insert", "decrement", "token",
              "refreshToken", "dropRefresh", "dropAccess", "takeAccess", "dropPair",
              "write", "delete", "code"}

Spenders == {"resetPassword", "confirmEmail", "updateEmail"}
Writers == Issuers \cup Spenders \cup {"activate", "deactivate"}

\* The places where a call works on an account.
AtAccount == {"insert", "decrement", "token", "refreshToken", "dropRefresh", "dropAccess",
              "takeAccess", "dropPair", "write", "delete"}

\* What a call is at goes with its handler and its input.
Fits(p, k, in) ==
    /\ p \in {"check", "publish", "insert", "decrement"} =>
           /\ k \in SignUps
           /\ in.handle \in Handles /\ in.email \in Emails /\ in.invite \in Invites
    /\ p = "check" /\ k = "migrate" => in.did \in Elsewhere
    /\ p \in {"token", "refreshToken"} => k \in SessionMakers
    /\ p \in {"dropRefresh", "dropAccess"} => k = "refreshSession" /\ in.session \in Calls
    /\ p \in {"takeAccess", "dropPair"} => k = "deleteSession" /\ in.session \in Calls
    /\ p = "write" => k \in Writers /\ (k = "updateEmail" => in.email \in Emails)
    /\ p = "delete" => k = "accountDelete"
    /\ p = "code" => k = "createInviteCode" /\ in.invite \in Invites
    /\ p \in AtAccount \/ (p = "ok" /\ k # "createInviteCode") => in.did \in Dids
    /\ in.code # None => k \in Spenders /\ p \in Ended \cup {"write"}
    /\ p = "ok" => k \in Kinds

CallsOK ==
    /\ pc \in [Calls -> Places]
    /\ kind \in [Calls -> Kinds \cup {None}]
    /\ arg \in [Calls -> Inputs]
    /\ view \in [Calls -> RepoRow \cup {None}]
    /\ beside \in [Calls -> SUBSET Calls]
    /\ \A c \in Calls : Fits(pc[c], kind[c], arg[c])

TypeInv == TypeOK /\ CallsOK

\* Nothing has no row, no call and no name.
LEMMA RowsAreThere ==
    /\ \A row \in RepoRow : row # None
    /\ \A row \in InviteRow : row # None
    /\ None \notin Calls /\ None \notin Dids /\ None \notin Handles /\ None \notin Emails
    /\ None \notin Invites
BY RowsAssumption, NoneAssumption

\* The DIDs that are brought along.
LEMMA ElsewhereDids == Elsewhere \subseteq Dids
BY WantedAssumption DEF Elsewhere

\* At first there is one account with a session.
LEMMA TypeInit == Init => TypeInv
<1>. SUFFICES ASSUME Init PROVE TypeInv
    OBVIOUS
<1>. USE DEF Init
<1>1. NoInput \in Inputs /\ [NoInput EXCEPT !.did = FirstDid] \in Inputs
    BY FirstAssumption DEF NoInput, Inputs
<1>2. [email |-> FirstEmail, confirmed |-> TRUE, active |-> TRUE,
       verify |-> None, update |-> None, reset |-> None] \in RepoRow
    BY FirstAssumption DEF RepoRow, Codes
<1>3. [left |-> 1, owner |-> FirstDid] \in InviteRow
    BY FirstAssumption DEF InviteRow
<1>4. \A c \in Calls : Fits(pc[c], kind[c], arg[c])
    <2>1. Fits("idle", None, NoInput)
        BY DEF Fits, NoInput, AtAccount
    <2>2. Fits("ok", "createSession", [NoInput EXCEPT !.did = FirstDid])
        BY FirstAssumption DEF Fits, NoInput, AtAccount, Kinds, SessionMakers
    <2>. QED BY <2>1, <2>2
<1>5. 0 \in 0..MaxAge
    BY BoundsAssumption
<1>6. repos \in [Dids -> RepoRow \cup {None}] /\ actors \in [Dids -> Handles \cup {None}]
    BY <1>2, FirstAssumption
<1>7. directory \subseteq Dids
    BY ElsewhereDids, FirstAssumption
<1>8. invites \in [Invites -> InviteRow \cup {None}]
    BY <1>3
<1>9. access \subseteq Calls /\ refresh \subseteq Calls /\ age \in [Calls -> 0..MaxAge]
    BY <1>5, FirstAssumption
<1>10. "createSession" \in Kinds /\ "ok" \in Places /\ "idle" \in Places
    BY DEF Kinds, SessionMakers, Places, Ended
<1>11. /\ pc \in [Calls -> Places] /\ kind \in [Calls -> Kinds \cup {None}]
       /\ arg \in [Calls -> Inputs] /\ view \in [Calls -> RepoRow \cup {None}]
       /\ beside \in [Calls -> SUBSET Calls]
    BY <1>1, <1>10
<1>. QED BY <1>4, <1>6, <1>7, <1>8, <1>9, <1>11 DEF TypeInv, TypeOK, CallsOK

\* A request arrives: the calls that are open beside it and it know each other.
LEMMA Starts ==
    ASSUME TypeInv, NEW c \in Calls, NEW k, NEW in, NEW read, NEW first, Start(c, k, in, read, first)
    PROVE  /\ pc[c] = "idle" /\ pc'[c] = first /\ kind'[c] = k /\ arg'[c] = in
           /\ \A d \in Calls \ {c} : pc'[d] = pc[d] /\ kind'[d] = kind[d] /\ arg'[d] = arg[d]
           /\ beside'[c] = {d \in Calls : Open(d)}
           /\ \A d \in Calls \ {c} :
                  beside'[d] = IF Open(d) THEN beside[d] \cup {c} ELSE beside[d]
           /\ k \in Kinds /\ in \in Inputs /\ read \in RepoRow \cup {None} /\ first \in Places
              /\ Fits(first, k, in) => CallsOK'
<1>. USE DEF TypeInv, TypeOK, CallsOK
<1>1. /\ pc[c] = "idle" /\ pc' = [pc EXCEPT ![c] = first] /\ kind' = [kind EXCEPT ![c] = k]
      /\ arg' = [arg EXCEPT ![c] = in] /\ view' = [view EXCEPT ![c] = read]
      /\ beside' = [d \in Calls |-> IF d = c THEN {e \in Calls : Open(e)}
                                    ELSE IF d \in {e \in Calls : Open(e)}
                                         THEN beside[d] \cup {c} ELSE beside[d]]
    BY DEF Start
<1>2. /\ pc'[c] = first /\ kind'[c] = k /\ arg'[c] = in
      /\ \A d \in Calls \ {c} : pc'[d] = pc[d] /\ kind'[d] = kind[d] /\ arg'[d] = arg[d]
    BY <1>1
<1>3. beside'[c] = {d \in Calls : Open(d)}
    BY <1>1
<1>4. \A d \in Calls \ {c} : beside'[d] = IF Open(d) THEN beside[d] \cup {c} ELSE beside[d]
    BY <1>1
<1>5. beside' \in [Calls -> SUBSET Calls]
    BY <1>1
<1>6. ASSUME k \in Kinds, in \in Inputs, read \in RepoRow \cup {None}, first \in Places,
             Fits(first, k, in)
      PROVE  CallsOK'
    <2>1. \A d \in Calls : Fits(pc'[d], kind'[d], arg'[d])
        BY <1>2, <1>6
    <2>2. /\ pc' \in [Calls -> Places] /\ kind' \in [Calls -> Kinds \cup {None}]
          /\ arg' \in [Calls -> Inputs] /\ view' \in [Calls -> RepoRow \cup {None}]
        BY <1>1, <1>6
    <2>. QED BY <1>5, <2>1, <2>2
<1>. QED BY <1>1, <1>2, <1>3, <1>4, <1>6

\* A call that goes on has changed its place, and dropped what it read when it answers.
LEMMA Goes ==
    ASSUME TypeInv, NEW c \in Calls, NEW next, Goto(c, next)
    PROVE  /\ pc'[c] = next /\ \A d \in Calls \ {c} : pc'[d] = pc[d]
           /\ kind' = kind /\ arg' = arg /\ beside' = beside
           /\ next \in Places /\ Fits(next, kind[c], arg[c]) => CallsOK'
<1>. USE DEF TypeInv, TypeOK, CallsOK
<1>1. /\ pc' = [pc EXCEPT ![c] = next] /\ kind' = kind /\ arg' = arg /\ beside' = beside
      /\ view' = IF next \in Ended THEN [view EXCEPT ![c] = None] ELSE view
    BY DEF Goto
<1>2. view' \in [Calls -> RepoRow \cup {None}]
    BY <1>1
<1>3. pc'[c] = next /\ \A d \in Calls \ {c} : pc'[d] = pc[d]
    BY <1>1
<1>. QED BY <1>1, <1>2, <1>3

\* Where a call can go from its place with its input.
LEMMA FitsNext ==
    ASSUME NEW k, NEW in \in Inputs, NEW p, NEW next, Fits(p, k, in), k \in Kinds, p \in Places,
           \/ next \in {"refused", "failed"}
           \/ p = "check" /\ k = "migrate" /\ next = "insert"
           \/ p = "check" /\ next = "publish"
           \/ p = "insert" /\ next = "decrement"
           \/ p = "decrement" /\ next = AfterUse(k)
           \/ p = "dropRefresh" /\ next = "dropAccess"
           \/ p = "dropAccess" /\ next = "token"
           \/ p = "token" /\ next = "refreshToken"
           \/ p = "refreshToken" /\ next = "ok"
           \/ p = "takeAccess" /\ next \in {"dropPair", "ok"}
           \/ p \in {"dropPair", "write", "delete", "code"} /\ next = "ok"
    PROVE  Fits(next, k, in)
<1>. USE ElsewhereDids DEF Fits, AtAccount, Ended
<1>1. CASE next \in {"refused", "failed"}
    BY <1>1
<1>2. CASE p = "check"
    BY <1>2
<1>3. CASE p = "insert" /\ next = "decrement"
    BY <1>3
<1>4. CASE p = "decrement" /\ next = AfterUse(k)
    BY <1>4 DEF AfterUse, SignUps, SessionMakers
<1>5. CASE p \in {"dropRefresh", "dropAccess"}
    BY <1>5 DEF SessionMakers
<1>6. CASE p \in {"token", "refreshToken", "takeAccess"}
    BY <1>6
<1>7. CASE p \in {"dropPair", "write", "delete", "code"} /\ next = "ok"
    BY <1>7
<1>. QED BY <1>1, <1>2, <1>3, <1>4, <1>5, <1>6, <1>7

\* A call that is at a place runs some handler.
LEMMA FitsKind == ASSUME TypeInv, NEW c \in Calls, Open(c) \/ pc[c] = "ok"
                  PROVE  kind[c] \in Kinds /\ pc[c] \in Places /\ arg[c] \in Inputs
                         /\ Fits(pc[c], kind[c], arg[c])
<1>1. Fits(pc[c], kind[c], arg[c]) /\ pc[c] \in Places /\ arg[c] \in Inputs
    BY DEF TypeInv, CallsOK
<1>2. /\ SignUps \subseteq Kinds /\ SessionMakers \subseteq Kinds /\ Writers \subseteq Kinds
      /\ {"refreshSession", "deleteSession", "accountDelete", "createInviteCode"} \subseteq Kinds
    BY DEF Kinds, Writers, Spenders, SessionMakers
<1>. QED BY <1>1, <1>2 DEF Fits, Open, Places, Ended

\* The input of a sign-up and what comes of it keep the types.
LEMMA SignUpType == ASSUME TypeInv, NEW c \in Calls, SignUpNext(c) PROVE TypeInv'
<1>. USE RowsAreThere DEF TypeInv, TypeOK
<1>1. ASSUME NEW k \in SignUps, SignUpStart(c, k) PROVE TypeInv'
    <2>1. PICK w \in Wanted, i \in Invites :
              /\ (w.did # None) = (k = "migrate")
              /\ Start(c, k, [NoInput EXCEPT !.handle = w.handle, !.email = w.email,
                                             !.invite = i, !.did = w.did], None, "check")
        BY <1>1 DEF SignUpStart
    <2>. DEFINE in == [NoInput EXCEPT !.handle = w.handle, !.email = w.email,
                                      !.invite = i, !.did = w.did]
    <2>2. w.handle \in Handles /\ w.email \in Emails /\ w.did \in Dids \cup {None}
        BY WantedAssumption
    <2>3. /\ in \in Inputs /\ in.code = None /\ in.did = w.did
          /\ in.handle = w.handle /\ in.email = w.email /\ in.invite = i
        BY <2>2 DEF NoInput, Inputs
    <2>4. k = "migrate" => w.did \in Elsewhere
        BY <2>1 DEF Elsewhere
    <2>. HIDE DEF in
    <2>5. Fits("check", k, in)
        BY <2>2, <2>3, <2>4 DEF Fits, AtAccount
    <2>6. CallsOK'
        BY <2>1, <2>3, <2>5, Starts DEF Kinds, Places, in
    <2>7. UNCHANGED <<tables, age>>
        BY <1>1 DEF SignUpStart
    <2>. QED BY <2>6, <2>7 DEF tables, CallsOK
<1>2. CASE CheckSignUp(c)
    <2>1. PICK next \in {"refused", "insert", "publish"} :
              Goto(c, next) /\ (next = "insert" => kind[c] = "migrate")
        BY <1>2 DEF CheckSignUp
    <2>2. pc[c] = "check" /\ UNCHANGED <<tables, age>>
        BY <1>2 DEF CheckSignUp
    <2>3. Fits(next, kind[c], arg[c])
        BY <2>1, <2>2, FitsKind, FitsNext DEF Open, Ended
    <2>4. CallsOK'
        BY <2>1, <2>3, Goes DEF Places, Ended
    <2>. QED BY <2>2, <2>4 DEF tables, CallsOK
<1>3. CASE PublishDid(c)
    <2>1. PICK d \in Dids \ directory : directory' = directory \cup {d}
                                        /\ arg' = [arg EXCEPT ![c].did = d]
        BY <1>3 DEF PublishDid
    <2>2. pc[c] = "publish" /\ pc' = [pc EXCEPT ![c] = "insert"]
          /\ UNCHANGED <<repos, actors, invites, access, refresh, age, kind, view, beside>>
        BY <1>3 DEF PublishDid
    <2>3. arg[c] \in Inputs /\ Fits("publish", kind[c], arg[c])
        BY <2>2 DEF CallsOK
    <2>4. arg'[c] \in Inputs /\ arg'[c].did = d /\ arg'[c].handle = arg[c].handle
          /\ arg'[c].email = arg[c].email /\ arg'[c].invite = arg[c].invite
          /\ arg'[c].code = arg[c].code
        BY <2>1, <2>3 DEF CallsOK, Inputs
    <2>5. Fits("insert", kind[c], arg'[c])
        BY <2>3, <2>4 DEF Fits, AtAccount, Ended
    <2>6. \A e \in Calls \ {c} : arg'[e] = arg[e] /\ pc'[e] = pc[e]
        BY <2>1, <2>2 DEF CallsOK
    <2>7. pc'[c] = "insert" /\ "insert" \in Places /\ pc' \in [Calls -> Places]
        BY <2>2 DEF CallsOK, Places
    <2>8. arg' \in [Calls -> Inputs]
        BY <2>1, <2>4, <2>6 DEF CallsOK
    <2>9. CallsOK'
        BY <2>2, <2>5, <2>6, <2>7, <2>8 DEF CallsOK
    <2>. QED BY <2>1, <2>2, <2>9 DEF CallsOK
<1>4. CASE InsertAccount(c)
    <2>1. pc[c] = "insert" /\ UNCHANGED <<directory, invites, access, refresh, age>>
          /\ \E next \in {"refused", "decrement"} : Goto(c, next)
        BY <1>4 DEF InsertAccount
    <2>2. arg[c].did \in Dids /\ arg[c].handle \in Handles /\ arg[c].email \in Emails
        BY <2>1 DEF CallsOK, Fits, AtAccount
    <2>3. NewRepo(c) \in RepoRow
        BY <2>2 DEF NewRepo, RepoRow, Codes
    <2>4. repos' \in [Dids -> RepoRow \cup {None}] /\ actors' \in [Dids -> Handles \cup {None}]
        BY <1>4, <2>2, <2>3 DEF InsertAccount
    <2>5. CallsOK'
        BY <2>1, FitsKind, FitsNext, Goes DEF Open, Ended, Places
    <2>. QED BY <2>1, <2>4, <2>5 DEF CallsOK
<1>5. CASE TakeUse(c)
    <2>1. pc[c] = "decrement" /\ Goto(c, AfterUse(kind[c]))
          /\ UNCHANGED <<repos, actors, directory, access, refresh, age>>
        BY <1>5 DEF TakeUse
    <2>2. arg[c].invite \in Invites
        BY <2>1 DEF CallsOK, Fits
    <2>. DEFINE i == arg[c].invite
    <2>3. invites[i] # None => [invites[i] EXCEPT !.left = @ - 1] \in InviteRow
        BY <2>2 DEF InviteRow
    <2>4. invites' = IF invites[i] = None THEN invites
                     ELSE [invites EXCEPT ![i] = [invites[i] EXCEPT !.left = @ - 1]]
        BY <1>5 DEF TakeUse
    <2>5. invites' \in [Invites -> InviteRow \cup {None}]
        BY <2>3, <2>4
    <2>6. CallsOK'
        BY <2>1, FitsKind, FitsNext, Goes DEF Open, Ended, Places, AfterUse
    <2>. QED BY <2>1, <2>5, <2>6 DEF CallsOK
<1>6. CASE TakeUseSkipped(c)
    <2>1. pc[c] = "decrement" /\ Goto(c, AfterUse(kind[c])) /\ UNCHANGED <<tables, age>>
        BY <1>6 DEF TakeUseSkipped
    <2>2. CallsOK'
        BY <2>1, FitsKind, FitsNext, Goes DEF Open, Ended, Places, AfterUse
    <2>. QED BY <2>1, <2>2 DEF tables, CallsOK
<1>7. ASSUME NEW i \in Invites, NEW owner \in {d \in Dids : repos[d] # None} \cup {None},
             InviteStart(c, i, owner)
      PROVE  TypeInv'
    <2>. DEFINE in == [NoInput EXCEPT !.invite = i, !.did = owner]
    <2>1. Start(c, "createInviteCode", in, None, "code") /\ UNCHANGED <<tables, age>>
        BY <1>7 DEF InviteStart
    <2>2. in \in Inputs /\ in.invite = i /\ in.code = None
        BY DEF NoInput, Inputs
    <2>. HIDE DEF in
    <2>3. Fits("code", "createInviteCode", in)
        BY <2>2 DEF Fits, AtAccount
    <2>4. CallsOK'
        BY <2>1, <2>2, <2>3, Starts DEF Kinds, Places
    <2>. QED BY <2>1, <2>4 DEF tables, CallsOK
<1>8. CASE CreateInvite(c)
    <2>1. pc[c] = "code" /\ Goto(c, "ok") /\ UNCHANGED <<repos, actors, directory, access, refresh, age>>
          /\ invites' = [invites EXCEPT ![arg[c].invite] = [left |-> 1, owner |-> arg[c].did]]
        BY <1>8 DEF CreateInvite
    <2>2. arg[c].did \in Dids \cup {None} /\ arg[c].invite \in Invites
        BY <2>1 DEF CallsOK, Fits, Inputs
    <2>3. [left |-> 1, owner |-> arg[c].did] \in InviteRow
        BY <2>2 DEF InviteRow
    <2>4. CallsOK'
        BY <2>1, FitsKind, FitsNext, Goes DEF Open, Ended, Places
    <2>. QED BY <2>1, <2>3, <2>4 DEF CallsOK
<1>. QED BY <1>1, <1>2, <1>3, <1>4, <1>5, <1>6, <1>7, <1>8 DEF SignUpNext

\* Who holds tokens has an account to name.
LEMMA IssuedDid ==
    ASSUME TypeInv, NEW s \in Calls, Issued(s)
    PROVE  arg[s].did \in Dids /\ pc[s] = "ok" /\ kind[s] \in SessionMakers
BY DEF TypeInv, CallsOK, Fits, Issued, SessionMakers

\* Sessions keep the types.
LEMMA SessionType == ASSUME TypeInv, NEW c \in Calls, SessionNext(c) PROVE TypeInv'
<1>. USE RowsAreThere DEF TypeInv, TypeOK
<1>1. ASSUME NEW d \in Dids, CreateSessionStart(c, d) PROVE TypeInv'
    <2>. DEFINE in == [NoInput EXCEPT !.did = d]
    <2>1. Start(c, "createSession", in, None, "token") /\ UNCHANGED <<tables, age>>
        BY <1>1 DEF CreateSessionStart
    <2>2. in \in Inputs /\ in.did = d /\ in.code = None
        BY DEF NoInput, Inputs
    <2>. HIDE DEF in
    <2>3. Fits("token", "createSession", in)
        BY <2>2 DEF Fits, AtAccount, SessionMakers
    <2>4. CallsOK'
        BY <2>1, <2>2, <2>3, Starts DEF Kinds, SessionMakers, Places
    <2>. QED BY <2>1, <2>4 DEF tables, CallsOK
<1>2. ASSUME NEW s \in Calls, NEW k \in {"refreshSession", "deleteSession"},
             NEW first \in {"dropRefresh", "takeAccess"},
             (k = "refreshSession") = (first = "dropRefresh"), Issued(s),
             Start(c, k, [NoInput EXCEPT !.did = arg[s].did, !.session = s], None, first),
             UNCHANGED <<tables, age>>
      PROVE  TypeInv'
    <2>. DEFINE in == [NoInput EXCEPT !.did = arg[s].did, !.session = s]
    <2>1. arg[s].did \in Dids
        BY <1>2, IssuedDid
    <2>2. in \in Inputs /\ in.did = arg[s].did /\ in.session = s /\ in.code = None
        BY <2>1 DEF NoInput, Inputs
    <2>3. Start(c, k, in, None, first)
        BY <1>2
    <2>. HIDE DEF in
    <2>4. Fits(first, k, in)
        BY <1>2, <2>1, <2>2 DEF Fits, AtAccount
    <2>5. CallsOK'
        BY <2>2, <2>3, <2>4, Starts DEF Kinds, SessionMakers, Places
    <2>. QED BY <1>2, <2>5 DEF tables, CallsOK
<1>3. ASSUME NEW s \in Calls, RefreshStart(c, s) \/ DeleteSessionStart(c, s) PROVE TypeInv'
    BY <1>2, <1>3 DEF RefreshStart, DeleteSessionStart, RefreshToken, AccessToken
<1>4. CASE DropRefresh(c) \/ DropAccess(c) \/ InsertToken(c) \/ InsertRefreshToken(c)
           \/ TakeAccess(c) \/ DropPair(c)
    <2>1. /\ access' \subseteq Calls /\ refresh' \subseteq Calls
          /\ UNCHANGED <<repos, actors, directory, invites, age>>
        BY <1>4 DEF DropRefresh, DropAccess, InsertToken, InsertRefreshToken, TakeAccess, DropPair
    <2>2. Open(c) /\ \E next \in Places : /\ Goto(c, next)
                                          /\ \/ pc[c] = "dropRefresh" /\ next = "dropAccess"
                                             \/ pc[c] = "dropAccess" /\ next = "token"
                                             \/ pc[c] = "token" /\ next = "refreshToken"
                                             \/ pc[c] = "refreshToken" /\ next = "ok"
                                             \/ pc[c] = "takeAccess" /\ next \in {"dropPair", "ok"}
                                             \/ pc[c] = "dropPair" /\ next = "ok"
        BY <1>4 DEF DropRefresh, DropAccess, InsertToken, InsertRefreshToken, TakeAccess,
               DropPair, Open, Ended, Places
    <2>3. CallsOK'
        BY <2>2, FitsKind, FitsNext, Goes
    <2>. QED BY <2>1, <2>3 DEF CallsOK
<1>. QED BY <1>1, <1>3, <1>4 DEF SessionNext

\* What is written to an account's row is a row.
LEMMA WrittenRow ==
    ASSUME TypeInv, NEW c \in Calls, pc[c] = "write", kind[c] \notin {"activate", "deactivate"},
           repos[arg[c].did] # None
    PROVE  /\ arg[c].did \in Dids /\ kind[c] \in Issuers \cup Spenders
           /\ repos[arg[c].did] \in RepoRow /\ Written(c) \in RepoRow
           /\ kind[c] \in Issuers =>
                  Written(c) = [repos[arg[c].did] EXCEPT ![Column(kind[c])] = c]
           /\ kind[c] \in Spenders =>
                  /\ Written(c)[Column(kind[c])] = None
                  /\ \A col \in {"verify", "update", "reset"} \ {Column(kind[c])} :
                         Written(c)[col] = repos[arg[c].did][col]
           /\ Written(c).email = IF kind[c] = "updateEmail" THEN arg[c].email
                                 ELSE repos[arg[c].did].email
<1>. DEFINE row == repos[arg[c].did]
<1>1. Fits(pc[c], kind[c], arg[c])
    BY DEF TypeInv, CallsOK
<1>2. arg[c].did \in Dids /\ kind[c] \in Issuers \cup Spenders
      /\ (kind[c] = "updateEmail" => arg[c].email \in Emails)
    BY <1>1 DEF Fits, AtAccount, Writers
<1>3. row \in RepoRow
    BY <1>2 DEF TypeInv, TypeOK
<1>4. CASE kind[c] \in Issuers
    <2>1. Column(kind[c]) \in {"verify", "update", "reset"}
        BY DEF Column
    <2>2. Written(c) = [row EXCEPT ![Column(kind[c])] = c]
        BY <1>4 DEF Written, Issuers
    <2>3. kind[c] \notin Spenders
        BY <1>4 DEF Issuers, Spenders
    <2>4. Written(c) \in RepoRow /\ Written(c).email = row.email
        BY <1>3, <2>1, <2>2 DEF RepoRow, Codes
    <2>. QED BY <1>2, <1>3, <1>4, <2>2, <2>3, <2>4 DEF Spenders
<1>5. CASE kind[c] = "resetPassword"
    <2>1. Written(c) = [row EXCEPT !.reset = None] /\ Column(kind[c]) = "reset"
        BY <1>5 DEF Written, Issuers, Column
    <2>2. Written(c) \in RepoRow
        BY <1>3, <2>1 DEF RepoRow, Codes
    <2>3. /\ Written(c).email = row.email /\ Written(c).reset = None
          /\ Written(c).verify = row.verify /\ Written(c).update = row.update
        BY <1>3, <2>1 DEF RepoRow
    <2>. QED BY <1>2, <1>3, <1>5, <2>1, <2>2, <2>3 DEF Issuers
<1>6. CASE kind[c] = "confirmEmail"
    <2>1. Written(c) = [row EXCEPT !.verify = None, !.confirmed = TRUE] /\ Column(kind[c]) = "verify"
        BY <1>6 DEF Written, Issuers, Column
    <2>2. Written(c) \in RepoRow
        BY <1>3, <2>1 DEF RepoRow, Codes
    <2>3. /\ Written(c).email = row.email /\ Written(c).verify = None
          /\ Written(c).reset = row.reset /\ Written(c).update = row.update
        BY <1>3, <2>1 DEF RepoRow
    <2>. QED BY <1>2, <1>3, <1>6, <2>1, <2>2, <2>3 DEF Issuers
<1>7. CASE kind[c] = "updateEmail"
    <2>1. PICK yes \in BOOLEAN :
              Written(c) = [row EXCEPT !.update = None, !.email = arg[c].email, !.confirmed = yes]
        <3>1. Written(c) = [row EXCEPT !.update = None, !.email = arg[c].email,
                              !.confirmed = row.confirmed /\ view[c].email = arg[c].email]
            BY <1>7 DEF Written, Issuers
        <3>. QED BY <3>1
    <2>2. Column(kind[c]) = "update"
        BY <1>7 DEF Column
    <2>3. Written(c) \in RepoRow
        BY <1>2, <1>3, <1>7, <2>1 DEF RepoRow, Codes
    <2>4. /\ Written(c).email = arg[c].email /\ Written(c).update = None
          /\ Written(c).reset = row.reset /\ Written(c).verify = row.verify
        BY <1>3, <2>1 DEF RepoRow
    <2>. QED BY <1>2, <1>3, <1>7, <2>2, <2>3, <2>4 DEF Issuers
<1>. QED BY <1>2, <1>4, <1>5, <1>6, <1>7 DEF Spenders

\* The codes keep the types.
LEMMA CodesType == ASSUME TypeInv, NEW c \in Calls, CodesNext(c) PROVE TypeInv'
<1>. USE RowsAreThere DEF TypeInv, TypeOK
<1>1. ASSUME NEW k \in Issuers \cup Spenders, NEW in \in Inputs, NEW read \in RepoRow \cup {None},
             Start(c, k, in, read, "write"), in.did \in Dids, in.code # None => k \in Spenders,
             k = "updateEmail" => in.email \in Emails, UNCHANGED <<tables, age>>
      PROVE  TypeInv'
    <2>1. Fits("write", k, in)
        BY <1>1 DEF Fits, AtAccount, Writers
    <2>2. CallsOK'
        BY <1>1, <2>1, Starts DEF Kinds, Issuers, Spenders, Places
    <2>. QED BY <1>1, <2>2 DEF tables, CallsOK
<1>2. ASSUME NEW d \in Dids, RequestReset(c, d) PROVE TypeInv'
    <2>. DEFINE in == [NoInput EXCEPT !.did = d]
    <2>1. Start(c, "requestPasswordReset", in, None, "write") /\ UNCHANGED <<tables, age>>
        BY <1>2 DEF RequestReset
    <2>2. in \in Inputs /\ in.did = d /\ in.code = None
        BY DEF NoInput, Inputs
    <2>. HIDE DEF in
    <2>. QED BY <1>1, <2>1, <2>2 DEF Issuers, Spenders
<1>3. ASSUME NEW s \in Calls, NEW k \in {"requestEmailConfirmation", "requestEmailUpdate"},
             RequestCode(c, k, s)
      PROVE  TypeInv'
    <2>. DEFINE in == [NoInput EXCEPT !.did = arg[s].did, !.session = s]
    <2>1. Start(c, k, in, None, "write") /\ UNCHANGED <<tables, age>> /\ Issued(s)
        BY <1>3 DEF RequestCode, AccessToken
    <2>2. arg[s].did \in Dids
        BY <2>1, IssuedDid
    <2>3. in \in Inputs /\ in.did = arg[s].did /\ in.code = None
        BY <2>2 DEF NoInput, Inputs
    <2>. HIDE DEF in
    <2>. QED BY <1>1, <2>1, <2>2, <2>3 DEF Issuers, Spenders
<1>4. ASSUME NEW s \in Calls, NEW k \in {"resetPassword", "confirmEmail"}, NEW code \in Calls,
             SpendStart(c, k, s, code)
      PROVE  TypeInv'
    <2>. DEFINE in == [NoInput EXCEPT !.did = arg[s].did, !.session = s, !.code = code]
    <2>1. Start(c, k, in, None, "write") /\ UNCHANGED <<tables, age>> /\ Issued(s)
        BY <1>4 DEF SpendStart, AccessToken
    <2>2. arg[s].did \in Dids
        BY <2>1, IssuedDid
    <2>3. in \in Inputs /\ in.did = arg[s].did
        BY <2>2 DEF NoInput, Inputs
    <2>. HIDE DEF in
    <2>. QED BY <1>1, <2>1, <2>2, <2>3 DEF Issuers, Spenders
<1>5. ASSUME NEW s \in Calls, NEW e \in NewEmails, NEW code \in Codes, UpdateEmailStart(c, s, e, code)
      PROVE  TypeInv'
    <2>. DEFINE in == [NoInput EXCEPT !.did = arg[s].did, !.session = s,
                                      !.email = e, !.code = code]
    <2>1. Start(c, "updateEmail", in, repos[arg[s].did], "write") /\ UNCHANGED <<tables, age>>
          /\ Issued(s)
        BY <1>5 DEF UpdateEmailStart, AccessToken
    <2>2. arg[s].did \in Dids /\ e \in Emails /\ code \in Calls \cup {None}
        BY <2>1, IssuedDid, NewEmailsAssumption DEF Codes
    <2>3. in \in Inputs /\ in.did = arg[s].did /\ in.email = e
        BY <2>2 DEF NoInput, Inputs
    <2>4. repos[arg[s].did] \in RepoRow \cup {None}
        BY <2>2
    <2>. HIDE DEF in
    <2>. QED BY <1>1, <2>1, <2>2, <2>3, <2>4 DEF Spenders
<1>6. CASE WriteCode(c) \/ MailFails(c)
    <2>1. /\ pc[c] = "write" /\ kind[c] \notin {"activate", "deactivate"}
          /\ \E next \in Ended : Goto(c, next)
          /\ repos' = repos \/ Update(arg[c].did, Written(c))
          /\ UNCHANGED <<actors, directory, invites, access, refresh, age>>
        BY <1>6 DEF WriteCode, MailFails, Fail, Issuers, Ended
    <2>2. repos' \in [Dids -> RepoRow \cup {None}]
        <3>1. CASE repos' = repos
            BY <3>1
        <3>2. CASE Update(arg[c].did, Written(c))
            BY <2>1, <3>2, WrittenRow DEF Update
        <3>. QED BY <2>1, <3>1, <3>2
    <2>3. CallsOK'
        BY <2>1, FitsKind, FitsNext, Goes DEF Open, Ended, Places
    <2>. QED BY <2>1, <2>2, <2>3 DEF CallsOK
<1>. QED BY <1>2, <1>3, <1>4, <1>5, <1>6 DEF CodesNext

\* Activation, deactivation and deletion keep the types.
LEMMA LifecycleType == ASSUME TypeInv, NEW c \in Calls, LifecycleNext(c) PROVE TypeInv'
<1>. USE RowsAreThere DEF TypeInv, TypeOK
<1>1. ASSUME NEW s \in Calls, NEW k \in {"activate", "deactivate"}, StatusStart(c, k, s)
      PROVE  TypeInv'
    <2>. DEFINE in == [NoInput EXCEPT !.did = arg[s].did, !.session = s]
    <2>1. Start(c, k, in, None, "write") /\ UNCHANGED <<tables, age>> /\ Issued(s)
        BY <1>1 DEF StatusStart, AccessToken
    <2>2. arg[s].did \in Dids
        BY <2>1, IssuedDid
    <2>3. in \in Inputs /\ in.did = arg[s].did /\ in.code = None
        BY <2>2 DEF NoInput, Inputs
    <2>. HIDE DEF in
    <2>4. Fits("write", k, in)
        BY <2>2, <2>3 DEF Fits, AtAccount, Writers
    <2>5. CallsOK'
        BY <2>1, <2>3, <2>4, Starts DEF Kinds, Places
    <2>. QED BY <2>1, <2>5 DEF tables, CallsOK
<1>2. ASSUME NEW d \in Dids, DeleteStart(c, d) PROVE TypeInv'
    <2>. DEFINE in == [NoInput EXCEPT !.did = d]
    <2>1. Start(c, "accountDelete", in, None, "delete") /\ UNCHANGED <<tables, age>>
        BY <1>2 DEF DeleteStart
    <2>2. in \in Inputs /\ in.did = d /\ in.code = None
        BY DEF NoInput, Inputs
    <2>. HIDE DEF in
    <2>3. Fits("delete", "accountDelete", in)
        BY <2>2 DEF Fits, AtAccount
    <2>4. CallsOK'
        BY <2>1, <2>2, <2>3, Starts DEF Kinds, Places
    <2>. QED BY <2>1, <2>4 DEF tables, CallsOK
<1>3. CASE SetActive(c)
    <2>. DEFINE d == arg[c].did
    <2>1. /\ pc[c] = "write" /\ Goto(c, "ok")
          /\ UNCHANGED <<actors, directory, invites, access, refresh, age>>
          /\ \E yes \in BOOLEAN : Update(d, [repos[d] EXCEPT !.active = yes])
        BY <1>3 DEF SetActive
    <2>2. d \in Dids
        BY <2>1 DEF CallsOK, Fits, AtAccount
    <2>3. ASSUME NEW yes \in BOOLEAN, repos[d] # None
          PROVE  [repos[d] EXCEPT !.active = yes] \in RepoRow
        BY <2>2, <2>3 DEF RepoRow
    <2>4. repos' \in [Dids -> RepoRow \cup {None}]
        BY <2>1, <2>2, <2>3 DEF Update
    <2>5. CallsOK'
        BY <2>1, FitsKind, FitsNext, Goes DEF Open, Ended, Places
    <2>. QED BY <2>1, <2>4, <2>5 DEF CallsOK
<1>4. CASE DeleteRows(c)
    <2>1. pc[c] = "delete" /\ Goto(c, "ok") /\ UNCHANGED <<directory, age>>
        BY <1>4 DEF DeleteRows
    <2>2. /\ access' \subseteq Calls /\ refresh' \subseteq Calls
          /\ repos' \in [Dids -> RepoRow \cup {None}] /\ actors' \in [Dids -> Handles \cup {None}]
          /\ invites' \in [Invites -> InviteRow \cup {None}]
        BY <1>4 DEF DeleteRows
    <2>3. CallsOK'
        BY <2>1, FitsKind, FitsNext, Goes DEF Open, Ended, Places
    <2>. QED BY <2>1, <2>2, <2>3 DEF CallsOK
<1>. QED BY <1>1, <1>2, <1>3, <1>4 DEF LifecycleNext

\* The types are inductive.
LEMMA TypeStep == TypeInv /\ [Next]_vars => TypeInv'
<1>. SUFFICES ASSUME TypeInv, [Next]_vars PROVE TypeInv'
    OBVIOUS
<1>1. ASSUME NEW c \in Calls, StatementFails(c) PROVE TypeInv'
    <2>1. Open(c) /\ Goto(c, "failed") /\ UNCHANGED <<tables, age>>
        BY <1>1 DEF StatementFails, Fail
    <2>2. CallsOK'
        BY <2>1, FitsKind, FitsNext, Goes DEF Places, Ended
    <2>. QED BY <2>1, <2>2 DEF tables, CallsOK, TypeInv, TypeOK
<1>2. CASE TimePasses
    <2>1. UNCHANGED <<tables, calls>>
        BY <1>2 DEF TimePasses
    <2>2. age' \in [Calls -> 0..MaxAge]
        BY <1>2, BoundsAssumption DEF TimePasses, TypeInv, TypeOK
    <2>. QED BY <2>1, <2>2 DEF tables, calls, TypeInv, TypeOK, CallsOK
<1>3. CASE UNCHANGED vars
    BY <1>3 DEF vars, tables, calls, TypeInv, TypeOK, CallsOK
<1>. QED BY <1>1, <1>2, <1>3, SignUpType, SessionType, CodesType, LifecycleType DEF Next

\* The tables hold rows of accounts, invites and sessions only.
THEOREM AccountTypes == Spec => []TypeOK
<1>1. TypeInv => TypeOK
    BY DEF TypeInv
<1>. QED BY TypeInit, TypeStep, <1>1, PTL DEF Spec

-----------------------------------------------------------------------------
(* What calls leave of each other.                                         *)

FirstPlaces == {"check", "code", "token", "dropRefresh", "takeAccess", "write", "delete"}

Arrives(c) ==
    /\ \E k \in Kinds, in \in Inputs, read \in RepoRow \cup {None},
          first \in FirstPlaces : Start(c, k, in, read, first)
    /\ UNCHANGED <<tables, age>>

Moves(c) == Open(c) /\ \E next \in Places \ {"idle"} : Goto(c, next)

StepOf(c) == \/ SignUpNext(c) \/ SessionNext(c) \/ CodesNext(c) \/ LifecycleNext(c)
             \/ StatementFails(c)

\* A call's step lets it arrive, go on or get its DID.
LEMMA StepsOf ==
    ASSUME TypeInv, NEW c \in Calls, StepOf(c)
    PROVE  Arrives(c) \/ Moves(c) \/ PublishDid(c)
<1>1. ASSUME NEW k, NEW in, NEW read, NEW first \in FirstPlaces,
             Start(c, k, in, read, first), UNCHANGED <<tables, age>>, k \in Kinds, TypeInv'
      PROVE  Arrives(c)
    <2>1. arg'[c] = in /\ view' = [view EXCEPT ![c] = read]
        BY <1>1 DEF Start, TypeInv, CallsOK
    <2>2. view'[c] = read
        BY <2>1 DEF TypeInv, CallsOK
    <2>3. in \in Inputs /\ read \in RepoRow \cup {None}
        BY <1>1, <2>1, <2>2 DEF TypeInv, CallsOK
    <2>. QED BY <1>1, <2>3 DEF Arrives
<1>2. TypeInv'
    BY TypeStep DEF Next, StepOf
<1>3. ASSUME SignUpNext(c) PROVE Arrives(c) \/ Moves(c) \/ PublishDid(c)
    <2>1. CASE \E k \in SignUps : SignUpStart(c, k)
        BY <1>1, <1>2, <2>1 DEF SignUpStart, Kinds, FirstPlaces
    <2>2. CASE \E i \in Invites, owner \in {d \in Dids : repos[d] # None} \cup {None} :
                   InviteStart(c, i, owner)
        BY <1>1, <1>2, <2>2 DEF InviteStart, Kinds, FirstPlaces
    <2>3. CASE CheckSignUp(c) \/ InsertAccount(c) \/ TakeUse(c) \/ TakeUseSkipped(c) \/ CreateInvite(c)
        BY <2>3 DEF CheckSignUp, InsertAccount, TakeUse, TakeUseSkipped, CreateInvite, AfterUse,
               Moves, Open, Places, Ended
    <2>. QED BY <1>3, <2>1, <2>2, <2>3 DEF SignUpNext
<1>4. ASSUME SessionNext(c) PROVE Arrives(c) \/ Moves(c)
    <2>1. CASE \/ \E d \in Dids : CreateSessionStart(c, d)
               \/ \E s \in Calls : RefreshStart(c, s) \/ DeleteSessionStart(c, s)
        BY <1>1, <1>2, <2>1 DEF CreateSessionStart, RefreshStart, DeleteSessionStart,
               Kinds, SessionMakers, FirstPlaces
    <2>2. CASE DropRefresh(c) \/ DropAccess(c) \/ InsertToken(c) \/ InsertRefreshToken(c)
               \/ TakeAccess(c) \/ DropPair(c)
        BY <2>2 DEF DropRefresh, DropAccess, InsertToken, InsertRefreshToken, TakeAccess,
               DropPair, Moves, Open, Places, Ended
    <2>. QED BY <1>4, <2>1, <2>2 DEF SessionNext
<1>5. ASSUME CodesNext(c) PROVE Arrives(c) \/ Moves(c)
    <2>1. CASE \/ \E d \in Dids : RequestReset(c, d)
               \/ \E s \in Calls :
                     \/ \E k \in {"requestEmailConfirmation", "requestEmailUpdate"} : RequestCode(c, k, s)
                     \/ \E k \in {"resetPassword", "confirmEmail"}, code \in Calls : SpendStart(c, k, s, code)
                     \/ \E e \in NewEmails, code \in Codes : UpdateEmailStart(c, s, e, code)
        BY <1>1, <1>2, <2>1 DEF RequestReset, RequestCode, SpendStart, UpdateEmailStart,
               Kinds, Issuers, FirstPlaces
    <2>2. CASE WriteCode(c) \/ MailFails(c)
        BY <2>2 DEF WriteCode, MailFails, Fail, Moves, Open, Places, Ended
    <2>. QED BY <1>5, <2>1, <2>2 DEF CodesNext
<1>6. ASSUME LifecycleNext(c) PROVE Arrives(c) \/ Moves(c)
    <2>1. CASE \/ \E s \in Calls, k \in {"activate", "deactivate"} : StatusStart(c, k, s)
               \/ \E d \in Dids : DeleteStart(c, d)
        BY <1>1, <1>2, <2>1 DEF StatusStart, DeleteStart, Kinds, FirstPlaces
    <2>2. CASE SetActive(c) \/ DeleteRows(c)
        BY <2>2 DEF SetActive, DeleteRows, Moves, Open, Places, Ended
    <2>. QED BY <1>6, <2>1, <2>2 DEF LifecycleNext
<1>7. ASSUME StatementFails(c) PROVE Moves(c)
    BY <1>7 DEF StatementFails, Fail, Moves, Places, Ended
<1>. QED BY <1>3, <1>4, <1>5, <1>6, <1>7 DEF StepOf

\* Of the calls, a step changes one at most.
LEMMA Steps ==
    ASSUME TypeInv, [Next]_vars
    PROVE  UNCHANGED calls \/ \E c \in Calls : StepOf(c) /\ (Arrives(c) \/ Moves(c) \/ PublishDid(c))
BY StepsOf DEF Next, StepOf, TimePasses, vars

\* A call that comes to another place has made a step itself.
LEMMA Whose ==
    ASSUME TypeInv, [Next]_vars, NEW c \in Calls, pc'[c] # pc[c]
    PROVE  StepOf(c)
<1>1. ASSUME NEW d \in Calls, d # c, Arrives(d) \/ Moves(d) \/ PublishDid(d) PROVE FALSE
    <2>1. CASE Arrives(d)
        BY <1>1, <2>1, Starts DEF Arrives
    <2>2. CASE Moves(d)
        BY <1>1, <2>2, Goes DEF Moves
    <2>3. CASE PublishDid(d)
        BY <1>1, <2>3 DEF PublishDid, TypeInv, CallsOK
    <2>. QED BY <1>1, <2>1, <2>2, <2>3
<1>. QED BY <1>1, Steps DEF calls

\* A call that was not made before arrives.
LEMMA Arrivals ==
    ASSUME TypeInv, [Next]_vars, NEW c \in Calls, pc[c] = "idle", pc'[c] # "idle"
    PROVE  Arrives(c) /\ pc'[c] \in FirstPlaces /\ UNCHANGED <<tables, age>>
<1>1. Arrives(c)
    BY Whose, StepsOf DEF Moves, Open, PublishDid
<1>. QED BY <1>1, Starts DEF Arrives

\* A call that goes on makes one of the steps that its handler is built from.
LEMMA Edges ==
    ASSUME TypeInv, [Next]_vars, NEW c \in Calls, pc'[c] # pc[c], pc[c] # "idle", pc'[c] # "failed"
    PROVE  \/ CheckSignUp(c) \/ PublishDid(c) \/ InsertAccount(c) \/ TakeUse(c)
           \/ TakeUseSkipped(c) \/ CreateInvite(c) \/ DropRefresh(c) \/ DropAccess(c)
           \/ InsertToken(c) \/ InsertRefreshToken(c) \/ TakeAccess(c) \/ DropPair(c)
           \/ WriteCode(c) \/ SetActive(c) \/ DeleteRows(c)
<1>1. StepOf(c)
    BY Whose
<1>2. ~\E k, in, read, first : Start(c, k, in, read, first)
    BY DEF Start
<1>3. ~StatementFails(c) /\ ~MailFails(c)
    BY Goes DEF StatementFails, MailFails, Fail
<1>4. CASE SignUpNext(c)
    BY <1>2, <1>4 DEF SignUpNext, SignUpStart, InviteStart
<1>5. CASE SessionNext(c)
    BY <1>2, <1>5 DEF SessionNext, CreateSessionStart, RefreshStart, DeleteSessionStart
<1>6. CASE CodesNext(c)
    BY <1>2, <1>3, <1>6 DEF CodesNext, RequestReset, RequestCode, SpendStart, UpdateEmailStart
<1>7. CASE LifecycleNext(c)
    BY <1>2, <1>7 DEF LifecycleNext, StatusStart, DeleteStart
<1>. QED BY <1>1, <1>3, <1>4, <1>5, <1>6, <1>7 DEF StepOf

\* A call keeps its handler and its input, except that a sign-up gets its DID; what
\* has answered has answered; the list of calls beside a call grows.
CallsKept ==
    \A c \in Calls : pc[c] # "idle" =>
        /\ pc'[c] # "idle" /\ kind'[c] = kind[c] /\ beside[c] \subseteq beside'[c]
        /\ pc[c] \in Ended => pc'[c] = pc[c]
        /\ pc[c] # "publish" => arg'[c] = arg[c]
        /\ /\ arg'[c].handle = arg[c].handle /\ arg'[c].email = arg[c].email
           /\ arg'[c].code = arg[c].code /\ arg'[c].session = arg[c].session
           /\ arg'[c].invite = arg[c].invite

\* No step forgets what a call was asked, or opens it again.
LEMMA Kept == ASSUME TypeInv, [Next]_vars PROVE CallsKept
<1>1. ASSUME NEW c \in Calls, Arrives(c) PROVE CallsKept
    <2>1. /\ pc[c] = "idle"
          /\ \A d \in Calls \ {c} : pc'[d] = pc[d] /\ kind'[d] = kind[d] /\ arg'[d] = arg[d]
          /\ \A d \in Calls \ {c} :
                 beside'[d] = IF Open(d) THEN beside[d] \cup {c} ELSE beside[d]
        BY <1>1, Starts DEF Arrives
    <2>2. \A d \in Calls \ {c} : beside[d] \subseteq beside'[d]
        BY <2>1
    <2>. QED BY <2>1, <2>2 DEF CallsKept
<1>2. ASSUME NEW c \in Calls, Moves(c) PROVE CallsKept
    BY <1>2, Goes DEF Moves, Open, CallsKept
<1>3. ASSUME NEW c \in Calls, PublishDid(c) PROVE CallsKept
    <2>1. PICK d \in Dids : arg' = [arg EXCEPT ![c].did = d]
        BY <1>3 DEF PublishDid
    <2>2. pc[c] = "publish" /\ pc' = [pc EXCEPT ![c] = "insert"] /\ UNCHANGED <<kind, beside>>
        BY <1>3 DEF PublishDid
    <2>3. \A e \in Calls \ {c} : arg'[e] = arg[e] /\ pc'[e] = pc[e]
        BY <2>1, <2>2 DEF TypeInv, CallsOK
    <2>4. arg[c] \in Inputs /\ arg'[c] = [arg[c] EXCEPT !.did = d] /\ pc'[c] = "insert"
        BY <2>1, <2>2 DEF TypeInv, CallsOK
    <2>5. /\ arg'[c].handle = arg[c].handle /\ arg'[c].email = arg[c].email
          /\ arg'[c].code = arg[c].code /\ arg'[c].session = arg[c].session
          /\ arg'[c].invite = arg[c].invite
        BY <2>4 DEF Inputs
    <2>. QED BY <2>2, <2>3, <2>4, <2>5 DEF CallsKept, Ended
<1>4. CASE UNCHANGED calls
    BY <1>4 DEF calls, CallsKept
<1>. QED BY <1>1, <1>2, <1>3, <1>4, Steps

\* The calls that are open together know it, and only calls that were made are known.
TogetherInv ==
    /\ \A c, d \in Calls : Open(c) /\ Open(d) /\ c # d => d \in beside[c]
    /\ \A c \in Calls : \A d \in beside[c] : pc[d] # "idle" /\ pc[c] # "idle"

\* That calls know who is beside them is inductive.
LEMMA TogetherStep == TypeInv /\ TogetherInv /\ [Next]_vars => TogetherInv'
<1>. SUFFICES ASSUME TypeInv, TogetherInv, [Next]_vars PROVE TogetherInv'
    OBVIOUS
<1>0. \A c \in Calls : beside[c] \subseteq Calls
    BY DEF TypeInv, CallsOK
<1>1. ASSUME NEW c \in Calls, Arrives(c) PROVE TogetherInv'
    <2>1. PICK first \in FirstPlaces :
              /\ pc[c] = "idle" /\ pc'[c] = first
              /\ \A d \in Calls \ {c} : pc'[d] = pc[d]
              /\ beside'[c] = {d \in Calls : Open(d)}
              /\ \A d \in Calls \ {c} :
                     beside'[d] = IF Open(d) THEN beside[d] \cup {c} ELSE beside[d]
        <3>1. PICK k \in Kinds, in \in Inputs, read \in RepoRow \cup {None}, first \in FirstPlaces :
                  Start(c, k, in, read, first)
            BY <1>1, Zenon DEF Arrives
        <3>2. /\ pc[c] = "idle" /\ pc'[c] = first
              /\ \A d \in Calls \ {c} : pc'[d] = pc[d]
              /\ beside'[c] = {d \in Calls : Open(d)}
              /\ \A d \in Calls \ {c} :
                     beside'[d] = IF Open(d) THEN beside[d] \cup {c} ELSE beside[d]
            BY <3>1, Starts
        <3>. QED BY <3>2, Zenon
    <2>2. ASSUME NEW d \in Calls, NEW e \in Calls, Open(d)', Open(e)', d # e
          PROVE  e \in beside'[d]
        <3>1. CASE d = c
            BY <2>1, <2>2, <3>1 DEF Open, FirstPlaces
        <3>2. CASE e = c
            BY <2>1, <2>2, <3>2 DEF Open
        <3>3. CASE d # c /\ e # c
            BY <2>1, <2>2, <3>3 DEF Open, TogetherInv
        <3>. QED BY <3>1, <3>2, <3>3
    <2>3. ASSUME NEW d \in Calls, NEW e \in beside'[d] PROVE pc'[e] # "idle" /\ pc'[d] # "idle"
        <3>1. CASE e = c
            BY <1>0, <2>1, <2>3, <3>1 DEF Open, FirstPlaces, TogetherInv
        <3>2. CASE e # c /\ d = c
            BY <2>1, <2>3, <3>2 DEF Open, FirstPlaces
        <3>3. CASE e # c /\ d # c
            <4>1. e \in beside[d]
                BY <2>1, <2>3, <3>3
            <4>. QED BY <1>0, <2>1, <3>3, <4>1 DEF TogetherInv, Open
        <3>. QED BY <3>1, <3>2, <3>3
    <2>. QED BY <2>2, <2>3 DEF TogetherInv
<1>2. ASSUME beside' = beside, \A c \in Calls : pc[c] # "idle" => pc'[c] # "idle",
             \A c \in Calls : Open(c)' => Open(c)
      PROVE  TogetherInv'
    BY <1>0, <1>2 DEF TogetherInv
<1>3. ASSUME NEW c \in Calls, Moves(c) PROVE TogetherInv'
    BY <1>2, <1>3, Goes DEF Moves, Open
<1>4. ASSUME NEW c \in Calls, PublishDid(c) PROVE TogetherInv'
    BY <1>2, <1>4 DEF PublishDid, Open, Ended, TypeInv, CallsOK
<1>5. CASE UNCHANGED calls
    BY <1>2, <1>5 DEF calls, Open
<1>. QED BY <1>1, <1>3, <1>4, <1>5, Steps

\* At first only the session of the first account was made.
LEMMA TogetherInit == Init => TogetherInv
BY DEF Init, TogetherInv, Open, Ended

-----------------------------------------------------------------------------
(* What becomes of accounts.                                               *)

Inserts(c) ==
    /\ pc[c] = "insert" /\ pc'[c] = "decrement" /\ ~Clash(c)
    /\ repos' = [repos EXCEPT ![arg[c].did] = NewRepo(c)]
    /\ actors' = [actors EXCEPT ![arg[c].did] = arg[c].handle]

Writes(c) ==
    /\ pc[c] = "write" /\ kind[c] \notin {"activate", "deactivate"} /\ pc'[c] \in Ended
    /\ repos[arg[c].did] # None /\ ~Refused(c)
    /\ repos' = [repos EXCEPT ![arg[c].did] = Written(c)] /\ actors' = actors

Toggles(c) ==
    /\ pc[c] = "write" /\ repos[arg[c].did] # None
    /\ \E yes \in BOOLEAN : repos' = [repos EXCEPT ![arg[c].did] =
                                          [repos[arg[c].did] EXCEPT !.active = yes]]
    /\ actors' = actors

\* Accounts are made by sign-ups, changed by codes and by their activation, and
\* deleted; nothing else touches their rows.
LEMMA AccountSteps ==
    ASSUME TypeInv, [Next]_vars
    PROVE  \/ UNCHANGED <<repos, actors>>
           \/ \E c \in Calls : Inserts(c) \/ Writes(c) \/ Toggles(c) \/ DeleteRows(c)
<1>1. ASSUME NEW c \in Calls, SignUpNext(c) PROVE UNCHANGED <<repos, actors>> \/ Inserts(c)
    <2>1. CASE InsertAccount(c)
        <3>1. CASE Clash(c)
            BY <2>1, <3>1 DEF InsertAccount
        <3>2. CASE ~Clash(c)
            BY <2>1, <3>2, Goes DEF InsertAccount, Inserts
        <3>. QED BY <3>1, <3>2
    <2>2. CASE ~InsertAccount(c)
        BY <1>1, <2>2 DEF SignUpNext, SignUpStart, CheckSignUp, PublishDid, TakeUse,
               TakeUseSkipped, InviteStart, CreateInvite, tables
    <2>. QED BY <2>1, <2>2
<1>2. ASSUME NEW c \in Calls, SessionNext(c) PROVE UNCHANGED <<repos, actors>>
    BY <1>2 DEF SessionNext, CreateSessionStart, RefreshStart, DeleteSessionStart, DropRefresh,
           DropAccess, InsertToken, InsertRefreshToken, TakeAccess, DropPair, tables
<1>3. ASSUME NEW c \in Calls, CodesNext(c) PROVE UNCHANGED <<repos, actors>> \/ Writes(c)
    <2>1. CASE WriteCode(c)
        BY <2>1, Goes DEF WriteCode, Update, Writes, Ended
    <2>2. CASE MailFails(c)
        <3>1. ~Refused(c) /\ kind[c] \notin {"activate", "deactivate"}
            BY <2>2 DEF MailFails, Refused, Issuers
        <3>. QED BY <2>2, <3>1, Goes DEF MailFails, Update, Fail, Writes, Ended
    <2>3. CASE ~WriteCode(c) /\ ~MailFails(c)
        BY <1>3, <2>3 DEF CodesNext, RequestReset, RequestCode, SpendStart, UpdateEmailStart, tables
    <2>. QED BY <2>1, <2>2, <2>3
<1>4. ASSUME NEW c \in Calls, LifecycleNext(c)
      PROVE  UNCHANGED <<repos, actors>> \/ Toggles(c) \/ DeleteRows(c)
    <2>1. CASE SetActive(c)
        BY <2>1 DEF SetActive, Update, Toggles
    <2>2. CASE ~SetActive(c)
        BY <1>4, <2>2 DEF LifecycleNext, StatusStart, DeleteStart, tables
    <2>. QED BY <2>1, <2>2
<1>5. ASSUME NEW c \in Calls, StatementFails(c) PROVE UNCHANGED <<repos, actors>>
    BY <1>5 DEF StatementFails, tables
<1>. QED BY <1>1, <1>2, <1>3, <1>4, <1>5 DEF Next, TimePasses, vars, tables

\* The DIDs that sign-ups work on are published, before there is a row of them;
\* AccountsAreWhole alone is not inductive.
WholeInv ==
    /\ AccountsAreWhole
    /\ Elsewhere \subseteq directory
    /\ \A c \in Calls : pc[c] = "insert" => arg[c].did \in directory

\* A published DID stays published, and a sign-up inserts a published one.
LEMMA DirectoryGrows ==
    ASSUME TypeInv, WholeInv, [Next]_vars
    PROVE  /\ directory \subseteq directory'
           /\ \A c \in Calls : pc'[c] = "insert" => arg'[c].did \in directory'
<1>1. directory \subseteq directory'
    <2>1. ASSUME NEW c \in Calls, SignUpNext(c) PROVE directory \subseteq directory'
        BY <2>1 DEF SignUpNext, SignUpStart, CheckSignUp, PublishDid, InsertAccount, TakeUse,
               TakeUseSkipped, InviteStart, CreateInvite, tables
    <2>2. ASSUME NEW c \in Calls, SessionNext(c) PROVE directory \subseteq directory'
        BY <2>2 DEF SessionNext, CreateSessionStart, RefreshStart, DeleteSessionStart,
               DropRefresh, DropAccess, InsertToken, InsertRefreshToken, TakeAccess, DropPair, tables
    <2>3. ASSUME NEW c \in Calls, CodesNext(c) PROVE directory \subseteq directory'
        BY <2>3 DEF CodesNext, RequestReset, RequestCode, SpendStart, UpdateEmailStart,
               WriteCode, MailFails, tables
    <2>4. ASSUME NEW c \in Calls, LifecycleNext(c) \/ StatementFails(c)
          PROVE  directory \subseteq directory'
        BY <2>4 DEF LifecycleNext, StatusStart, SetActive, DeleteStart, DeleteRows,
               StatementFails, tables
    <2>. QED BY <2>1, <2>2, <2>3, <2>4 DEF Next, TimePasses, vars, tables
<1>2. ASSUME NEW c \in Calls, pc'[c] = "insert" PROVE arg'[c].did \in directory'
    <2>1. CASE pc[c] = "insert"
        BY <1>1, <2>1, Kept DEF CallsKept, WholeInv
    <2>2. CASE pc[c] # "insert"
        <3>1. StepOf(c)
            BY <1>2, <2>2, Whose
        <3>2. CASE PublishDid(c)
            <4>1. PICK d \in Dids : arg' = [arg EXCEPT ![c].did = d] /\ d \in directory'
                BY <3>2 DEF PublishDid
            <4>2. arg[c] \in Inputs /\ arg'[c] = [arg[c] EXCEPT !.did = d]
                BY <4>1 DEF TypeInv, CallsOK
            <4>. QED BY <4>1, <4>2 DEF Inputs
        <3>3. CASE CheckSignUp(c)
            <4>1. pc[c] = "check" /\ kind[c] = "migrate"
                BY <1>2, <3>3, Goes DEF CheckSignUp
            <4>2. arg[c].did \in Elsewhere /\ arg'[c] = arg[c]
                BY <4>1, Kept DEF CallsKept, TypeInv, CallsOK, Fits
            <4>. QED BY <1>1, <4>2 DEF WholeInv
        <3>4. CASE ~PublishDid(c) /\ ~CheckSignUp(c)
            <4>1. ASSUME NEW k, NEW in, NEW read, NEW first, Start(c, k, in, read, first)
                  PROVE  first = "insert"
                BY <1>2, <4>1, Starts
            <4>2. ASSUME NEW next, Goto(c, next) PROVE next = "insert"
                BY <1>2, <4>2, Goes
            <4>3. CASE SignUpNext(c)
                <5>1. ~\E k \in SignUps : SignUpStart(c, k)
                    BY <4>1 DEF SignUpStart
                <5>2. ~\E i \in Invites, owner \in {d \in Dids : repos[d] # None} \cup {None} :
                           InviteStart(c, i, owner)
                    BY <4>1 DEF InviteStart
                <5>3. ~InsertAccount(c) /\ ~TakeUse(c) /\ ~TakeUseSkipped(c) /\ ~CreateInvite(c)
                    BY <4>2 DEF InsertAccount, TakeUse, TakeUseSkipped, AfterUse, CreateInvite
                <5>. QED BY <3>4, <4>3, <5>1, <5>2, <5>3 DEF SignUpNext
            <4>4. CASE SessionNext(c)
                BY <4>1, <4>2, <4>4 DEF SessionNext, CreateSessionStart, RefreshStart,
                       DeleteSessionStart, DropRefresh, DropAccess, InsertToken,
                       InsertRefreshToken, TakeAccess, DropPair
            <4>5. CASE CodesNext(c)
                BY <4>1, <4>2, <4>5 DEF CodesNext, RequestReset, RequestCode, SpendStart,
                       UpdateEmailStart, WriteCode, MailFails, Fail
            <4>6. CASE LifecycleNext(c) \/ StatementFails(c)
                BY <4>1, <4>2, <4>6 DEF LifecycleNext, StatusStart, SetActive, DeleteStart,
                       DeleteRows, StatementFails, Fail
            <4>. QED BY <3>1, <4>3, <4>4, <4>5, <4>6 DEF StepOf
        <3>. QED BY <3>2, <3>3, <3>4
    <2>. QED BY <2>1, <2>2
<1>. QED BY <1>1, <1>2

\* The row of an account changes, and no other account has its address.
LEMMA RowChanges ==
    ASSUME TypeInv, WholeInv, directory \subseteq directory', NEW x \in Dids, repos[x] # None,
           NEW row \in RepoRow, repos' = [repos EXCEPT ![x] = row], actors' = actors,
           \A d \in Dids \ {x} : repos[d] # None => repos[d].email # row.email
    PROVE  AccountsAreWhole'
<1>. USE RowsAreThere DEF TypeInv, TypeOK, WholeInv, AccountsAreWhole
<1>1. repos'[x] = row /\ \A d \in Dids \ {x} : repos'[d] = repos[d]
    OBVIOUS
<1>2. \A d \in Dids : (repos'[d] = None) = (repos[d] = None)
    BY <1>1
<1>3. \A d \in Dids : repos'[d] # None => d \in directory'
    BY <1>2
<1>4. ASSUME NEW d \in Dids, NEW e \in Dids, d # e, repos'[d] # None, repos'[e] # None
      PROVE  repos'[d].email # repos'[e].email /\ actors'[d] # actors'[e]
    BY <1>1, <1>2, <1>4
<1>. QED BY <1>2, <1>3, <1>4

\* Accounts stay whole and apart.
LEMMA WholeStep == TypeInv /\ WholeInv /\ [Next]_vars => WholeInv'
<1>. SUFFICES ASSUME TypeInv, WholeInv, [Next]_vars PROVE WholeInv'
    OBVIOUS
<1>. USE RowsAreThere DEF TypeInv, TypeOK
<1>0. /\ directory \subseteq directory'
      /\ \A c \in Calls : pc'[c] = "insert" => arg'[c].did \in directory'
    BY DirectoryGrows
<1>1. ASSUME NEW c \in Calls, Inserts(c) PROVE AccountsAreWhole'
    <2>. DEFINE x == arg[c].did
    <2>1. /\ x \in Dids /\ x \in directory' /\ arg[c].handle \in Handles
          /\ NewRepo(c) \in RepoRow /\ NewRepo(c).email = arg[c].email
        <3>1. Fits("insert", kind[c], arg[c])
            BY <1>1 DEF Inserts, CallsOK
        <3>. QED BY <1>0, <1>1, <3>1 DEF Inserts, Fits, AtAccount, WholeInv, NewRepo, RepoRow, Codes
    <2>2. /\ repos[x] = None
          /\ \A d \in Dids \ {x} : repos[d] # None => repos[d].email # arg[c].email
          /\ \A d \in Dids \ {x} : actors[d] # arg[c].handle
        BY <1>1 DEF Inserts, Clash, EmailTaken, HandleTaken
    <2>3. /\ repos'[x] = NewRepo(c) /\ actors'[x] = arg[c].handle
          /\ \A d \in Dids \ {x} : repos'[d] = repos[d] /\ actors'[d] = actors[d]
        BY <1>1, <2>1 DEF Inserts
    <2>. HIDE DEF x
    <2>4. \A d \in Dids : (repos'[d] = None) = (actors'[d] = None)
        BY <2>1, <2>3 DEF WholeInv, AccountsAreWhole
    <2>5. \A d \in Dids : repos'[d] # None => d \in directory'
        BY <1>0, <2>1, <2>3 DEF WholeInv, AccountsAreWhole
    <2>6. ASSUME NEW d \in Dids, NEW e \in Dids, d # e, repos'[d] # None, repos'[e] # None
          PROVE  repos'[d].email # repos'[e].email /\ actors'[d] # actors'[e]
        BY <2>1, <2>2, <2>3, <2>6 DEF WholeInv, AccountsAreWhole
    <2>. QED BY <2>4, <2>5, <2>6 DEF AccountsAreWhole
<1>2. ASSUME NEW c \in Calls, Writes(c) PROVE AccountsAreWhole'
    <2>. DEFINE x == arg[c].did
    <2>1. /\ x \in Dids /\ repos[x] # None /\ Written(c) \in RepoRow
          /\ Written(c).email = IF kind[c] = "updateEmail" THEN arg[c].email ELSE repos[x].email
        BY <1>2, WrittenRow DEF Writes
    <2>2. repos' = [repos EXCEPT ![x] = Written(c)] /\ actors' = actors
        BY <1>2 DEF Writes
    <2>3. \A d \in Dids \ {x} : repos[d] # None => repos[d].email # Written(c).email
        <3>1. CASE kind[c] = "updateEmail"
            BY <1>2, <2>1, <3>1 DEF Writes, Refused
        <3>2. CASE kind[c] # "updateEmail"
            BY <2>1, <3>2 DEF WholeInv, AccountsAreWhole
        <3>. QED BY <3>1, <3>2
    <2>. QED BY <1>0, <2>1, <2>2, <2>3, RowChanges
<1>3. ASSUME NEW c \in Calls, Toggles(c) PROVE AccountsAreWhole'
    <2>. DEFINE x == arg[c].did
    <2>1. PICK yes \in BOOLEAN : repos' = [repos EXCEPT ![x] = [repos[x] EXCEPT !.active = yes]]
        BY <1>3 DEF Toggles
    <2>2. x \in Dids
        BY <1>3 DEF Toggles, CallsOK, Fits, AtAccount
    <2>3. repos[x] \in RepoRow
        BY <1>3, <2>2 DEF Toggles
    <2>4. [repos[x] EXCEPT !.active = yes] \in RepoRow
          /\ [repos[x] EXCEPT !.active = yes].email = repos[x].email
        BY <2>3 DEF RepoRow
    <2>5. \A d \in Dids \ {x} : repos[d] # None => repos[d].email # repos[x].email
        BY <1>3, <2>2 DEF Toggles, WholeInv, AccountsAreWhole
    <2>6. actors' = actors /\ repos[x] # None
        BY <1>3 DEF Toggles
    <2>7. PICK row \in RepoRow : row.email = repos[x].email /\ repos' = [repos EXCEPT ![x] = row]
        BY <2>1, <2>4
    <2>8. \A d \in Dids \ {x} : repos[d] # None => repos[d].email # row.email
        BY <2>5, <2>7
    <2>. HIDE DEF x
    <2>. QED BY <1>0, <2>2, <2>6, <2>7, <2>8, RowChanges
<1>4. ASSUME NEW c \in Calls, DeleteRows(c) PROVE AccountsAreWhole'
    <2>1. \A d \in Dids : /\ repos'[d] = IF d = arg[c].did THEN None ELSE repos[d]
                          /\ actors'[d] = IF d = arg[c].did THEN None ELSE actors[d]
        BY <1>4 DEF DeleteRows
    <2>. QED BY <1>0, <2>1 DEF WholeInv, AccountsAreWhole
<1>5. CASE UNCHANGED <<repos, actors>>
    BY <1>0, <1>5 DEF WholeInv, AccountsAreWhole
<1>6. Elsewhere' = Elsewhere
    BY DEF Elsewhere
<1>. QED BY <1>0, <1>1, <1>2, <1>3, <1>4, <1>5, <1>6, AccountSteps DEF WholeInv

\* At first there is one account, and its DID is published.
LEMMA WholeInit == Init => WholeInv
<1>. SUFFICES ASSUME Init PROVE WholeInv
    OBVIOUS
<1>1. /\ repos[FirstDid] # None /\ actors[FirstDid] # None /\ FirstDid \in directory
      /\ \A d \in Dids \ {FirstDid} : repos[d] = None /\ actors[d] = None
    <2>1. [email |-> FirstEmail, confirmed |-> TRUE, active |-> TRUE,
           verify |-> None, update |-> None, reset |-> None] \in RepoRow
        BY FirstAssumption DEF RepoRow, Codes
    <2>. QED BY <2>1, FirstAssumption, RowsAreThere DEF Init
<1>. QED BY <1>1 DEF Init, WholeInv, AccountsAreWhole

\* Whatever overlaps, handles and addresses stay unique, an account has both its
\* rows or none, and its DID is published.
THEOREM AccountsStayWhole == Spec => []AccountsAreWhole
<1>1. WholeInv => AccountsAreWhole
    BY DEF WholeInv
<1>. QED BY TypeInit, TypeStep, WholeInit, WholeStep, <1>1, PTL DEF Spec

-----------------------------------------------------------------------------
(* The uses of an invite.                                                  *)

\* A sign-up that has found the invite good and has not taken its use.
Pending(c, i) == pc[c] \in {"publish", "insert", "decrement"} /\ arg[c].invite = i

\* Sign-ups with the invite were open together.
Shared(i) ==
    \E c, d \in Calls : /\ {kind[c], kind[d]} \subseteq SignUps
                        /\ arg[c].invite = i /\ arg[d].invite = i /\ d \in beside[c]

\* OverdrawnOnlyTogether is not inductive: an invite that was not shared has a use
\* left for the sign-up that is pending.
InviteInv ==
    \A i \in Invites : invites[i] # None /\ ~Shared(i) =>
        /\ invites[i].left >= 0
        /\ (\E c \in Calls : Pending(c, i)) => invites[i].left >= 1

\* Invites are made, lose a use, and go with their owner.
LEMMA InviteSteps ==
    ASSUME [Next]_vars
    PROVE  UNCHANGED invites \/ \E c \in Calls : TakeUse(c) \/ CreateInvite(c) \/ DeleteRows(c)
<1>1. ASSUME NEW c \in Calls, SignUpNext(c) PROVE UNCHANGED invites \/ TakeUse(c) \/ CreateInvite(c)
    BY <1>1 DEF SignUpNext, SignUpStart, CheckSignUp, PublishDid, InsertAccount, TakeUseSkipped,
           InviteStart, tables
<1>2. ASSUME NEW c \in Calls, SessionNext(c) PROVE UNCHANGED invites
    BY <1>2 DEF SessionNext, CreateSessionStart, RefreshStart, DeleteSessionStart, DropRefresh,
           DropAccess, InsertToken, InsertRefreshToken, TakeAccess, DropPair, tables
<1>3. ASSUME NEW c \in Calls, CodesNext(c) PROVE UNCHANGED invites
    BY <1>3 DEF CodesNext, RequestReset, RequestCode, SpendStart, UpdateEmailStart, WriteCode,
           MailFails, tables
<1>4. ASSUME NEW c \in Calls, LifecycleNext(c) \/ StatementFails(c)
      PROVE  UNCHANGED invites \/ DeleteRows(c)
    BY <1>4 DEF LifecycleNext, StatusStart, SetActive, DeleteStart, StatementFails, tables
<1>. QED BY <1>1, <1>2, <1>3, <1>4 DEF Next, TimePasses, vars, tables

\* Sign-ups that were open together were.
LEMMA SharedStays ==
    ASSUME TypeInv, TogetherInv, [Next]_vars, NEW i, Shared(i)
    PROVE  Shared(i)'
<1>1. PICK c \in Calls, d \in Calls : /\ {kind[c], kind[d]} \subseteq SignUps
                                      /\ arg[c].invite = i /\ arg[d].invite = i /\ d \in beside[c]
    BY DEF Shared
<1>2. pc[c] # "idle" /\ pc[d] # "idle"
    BY <1>1 DEF TogetherInv
<1>. QED BY <1>1, <1>2, Kept DEF CallsKept, Shared

\* A sign-up becomes pending when it finds a use left.
LEMMA PendingBegins ==
    ASSUME TypeInv, [Next]_vars, NEW c \in Calls, NEW i, Pending(c, i)', ~Pending(c, i)
    PROVE  invites' = invites /\ invites[i] # None /\ invites[i].left >= 1
<1>1. pc'[c] # pc[c]
    BY Kept DEF CallsKept, Pending
<1>2. pc[c] # "idle"
    BY Arrivals DEF Pending, FirstPlaces
<1>3. arg'[c].invite = arg[c].invite
    BY <1>2, Kept DEF CallsKept
<1>4. pc[c] \notin {"publish", "insert", "decrement"} /\ pc'[c] \in {"publish", "insert", "decrement"}
      /\ arg[c].invite = i
    BY <1>3 DEF Pending
<1>5. CheckSignUp(c)
    <2>1. ASSUME NEW next, Goto(c, next) PROVE next = pc'[c]
        BY <2>1, Goes
    <2>2. ~TakeUse(c) /\ ~TakeUseSkipped(c) /\ ~WriteCode(c)
        BY <1>4, <2>1 DEF TakeUse, TakeUseSkipped, AfterUse, WriteCode
    <2>3. ~PublishDid(c) /\ ~InsertAccount(c)
        BY <1>4 DEF PublishDid, InsertAccount
    <2>4. ~CreateInvite(c) /\ ~SetActive(c) /\ ~DeleteRows(c)
        BY <1>4, <2>1 DEF CreateInvite, SetActive, DeleteRows
    <2>5. ~DropRefresh(c) /\ ~DropAccess(c) /\ ~InsertToken(c) /\ ~InsertRefreshToken(c)
          /\ ~TakeAccess(c) /\ ~DropPair(c)
        BY <1>4, <2>1 DEF DropRefresh, DropAccess, InsertToken, InsertRefreshToken,
               TakeAccess, DropPair
    <2>. QED BY <1>1, <1>2, <1>4, <2>2, <2>3, <2>4, <2>5, Edges
<1>6. GoodInvite(c) /\ invites' = invites
    BY <1>4, <1>5, Goes DEF CheckSignUp, tables
<1>. QED BY <1>4, <1>6 DEF GoodInvite

\* The uses of invites are inductive.
LEMMA InviteStep == TypeInv /\ TogetherInv /\ InviteInv /\ [Next]_vars => InviteInv'
<1>. SUFFICES ASSUME TypeInv, TogetherInv, InviteInv, [Next]_vars,
                     NEW i \in Invites, invites'[i] # None, ~Shared(i)'
              PROVE  /\ invites'[i].left >= 0
                     /\ (\E c \in Calls : Pending(c, i)') => invites'[i].left >= 1
    BY DEF InviteInv
<1>1. ~Shared(i)
    BY SharedStays
<1>2. CASE invites'[i] = invites[i]
    <2>1. ASSUME NEW c \in Calls, Pending(c, i)' PROVE invites[i].left >= 1
        <3>1. CASE Pending(c, i)
            BY <1>1, <1>2, <3>1 DEF InviteInv
        <3>2. CASE ~Pending(c, i)
            BY <2>1, <3>2, PendingBegins
        <3>. QED BY <3>1, <3>2
    <2>. QED BY <1>1, <1>2, <2>1 DEF InviteInv
<1>3. ASSUME NEW c \in Calls, TakeUse(c), arg[c].invite = i
      PROVE  /\ invites'[i].left >= 0
             /\ (\E d \in Calls : Pending(d, i)') => invites'[i].left >= 1
    <2>1. pc[c] = "decrement" /\ Goto(c, AfterUse(kind[c]))
        BY <1>3 DEF TakeUse
    <2>2. invites[i] # None /\ invites[i] \in InviteRow
        BY <1>3 DEF TakeUse, TypeInv, TypeOK
    <2>3. invites[i].left \in Int /\ invites[i].left >= 1
        BY <1>1, <1>3, <2>1, <2>2 DEF InviteInv, Pending, InviteRow
    <2>4. invites' = [invites EXCEPT ![i] = [invites[i] EXCEPT !.left = @ - 1]]
        BY <1>3, <2>2 DEF TakeUse
    <2>5. invites'[i].left = invites[i].left - 1
        BY <2>2, <2>4 DEF TypeInv, TypeOK, InviteRow
    <2>6. ASSUME NEW d \in Calls, Pending(d, i)' PROVE FALSE
        <3>1. d # c
            BY <2>1, <2>6, Goes DEF Pending, AfterUse
        <3>2. Pending(d, i)
            BY <2>1, <2>6, <3>1, Goes DEF Pending
        <3>3. d \in beside[c]
            BY <2>1, <3>1, <3>2 DEF TogetherInv, Open, Ended, Pending
        <3>4. kind[c] \in SignUps /\ kind[d] \in SignUps
            BY <2>1, <3>2 DEF Pending, TypeInv, CallsOK, Fits
        <3>. QED BY <1>1, <1>3, <3>2, <3>3, <3>4 DEF Shared, Pending
    <2>. QED BY <2>3, <2>5, <2>6
<1>4. ASSUME NEW c \in Calls, TakeUse(c), arg[c].invite # i PROVE invites'[i] = invites[i]
    BY <1>4 DEF TakeUse, TypeInv, TypeOK
<1>5. ASSUME NEW c \in Calls, CreateInvite(c)
      PROVE  invites'[i] = invites[i] \/ invites'[i].left = 1
    BY <1>5 DEF CreateInvite, TypeInv, TypeOK
<1>6. ASSUME NEW c \in Calls, DeleteRows(c) PROVE invites'[i] = invites[i]
    BY <1>6 DEF DeleteRows
<1>. QED BY <1>2, <1>3, <1>4, <1>5, <1>6, InviteSteps

\* An invite is used more often than it says only by sign-ups that were open
\* together.
THEOREM InvitesAreOverdrawnTogether == Spec => []OverdrawnOnlyTogether
<1>1. TypeInv /\ InviteInv => OverdrawnOnlyTogether
    BY DEF TypeInv, TypeOK, InviteInv, InviteRow, Shared, OverdrawnOnlyTogether
<1>2. Init => InviteInv
    BY FirstAssumption DEF Init, InviteInv
<1>. QED BY TypeInit, TypeStep, TogetherInit, TogetherStep, InviteStep, <1>1, <1>2, PTL DEF Spec

-----------------------------------------------------------------------------
(* What becomes of sessions.                                               *)

\* The statements that touch the token rows.
LEMMA SessionSteps ==
    ASSUME [Next]_vars
    PROVE  \/ UNCHANGED <<access, refresh>>
           \/ \E c \in Calls : \/ DropRefresh(c) \/ DropAccess(c) \/ InsertToken(c)
                               \/ InsertRefreshToken(c) \/ TakeAccess(c) \/ DropPair(c)
                               \/ DeleteRows(c)
<1>1. ASSUME NEW c \in Calls, SignUpNext(c) PROVE UNCHANGED <<access, refresh>>
    BY <1>1 DEF SignUpNext, SignUpStart, CheckSignUp, PublishDid, InsertAccount, TakeUse,
           TakeUseSkipped, InviteStart, CreateInvite, tables
<1>2. ASSUME NEW c \in Calls, SessionNext(c)
      PROVE  \/ UNCHANGED <<access, refresh>>
             \/ DropRefresh(c) \/ DropAccess(c) \/ InsertToken(c)
             \/ InsertRefreshToken(c) \/ TakeAccess(c) \/ DropPair(c)
    BY <1>2 DEF SessionNext, CreateSessionStart, RefreshStart, DeleteSessionStart, tables
<1>3. ASSUME NEW c \in Calls, CodesNext(c) PROVE UNCHANGED <<access, refresh>>
    BY <1>3 DEF CodesNext, RequestReset, RequestCode, SpendStart, UpdateEmailStart, WriteCode,
           MailFails, tables
<1>4. ASSUME NEW c \in Calls, LifecycleNext(c) \/ StatementFails(c)
      PROVE  UNCHANGED <<access, refresh>> \/ DeleteRows(c)
    BY <1>4 DEF LifecycleNext, StatusStart, SetActive, DeleteStart, StatementFails, tables
<1>. QED BY <1>1, <1>2, <1>3, <1>4 DEF Next, TimePasses, vars, tables

\* A call that arrives has made the checks of its handler.
LEMMA ArrivalChecks ==
    ASSUME TypeInv, [Next]_vars, NEW c \in Calls, pc[c] = "idle", pc'[c] # "idle"
    PROVE  /\ kind'[c] = "refreshSession" => \E s \in Calls : RefreshStart(c, s)
           /\ kind'[c] = "deleteSession" => \E s \in Calls : DeleteSessionStart(c, s)
           /\ pc'[c] = "token" => \E d \in Dids : CreateSessionStart(c, d)
           /\ kind'[c] \in Spenders =>
                  \/ \E s \in Calls, k \in {"resetPassword", "confirmEmail"}, code \in Calls :
                         SpendStart(c, k, s, code)
                  \/ \E s \in Calls, e \in NewEmails, code \in Codes : UpdateEmailStart(c, s, e, code)
<1>1. StepOf(c)
    BY Whose
<1>2. ASSUME NEW k, NEW in, NEW read, NEW first, Start(c, k, in, read, first)
      PROVE  kind'[c] = k /\ pc'[c] = first
    BY <1>2, Starts
<1>3. CASE SignUpNext(c)
    <2>1. ASSUME NEW k \in SignUps, SignUpStart(c, k) PROVE kind'[c] \in SignUps /\ pc'[c] = "check"
        BY <1>2, <2>1 DEF SignUpStart
    <2>2. ASSUME NEW i, NEW owner, InviteStart(c, i, owner)
          PROVE  kind'[c] = "createInviteCode" /\ pc'[c] = "code"
        BY <1>2, <2>2 DEF InviteStart
    <2>3. (kind'[c] \in SignUps /\ pc'[c] = "check") \/ (kind'[c] = "createInviteCode" /\ pc'[c] = "code")
        BY <1>3, <2>1, <2>2 DEF SignUpNext, CheckSignUp, PublishDid, InsertAccount, TakeUse,
               TakeUseSkipped, CreateInvite
    <2>. QED BY <2>3 DEF SignUps, Spenders
<1>4. CASE SessionNext(c)
    <2>1. ASSUME NEW d \in Dids, CreateSessionStart(c, d)
          PROVE  kind'[c] = "createSession" /\ pc'[c] = "token"
        BY <1>2, <2>1 DEF CreateSessionStart
    <2>2. ASSUME NEW s \in Calls, RefreshStart(c, s)
          PROVE  kind'[c] = "refreshSession" /\ pc'[c] = "dropRefresh"
        BY <1>2, <2>2 DEF RefreshStart
    <2>3. ASSUME NEW s \in Calls, DeleteSessionStart(c, s)
          PROVE  kind'[c] = "deleteSession" /\ pc'[c] = "takeAccess"
        BY <1>2, <2>3 DEF DeleteSessionStart
    <2>4. \/ \E d \in Dids : CreateSessionStart(c, d)
          \/ \E s \in Calls : RefreshStart(c, s) \/ DeleteSessionStart(c, s)
        BY <1>4 DEF SessionNext, DropRefresh, DropAccess, InsertToken, InsertRefreshToken,
               TakeAccess, DropPair
    <2>. QED BY <2>1, <2>2, <2>3, <2>4 DEF Spenders
<1>5. CASE CodesNext(c)
    <2>1. ASSUME NEW d \in Dids, RequestReset(c, d)
          PROVE  kind'[c] = "requestPasswordReset" /\ pc'[c] = "write"
        BY <1>2, <2>1 DEF RequestReset
    <2>2. ASSUME NEW s \in Calls, NEW k \in {"requestEmailConfirmation", "requestEmailUpdate"},
                 RequestCode(c, k, s)
          PROVE  kind'[c] = k /\ pc'[c] = "write"
        BY <1>2, <2>2 DEF RequestCode
    <2>3. ASSUME NEW s \in Calls, NEW k \in {"resetPassword", "confirmEmail"}, NEW code \in Calls,
                 SpendStart(c, k, s, code)
          PROVE  kind'[c] = k /\ pc'[c] = "write"
        BY <1>2, <2>3 DEF SpendStart
    <2>4. ASSUME NEW s \in Calls, NEW e \in NewEmails, NEW code \in Codes,
                 UpdateEmailStart(c, s, e, code)
          PROVE  kind'[c] = "updateEmail" /\ pc'[c] = "write"
        BY <1>2, <2>4 DEF UpdateEmailStart
    <2>5. ~WriteCode(c) /\ ~MailFails(c)
        BY DEF WriteCode, MailFails
    <2>. QED BY <1>5, <2>1, <2>2, <2>3, <2>4, <2>5 DEF CodesNext, Spenders
<1>6. CASE LifecycleNext(c) \/ StatementFails(c)
    <2>1. ASSUME NEW s \in Calls, NEW k \in {"activate", "deactivate"}, StatusStart(c, k, s)
          PROVE  kind'[c] = k /\ pc'[c] = "write"
        BY <1>2, <2>1 DEF StatusStart
    <2>2. ASSUME NEW d \in Dids, DeleteStart(c, d)
          PROVE  kind'[c] = "accountDelete" /\ pc'[c] = "delete"
        BY <1>2, <2>2 DEF DeleteStart
    <2>3. ~SetActive(c) /\ ~DeleteRows(c) /\ ~StatementFails(c)
        BY DEF SetActive, DeleteRows, StatementFails, Open
    <2>. QED BY <1>6, <2>1, <2>2, <2>3 DEF LifecycleNext, Spenders
<1>. QED BY <1>1, <1>3, <1>4, <1>5, <1>6 DEF StepOf

\* The rows of tokens are of sessions whose making came so far, and a session that is
\* refreshed or signed out had been made.
RowsInv ==
    /\ \A s \in access : pc[s] \in {"refreshToken", "ok", "failed"} /\ kind[s] \in SessionMakers
    /\ \A s \in refresh : pc[s] = "ok" /\ kind[s] \in SessionMakers
    /\ \A c \in Calls : pc[c] # "idle" /\ kind[c] \in {"refreshSession", "deleteSession"} =>
           arg[c].session \in Calls /\ pc[arg[c].session] = "ok"

\* A call of sessions goes by the session that it was given.
LEMMA SessionArrives ==
    ASSUME TypeInv, [Next]_vars, NEW c \in Calls, pc[c] = "idle", pc'[c] # "idle",
           kind'[c] \in {"refreshSession", "deleteSession"}
    PROVE  \E s \in Calls :
               /\ arg'[c].session = s /\ arg'[c].did = arg[s].did /\ Issued(s)
               /\ repos[arg[s].did] # None
               /\ kind'[c] = "refreshSession" => s \in refresh /\ pc'[c] = "dropRefresh"
               /\ kind'[c] = "deleteSession" => pc'[c] = "takeAccess"
<1>1. ASSUME NEW s \in Calls, NEW k, NEW first,
             Start(c, k, [NoInput EXCEPT !.did = arg[s].did, !.session = s], None, first)
      PROVE  arg'[c].session = s /\ arg'[c].did = arg[s].did /\ kind'[c] = k /\ pc'[c] = first
    <2>1. /\ arg'[c] = [NoInput EXCEPT !.did = arg[s].did, !.session = s]
          /\ kind'[c] = k /\ pc'[c] = first
        BY <1>1, Starts
    <2>. QED BY <2>1 DEF NoInput
<1>2. ASSUME NEW s \in Calls, RefreshStart(c, s)
      PROVE  /\ arg'[c].session = s /\ arg'[c].did = arg[s].did /\ Issued(s) /\ s \in refresh
             /\ repos[arg[s].did] # None /\ kind'[c] = "refreshSession" /\ pc'[c] = "dropRefresh"
    BY <1>1, <1>2 DEF RefreshStart, RefreshToken
<1>3. ASSUME NEW s \in Calls, DeleteSessionStart(c, s)
      PROVE  /\ arg'[c].session = s /\ arg'[c].did = arg[s].did /\ Issued(s)
             /\ repos[arg[s].did] # None /\ kind'[c] = "deleteSession" /\ pc'[c] = "takeAccess"
    BY <1>1, <1>3 DEF DeleteSessionStart, AccessToken
<1>4. CASE kind'[c] = "refreshSession"
    BY <1>2, <1>4, ArrivalChecks
<1>5. CASE kind'[c] = "deleteSession"
    BY <1>3, <1>5, ArrivalChecks
<1>. QED BY <1>4, <1>5

\* A session's token is stored by the call that makes it; an access token goes when
\* its session is refreshed or signed out, or with its account.
LEMMA TokenMoves ==
    ASSUME TypeInv, [Next]_vars, NEW s \in Calls
    PROVE  /\ s \in access' /\ s \notin access => pc[s] = "token" /\ pc'[s] = "refreshToken"
           /\ s \in refresh' /\ s \notin refresh =>
                  pc[s] = "refreshToken" /\ pc'[s] = "ok" /\ access' = access
           /\ s \in access /\ s \notin access' =>
                  \/ \E c \in Calls : pc[c] = "dropAccess" /\ arg[c].session = s
                  \/ \E c \in Calls : /\ pc[c] = "takeAccess" /\ pc'[c] = "dropPair"
                                      /\ arg[c].session = s
                  \/ \E c \in Calls : pc[c] = "delete" /\ s \notin refresh'
<1>1. ASSUME NEW c \in Calls, DropRefresh(c) \/ DropPair(c)
      PROVE  access' = access /\ refresh' \subseteq refresh
    BY <1>1 DEF DropRefresh, DropPair
<1>2. ASSUME NEW c \in Calls, DropAccess(c)
      PROVE  /\ refresh' = refresh /\ access' \subseteq access
             /\ s \in access /\ s \notin access' => pc[c] = "dropAccess" /\ arg[c].session = s
    BY <1>2 DEF DropAccess
<1>3. ASSUME NEW c \in Calls, InsertToken(c)
      PROVE  /\ refresh' = refresh /\ access \subseteq access'
             /\ s \in access' /\ s \notin access => pc[s] = "token" /\ pc'[s] = "refreshToken"
    BY <1>3, Goes DEF InsertToken
<1>4. ASSUME NEW c \in Calls, InsertRefreshToken(c)
      PROVE  /\ access' = access
             /\ s \in refresh' /\ s \notin refresh => pc[s] = "refreshToken" /\ pc'[s] = "ok"
    BY <1>4, Goes DEF InsertRefreshToken
<1>5. ASSUME NEW c \in Calls, TakeAccess(c)
      PROVE  /\ refresh' = refresh /\ access' \subseteq access
             /\ s \in access /\ s \notin access' =>
                    pc[c] = "takeAccess" /\ pc'[c] = "dropPair" /\ arg[c].session = s
    BY <1>5, Goes DEF TakeAccess
<1>6. ASSUME NEW c \in Calls, DeleteRows(c)
      PROVE  /\ access' \subseteq access /\ refresh' \subseteq refresh
             /\ s \in access /\ s \notin access' => pc[c] = "delete" /\ s \notin refresh'
    BY <1>6 DEF DeleteRows
<1>. QED BY <1>1, <1>2, <1>3, <1>4, <1>5, <1>6, SessionSteps

\* The rows of tokens are inductive.
LEMMA RowsStep == TypeInv /\ RowsInv /\ [Next]_vars => RowsInv'
<1>. SUFFICES ASSUME TypeInv, RowsInv, [Next]_vars PROVE RowsInv'
    OBVIOUS
<1>. USE DEF TypeInv, TypeOK
<1>0. CallsKept
    BY Kept
<1>1. ASSUME NEW s \in Calls, s \in access', s \notin access
      PROVE  pc[s] = "token" /\ pc'[s] = "refreshToken"
    BY <1>1, TokenMoves
<1>2. ASSUME NEW s \in Calls, s \in refresh', s \notin refresh
      PROVE  pc[s] = "refreshToken" /\ pc'[s] = "ok"
    BY <1>2, TokenMoves
<1>3. access' \subseteq Calls /\ refresh' \subseteq Calls
    BY TypeStep
<1>4. ASSUME NEW s \in access'
      PROVE  pc'[s] \in {"refreshToken", "ok", "failed"} /\ kind'[s] \in SessionMakers
    <2>1. CASE s \notin access
        BY <1>0, <1>1, <1>3, <2>1 DEF CallsKept, CallsOK, Fits
    <2>2. CASE s \in access /\ pc[s] = "refreshToken"
        <3>1. pc'[s] \in {"refreshToken", "ok", "failed"}
            <4>1. CASE pc'[s] = pc[s]
                BY <2>2, <4>1
            <4>2. CASE pc'[s] # pc[s] /\ pc'[s] # "failed"
                <5>1. InsertRefreshToken(s)
                    BY <2>2, <4>2, Edges DEF CheckSignUp, PublishDid, InsertAccount, TakeUse,
                           TakeUseSkipped, CreateInvite, DropRefresh, DropAccess, InsertToken,
                           TakeAccess, DropPair, WriteCode, SetActive, DeleteRows
                <5>. QED BY <5>1, Goes DEF InsertRefreshToken
            <4>. QED BY <4>1, <4>2
        <3>. QED BY <1>0, <2>2, <3>1 DEF CallsKept, RowsInv
    <2>3. CASE s \in access /\ pc[s] # "refreshToken"
        BY <1>0, <2>3 DEF CallsKept, RowsInv, Ended
    <2>. QED BY <2>1, <2>2, <2>3
<1>5. ASSUME NEW s \in refresh' PROVE pc'[s] = "ok" /\ kind'[s] \in SessionMakers
    <2>1. CASE s \notin refresh
        BY <1>0, <1>2, <1>3, <2>1 DEF CallsKept, CallsOK, Fits
    <2>2. CASE s \in refresh
        BY <1>0, <2>2 DEF CallsKept, RowsInv, Ended
    <2>. QED BY <2>1, <2>2
<1>6. ASSUME NEW c \in Calls, pc'[c] # "idle", kind'[c] \in {"refreshSession", "deleteSession"}
      PROVE  arg'[c].session \in Calls /\ pc'[arg'[c].session] = "ok"
    <2>1. CASE pc[c] = "idle"
        <3>1. PICK s \in Calls : arg'[c].session = s /\ Issued(s)
            BY <1>6, <2>1, SessionArrives
        <3>. QED BY <1>0, <3>1 DEF Issued, CallsKept, Ended
    <2>2. CASE pc[c] # "idle"
        BY <1>0, <1>6, <2>2 DEF CallsKept, RowsInv, Ended
    <2>. QED BY <2>1, <2>2
<1>. QED BY <1>4, <1>5, <1>6 DEF RowsInv

\* At first there is the session of the first account.
LEMMA RowsInit == Init => RowsInv
BY FirstAssumption DEF Init, RowsInv, SessionMakers

\* The account was deleted beside the making of the session.
DeletedBeside(s) == \E d \in beside[s] : kind[d] = "accountDelete"

\* A sign-out of the session has failed, or still has the refresh token to delete.
SignOutBroken(s) == \E d \in Calls : /\ kind[d] = "deleteSession" /\ arg[d].session = s
                                     /\ pc[d] \in {"failed", "dropPair"}

Live(c) == Open(c) \/ pc[c] = "ok"

\* RefreshedOnce and SignedOutStaysOut are not inductive: what a call has deleted stays
\* deleted, and a refresh token has an access token beside it, by which a sign-out
\* finds it.
SessionInv ==
    /\ \A c \in Calls :
          (kind[c] = "refreshSession" /\ pc[c] \in {"dropAccess", "token", "refreshToken", "ok"})
          => arg[c].session \notin refresh
    /\ \A c, d \in Calls :
          (/\ c # d /\ Live(c) /\ Live(d) /\ arg[c].session = arg[d].session
           /\ kind[c] = "refreshSession" /\ kind[d] = "refreshSession")
          => d \in beside[c]
    /\ \A c \in Calls :
          (kind[c] = "deleteSession" /\ pc[c] \in {"dropPair", "ok"})
          => arg[c].session \notin access
    /\ \A s \in Calls : pc[s] = "refreshToken" => s \in access \/ DeletedBeside(s)
    /\ \A s \in refresh : s \in access \/ DeletedBeside(s) \/ SignOutBroken(s)

\* What was beside a session stays beside it.
LEMMA DeletedBesideStays ==
    ASSUME TypeInv, TogetherInv, [Next]_vars, NEW s \in Calls, DeletedBeside(s)
    PROVE  DeletedBeside(s)'
<1>1. PICK d \in beside[s] : kind[d] = "accountDelete"
    BY DEF DeletedBeside
<1>2. d \in Calls /\ pc[d] # "idle" /\ pc[s] # "idle"
    BY <1>1 DEF TypeInv, CallsOK, TogetherInv
<1>. QED BY <1>1, <1>2, Kept DEF CallsKept, DeletedBeside

\* A refresh goes on from place to place, the first being the deletion of the old
\* refresh token; so does a sign-out.
LEMMA SessionGoesOn ==
    ASSUME TypeInv, [Next]_vars, NEW c \in Calls, pc'[c] # pc[c], pc[c] # "idle", pc'[c] # "failed"
    PROVE  /\ kind[c] = "refreshSession" =>
                  DropRefresh(c) \/ pc[c] \in {"dropAccess", "token", "refreshToken"}
           /\ kind[c] = "deleteSession" => TakeAccess(c) \/ DropPair(c)
           /\ pc'[c] = "refreshToken" => InsertToken(c)
           /\ pc[c] = "dropPair" => DropPair(c)
<1>1. Fits(pc[c], kind[c], arg[c])
    BY DEF TypeInv, CallsOK
<1>2. ASSUME NEW next, Goto(c, next) PROVE pc'[c] = next
    BY <1>2, Goes
<1>3. CASE CheckSignUp(c) \/ PublishDid(c) \/ InsertAccount(c) \/ TakeUse(c) \/ TakeUseSkipped(c)
    <2>1. /\ pc[c] \in {"check", "publish", "insert", "decrement"}
          /\ pc'[c] # "refreshToken"
        BY <1>2, <1>3 DEF CheckSignUp, PublishDid, InsertAccount, TakeUse, TakeUseSkipped,
               AfterUse, TypeInv, CallsOK
    <2>. QED BY <1>1, <2>1 DEF Fits, SignUps
<1>4. CASE CreateInvite(c)
    BY <1>1, <1>2, <1>4 DEF CreateInvite, Fits
<1>5. CASE DropRefresh(c)
    BY <1>1, <1>2, <1>5 DEF DropRefresh, Fits
<1>6. CASE DropAccess(c)
    BY <1>1, <1>2, <1>6 DEF DropAccess, Fits
<1>7. CASE InsertToken(c)
    BY <1>1, <1>2, <1>7 DEF InsertToken, Fits, SessionMakers
<1>8. CASE InsertRefreshToken(c)
    BY <1>1, <1>2, <1>8 DEF InsertRefreshToken, Fits, SessionMakers
<1>9. CASE TakeAccess(c)
    BY <1>1, <1>2, <1>9 DEF TakeAccess, Fits
<1>10. CASE DropPair(c)
    BY <1>1, <1>2, <1>10 DEF DropPair, Fits
<1>11. CASE WriteCode(c) \/ SetActive(c)
    BY <1>1, <1>2, <1>11 DEF WriteCode, SetActive, Fits, Writers, Issuers, Spenders
<1>12. CASE DeleteRows(c)
    BY <1>1, <1>2, <1>12 DEF DeleteRows, Fits
<1>. QED BY <1>3, <1>4, <1>5, <1>6, <1>7, <1>8, <1>9, <1>10, <1>11, <1>12, Edges

\* When a call arrives the others stay where they are, and the ones that are open know it.
LEMMA ArrivesAlone ==
    ASSUME TypeInv, [Next]_vars, NEW c \in Calls, pc[c] = "idle", pc'[c] # "idle"
    PROVE  /\ \A d \in Calls \ {c} : pc'[d] = pc[d] /\ kind'[d] = kind[d] /\ arg'[d] = arg[d]
           /\ \A d \in Calls \ {c} : Open(d) => c \in beside'[d] /\ d \in beside'[c]
           /\ UNCHANGED <<tables, age>>
<1>1. Arrives(c)
    BY Arrivals
<1>. QED BY <1>1, Starts DEF Arrives

\* A call that is open or was answered well was so before, or arrives.
LEMMA LiveBefore ==
    ASSUME TypeInv, [Next]_vars, NEW c \in Calls, Live(c)'
    PROVE  Live(c) \/ pc[c] = "idle"
BY Kept DEF CallsKept, Live, Open, Ended, TypeInv, CallsOK, Places

\* What refreshes and sign-outs delete stays deleted.
LEMMA SessionStep == TypeInv /\ TogetherInv /\ RowsInv /\ SessionInv /\ [Next]_vars => SessionInv'
<1>. SUFFICES ASSUME TypeInv, TogetherInv, RowsInv, SessionInv, [Next]_vars PROVE SessionInv'
    OBVIOUS
<1>0. CallsKept /\ RowsInv' /\ TypeInv'
    BY Kept, RowsStep, TypeStep
<1>1. ASSUME NEW c \in Calls, pc[c] # "idle", kind'[c] \in {"refreshSession", "deleteSession"}
      PROVE  /\ kind[c] = kind'[c] /\ arg'[c].session = arg[c].session
             /\ arg[c].session \in Calls /\ pc[arg[c].session] = "ok"
    BY <1>0, <1>1 DEF CallsKept, RowsInv
<1>2. ASSUME NEW c \in Calls, kind'[c] = "refreshSession",
             pc'[c] \in {"dropAccess", "token", "refreshToken", "ok"}
      PROVE  arg'[c].session \notin refresh'
    <2>1. pc[c] # "idle"
        BY <1>2, SessionArrives
    <2>2. CASE DropRefresh(c)
        <3>1. arg[c].session \notin refresh'
            BY <2>2 DEF DropRefresh
        <3>. QED BY <1>1, <1>2, <2>1, <3>1
    <2>3. CASE pc[c] \in {"dropAccess", "token", "refreshToken", "ok"}
        <3>1. arg[c].session \notin refresh
            BY <1>1, <1>2, <2>1, <2>3 DEF SessionInv
        <3>. QED BY <1>1, <1>2, <2>1, <3>1, TokenMoves
    <2>. QED BY <1>1, <1>2, <2>1, <2>2, <2>3, SessionGoesOn
<1>3. ASSUME NEW c \in Calls, NEW d \in Calls, c # d, Live(c)', Live(d)',
             arg'[c].session = arg'[d].session,
             kind'[c] = "refreshSession", kind'[d] = "refreshSession", pc[c] = "idle"
      PROVE  d \in beside'[c] /\ c \in beside'[d]
    <2>1. pc'[c] # "idle"
        BY <1>3 DEF Live, Open
    <2>2. pc'[d] = pc[d] /\ kind'[d] = kind[d] /\ arg'[d] = arg[d]
        BY <1>3, <2>1, ArrivesAlone
    <2>3. arg'[c].session \in refresh
        BY <1>3, <2>1, SessionArrives
    <2>4. Open(d)
        BY <1>3, <2>2, <2>3 DEF Live, Open, SessionInv
    <2>. QED BY <1>3, <2>1, <2>4, ArrivesAlone
<1>4. ASSUME NEW c \in Calls, NEW d \in Calls, c # d, Live(c)', Live(d)',
             arg'[c].session = arg'[d].session,
             kind'[c] = "refreshSession", kind'[d] = "refreshSession"
      PROVE  d \in beside'[c]
    <2>1. CASE pc[c] # "idle" /\ pc[d] # "idle"
        <3>1. Live(c) /\ Live(d)
            BY <1>4, <2>1, LiveBefore
        <3>2. d \in beside[c]
            BY <1>1, <1>4, <2>1, <3>1 DEF SessionInv
        <3>. QED BY <1>0, <2>1, <3>2 DEF CallsKept
    <2>. QED BY <1>3, <1>4, <2>1
<1>5. ASSUME NEW c \in Calls, kind'[c] = "deleteSession", pc'[c] \in {"dropPair", "ok"}
      PROVE  arg'[c].session \notin access'
    <2>1. pc[c] # "idle"
        BY <1>5, SessionArrives
    <2>2. CASE TakeAccess(c)
        <3>1. arg[c].session \notin access'
            BY <2>2 DEF TakeAccess
        <3>. QED BY <1>1, <1>5, <2>1, <3>1
    <2>3. CASE pc[c] \in {"dropPair", "ok"}
        <3>1. arg[c].session \notin access
            BY <1>1, <1>5, <2>1, <2>3 DEF SessionInv
        <3>. QED BY <1>1, <1>5, <2>1, <3>1, TokenMoves
    <2>4. DropPair(c) => pc[c] = "dropPair"
        BY DEF DropPair
    <2>. QED BY <1>1, <1>5, <2>1, <2>2, <2>3, <2>4, SessionGoesOn
<1>6. ASSUME NEW d \in Calls, NEW s \in Calls, arg[d].session = s, pc[d] \in {"dropAccess", "takeAccess"}
      PROVE  pc[s] = "ok" /\ (pc[d] = "dropAccess" => s \notin refresh)
             /\ (pc[d] = "takeAccess" => kind[d] = "deleteSession")
    BY <1>6 DEF TypeInv, CallsOK, Fits, RowsInv, SessionInv
<1>7. ASSUME NEW s \in Calls, pc'[s] = "refreshToken" PROVE s \in access' \/ DeletedBeside(s)'
    <2>1. pc[s] # "idle"
        BY <1>7, Arrivals DEF FirstPlaces
    <2>2. CASE InsertToken(s)
        BY <2>2 DEF InsertToken
    <2>3. CASE pc[s] = "refreshToken"
        <3>1. CASE DeletedBeside(s)
            BY <3>1, DeletedBesideStays
        <3>2. ASSUME s \in access, s \notin access' PROVE DeletedBeside(s)
            <4>1. PICK d \in Calls : pc[d] = "delete"
                BY <1>6, <2>3, <3>2, TokenMoves
            <4>2. kind[d] = "accountDelete" /\ Open(d) /\ Open(s) /\ s # d
                BY <2>3, <4>1 DEF TypeInv, CallsOK, Fits, Open, Ended
            <4>. QED BY <4>2 DEF TogetherInv, DeletedBeside
        <3>. QED BY <2>3, <3>1, <3>2 DEF SessionInv
    <2>. QED BY <1>7, <2>1, <2>2, <2>3, SessionGoesOn
<1>8. ASSUME NEW s \in refresh' PROVE s \in access' \/ DeletedBeside(s)' \/ SignOutBroken(s)'
    <2>0. s \in Calls
        BY <1>0 DEF TypeInv, TypeOK
    <2>1. CASE DeletedBeside(s)
        BY <2>0, <2>1, DeletedBesideStays
    <2>2. CASE s \notin refresh /\ ~DeletedBeside(s)
        BY <2>0, <2>2, TokenMoves DEF SessionInv
    <2>3. CASE SignOutBroken(s)
        <3>1. PICK d \in Calls : /\ kind[d] = "deleteSession" /\ arg[d].session = s
                                 /\ pc[d] \in {"failed", "dropPair"}
            BY <2>3 DEF SignOutBroken
        <3>2. kind'[d] = "deleteSession" /\ arg'[d].session = s /\ (pc[d] = "failed" => pc'[d] = "failed")
            BY <1>0, <3>1 DEF CallsKept, Ended
        <3>3. ~DropPair(d)
            BY <1>8, <3>1 DEF DropPair
        <3>4. pc'[d] \in {"failed", "dropPair"}
            BY <3>1, <3>2, <3>3, SessionGoesOn
        <3>. QED BY <3>2, <3>4 DEF SignOutBroken
    <2>4. CASE s \in refresh /\ s \in access /\ s \notin access'
        <3>1. PICK d \in Calls : pc[d] = "takeAccess" /\ pc'[d] = "dropPair" /\ arg[d].session = s
            BY <1>6, <1>8, <2>0, <2>4, TokenMoves
        <3>2. kind'[d] = "deleteSession" /\ arg'[d].session = s
            BY <1>0, <1>6, <2>0, <3>1 DEF CallsKept
        <3>. QED BY <3>1, <3>2 DEF SignOutBroken
    <2>. QED BY <2>1, <2>2, <2>3, <2>4 DEF SessionInv
<1>. QED BY <1>2, <1>4, <1>5, <1>7, <1>8 DEF SessionInv, Live, Open

\* At first nothing was refreshed or signed out.
LEMMA SessionInit == Init => SessionInv
BY FirstAssumption DEF Init, SessionInv, Live, Open, Ended

\* A refresh token is exchanged once, but for refreshes that were open together
\* (handleRefreshSession, whose middleware finds the row that it then deletes).
THEOREM RefreshTokensAreExchangedOnce == Spec => []RefreshedOnce
<1>1. SessionInv => RefreshedOnce
    BY DEF SessionInv, RefreshedOnce, Live
<1>. QED BY TypeInit, TypeStep, TogetherInit, TogetherStep, RowsInit, RowsStep, SessionInit,
            SessionStep, <1>1, PTL DEF Spec

\* A session that was signed out cannot be refreshed, but after a sign-out that failed
\* in the middle or when its account was deleted beside its making
\* (handleDeleteSession).
THEOREM SignedOutSessionsEnd == Spec => []SignedOutStaysOut
<1>1. RowsInv /\ SessionInv => SignedOutStaysOut
    BY DEF RowsInv, SessionInv, SignedOutStaysOut, DeletedBeside, SignOutBroken
<1>. QED BY TypeInit, TypeStep, TogetherInit, TogetherStep, RowsInit, RowsStep, SessionInit,
            SessionStep, <1>1, PTL DEF Spec

-----------------------------------------------------------------------------
(* Tokens and accounts.                                                    *)

\* What one step can do to the row of an account.
LEMMA RowBecomes ==
    ASSUME TypeInv, [Next]_vars, NEW d \in Dids, repos'[d] # repos[d]
    PROVE  \E c \in Calls :
               /\ arg[c].did = d
               /\ \/ Inserts(c) /\ repos[d] = None /\ repos'[d] = NewRepo(c) /\ repos'[d] # None
                  \/ Writes(c) /\ repos[d] # None /\ repos'[d] = Written(c) /\ repos'[d] # None
                  \/ /\ Toggles(c) /\ repos[d] # None /\ repos'[d] # None
                     /\ \A col \in {"verify", "update", "reset"} : repos'[d][col] = repos[d][col]
                  \/ DeleteRows(c) /\ repos'[d] = None
<1>. USE RowsAreThere DEF TypeInv, TypeOK
<1>1. PICK c \in Calls : Inserts(c) \/ Writes(c) \/ Toggles(c) \/ DeleteRows(c)
    BY AccountSteps
<1>2. arg[c].did = d
    BY <1>1 DEF Inserts, Writes, Toggles, DeleteRows
<1>3. CASE Inserts(c)
    <2>1. repos[d] = None /\ repos'[d] = NewRepo(c)
        BY <1>2, <1>3 DEF Inserts, Clash
    <2>2. repos'[d] \in RepoRow \cup {None}
        BY TypeStep
    <2>. QED BY <1>2, <1>3, <2>1, <2>2
<1>4. CASE Writes(c)
    <2>1. repos[d] # None /\ repos'[d] = Written(c)
        BY <1>2, <1>4 DEF Writes
    <2>2. Written(c) \in RepoRow
        BY <1>2, <1>4, WrittenRow DEF Writes
    <2>. QED BY <1>2, <1>4, <2>1, <2>2
<1>5. CASE Toggles(c)
    <2>1. PICK yes \in BOOLEAN : repos'[d] = [repos[d] EXCEPT !.active = yes]
        BY <1>2, <1>5 DEF Toggles
    <2>2. repos[d] \in RepoRow
        BY <1>2, <1>5 DEF Toggles
    <2>3. repos'[d] \in RepoRow
        BY <2>1, <2>2 DEF RepoRow
    <2>4. \A col \in {"verify", "update", "reset"} : repos'[d][col] = repos[d][col]
        BY <2>1, <2>2 DEF RepoRow
    <2>. QED BY <1>2, <1>5, <2>2, <2>3, <2>4
<1>6. CASE DeleteRows(c)
    BY <1>2, <1>6 DEF DeleteRows
<1>. QED BY <1>1, <1>3, <1>4, <1>5, <1>6

\* A session that has tokens, or is past the check of its account.
MakesTokens(s) ==
    /\ kind[s] \in SessionMakers
    /\ \/ pc[s] \in {"decrement", "token", "refreshToken", "dropRefresh", "dropAccess"}
       \/ s \in access \cup refresh

\* The account of the session was deleted beside its making.
GoneBeside(s) == \E c \in beside[s] : kind[c] = "accountDelete" /\ arg[c].did = arg[s].did

\* NoTokensWithoutAccount is not inductive: it must also hold of the sessions that are
\* about to have tokens.
AccountInv ==
    \A s \in Calls : MakesTokens(s) =>
        arg[s].did \in Dids /\ (repos[arg[s].did] # None \/ GoneBeside(s))

\* A session whose account was deleted beside it has a deletion beside it.
LEMMA GoneBesideStays ==
    ASSUME TypeInv, TogetherInv, [Next]_vars, NEW s \in Calls, GoneBeside(s), arg'[s] = arg[s]
    PROVE  GoneBeside(s)'
<1>1. PICK c \in beside[s] : kind[c] = "accountDelete" /\ arg[c].did = arg[s].did
    BY DEF GoneBeside
<1>2. c \in Calls /\ pc[c] # "idle" /\ pc[s] # "idle"
    BY <1>1 DEF TypeInv, CallsOK, TogetherInv
<1>3. Fits(pc[c], kind[c], arg[c])
    BY <1>2 DEF TypeInv, CallsOK
<1>4. pc[c] # "publish"
    BY <1>1, <1>3 DEF Fits, SignUps
<1>. QED BY <1>1, <1>2, <1>4, Kept DEF CallsKept, GoneBeside

\* A session is made for an account that is there.
LEMMA MakingBegins ==
    ASSUME TypeInv, RowsInv, [Next]_vars, NEW s \in Calls, MakesTokens(s)', ~MakesTokens(s)
    PROVE  arg'[s].did \in Dids /\ repos'[arg'[s].did] # None
<1>1. TypeInv' /\ CallsKept
    BY TypeStep, Kept
<1>2. Fits(pc'[s], kind'[s], arg'[s]) /\ Fits(pc[s], kind[s], arg[s])
    BY <1>1 DEF TypeInv, CallsOK
<1>3. CASE pc[s] = "idle"
    <2>1. pc'[s] # "idle"
        BY <1>3, TokenMoves DEF MakesTokens, RowsInv
    <2>2. UNCHANGED <<repos, access, refresh>> /\ pc'[s] \in FirstPlaces
        BY <1>3, <2>1, Arrivals DEF tables
    <2>3. pc'[s] \in {"token", "dropRefresh"}
        BY <1>3, <2>2 DEF MakesTokens, RowsInv, FirstPlaces
    <2>4. arg'[s].did \in Dids
        BY <1>2, <2>3 DEF Fits, AtAccount
    <2>5. CASE pc'[s] = "token"
        <3>1. PICK d \in Dids : CreateSessionStart(s, d)
            BY <1>3, <2>5, ArrivalChecks
        <3>2. arg'[s] = [NoInput EXCEPT !.did = d] /\ repos[d] # None
            BY <3>1, Starts DEF CreateSessionStart
        <3>3. arg'[s].did = d
            BY <3>2 DEF NoInput
        <3>. QED BY <2>2, <2>4, <3>2, <3>3
    <2>6. CASE pc'[s] = "dropRefresh"
        <3>1. kind'[s] = "refreshSession"
            BY <1>2, <2>6 DEF Fits
        <3>2. repos[arg'[s].did] # None
            BY <1>3, <2>1, <3>1, SessionArrives
        <3>. QED BY <2>2, <2>4, <3>2
    <2>. QED BY <2>3, <2>5, <2>6
<1>4. CASE pc[s] # "idle"
    <2>1. kind'[s] = kind[s] /\ s \notin access \cup refresh
          /\ pc[s] \notin {"decrement", "token", "refreshToken", "dropRefresh", "dropAccess"}
        BY <1>1, <1>4 DEF MakesTokens, CallsKept
    <2>2. pc'[s] \in {"decrement", "token", "refreshToken", "dropRefresh", "dropAccess"}
        BY <2>1, TokenMoves DEF MakesTokens
    <2>3. InsertAccount(s)
        <3>1. ASSUME NEW next, Goto(s, next) PROVE next = pc'[s]
            BY <3>1, Goes
        <3>2. ~CheckSignUp(s) /\ ~CreateInvite(s) /\ ~WriteCode(s) /\ ~SetActive(s) /\ ~DeleteRows(s)
              /\ ~TakeAccess(s) /\ ~DropPair(s)
            BY <2>2, <3>1 DEF CheckSignUp, CreateInvite, WriteCode, SetActive, DeleteRows,
                   TakeAccess, DropPair
        <3>3. ~PublishDid(s)
            BY <2>2 DEF PublishDid, TypeInv, CallsOK
        <3>4. ~TakeUse(s) /\ ~TakeUseSkipped(s) /\ ~DropRefresh(s) /\ ~DropAccess(s)
              /\ ~InsertToken(s) /\ ~InsertRefreshToken(s)
            BY <2>1 DEF TakeUse, TakeUseSkipped, DropRefresh, DropAccess, InsertToken,
                   InsertRefreshToken
        <3>. QED BY <1>4, <2>1, <2>2, <3>2, <3>3, <3>4, Edges
    <2>4. pc[s] = "insert" /\ arg'[s] = arg[s]
        BY <1>1, <2>3 DEF InsertAccount, CallsKept
    <2>5. arg[s].did \in Dids
        BY <1>2, <2>4 DEF Fits, AtAccount
    <2>6. ~Goto(s, "refused")
        BY <2>2, Goes
    <2>7. repos' = [repos EXCEPT ![arg[s].did] = NewRepo(s)]
        BY <2>3, <2>6 DEF InsertAccount
    <2>8. repos'[arg[s].did] = NewRepo(s) /\ repos'[arg[s].did] \in RepoRow \cup {None}
        BY <1>1, <2>5, <2>7 DEF TypeInv, TypeOK
    <2>9. NewRepo(s) \in RepoRow
        <3>1. arg[s].email \in Emails
            BY <1>2, <2>4 DEF Fits
        <3>. QED BY <3>1 DEF NewRepo, RepoRow, Codes
    <2>. QED BY <2>4, <2>5, <2>8, <2>9, RowsAreThere
<1>. QED BY <1>3, <1>4

\* An account that goes takes its tokens along, or has been deleted beside the session.
LEMMA AccountStep ==
    TypeInv /\ TogetherInv /\ RowsInv /\ AccountInv /\ [Next]_vars => AccountInv'
<1>. SUFFICES ASSUME TypeInv, TogetherInv, RowsInv, AccountInv, [Next]_vars,
                     NEW s \in Calls, MakesTokens(s)'
              PROVE  arg'[s].did \in Dids /\ (repos'[arg'[s].did] # None \/ GoneBeside(s)')
    BY DEF AccountInv
<1>0. CallsKept
    BY Kept
<1>. SUFFICES ASSUME MakesTokens(s)
              PROVE  arg'[s].did \in Dids /\ (repos'[arg'[s].did] # None \/ GoneBeside(s)')
    BY MakingBegins
<1>1. MakesTokens(s)
    OBVIOUS
<1>2. pc[s] \notin {"idle", "publish"}
    BY <1>1 DEF MakesTokens, RowsInv
<1>3. arg'[s] = arg[s]
    BY <1>0, <1>2 DEF CallsKept
<1>4. CASE GoneBeside(s)
    BY <1>1, <1>3, <1>4, GoneBesideStays DEF AccountInv
<1>5. CASE repos[arg[s].did] # None /\ repos'[arg'[s].did] = None
    <2>1. arg[s].did \in Dids
        BY <1>1 DEF AccountInv
    <2>2. PICK c \in Calls : DeleteRows(c) /\ arg[c].did = arg[s].did
        BY <1>3, <1>5, <2>1, RowBecomes
    <2>3. pc[c] = "delete" /\ s \notin access' \cup refresh' /\ Goto(c, "ok")
        BY <2>2 DEF DeleteRows, OwnSessions
    <2>4. kind[c] = "accountDelete" /\ c # s
        BY <1>1, <2>3 DEF TypeInv, CallsOK, Fits, MakesTokens, SessionMakers
    <2>5. pc'[s] = pc[s]
        BY <2>3, <2>4, Goes
    <2>6. Open(s) /\ Open(c)
        BY <2>3, <2>5 DEF MakesTokens, Open, Ended
    <2>7. GoneBeside(s)
        BY <2>2, <2>4, <2>6 DEF TogetherInv, GoneBeside
    <2>. QED BY <1>3, <2>1, <2>7, GoneBesideStays
<1>. QED BY <1>1, <1>3, <1>4, <1>5 DEF AccountInv

\* At first the one session has its account.
LEMMA AccountInit == Init => AccountInv
<1>. SUFFICES ASSUME Init PROVE AccountInv
    OBVIOUS
<1>1. NoInput.did = None
    BY DEF NoInput
<1>2. [NoInput EXCEPT !.did = FirstDid].did = FirstDid
    BY DEF NoInput
<1>3. repos[FirstDid] # None
    <2>1. [email |-> FirstEmail, confirmed |-> TRUE, active |-> TRUE,
           verify |-> None, update |-> None, reset |-> None] \in RepoRow
        BY FirstAssumption DEF RepoRow, Codes
    <2>. QED BY <2>1, FirstAssumption, RowsAreThere DEF Init
<1>4. \A s \in Calls : MakesTokens(s) => s = FirstSession
    BY DEF Init, MakesTokens, SessionMakers
<1>. QED BY <1>2, <1>3, <1>4, FirstAssumption DEF Init, AccountInv

\* A token row without its account was stored by a call beside which the account was
\* deleted (deleteAccountByDid).
THEOREM TokensHaveAccounts == Spec => []NoTokensWithoutAccount
<1>1. TypeInv /\ RowsInv /\ AccountInv => NoTokensWithoutAccount
    <2>. SUFFICES ASSUME TypeInv, RowsInv, AccountInv, NEW s \in access \cup refresh,
                         repos[arg[s].did] = None
                  PROVE  \E c \in Calls : /\ kind[c] = "accountDelete" /\ arg[c].did = arg[s].did
                                          /\ c \in beside[s]
        BY DEF NoTokensWithoutAccount
    <2>1. s \in Calls /\ MakesTokens(s)
        BY DEF TypeInv, TypeOK, RowsInv, MakesTokens
    <2>2. GoneBeside(s)
        BY <2>1 DEF AccountInv
    <2>. QED BY <2>1, <2>2 DEF GoneBeside, TypeInv, CallsOK
<1>. QED BY TypeInit, TypeStep, TogetherInit, TogetherStep, RowsInit, RowsStep, AccountInit,
            AccountStep, <1>1, PTL DEF Spec

-----------------------------------------------------------------------------
(* What becomes of codes.                                                  *)

Columns == {"verify", "update", "reset"}

\* The code in a column is a sign-up's, or was written there by the request of its name.
WrittenBy(x, d, col) ==
    /\ pc[x] # "idle"
    /\ kind[x] \notin SignUps =>
           kind[x] \in Issuers /\ Column(kind[x]) = col /\ arg[x].did = d /\ pc[x] \in Ended

\* A call was given a code for the column of the account it was written to.
GivenCode(c) ==
    LET x == arg[c].code
    IN  /\ x \in Calls /\ pc[x] = "ok" /\ kind[x] \notin SignUps
        /\ Column(kind[c]) = Column(kind[x]) /\ arg[c].did = arg[x].did

\* SpentCodesStayDead is not inductive: a spent code is not in its column, and no
\* statement can write it there again.
CodeInv ==
    /\ \A d \in Dids, col \in Columns, x \in Calls :
           repos[d] # None /\ repos[d][col] = x => WrittenBy(x, d, col)
    /\ \A c \in Calls : pc[c] # "idle" /\ arg[c].code # None => GivenCode(c)
    /\ \A c \in Calls : pc[c] = "ok" /\ arg[c].code # None =>
           repos[arg[c].did] = None \/ repos[arg[c].did][Column(kind[c])] # arg[c].code
    /\ \A c, d \in Calls :
           (c # d /\ Live(c) /\ Live(d) /\ arg[c].code # None /\ arg[c].code = arg[d].code)
           => d \in beside[c]

\* Every code has a column.
LEMMA ColumnKnown == \A k : Column(k) \in Columns
BY DEF Column, Columns

\* A call that is given a code has found it in the account's row.
LEMMA SpendArrives ==
    ASSUME TypeInv, [Next]_vars, NEW c \in Calls, pc[c] = "idle", pc'[c] # "idle", arg'[c].code # None
    PROVE  /\ arg'[c].code \in Calls /\ pc[arg'[c].code] = "ok" /\ kind[arg'[c].code] \notin SignUps
           /\ arg'[c].did \in Dids /\ repos[arg'[c].did] # None
           /\ repos[arg'[c].did][Column(kind'[c])] = arg'[c].code
<1>1. kind'[c] \in Spenders
    BY TypeStep DEF TypeInv, CallsOK, Fits
<1>2. ASSUME NEW s \in Calls, NEW k \in {"resetPassword", "confirmEmail"}, NEW code \in Calls,
             SpendStart(c, k, s, code)
      PROVE  /\ arg'[c].code = code /\ arg'[c].did = arg[s].did /\ kind'[c] = k
             /\ AccessToken(s) /\ pc[code] = "ok" /\ GoodCode(repos[arg[s].did], k, code)
    <2>. DEFINE in == [NoInput EXCEPT !.did = arg[s].did, !.session = s, !.code = code]
    <2>1. in.code = code /\ in.did = arg[s].did
        BY DEF NoInput
    <2>2. Start(c, k, in, None, "write")
        BY <1>2 DEF SpendStart
    <2>. HIDE DEF in
    <2>3. arg'[c] = in /\ kind'[c] = k
        BY <2>2, Starts
    <2>. QED BY <1>2, <2>1, <2>3 DEF SpendStart
<1>3. ASSUME NEW s \in Calls, NEW e \in NewEmails, NEW code \in Codes, UpdateEmailStart(c, s, e, code)
      PROVE  /\ arg'[c].code = code /\ arg'[c].did = arg[s].did /\ kind'[c] = "updateEmail"
             /\ AccessToken(s)
             /\ code # None => pc[code] = "ok" /\ GoodCode(repos[arg[s].did], "updateEmail", code)
    <2>. DEFINE in == [NoInput EXCEPT !.did = arg[s].did, !.session = s, !.email = e, !.code = code]
    <2>1. in.code = code /\ in.did = arg[s].did
        BY DEF NoInput
    <2>2. Start(c, "updateEmail", in, repos[arg[s].did], "write")
        BY <1>3 DEF UpdateEmailStart
    <2>. HIDE DEF in
    <2>3. arg'[c] = in /\ kind'[c] = "updateEmail"
        BY <2>2, Starts
    <2>. QED BY <1>3, <2>1, <2>3 DEF UpdateEmailStart
<1>4. PICK s \in Calls, code \in Codes :
          /\ arg'[c].code = code /\ arg'[c].did = arg[s].did /\ AccessToken(s)
          /\ code # None => pc[code] = "ok" /\ GoodCode(repos[arg[s].did], kind'[c], code)
    BY <1>1, <1>2, <1>3, ArrivalChecks DEF Codes
<1>5. arg[s].did \in Dids /\ repos[arg[s].did] # None
    BY <1>4, IssuedDid DEF AccessToken
<1>. QED BY <1>4, <1>5 DEF GoodCode, Codes

\* A request stays what it is.
LEMMA WrittenByStays ==
    ASSUME TypeInv, [Next]_vars, NEW x \in Calls, NEW d, NEW col, WrittenBy(x, d, col)
    PROVE  WrittenBy(x, d, col)'
BY Kept DEF CallsKept, WrittenBy, Ended

\* What is in a column was written by the call of its name.
LEMMA ColumnsStep ==
    ASSUME TypeInv, CodeInv, [Next]_vars, NEW d \in Dids, NEW col \in Columns,
           NEW x \in Calls, repos'[d] # None, repos'[d][col] = x
    PROVE  WrittenBy(x, d, col)'
<1>1. CASE repos[d] # None /\ repos'[d][col] = repos[d][col]
    <2>1. WrittenBy(x, d, col)
        BY <1>1 DEF CodeInv
    <2>. QED BY <2>1, WrittenByStays
<1>2. ASSUME NEW c \in Calls, Inserts(c), repos'[d] = NewRepo(c)
      PROVE  x = c /\ kind'[c] \in SignUps /\ pc'[c] # "idle"
    <2>1. x = c
        BY <1>2, RowsAreThere DEF NewRepo, Columns
    <2>2. kind[c] \in SignUps /\ pc[c] # "idle"
        BY <1>2 DEF Inserts, TypeInv, CallsOK, Fits
    <2>. QED BY <2>1, <2>2, Kept DEF CallsKept
<1>3. ASSUME NEW c \in Calls, Writes(c), repos'[d] = Written(c), arg[c].did = d,
             repos'[d][col] # repos[d][col]
      PROVE  x = c /\ WrittenBy(c, d, col)'
    <2>1. repos[d] \in RepoRow /\ kind[c] \in Issuers \cup Spenders /\ Column(kind[c]) \in Columns
        BY <1>3, WrittenRow, ColumnKnown DEF Writes
    <2>2. CASE kind[c] \in Spenders
        BY <1>3, <2>1, <2>2, WrittenRow, RowsAreThere DEF Writes, Columns
    <2>3. CASE kind[c] \in Issuers
        <3>1. Written(c) = [repos[d] EXCEPT ![Column(kind[c])] = c]
            BY <1>3, <2>3, WrittenRow DEF Writes
        <3>2. DOMAIN repos[d] = {"email", "confirmed", "active", "verify", "update", "reset"}
            BY <2>1 DEF RepoRow
        <3>3. col = Column(kind[c]) /\ x = c
            BY <1>3, <2>1, <3>1, <3>2 DEF Columns
        <3>4. /\ kind'[c] = kind[c] /\ arg'[c] = arg[c] /\ pc'[c] \in Ended /\ pc'[c] # "idle"
            BY <1>3, Kept DEF CallsKept, Writes
        <3>. QED BY <1>3, <2>3, <3>3, <3>4 DEF WrittenBy
    <2>. QED BY <2>1, <2>2, <2>3
<1>4. CASE repos'[d] = repos[d]
    BY <1>1, <1>4
<1>5. CASE repos'[d] # repos[d]
    <2>1. PICK c \in Calls :
              /\ arg[c].did = d
              /\ \/ Inserts(c) /\ repos'[d] = NewRepo(c)
                 \/ Writes(c) /\ repos[d] # None /\ repos'[d] = Written(c)
                 \/ repos[d] # None /\ repos'[d][col] = repos[d][col]
        BY <1>5, RowBecomes DEF Columns
    <2>2. CASE Inserts(c) /\ repos'[d] = NewRepo(c)
        BY <1>2, <2>2 DEF WrittenBy
    <2>3. CASE /\ repos[d] # None
               /\ (Writes(c) /\ repos'[d] = Written(c)) \/ repos'[d][col] = repos[d][col]
        BY <1>1, <1>3, <2>1, <2>3
    <2>. QED BY <2>1, <2>2, <2>3
<1>. QED BY <1>4, <1>5

\* The codes and those who spend them are inductive.
LEMMA CodeStep == TypeInv /\ TogetherInv /\ CodeInv /\ [Next]_vars => CodeInv'
<1>. SUFFICES ASSUME TypeInv, TogetherInv, CodeInv, [Next]_vars PROVE CodeInv'
    OBVIOUS
<1>0. CallsKept
    BY Kept
<1>1. ASSUME NEW c \in Calls, pc'[c] # "idle", arg'[c].code # None
      PROVE  GivenCode(c)' /\ (pc[c] # "idle" => /\ GivenCode(c) /\ arg'[c] = arg[c]
                                                 /\ kind'[c] = kind[c] /\ arg[c].code # None)
    <2>1. CASE pc[c] = "idle"
        <3>. DEFINE x == arg'[c].code
        <3>1. /\ x \in Calls /\ pc[x] = "ok" /\ kind[x] \notin SignUps
              /\ arg'[c].did \in Dids /\ repos[arg'[c].did] # None
              /\ repos[arg'[c].did][Column(kind'[c])] = x
            BY <1>1, <2>1, SpendArrives
        <3>2. WrittenBy(x, arg'[c].did, Column(kind'[c]))
            BY <1>1, <3>1, ColumnKnown DEF CodeInv
        <3>3. Column(kind[x]) = Column(kind'[c]) /\ arg[x].did = arg'[c].did
            BY <3>1, <3>2 DEF WrittenBy
        <3>4. pc'[x] = "ok" /\ kind'[x] = kind[x] /\ arg'[x] = arg[x]
            BY <1>0, <3>1 DEF CallsKept, Ended
        <3>. QED BY <2>1, <3>1, <3>3, <3>4 DEF GivenCode
    <2>2. CASE pc[c] # "idle"
        <3>1. arg[c].code = arg'[c].code /\ kind'[c] = kind[c]
            BY <1>0, <2>2 DEF CallsKept
        <3>2. GivenCode(c)
            BY <1>1, <2>2, <3>1 DEF CodeInv
        <3>3. arg'[c] = arg[c]
            <4>1. pc[c] # "publish"
                BY <1>1, <3>1 DEF TypeInv, CallsOK, Fits, Ended
            <4>. QED BY <1>0, <2>2, <4>1 DEF CallsKept
        <3>4. pc'[arg[c].code] = "ok" /\ kind'[arg[c].code] = kind[arg[c].code]
              /\ arg'[arg[c].code] = arg[arg[c].code]
            BY <1>0, <3>2 DEF CallsKept, Ended, GivenCode
        <3>. QED BY <1>1, <3>1, <3>2, <3>3, <3>4 DEF GivenCode
    <2>. QED BY <2>1, <2>2
<1>2. ASSUME NEW c \in Calls, pc'[c] = "ok", arg'[c].code # None
      PROVE  repos'[arg'[c].did] = None \/ repos'[arg'[c].did][Column(kind'[c])] # arg'[c].code
    <2>1. pc[c] # "idle"
        BY <1>2, Arrivals DEF FirstPlaces
    <2>2. GivenCode(c) /\ arg'[c] = arg[c] /\ kind'[c] = kind[c] /\ arg[c].code # None
        BY <1>1, <1>2, <2>1
    <2>3. Fits(pc[c], kind[c], arg[c]) /\ Fits(pc'[c], kind'[c], arg'[c])
        BY TypeStep DEF TypeInv, CallsOK
    <2>4. pc[c] \in Ended \cup {"write"} /\ kind[c] \in Spenders /\ arg[c].did \in Dids
        BY <1>2, <2>2, <2>3 DEF Fits, Spenders
    <2>. DEFINE x == arg[c].code
                d == arg[c].did
                col == Column(kind[c])
    <2>5. x \in Calls /\ pc[x] = "ok" /\ kind[x] \notin SignUps /\ col \in Columns /\ d \in Dids
        BY <2>2, <2>4, ColumnKnown DEF GivenCode
    <2>6. CASE pc[c] = "write"
        <3>1. WriteCode(c) \/ SetActive(c)
            BY <1>2, <2>6, Edges DEF CheckSignUp, PublishDid, InsertAccount, TakeUse,
                   TakeUseSkipped, CreateInvite, DropRefresh, DropAccess, InsertToken,
                   InsertRefreshToken, TakeAccess, DropPair, DeleteRows
        <3>2. WriteCode(c)
            BY <2>4, <3>1 DEF SetActive, Spenders
        <3>3. Update(d, Written(c)) /\ kind[c] \notin {"activate", "deactivate"}
            BY <1>2, <3>2, Goes DEF WriteCode
        <3>4. CASE repos[d] = None
            BY <2>2, <3>3, <3>4 DEF Update
        <3>5. CASE repos[d] # None
            <4>1. repos'[d] = Written(c)
                BY <2>5, <3>3, <3>5 DEF Update, TypeInv, TypeOK
            <4>2. Written(c)[col] = None
                BY <2>4, <2>6, <3>3, <3>5, WrittenRow
            <4>. QED BY <2>2, <4>1, <4>2
        <3>. QED BY <3>4, <3>5
    <2>7. CASE pc[c] \in Ended
        <3>1. pc[c] = "ok"
            BY <1>0, <1>2, <2>1, <2>7 DEF CallsKept
        <3>2. repos[d] = None \/ repos[d][col] # x
            BY <2>2, <3>1 DEF CodeInv
        <3>3. ASSUME repos'[d] # repos[d], repos'[d] # None PROVE repos'[d][col] # x
            <4>1. PICK e \in Calls :
                      /\ arg[e].did = d
                      /\ \/ Inserts(e) /\ repos'[d] = NewRepo(e)
                         \/ Writes(e) /\ repos[d] # None /\ repos'[d] = Written(e)
                         \/ repos[d] # None /\ repos'[d][col] = repos[d][col]
                BY <2>5, <3>3, RowBecomes DEF Columns
            <4>2. CASE Inserts(e) /\ repos'[d] = NewRepo(e)
                <5>1. kind[e] \in SignUps
                    BY <4>2 DEF Inserts, TypeInv, CallsOK, Fits
                <5>. QED BY <2>2, <2>5, <4>2, <5>1 DEF NewRepo, Columns
            <4>3. CASE Writes(e) /\ repos[d] # None /\ repos'[d] = Written(e)
                <5>1. kind[e] \in Issuers \cup Spenders /\ repos[d] \in RepoRow /\ Column(kind[e]) \in Columns
                    BY <4>1, <4>3, WrittenRow, ColumnKnown DEF Writes
                <5>2. e # x
                    BY <2>5, <4>3 DEF Writes
                <5>3. CASE kind[e] \in Issuers
                    <6>1. Written(e) = [repos[d] EXCEPT ![Column(kind[e])] = e]
                        BY <4>1, <4>3, <5>3, WrittenRow DEF Writes
                    <6>2. DOMAIN repos[d] = {"email", "confirmed", "active", "verify", "update", "reset"}
                        BY <5>1 DEF RepoRow
                    <6>. QED BY <2>5, <3>2, <4>3, <5>1, <5>2, <6>1, <6>2 DEF Columns
                <5>4. CASE kind[e] \in Spenders
                    <6>1. Written(e)[col] = None \/ Written(e)[col] = repos[d][col]
                        BY <2>5, <4>1, <4>3, <5>4, WrittenRow DEF Writes, Columns
                    <6>. QED BY <2>2, <3>2, <4>3, <6>1
                <5>. QED BY <5>1, <5>3, <5>4
            <4>. QED BY <3>2, <4>1, <4>2, <4>3
        <3>. QED BY <2>2, <3>2, <3>3
    <2>. QED BY <2>4, <2>6, <2>7
<1>3. ASSUME NEW c \in Calls, NEW d \in Calls, c # d, Live(c)', Live(d)',
             arg'[c].code # None, arg'[c].code = arg'[d].code, pc[c] = "idle"
      PROVE  d \in beside'[c] /\ c \in beside'[d]
    <2>. DEFINE x == arg'[c].code
    <2>1. pc'[c] # "idle" /\ pc'[d] # "idle"
        BY <1>3 DEF Live, Open
    <2>2. pc'[d] = pc[d] /\ kind'[d] = kind[d] /\ arg'[d] = arg[d]
        BY <1>3, <2>1, ArrivesAlone
    <2>3. /\ repos[arg'[c].did] # None /\ repos[arg'[c].did][Column(kind'[c])] = x
        BY <1>3, <2>1, SpendArrives
    <2>4. Column(kind'[c]) = Column(kind'[x]) /\ arg'[c].did = arg'[x].did
        BY <1>1, <1>3, <2>1 DEF GivenCode
    <2>5. Column(kind'[d]) = Column(kind'[x]) /\ arg'[d].did = arg'[x].did
        BY <1>1, <1>3, <2>1 DEF GivenCode
    <2>6. pc[d] # "ok"
        <3>1. arg[d].code = x /\ arg[d].code # None
            BY <1>3, <2>2
        <3>2. repos[arg[d].did] # None /\ repos[arg[d].did][Column(kind[d])] = x
            BY <2>2, <2>3, <2>4, <2>5
        <3>. QED BY <3>1, <3>2 DEF CodeInv
    <2>7. Open(d)
        BY <1>3, <2>2, <2>6 DEF Live, Open
    <2>. QED BY <1>3, <2>1, <2>7, ArrivesAlone
<1>4. ASSUME NEW c \in Calls, NEW d \in Calls, c # d, Live(c)', Live(d)',
             arg'[c].code # None, arg'[c].code = arg'[d].code
      PROVE  d \in beside'[c]
    <2>1. CASE pc[c] # "idle" /\ pc[d] # "idle"
        <3>1. Live(c) /\ Live(d)
            BY <1>4, <2>1, LiveBefore
        <3>2. arg[c].code = arg'[c].code /\ arg[d].code = arg'[d].code
            BY <1>0, <2>1 DEF CallsKept
        <3>3. d \in beside[c]
            BY <1>4, <3>1, <3>2 DEF CodeInv
        <3>. QED BY <1>0, <2>1, <3>3 DEF CallsKept
    <2>. QED BY <1>3, <1>4, <2>1
<1>5. ASSUME NEW d \in Dids, NEW col \in Columns, NEW x \in Calls, repos'[d] # None, repos'[d][col] = x
      PROVE  WrittenBy(x, d, col)'
    BY <1>5, ColumnsStep
<1>. QED BY <1>1, <1>2, <1>4, <1>5 DEF CodeInv, Live, Open

\* At first there is no code.
LEMMA CodeInit == Init => CodeInv
<1>. SUFFICES ASSUME Init PROVE CodeInv
    OBVIOUS
<1>1. \A c \in Calls : arg[c].code = None
    BY DEF Init, NoInput
<1>2. \A d \in Dids, col \in Columns : repos[d] # None => repos[d][col] = None
    BY DEF Init, Columns
<1>. QED BY <1>1, <1>2, RowsAreThere DEF CodeInv

\* A code works once, but for calls that were open together (handleResetPassword,
\* handleConfirmEmail and handleUpdateEmail, which check it and clear it apart).
THEOREM CodesWorkOnce == Spec => []SpentCodesStayDead
<1>1. CodeInv => SpentCodesStayDead
    BY DEF CodeInv, SpentCodesStayDead, Live
<1>. QED BY TypeInit, TypeStep, TogetherInit, TogetherStep, CodeInit, CodeStep, <1>1, PTL DEF Spec

=============================================================================
