----------------------------- MODULE PlcIdentity ----------------------------
(***************************************************************************)
(* Changes to the did:plc identity of one account: the registration of a   *)
(* passkey (server/handle_server_supply_signing_key.go), a new handle      *)
(* (handle_identity_update_handle.go), and the operations that the user    *)
(* asks to have signed with a mailed code and then submits                 *)
(* (handle_identity_{request,sign,submit}_plc_operation.go).               *)
(*                                                                         *)
(* The middleware reads the account's row; the directory's log is fetched; *)
(* the operation built on its last entry is signed by the server or, once  *)
(* there is a key in the row, by the passkey of the open signer            *)
(* connection; it is sent; the row is written and the cache busted.        *)
(*                                                                         *)
(* SendOperation reads the directory's answer but not its status: a        *)
(* refused operation counts as sent.                                       *)
(***************************************************************************)
EXTENDS Passport

CONSTANTS
    Calls,          \* bound: calls of these handlers
    MaxCodes,       \* bound: codes that are asked for
    MaxFailures     \* bound: failures between two steps

ASSUME BoundsAssumption == MaxCodes \in Nat /\ MaxFailures \in Nat

VARIABLES
    row,        \* what repos and actors store: signing key, handle, code
    codes,      \* how many codes were asked for
    signer,     \* the key in the row when the open signer connection was made
    signed,     \* the operations that signPlcOperation answered with
    pc, arg,
    view,       \* key and handle as the middleware read them
    op,         \* the operation of a call, from when its log was fetched
    failures,
    beside,     \* history: calls that were open together
    slipped     \* history: calls that left the row and the directory apart, by a
                \* failure or by an operation that was refused

account == <<row, codes, signer, signed>>
calls == <<pc, arg, view, op, failures, beside, slipped>>
vars == <<directory, passport, account, calls>>

Kinds == {"register", "handle", "sign", "submit"}
ASSUME KindsAssumption == None \notin Kinds
\* What signPlcOperation is asked to change; the checks look at each field alone.
NoWish == [atproto |-> None, rotation |-> None, aka |-> None, here |-> TRUE]
Wishes == {[NoWish EXCEPT !.atproto = k] : k \in Keys \ {FirstKey}}
          \cup {[NoWish EXCEPT !.rotation = r] :
                   r \in {{k} : k \in Keys \ {FirstKey}} \cup {Signers}}
          \cup {[NoWish EXCEPT !.aka = <<h>>] : h \in Handles \ {FirstHandle}}
          \cup {[NoWish EXCEPT !.here = FALSE]}
NoArg == [kind |-> None, key |-> None, handle |-> None, code |-> None, wish |-> None,
          op |-> None]

\* A field that the request leaves out stays as it is in the last entry.
Wished(now, wish) ==
    [atproto |-> IF wish.atproto = None THEN now.atproto ELSE wish.atproto,
     rotation |-> IF wish.rotation = None THEN now.rotation ELSE wish.rotation,
     aka |-> IF wish.aka = None THEN now.aka ELSE wish.aka,
     here |-> now.here /\ wish.here]

Open(c) == pc[c] \in {"read", "sign", "send", "bust", "store"}

\* A new account, or one with a passkey, a signer connection and an operation that
\* was signed and not submitted.
NewOrOwned ==
    \/ directory = NewDid /\ signer = None /\ signed = {}
    \/ /\ directory = OwnedDid /\ signer = FirstKey
       /\ \E wish \in Wishes :
             signed = {[Following(OwnedDid, Wished(OwnedDid, wish)) EXCEPT !.by = FirstKey]}

Init ==
    /\ NewOrOwned
    /\ PassportInit
    /\ row = [key |-> signer, handle |-> FirstHandle, code |-> None]
    /\ codes = 0
    /\ pc = [c \in Calls |-> "idle"]
    /\ arg = [c \in Calls |-> NoArg]
    /\ view = [c \in Calls |-> None]
    /\ op = [c \in Calls |-> None]
    /\ failures = 0
    /\ beside = [c \in Calls |-> {}]
    /\ slipped = {}

-----------------------------------------------------------------------------
(* The code, and the signer connection.                                    *)

\* requestPlcOperationSignature.
RequestCode ==
    /\ codes < MaxCodes
    /\ codes' = codes + 1
    /\ row' = [row EXCEPT !.code = codes + 1]
    /\ UNCHANGED <<directory, passport, signer, signed, calls>>

\* Ten minutes pass: an expired code is as good as none.
CodeExpires ==
    /\ row.code # None
    /\ row' = [row EXCEPT !.code = None]
    /\ UNCHANGED <<directory, passport, codes, signer, signed, calls>>

\* A connection verifies what it is sent with the key it found in the row.
SignerConnects ==
    /\ row.key # None /\ signer # row.key
    /\ signer' = row.key
    /\ UNCHANGED <<directory, passport, row, codes, signed, calls>>

-----------------------------------------------------------------------------
(* A call's steps.                                                         *)

Begin(c, in, next) ==
    LET others == {d \in Calls : Open(d)}
    IN  /\ pc[c] = "idle"
        /\ pc' = [pc EXCEPT ![c] = next]
        /\ arg' = [arg EXCEPT ![c] = in]
        /\ view' = [view EXCEPT ![c] = [key |-> row.key, handle |-> row.handle]]
        /\ beside' = [d \in Calls |-> IF d = c THEN others
                                      ELSE IF d \in others THEN beside[d] \cup {c}
                                      ELSE beside[d]]
        /\ UNCHANGED <<directory, passport, account, op, failures, slipped>>

Goto(c, next) ==
    /\ pc' = [pc EXCEPT ![c] = next]
    /\ UNCHANGED <<arg, view, beside>>

\* The handler answers; what it had read is gone, and most of its input.
Answer(c, result) ==
    /\ pc' = [pc EXCEPT ![c] = result]
    /\ view' = [view EXCEPT ![c] = None]
    /\ op' = [op EXCEPT ![c] = None]
    /\ arg' = [arg EXCEPT ![c].handle = None, ![c].wish = None, ![c].op = None]
    /\ UNCHANGED beside

\* A registration brings the key of a passkey that was made for it.
SupplySigningKey(c, k) ==
    /\ k # FirstKey
    /\ \A d \in Calls : arg[d].kind = "register" => arg[d].key # k
    /\ Begin(c, [NoArg EXCEPT !.kind = "register", !.key = k], "read")
UpdateHandle(c, h) == Begin(c, [NoArg EXCEPT !.kind = "handle", !.handle = h], "read")
SignPlcOperation(c, n, wish) ==
    /\ row.code = n
    /\ Begin(c, [NoArg EXCEPT !.kind = "sign", !.code = n, !.wish = wish], "read")
SubmitPlcOperation(c, o) ==
    Begin(c, [NoArg EXCEPT !.kind = "submit", !.op = o],
          IF row.key = None THEN "failed" ELSE "read")

\* What submitPlcOperation looks at, by the row and by the log as it fetched them.
MaySubmit(o, was, now) ==
    /\ o.rotation \cap now.rotation # {}
    /\ o.atproto = was.key
    /\ o.here

\* Mutant: the server's key stays among the rotation keys.
NewKeysKeepPds(now, k) == [Unchanged(now) EXCEPT !.atproto = k, !.rotation = {k, Pds}]
NewKeys(now, k) == [Unchanged(now) EXCEPT !.atproto = k, !.rotation = {k}]

\* Mutant: the old handle stays in the list.
NewAkaKeepsOld(now, was, h) == [Unchanged(now) EXCEPT !.aka = Append(@, h)]
\* The handle of the row leaves the list, the new one becomes its last.
NewAka(now, was, h) ==
    [Unchanged(now) EXCEPT !.aka = Append(Without(@, was.handle), h)]

\* The operation that a call builds on the last entry of the log.
Built(c, now) ==
    CASE arg[c].kind = "register" -> Following(now, NewKeys(now, arg[c].key))
      [] arg[c].kind = "handle" -> Following(now, NewAka(now, view[c], arg[c].handle))
      [] arg[c].kind = "sign" -> Following(now, Wished(now, arg[c].wish))

\* Whether SignOp signs, or RequestSignature asks for it: the row decides, as the
\* middleware read it.
ByPds(c) == view[c].key = None /\ arg[c].kind # "sign"

\* FetchDidAuditLog; the server's own signature takes no time.
ReadLog(c) ==
    /\ pc[c] = "read" /\ arg[c].kind # "submit"
    /\ op' = [op EXCEPT ![c] = IF ByPds(c) THEN [Built(c, directory) EXCEPT !.by = Pds]
                               ELSE Built(c, directory)]
    /\ Goto(c, IF ByPds(c) THEN "send" ELSE "sign")
    /\ UNCHANGED <<directory, passport, account, failures, slipped>>

CheckSubmit(c) ==
    /\ pc[c] = "read" /\ arg[c].kind = "submit"
    /\ IF MaySubmit(arg[c].op, view[c], directory)
       THEN Goto(c, "send") /\ op' = [op EXCEPT ![c] = arg[c].op]
       ELSE Answer(c, "failed")
    /\ UNCHANGED <<directory, passport, account, failures, slipped>>

Sign(c) ==
    /\ pc[c] = "sign" /\ signer # None
    /\ op' = [op EXCEPT ![c].by = signer]
    /\ Goto(c, IF arg[c].kind = "sign" THEN "store" ELSE "send")
    /\ UNCHANGED <<directory, passport, account, failures, slipped>>

\* No signer, a rejection, or no answer in time.
NoSignature(c) ==
    /\ pc[c] = "sign"
    /\ Answer(c, "failed")
    /\ UNCHANGED <<directory, passport, account, failures, slipped>>

\* SendOperation.
Send(c) ==
    /\ pc[c] = "send"
    /\ directory' = IF Accepted(op[c]) THEN Applied(op[c]) ELSE directory
    /\ slipped' = IF Accepted(op[c]) THEN slipped ELSE slipped \cup {c}
    /\ Goto(c, IF arg[c].kind = "register" THEN "store" ELSE "bust")
    /\ UNCHANGED <<passport, account, op, failures>>

\* A new key is stored before the document is dropped from the cache, a new handle
\* after; an operation that the user submits leaves the row alone.
Bust(c) ==
    /\ pc[c] = "bust"
    /\ BustDoc
    /\ IF arg[c].kind = "handle" THEN Goto(c, "store") /\ UNCHANGED op ELSE Answer(c, "ok")
    /\ UNCHANGED <<directory, account, failures, slipped>>

StoreKey(c) ==
    /\ pc[c] = "store" /\ arg[c].kind = "register"
    /\ row' = [row EXCEPT !.key = arg[c].key]
    /\ Goto(c, "bust")
    /\ UNCHANGED <<directory, passport, codes, signer, signed, op, failures, slipped>>

StoreHandle(c) ==
    /\ pc[c] = "store" /\ arg[c].kind = "handle"
    /\ row' = [row EXCEPT !.handle = arg[c].handle]
    /\ Answer(c, "ok")
    /\ UNCHANGED <<directory, passport, codes, signer, signed, failures, slipped>>

\* Mutant: the code is not cleared.
ClearedNot(r) == r
\* Mutant: the code is overwritten by a zero.
ClearedToZero(r) == [r EXCEPT !.code = 0]
\* Whichever code is there by now.
Cleared(r) == [r EXCEPT !.code = None]
ClearCode(c) ==
    /\ pc[c] = "store" /\ arg[c].kind = "sign"
    /\ row' = Cleared(row)
    /\ signed' = signed \cup {op[c]}
    /\ Answer(c, "ok")
    /\ UNCHANGED <<directory, passport, codes, signer, failures, slipped>>

\* The request to the directory or its answer is lost, or the database refuses the
\* statement: a handle, for one, that another account has.  (A log that cannot be
\* fetched ends the call with nothing done.)
Fails(c) ==
    /\ failures < MaxFailures
    /\ pc[c] \in {"send", "store"}
    /\ failures' = failures + 1
    /\ directory' \in IF pc[c] = "send" /\ Accepted(op[c])
                      THEN {directory, Applied(op[c])} ELSE {directory}
    /\ slipped' = IF directory' # directory \/ (pc[c] = "store" /\ arg[c].kind # "sign")
                  THEN slipped \cup {c} ELSE slipped
    /\ Answer(c, "failed")
    /\ UNCHANGED <<passport, account>>

CallNext(c) ==
    \/ \E k \in Keys : SupplySigningKey(c, k)
    \/ \E h \in Handles : UpdateHandle(c, h)
    \/ \E n \in 1..MaxCodes, wish \in Wishes : SignPlcOperation(c, n, wish)
    \/ \E o \in signed : SubmitPlcOperation(c, o)
    \/ ReadLog(c) \/ CheckSubmit(c) \/ Sign(c) \/ NoSignature(c) \/ Send(c)
    \/ Bust(c) \/ StoreKey(c) \/ StoreHandle(c) \/ ClearCode(c) \/ Fails(c)

Next ==
    \/ RequestCode \/ CodeExpires \/ SignerConnects
    \/ \E c \in Calls : CallNext(c)
    \/ PassportNext /\ UNCHANGED <<directory, account, calls>>

Spec == Init /\ [][Next]_vars

-----------------------------------------------------------------------------
(* Properties.                                                             *)

TypeOK ==
    /\ DOMAIN directory = {"number", "atproto", "rotation", "aka", "here"}
    /\ directory.atproto \in Signers /\ directory.rotation \subseteq Signers
    /\ row \in [key : Keys \cup {None}, handle : Handles,
                code : 1..MaxCodes \cup {None}]
    /\ \A c \in Calls : pc[c] = "send" => op[c].by # None

\* handle_server_supply_signing_key.go:222-233: registrations, and other changes of
\* the identity, may overlap at will; as long as no registration failed between the
\* two stores and none was refused by the directory, the row has the key that the
\* directory names, or the server's is there and still may rotate.
KeysAgree ==
    (\A c \in Calls : arg[c].kind = "register" => c \notin slipped /\ pc[c] # "store") =>
        IF row.key = None
        THEN directory.atproto = Pds /\ Pds \in directory.rotation
        ELSE directory.atproto = row.key

\* handle_identity_update_handle.go:56-64, 146: the first of the directory's names
\* is the row's handle, unless two changes of it overlapped, one was refused or
\* failed half-way, or the user submitted an operation with another name.
HandlesAgree ==
    (\A c \in Calls :
        /\ arg[c].kind = "handle" => /\ c \notin slipped /\ ~Open(c)
                                     /\ \A d \in beside[c] : arg[d].kind # "handle"
        /\ arg[c].kind # "submit") =>
        directory.aka # <<>> /\ Head(directory.aka) = row.handle

\* handle_identity_sign_plc_operation.go:61, 144: a mailed code gets one operation
\* signed, unless two calls with it were open together.
CodeSignsOnce ==
    \A c, d \in Calls :
        /\ c # d /\ pc[c] = "ok" /\ pc[d] = "ok"
        /\ arg[c].kind = "sign" /\ arg[d].kind = "sign" /\ arg[c].code = arg[d].code
        => d \in beside[c]

\* passport.go:54-61: once the last change of the directory was followed by a bust,
\* an old document is in the cache only if it was fetched across that bust.
CachedDocIsNew ==
    cache # None /\ cache.number < directory.number =>
        \/ cache.late
        \/ \E c \in Calls : pc[c] \in {"store", "bust"} \/ c \in slipped
=============================================================================
