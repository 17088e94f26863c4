------------------------- MODULE PlcIdentity_proofs -------------------------
(***************************************************************************)
(* Theorems about PlcIdentity, for every set of keys, handles, calls and   *)
(* fetches, and any number of codes and failures.                          *)
(***************************************************************************)
EXTENDS PlcIdentity, FiniteSetTheorems, TLAPS

-----------------------------------------------------------------------------
(* Types.                                                                  *)

\* What aka holds matters to the handles only, so it has no type.
EntryOK(e) ==
    /\ e = [number |-> e.number, atproto |-> e.atproto, rotation |-> e.rotation,
            aka |-> e.aka, here |-> e.here]
    /\ e.number \in Nat /\ e.atproto \in Signers /\ e.rotation \subseteq Signers
    /\ e.here \in BOOLEAN

OperationOK(o) ==
    /\ o = [prev |-> o.prev, by |-> o.by, atproto |-> o.atproto, rotation |-> o.rotation,
            aka |-> o.aka, here |-> o.here]
    /\ o.prev \in Nat /\ o.by \in Signers \cup {None}
    /\ o.atproto \in Signers /\ o.rotation \subseteq Signers /\ o.here \in BOOLEAN

ArgType == [kind : Kinds \cup {None}, key : Keys \cup {None}, handle : Handles \cup {None},
            code : Nat \cup {None}, wish : Wishes \cup {None}, op : signed \cup {None}]
View == [key : Keys \cup {None}, handle : Handles]

\* What a call has brought, read and built by where it is.
CallOK(c) ==
    /\ arg[c] \in ArgType
    /\ (pc[c] = "idle") = (arg[c].kind = None)
    /\ arg[c].kind = "register" => arg[c].key \in Keys \ {FirstKey}
    /\ arg[c].kind = "sign" => arg[c].code \in Nat
    /\ Open(c) =>
          /\ view[c] \in View
          /\ arg[c].kind = "handle" => arg[c].handle \in Handles
          /\ arg[c].kind = "sign" => arg[c].wish \in Wishes
          /\ arg[c].kind = "submit" => arg[c].op \in signed /\ view[c].key # None
    /\ pc[c] \in {"sign", "store"} => arg[c].kind # "submit"
    /\ pc[c] \in {"send", "bust"} => arg[c].kind # "sign"
    /\ pc[c] \in {"sign", "send", "bust", "store"} => OperationOK(op[c])
    /\ pc[c] \in {"send", "bust", "store"} => op[c].by # None

Places == {"idle", "read", "sign", "send", "bust", "store", "ok", "failed"}

AccountOK ==
    /\ row \in [key : Keys \cup {None}, handle : Handles, code : 1..MaxCodes \cup {None}]
    /\ codes \in Nat
    /\ signer \in Keys \cup {None}
    /\ \A o \in signed : OperationOK(o) /\ o.by # None
    /\ pc \in [Calls -> Places]
    /\ arg \in [Calls -> ArgType]
    /\ view \in [Calls -> View \cup {None}]
    /\ op = [c \in Calls |-> op[c]]
    /\ beside \in [Calls -> SUBSET Calls]
    /\ slipped \subseteq Calls
    /\ failures \in Nat

PassportOK ==
    /\ cache \in [number : Nat, late : BOOLEAN] \cup {None}
    /\ flight \in [answer : Nat \cup {None}, late : BOOLEAN] \cup {None}
    /\ fetch \in [Fetches -> [pc : {"idle", "waiting", "put", "done"},
                              number : Nat \cup {None}, late : BOOLEAN]]
    /\ \A f \in Fetches : fetch[f].pc = "put" => fetch[f].number \in Nat

TypeInv ==
    /\ EntryOK(directory)
    /\ AccountOK
    /\ PassportOK
    /\ \A c \in Calls : CallOK(c)

\* The operations that a change builds on the latest one.
LEMMA BuildsOperation ==
    ASSUME NEW now, EntryOK(now)
    PROVE  /\ \A k \in Keys : LET o == Following(now, NewKeys(now, k))
                              IN  /\ OperationOK(o) /\ o.prev = now.number /\ o.aka = now.aka
                                  /\ o.atproto = k /\ o.rotation = {k}
           /\ \A was, h : LET o == Following(now, NewAka(now, was, h))
                          IN  /\ OperationOK(o) /\ o.prev = now.number
                              /\ o.atproto = now.atproto /\ o.rotation = now.rotation
                              /\ o.aka = Append(Without(now.aka, was.handle), h)
           /\ \A w \in Wishes : LET o == Following(now, Wished(now, w))
                                IN  OperationOK(o) /\ o.prev = now.number
<1>. USE KeysAssumption DEF EntryOK, OperationOK, Following, Unchanged
<1>1. ASSUME NEW k \in Keys
      PROVE  LET o == Following(now, NewKeys(now, k))
             IN  /\ OperationOK(o) /\ o.prev = now.number /\ o.aka = now.aka
                 /\ o.atproto = k /\ o.rotation = {k}
    BY DEF NewKeys, Signers
<1>2. ASSUME NEW was, NEW h
      PROVE  LET o == Following(now, NewAka(now, was, h))
             IN  /\ OperationOK(o) /\ o.prev = now.number
                 /\ o.atproto = now.atproto /\ o.rotation = now.rotation
                 /\ o.aka = Append(Without(now.aka, was.handle), h)
    BY DEF NewAka
<1>3. ASSUME NEW w \in Wishes
      PROVE  LET o == Following(now, Wished(now, w))
             IN  OperationOK(o) /\ o.prev = now.number
    <2>1. /\ w.atproto = None \/ w.atproto \in Keys
          /\ w.rotation = None \/ w.rotation \subseteq Signers
          /\ w.here \in BOOLEAN
        <3>1. CASE \E k \in Keys \ {FirstKey} : w = [NoWish EXCEPT !.atproto = k]
            BY <3>1 DEF NoWish
        <3>2. CASE \E r \in {{k} : k \in Keys \ {FirstKey}} \cup {Signers} : w = [NoWish EXCEPT !.rotation = r]
            BY <3>2 DEF NoWish, Signers
        <3>3. CASE \E h \in Handles \ {FirstHandle} : w = [NoWish EXCEPT !.aka = <<h>>]
            BY <3>3 DEF NoWish
        <3>4. CASE w = [NoWish EXCEPT !.here = FALSE]
            BY <3>4 DEF NoWish
        <3>. QED BY <3>1, <3>2, <3>3, <3>4 DEF Wishes
    <2>2. Keys \subseteq Signers
        BY DEF Signers
    <2>. QED BY <2>1, <2>2 DEF Wished
<1>. QED BY <1>1, <1>2, <1>3

\* What a signature and the directory make of an operation.
LEMMA SignsOperation ==
    ASSUME NEW o, OperationOK(o)
    PROVE  /\ \A s \in Signers : LET p == [o EXCEPT !.by = s]
                                 IN  /\ OperationOK(p) /\ p.by = s /\ p.prev = o.prev /\ p.aka = o.aka
                                     /\ p.atproto = o.atproto /\ p.rotation = o.rotation
           /\ EntryOK(Applied(o)) /\ Applied(o).number = o.prev + 1 /\ Applied(o).aka = o.aka
           /\ Applied(o).atproto = o.atproto /\ Applied(o).rotation = o.rotation
BY DEF OperationOK, EntryOK, Applied

\* At first nothing was called, and at most one operation is signed.
LEMMA TypeInit == Init => TypeInv
<1>. SUFFICES ASSUME Init PROVE TypeInv
    OBVIOUS
<1>. USE KeysAssumption, BoundsAssumption
<1>1. EntryOK(NewDid) /\ EntryOK(OwnedDid)
    <2>. DEFINE names == <<FirstHandle>>
    <2>1. /\ NewDid = [number |-> 1, atproto |-> Pds, rotation |-> {Pds},
                        aka |-> names, here |-> TRUE]
          /\ OwnedDid = [NewDid EXCEPT !.number = 2, !.atproto = FirstKey, !.rotation = {FirstKey}]
        BY DEF NewDid, OwnedDid
    <2>. HIDE DEF names
    <2>2. Pds \in Signers /\ FirstKey \in Signers
        BY DEF Signers
    <2>3. EntryOK(NewDid)
        BY <2>1, <2>2 DEF EntryOK
    <2>4. EntryOK(OwnedDid)
        BY <2>1, <2>2 DEF EntryOK
    <2>. QED BY <2>3, <2>4
<1>2. EntryOK(directory)
    BY <1>1 DEF Init, NewOrOwned
<1>3. signer \in Keys \cup {None} /\ \A o \in signed : OperationOK(o) /\ o.by # None
    <2>1. CASE directory = NewDid /\ signer = None /\ signed = {}
        BY <2>1
    <2>2. ASSUME signer = FirstKey, NEW wish \in Wishes,
                 signed = {[Following(OwnedDid, Wished(OwnedDid, wish)) EXCEPT !.by = FirstKey]}
          PROVE  signer \in Keys \cup {None} /\ \A o \in signed : OperationOK(o) /\ o.by # None
        <3>1. OperationOK(Following(OwnedDid, Wished(OwnedDid, wish)))
            BY <1>1, BuildsOperation
        <3>2. FirstKey \in Signers /\ FirstKey # None
            BY DEF Signers
        <3>3. \A o \in signed : OperationOK(o) /\ o.by = FirstKey
            <4>. DEFINE o == Following(OwnedDid, Wished(OwnedDid, wish))
            <4>1. signed = {[o EXCEPT !.by = FirstKey]} /\ OperationOK(o)
                BY <2>2, <3>1
            <4>. HIDE DEF o
            <4>2. OperationOK([o EXCEPT !.by = FirstKey]) /\ [o EXCEPT !.by = FirstKey].by = FirstKey
                BY <3>2, <4>1, SignsOperation
            <4>. QED BY <4>1, <4>2
        <3>. QED BY <2>2, <3>2, <3>3
    <2>. QED BY <2>1, <2>2 DEF Init, NewOrOwned
<1>4. NoArg \in ArgType
    BY DEF NoArg, ArgType
<1>5. AccountOK
    BY <1>3, <1>4 DEF Init, AccountOK, Places
<1>6. PassportOK
    BY DEF Init, PassportOK, PassportInit, Fetch
<1>7. ASSUME NEW c \in Calls PROVE CallOK(c)
    <2>1. arg[c] = NoArg /\ pc[c] = "idle" /\ NoArg.kind = None
        BY DEF Init, NoArg
    <2>. QED BY <1>4, <2>1, KindsAssumption DEF CallOK, Open, Kinds
<1>. QED BY <1>2, <1>5, <1>6, <1>7 DEF TypeInv

\* A call that is left alone keeps what it has; the signed operations only grow.
LEMMA CallKept ==
    ASSUME NEW c \in Calls, CallOK(c), signed \subseteq signed',
           arg'[c] = arg[c], pc'[c] = pc[c], view'[c] = view[c], op'[c] = op[c]
    PROVE  CallOK(c)'
BY DEF CallOK, ArgType, Open

\* How a call begins, and what it brings.
BeginStep(c) ==
    \/ \E k \in Keys : SupplySigningKey(c, k)
    \/ \E h \in Handles : UpdateHandle(c, h)
    \/ \E n \in 1..MaxCodes, wish \in Wishes : SignPlcOperation(c, n, wish)
    \/ \E o \in signed : SubmitPlcOperation(c, o)
Brought(in, next) ==
    /\ in \in ArgType /\ in.kind \in Kinds /\ next \in {"read", "failed"}
    /\ in.kind = "register" =>
          /\ in.key \in Keys \ {FirstKey}
          /\ \A d \in Calls : arg[d].kind = "register" => arg[d].key # in.key
    /\ in.kind = "handle" => in.handle \in Handles
    /\ in.kind = "sign" => in.wish \in Wishes /\ in.code \in Nat /\ in.code = row.code
    /\ in.kind = "submit" => in.op \in signed /\ (next = "read" => row.key # None)
LEMMA Beginning ==
    ASSUME TypeInv, NEW c \in Calls, BeginStep(c)
    PROVE  \E in, next : Brought(in, next) /\ Begin(c, in, next)
<1>. USE DEF TypeInv, AccountOK, Kinds, ArgType, Brought, NoArg
<1>1. CASE \E k \in Keys : SupplySigningKey(c, k)
    <2>1. PICK k \in Keys : SupplySigningKey(c, k)
        BY <1>1
    <2>. DEFINE in == [NoArg EXCEPT !.kind = "register", !.key = k]
    <2>2. Brought(in, "read")
        BY <2>1 DEF SupplySigningKey
    <2>3. Begin(c, in, "read")
        BY <2>1 DEF SupplySigningKey
    <2>. QED BY <2>2, <2>3
<1>2. CASE \E h \in Handles : UpdateHandle(c, h)
    <2>1. PICK h \in Handles : UpdateHandle(c, h)
        BY <1>2
    <2>. DEFINE in == [NoArg EXCEPT !.kind = "handle", !.handle = h]
    <2>2. Brought(in, "read")
        OBVIOUS
    <2>3. Begin(c, in, "read")
        BY <2>1 DEF UpdateHandle
    <2>. QED BY <2>2, <2>3
<1>3. CASE \E n \in 1..MaxCodes, wish \in Wishes : SignPlcOperation(c, n, wish)
    <2>1. PICK n \in 1..MaxCodes, wish \in Wishes : SignPlcOperation(c, n, wish)
        BY <1>3
    <2>. DEFINE in == [NoArg EXCEPT !.kind = "sign", !.code = n, !.wish = wish]
    <2>2. n \in Nat /\ n = row.code
        BY <2>1, BoundsAssumption DEF SignPlcOperation
    <2>3. Brought(in, "read")
        BY <2>2
    <2>4. Begin(c, in, "read")
        BY <2>1 DEF SignPlcOperation
    <2>. QED BY <2>3, <2>4
<1>4. CASE \E o \in signed : SubmitPlcOperation(c, o)
    <2>1. PICK o \in signed : SubmitPlcOperation(c, o)
        BY <1>4
    <2>. DEFINE in == [NoArg EXCEPT !.kind = "submit", !.op = o]
                next == IF row.key = None THEN "failed" ELSE "read"
    <2>2. Brought(in, next)
        OBVIOUS
    <2>3. Begin(c, in, next)
        BY <2>1 DEF SubmitPlcOperation
    <2>. QED BY <2>2, <2>3
<1>. QED BY <1>1, <1>2, <1>3, <1>4 DEF BeginStep

\* A step of one call leaves the other calls alone; who begins notes who is open.
LEMMA OthersAlone ==
    ASSUME TypeInv, NEW c \in Calls, CallNext(c)
    PROVE  /\ \A d \in Calls \ {c} : /\ arg'[d] = arg[d] /\ pc'[d] = pc[d]
                                     /\ view'[d] = view[d] /\ op'[d] = op[d]
           /\ signed \subseteq signed' /\ slipped \subseteq slipped' /\ slipped' \subseteq slipped \cup {c}
           /\ pc'[c] # "idle" /\ arg'[c].kind \in Kinds
           /\ pc[c] # "idle" => /\ beside' = beside /\ arg'[c].kind = arg[c].kind
                                /\ arg'[c].key = arg[c].key /\ arg'[c].code = arg[c].code
           /\ pc[c] = "idle" => pc'[c] \in {"read", "failed"}
           /\ codes' = codes
<1>. USE DEF TypeInv, AccountOK, CallOK, Kinds, ArgType, account
<1>1. CASE BeginStep(c)
    <2>1. PICK in, next : Brought(in, next) /\ Begin(c, in, next)
        BY <1>1, Beginning
    <2>. QED BY <2>1 DEF Begin, Brought
<1>2. CASE ReadLog(c) \/ Sign(c) \/ Send(c) \/ StoreKey(c)
    <2>1. pc[c] # "idle" /\ arg[c].kind \in Kinds
        BY <1>2, KindsAssumption DEF ReadLog, Sign, Send, StoreKey
    <2>2. \E next \in Places \ {"idle"} : Goto(c, next)
        BY <1>2 DEF ReadLog, Sign, Send, StoreKey, Places
    <2>3. /\ \A d \in Calls \ {c} : op'[d] = op[d]
          /\ signed \subseteq signed' /\ slipped \subseteq slipped' /\ slipped' \subseteq slipped \cup {c}
          /\ codes' = codes
        BY <1>2 DEF ReadLog, Sign, Send, StoreKey
    <2>. QED BY <2>1, <2>2, <2>3 DEF Goto
<1>3. ASSUME NEW next \in {"ok", "failed"}, Answer(c, next)
      PROVE  /\ \A d \in Calls \ {c} : /\ arg'[d] = arg[d] /\ pc'[d] = pc[d]
                                       /\ view'[d] = view[d] /\ op'[d] = op[d]
             /\ beside' = beside /\ arg'[c].kind = arg[c].kind
             /\ arg'[c].key = arg[c].key /\ arg'[c].code = arg[c].code /\ pc'[c] = next
    BY <1>3 DEF Answer
<1>4. CASE CheckSubmit(c)
    <2>1. pc[c] = "read" /\ arg[c].kind = "submit" /\ UNCHANGED <<account, slipped>>
        BY <1>4 DEF CheckSubmit
    <2>2. CASE Answer(c, "failed")
        BY <1>3, <2>1, <2>2
    <2>3. CASE Goto(c, "send") /\ op' = [op EXCEPT ![c] = arg[c].op]
        BY <2>1, <2>3 DEF Goto
    <2>. QED BY <1>4, <2>2, <2>3 DEF CheckSubmit
<1>5. CASE Bust(c)
    <2>1. pc[c] = "bust" /\ arg[c].kind \in Kinds /\ UNCHANGED <<account, slipped>>
        BY <1>5, KindsAssumption DEF Bust
    <2>2. CASE Answer(c, "ok")
        BY <1>3, <2>1, <2>2
    <2>3. CASE Goto(c, "store") /\ UNCHANGED op
        BY <2>1, <2>3 DEF Goto
    <2>. QED BY <1>5, <2>2, <2>3 DEF Bust
<1>6. CASE NoSignature(c) \/ StoreHandle(c) \/ ClearCode(c) \/ Fails(c)
    <2>1. pc[c] # "idle" /\ arg[c].kind \in Kinds
        BY <1>6, KindsAssumption DEF NoSignature, StoreHandle, ClearCode, Fails
    <2>2. \E next \in {"ok", "failed"} : Answer(c, next)
        BY <1>6 DEF NoSignature, StoreHandle, ClearCode, Fails
    <2>3. /\ signed \subseteq signed' /\ slipped \subseteq slipped' /\ slipped' \subseteq slipped \cup {c}
          /\ codes' = codes
        BY <1>6 DEF NoSignature, StoreHandle, ClearCode, Fails
    <2>. QED BY <1>3, <2>1, <2>2, <2>3
<1>. QED BY <1>1, <1>2, <1>4, <1>5, <1>6 DEF CallNext, BeginStep

\* The variables of the calls.
CallsOK ==
    /\ pc \in [Calls -> Places]
    /\ arg \in [Calls -> ArgType]
    /\ view \in [Calls -> View \cup {None}]
    /\ op = [c \in Calls |-> op[c]]
    /\ beside \in [Calls -> SUBSET Calls]

\* An answer keeps the types.
LEMMA AnswerType ==
    ASSUME TypeInv, NEW c \in Calls, pc[c] # "idle", NEW next \in {"ok", "failed"}, Answer(c, next),
           signed \subseteq signed'
    PROVE  CallsOK' /\ CallOK(c)'
<1>. USE DEF TypeInv, AccountOK, ArgType
<1>1. /\ pc' = [pc EXCEPT ![c] = next] /\ view' = [view EXCEPT ![c] = None]
      /\ op' = [op EXCEPT ![c] = None] /\ beside' = beside
      /\ arg' = [arg EXCEPT ![c].handle = None, ![c].wish = None, ![c].op = None]
    BY DEF Answer
<1>2. ASSUME NEW d \in Calls PROVE arg'[d] \in (ArgType)'
    <2>1. arg'[d] = IF d = c THEN [arg[c] EXCEPT !.handle = None, !.wish = None, !.op = None]
                    ELSE arg[d]
        BY <1>1
    <2>2. arg[d] \in ArgType /\ arg[c] \in ArgType
        OBVIOUS
    <2>3. ASSUME NEW a \in ArgType
          PROVE  a \in (ArgType)' /\ [a EXCEPT !.handle = None, !.wish = None, !.op = None] \in (ArgType)'
        BY DEF ArgType
    <2>4. arg[c] \in (ArgType)' /\ [arg[c] EXCEPT !.handle = None, !.wish = None, !.op = None] \in (ArgType)'
        BY <2>2, <2>3
    <2>5. arg[d] \in (ArgType)'
        BY <2>2, <2>3
    <2>. QED BY <2>1, <2>4, <2>5, Zenon
<1>3. /\ arg'[c].kind = arg[c].kind /\ arg'[c].key = arg[c].key /\ arg'[c].code = arg[c].code
      /\ pc'[c] = next
    BY <1>1
<1>4. CallsOK'
    BY <1>1, <1>2 DEF CallsOK, Places
<1>5. arg[c].kind # None
    BY DEF CallOK
<1>6. CallOK(c)'
    BY <1>2, <1>3, <1>5 DEF CallOK, Open
<1>. QED BY <1>4, <1>6

\* So does a move to the next step, if what is kept there is an operation.
LEMMA GotoType ==
    ASSUME TypeInv, NEW c \in Calls, NEW next \in Places \ {"idle"}, pc[c] # "idle", Goto(c, next),
           signed \subseteq signed', op' = [d \in Calls |-> op'[d]]
    PROVE  /\ CallsOK' /\ pc'[c] = next /\ arg'[c] = arg[c] /\ view'[c] = view[c]
           /\ arg'[c] \in (ArgType)' /\ arg'[c].kind # None
           /\ Open(c) =>
                 /\ view'[c] \in View
                 /\ arg'[c].kind = "handle" => arg'[c].handle \in Handles
                 /\ arg'[c].kind = "sign" => arg'[c].wish \in Wishes
                 /\ arg'[c].kind = "submit" => arg'[c].op \in signed' /\ view'[c].key # None
<1>1. /\ pc' = [pc EXCEPT ![c] = next] /\ arg' = arg /\ view' = view /\ beside' = beside
      /\ \A d \in Calls : CallOK(d)
    BY DEF Goto, TypeInv
<1>2. \A d \in Calls : arg[d] \in (ArgType)'
    BY <1>1 DEF CallOK, ArgType
<1>3. CallsOK'
    BY <1>1, <1>2 DEF TypeInv, AccountOK, CallsOK
<1>4. pc'[c] = next /\ arg'[c].kind # None
    BY <1>1 DEF CallOK, TypeInv, AccountOK
<1>5. Open(c) => /\ view[c] \in View
                 /\ arg[c].kind = "handle" => arg[c].handle \in Handles
                 /\ arg[c].kind = "sign" => arg[c].wish \in Wishes
                 /\ arg[c].kind = "submit" => arg[c].op \in signed' /\ view[c].key # None
    BY <1>1 DEF CallOK
<1>. QED BY <1>1, <1>2, <1>3, <1>4, <1>5

\* So does a beginning.
LEMMA BeginType ==
    ASSUME TypeInv, NEW c \in Calls, NEW in, NEW next, Brought(in, next), Begin(c, in, next)
    PROVE  CallsOK' /\ CallOK(c)'
<1>. USE DEF TypeInv, AccountOK
<1>1. /\ pc' = [pc EXCEPT ![c] = next] /\ arg' = [arg EXCEPT ![c] = in]
      /\ view' = [view EXCEPT ![c] = [key |-> row.key, handle |-> row.handle]]
      /\ op' = op /\ signed' = signed
      /\ \A d \in Calls : beside'[d] \in SUBSET Calls
      /\ beside' = [d \in Calls |-> beside'[d]]
    BY DEF Begin, account
<1>2. [key |-> row.key, handle |-> row.handle] \in View
    BY DEF View
<1>3. (ArgType)' = ArgType
    BY <1>1 DEF ArgType
<1>4. CallsOK'
    BY <1>1, <1>2, <1>3 DEF CallsOK, Places, Brought
<1>5. pc'[c] = next /\ arg'[c] = in /\ view'[c] = [key |-> row.key, handle |-> row.handle]
    BY <1>1
<1>6. CallOK(c)'
    BY <1>1, <1>2, <1>3, <1>5, KindsAssumption DEF CallOK, Open, Brought, Kinds
<1>. QED BY <1>4, <1>6

\* A call keeps the types.
LEMMA CallType ==
    ASSUME TypeInv, NEW c \in Calls, CallNext(c)
    PROVE  TypeInv'
<1>. USE KeysAssumption, BoundsAssumption
<1>0. /\ \A d \in Calls \ {c} : CallOK(d)'
      /\ slipped' \subseteq Calls /\ signed \subseteq signed' /\ codes' = codes
    <2>1. \A d \in Calls \ {c} : CallOK(d)'
        BY OthersAlone, CallKept DEF TypeInv
    <2>. QED BY <2>1, OthersAlone DEF TypeInv, AccountOK
<1>1. ASSUME EntryOK(directory)', CallsOK', CallOK(c)', PassportOK', failures' \in Nat,
             row' \in [key : Keys \cup {None}, handle : Handles, code : 1..MaxCodes \cup {None}],
             signer' \in Keys \cup {None}, \A o \in signed' : OperationOK(o) /\ o.by # None
      PROVE  TypeInv'
    BY <1>0, <1>1 DEF TypeInv, AccountOK, CallsOK
<1>2. ASSUME UNCHANGED account
      PROVE  /\ row' \in [key : Keys \cup {None}, handle : Handles, code : 1..MaxCodes \cup {None}]
             /\ signer' \in Keys \cup {None} /\ \A o \in signed' : OperationOK(o) /\ o.by # None
    BY <1>2 DEF account, TypeInv, AccountOK
<1>3. ASSUME UNCHANGED passport PROVE PassportOK'
    BY <1>3 DEF passport, TypeInv, PassportOK
<1>4. ASSUME UNCHANGED directory PROVE EntryOK(directory)'
    BY <1>4 DEF TypeInv
<1>5. EntryOK(directory) /\ CallOK(c) /\ failures \in Nat
    BY DEF TypeInv, AccountOK
<1>6. CASE BeginStep(c)
    <2>1. PICK in, next : Brought(in, next) /\ Begin(c, in, next)
        BY <1>6, Beginning
    <2>2. UNCHANGED <<directory, passport, account, failures>>
        BY <2>1 DEF Begin
    <2>. QED BY <1>1, <1>2, <1>3, <1>4, <1>5, <2>1, <2>2, BeginType
<1>7. CASE ReadLog(c)
    <2>. DEFINE o == IF ByPds(c) THEN [Built(c, directory) EXCEPT !.by = Pds] ELSE Built(c, directory)
                next == IF ByPds(c) THEN "send" ELSE "sign"
    <2>1. /\ pc[c] = "read" /\ arg[c].kind # "submit" /\ op' = [op EXCEPT ![c] = o]
          /\ Goto(c, next) /\ UNCHANGED <<directory, passport, account, failures>>
        BY <1>7 DEF ReadLog
    <2>2. OperationOK(Built(c, directory))
        <3>1. arg[c].kind \in Kinds /\ Open(c)
            BY <1>5, <2>1 DEF CallOK, ArgType, Open
        <3>2. CASE arg[c].kind = "register"
            BY <1>5, <3>2, BuildsOperation DEF Built, CallOK
        <3>3. CASE arg[c].kind = "handle"
            BY <1>5, <3>3, BuildsOperation DEF Built
        <3>4. CASE arg[c].kind = "sign"
            BY <1>5, <3>1, <3>4, BuildsOperation DEF Built, CallOK
        <3>. QED BY <2>1, <3>1, <3>2, <3>3, <3>4 DEF Kinds
    <2>3. OperationOK(o) /\ (ByPds(c) => o.by # None)
        BY <2>2, SignsOperation DEF Signers
    <2>. HIDE DEF o
    <2>4. op' = [d \in Calls |-> op'[d]] /\ op'[c] = o
        BY <2>1 DEF TypeInv, AccountOK
    <2>5. next \in Places \ {"idle"} /\ Open(c)
        BY <2>1 DEF Places, Open
    <2>6. ByPds(c) => arg[c].kind # "sign"
        BY DEF ByPds
    <2>7. CallsOK' /\ CallOK(c)'
        <3>1. next \in {"sign", "send"} /\ (next = "send" => o.by # None /\ arg[c].kind # "sign")
            BY <2>3, <2>6
        <3>. HIDE DEF next
        <3>2. /\ CallsOK' /\ pc'[c] = next /\ arg'[c] = arg[c] /\ view'[c] = view[c]
              /\ arg'[c] \in (ArgType)' /\ arg'[c].kind # None
              /\ view'[c] \in View
              /\ arg'[c].kind = "handle" => arg'[c].handle \in Handles
              /\ arg'[c].kind = "sign" => arg'[c].wish \in Wishes
              /\ arg'[c].kind = "submit" => arg'[c].op \in signed' /\ view'[c].key # None
            BY <1>0, <2>1, <2>4, <2>5, GotoType
        <3>. QED BY <1>5, <2>1, <2>3, <2>4, <3>1, <3>2 DEF CallOK
    <2>. QED BY <1>1, <1>2, <1>3, <1>4, <1>5, <2>1, <2>7
<1>8. CASE CheckSubmit(c)
    <2>1. /\ pc[c] = "read" /\ arg[c].kind = "submit"
          /\ UNCHANGED <<directory, passport, account, failures, slipped>>
        BY <1>8 DEF CheckSubmit
    <2>2. CASE Answer(c, "failed")
        BY <1>0, <1>1, <1>2, <1>3, <1>4, <1>5, <2>1, <2>2, AnswerType
    <2>3. CASE Goto(c, "send") /\ op' = [op EXCEPT ![c] = arg[c].op]
        <3>1. op' = [d \in Calls |-> op'[d]] /\ op'[c] = arg[c].op /\ Open(c) /\ arg[c].op \in signed
            BY <1>5, <2>1, <2>3 DEF TypeInv, AccountOK, Open, CallOK
        <3>2. OperationOK(op'[c]) /\ op'[c].by # None
            BY <3>1 DEF TypeInv, AccountOK
        <3>3. CallsOK' /\ CallOK(c)'
            <4>1. /\ CallsOK' /\ pc'[c] = "send" /\ arg'[c] = arg[c] /\ view'[c] = view[c]
                  /\ arg'[c] \in (ArgType)' /\ arg'[c].kind # None
                  /\ view'[c] \in View
                  /\ arg'[c].kind = "handle" => arg'[c].handle \in Handles
                  /\ arg'[c].kind = "sign" => arg'[c].wish \in Wishes
                  /\ arg'[c].kind = "submit" => arg'[c].op \in signed' /\ view'[c].key # None
                BY <1>0, <2>1, <2>3, <3>1, GotoType DEF Places
            <4>. QED BY <1>5, <2>1, <3>1, <3>2, <4>1 DEF CallOK
        <3>. QED BY <1>1, <1>2, <1>3, <1>4, <1>5, <2>1, <3>3
    <2>. QED BY <1>8, <2>2, <2>3 DEF CheckSubmit
<1>9. CASE Sign(c)
    <2>1. /\ pc[c] = "sign" /\ signer \in Signers /\ signer # None
          /\ op' = [op EXCEPT ![c].by = signer]
          /\ UNCHANGED <<directory, passport, account, failures, slipped>>
        BY <1>9 DEF Sign, TypeInv, AccountOK, Signers
    <2>2. PICK next \in {"store", "send"} : Goto(c, next) /\ (next = "store") = (arg[c].kind = "sign")
        BY <1>9 DEF Sign
    <2>3. op'[c] = [op[c] EXCEPT !.by = signer] /\ op' = [d \in Calls |-> op'[d]] /\ Open(c)
        BY <2>1 DEF TypeInv, AccountOK, Open
    <2>4. OperationOK(op'[c]) /\ op'[c].by # None
        <3>1. OperationOK(op[c])
            BY <1>5, <2>1 DEF CallOK
        <3>2. OperationOK([op[c] EXCEPT !.by = signer]) /\ [op[c] EXCEPT !.by = signer].by = signer
            BY <2>1, <3>1, SignsOperation
        <3>. QED BY <2>1, <2>3, <3>2, Zenon
    <2>5. CallsOK' /\ CallOK(c)'
        <3>1. /\ CallsOK' /\ pc'[c] = next /\ arg'[c] = arg[c] /\ view'[c] = view[c]
              /\ arg'[c] \in (ArgType)' /\ arg'[c].kind # None
              /\ view'[c] \in View
              /\ arg'[c].kind = "handle" => arg'[c].handle \in Handles
              /\ arg'[c].kind = "sign" => arg'[c].wish \in Wishes
              /\ arg'[c].kind = "submit" => arg'[c].op \in signed' /\ view'[c].key # None
            BY <1>0, <2>1, <2>2, <2>3, GotoType DEF Places
        <3>. QED BY <1>5, <2>2, <2>4, <3>1 DEF CallOK
    <2>. QED BY <1>1, <1>2, <1>3, <1>4, <1>5, <2>1, <2>5
<1>10. CASE Send(c)
    <2>1. /\ pc[c] = "send" /\ directory' \in {directory, Applied(op[c])}
          /\ UNCHANGED <<passport, account, op, failures>> /\ Open(c)
        BY <1>10 DEF Send, Open
    <2>2. EntryOK(directory)'
        BY <1>5, <2>1, SignsOperation DEF CallOK
    <2>3. PICK next \in {"store", "bust"} : Goto(c, next) /\ (next = "store") = (arg[c].kind = "register")
        BY <1>10 DEF Send
    <2>4. op' = [d \in Calls |-> op'[d]] /\ op'[c] = op[c]
        BY <2>1 DEF TypeInv, AccountOK
    <2>5. CallsOK' /\ CallOK(c)'
        BY <1>0, <1>5, <2>1, <2>3, <2>4, GotoType DEF CallOK, Places
    <2>. QED BY <1>1, <1>2, <1>3, <1>5, <2>1, <2>2, <2>5
<1>11. CASE Bust(c)
    <2>1. pc[c] = "bust" /\ BustDoc /\ UNCHANGED <<directory, account, failures, slipped>> /\ Open(c)
        BY <1>11 DEF Bust, Open
    <2>2. PassportOK'
        BY <2>1 DEF BustDoc, Late, TypeInv, PassportOK
    <2>3. CASE Answer(c, "ok")
        BY <1>0, <1>1, <1>2, <1>4, <1>5, <2>1, <2>2, <2>3, AnswerType
    <2>4. CASE Goto(c, "store") /\ UNCHANGED op /\ arg[c].kind = "handle"
        <3>1. op' = [d \in Calls |-> op'[d]] /\ op'[c] = op[c]
            BY <2>4 DEF TypeInv, AccountOK
        <3>2. CallsOK' /\ CallOK(c)'
            BY <1>0, <1>5, <2>1, <2>4, <3>1, GotoType DEF CallOK, Places
        <3>. QED BY <1>1, <1>2, <1>4, <1>5, <2>1, <2>2, <3>2
    <2>. QED BY <1>11, <2>3, <2>4 DEF Bust
<1>12. CASE StoreKey(c)
    <2>1. /\ pc[c] = "store" /\ arg[c].kind = "register" /\ row' = [row EXCEPT !.key = arg[c].key]
          /\ Goto(c, "bust")
          /\ UNCHANGED <<directory, passport, codes, signer, signed, op, failures, slipped>> /\ Open(c)
        BY <1>12 DEF StoreKey, Open
    <2>2. row' \in [key : Keys \cup {None}, handle : Handles, code : 1..MaxCodes \cup {None}]
        BY <1>5, <2>1 DEF TypeInv, AccountOK, CallOK
    <2>3. op' = [d \in Calls |-> op'[d]] /\ op'[c] = op[c]
        BY <2>1 DEF TypeInv, AccountOK
    <2>4. CallsOK' /\ CallOK(c)'
        BY <1>0, <1>5, <2>1, <2>3, GotoType DEF CallOK, Places
    <2>5. signer' \in Keys \cup {None} /\ \A o \in signed' : OperationOK(o) /\ o.by # None
        BY <2>1 DEF TypeInv, AccountOK
    <2>. QED BY <1>1, <1>3, <1>4, <1>5, <2>1, <2>2, <2>4, <2>5
<1>13. CASE StoreHandle(c)
    <2>1. /\ pc[c] = "store" /\ arg[c].kind = "handle" /\ row' = [row EXCEPT !.handle = arg[c].handle]
          /\ Answer(c, "ok")
          /\ UNCHANGED <<directory, passport, codes, signer, signed, failures, slipped>> /\ Open(c)
        BY <1>13 DEF StoreHandle, Open
    <2>2. row' \in [key : Keys \cup {None}, handle : Handles, code : 1..MaxCodes \cup {None}]
        BY <1>5, <2>1 DEF TypeInv, AccountOK, CallOK
    <2>3. signer' \in Keys \cup {None} /\ \A o \in signed' : OperationOK(o) /\ o.by # None
        BY <2>1 DEF TypeInv, AccountOK
    <2>. QED BY <1>0, <1>1, <1>3, <1>4, <1>5, <2>1, <2>2, <2>3, AnswerType
<1>14. CASE ClearCode(c)
    <2>1. /\ pc[c] = "store" /\ row' = Cleared(row) /\ signed' = signed \cup {op[c]}
          /\ Answer(c, "ok")
          /\ UNCHANGED <<directory, passport, codes, signer, failures, slipped>>
        BY <1>14 DEF ClearCode
    <2>2. row' \in [key : Keys \cup {None}, handle : Handles, code : 1..MaxCodes \cup {None}]
        BY <2>1 DEF TypeInv, AccountOK, Cleared
    <2>3. signer' \in Keys \cup {None} /\ \A o \in signed' : OperationOK(o) /\ o.by # None
        BY <1>5, <2>1 DEF TypeInv, AccountOK, CallOK
    <2>. QED BY <1>0, <1>1, <1>3, <1>4, <1>5, <2>1, <2>2, <2>3, AnswerType
<1>15. CASE NoSignature(c)
    <2>1. pc[c] = "sign" /\ Answer(c, "failed") /\ UNCHANGED <<directory, passport, account, failures, slipped>>
        BY <1>15 DEF NoSignature
    <2>. QED BY <1>0, <1>1, <1>2, <1>3, <1>4, <1>5, <2>1, AnswerType
<1>16. CASE Fails(c)
    <2>1. /\ pc[c] \in {"send", "store"} /\ Answer(c, "failed") /\ failures' \in Nat
          /\ directory' \in {directory, Applied(op[c])} /\ UNCHANGED <<passport, account>>
        BY <1>5, <1>16 DEF Fails
    <2>2. EntryOK(directory)'
        BY <1>5, <2>1, SignsOperation DEF CallOK
    <2>. QED BY <1>0, <1>1, <1>2, <1>3, <1>5, <2>1, <2>2, AnswerType
<1>. QED BY <1>6, <1>7, <1>8, <1>9, <1>10, <1>11, <1>12, <1>13, <1>14, <1>15, <1>16 DEF CallNext, BeginStep

\* So do the fetches, which leave the account and its calls alone.
LEMMA PassportType ==
    ASSUME TypeInv, PassportNext
    PROVE  PassportOK'
<1>. USE KeysAssumption DEF TypeInv, EntryOK, PassportOK
<1>1. ASSUME NEW f \in Fetches, AskDirectory(f) PROVE PassportOK'
    BY <1>1 DEF AskDirectory
<1>2. ASSUME NEW f \in Fetches, PutDoc(f) PROVE PassportOK'
    BY <1>2 DEF PutDoc, Fetch
<1>3. CASE DirectoryReads
    BY <1>3 DEF DirectoryReads
<1>4. CASE FlightEnds
    <2>1. flight \in [answer : Nat \cup {None}, late : BOOLEAN]
          /\ fetch' = [f \in Fetches |-> fetch'[f]] /\ flight' = None /\ cache' = cache
        BY <1>4 DEF FlightEnds
    <2>2. ASSUME NEW f \in Fetches
          PROVE  /\ fetch'[f] \in [pc : {"idle", "waiting", "put", "done"},
                                   number : Nat \cup {None}, late : BOOLEAN]
                 /\ fetch'[f].pc = "put" => fetch'[f].number \in Nat
        <3>1. CASE fetch[f].pc # "waiting"
            BY <1>4, <3>1 DEF FlightEnds
        <3>2. CASE fetch[f].pc = "waiting" /\ flight.answer = None
            BY <1>4, <3>2 DEF FlightEnds, Fetch
        <3>3. CASE fetch[f].pc = "waiting" /\ flight.answer # None
            BY <1>4, <2>1, <3>3 DEF FlightEnds, Fetch
        <3>. QED BY <3>1, <3>2, <3>3
    <2>. QED BY <2>1, <2>2
<1>5. CASE Expires
    BY <1>5 DEF Expires
<1>. QED BY <1>1, <1>2, <1>3, <1>4, <1>5 DEF PassportNext

\* Every step keeps the types.
LEMMA TypeStep == TypeInv /\ [Next]_vars => TypeInv'
<1>. SUFFICES ASSUME TypeInv, [Next]_vars PROVE TypeInv'
    OBVIOUS
<1>. USE KeysAssumption, BoundsAssumption
<1>1. ASSUME UNCHANGED calls, UNCHANGED signed,
             EntryOK(directory)', PassportOK', codes' \in Nat, signer' \in Keys \cup {None},
             row' \in [key : Keys \cup {None}, handle : Handles, code : 1..MaxCodes \cup {None}]
      PROVE  TypeInv'
    BY <1>1 DEF calls, TypeInv, AccountOK, CallOK, ArgType, Open
<1>2. ASSUME UNCHANGED <<directory, passport>> PROVE EntryOK(directory)' /\ PassportOK'
    BY <1>2 DEF passport, TypeInv, PassportOK
<1>3. CASE RequestCode
    BY <1>1, <1>2, <1>3 DEF RequestCode, TypeInv, AccountOK
<1>4. CASE CodeExpires
    BY <1>1, <1>2, <1>4 DEF CodeExpires, TypeInv, AccountOK
<1>5. CASE SignerConnects
    BY <1>1, <1>2, <1>5 DEF SignerConnects, TypeInv, AccountOK
<1>6. CASE PassportNext /\ UNCHANGED <<directory, account, calls>>
    BY <1>1, <1>6, PassportType DEF TypeInv, AccountOK, account
<1>7. CASE UNCHANGED vars
    BY <1>1, <1>2, <1>7 DEF vars, account, TypeInv, AccountOK
<1>. QED BY <1>3, <1>4, <1>5, <1>6, <1>7, CallType DEF Next

\* They hold throughout.
LEMMA TypeAlways == Spec => []TypeInv
BY TypeInit, TypeStep, PTL DEF Spec

\* The entry of the directory keeps its form, the row's key, handle and code are of
\* their kinds, and nothing is sent that nobody signed.
THEOREM IdentityTypes == Spec => []TypeOK
<1>1. TypeInv => TypeOK
    <2>. SUFFICES ASSUME TypeInv PROVE TypeOK
        OBVIOUS
    <2>1. DOMAIN directory = {"number", "atproto", "rotation", "aka", "here"}
        BY DEF TypeInv, EntryOK
    <2>. QED BY <2>1 DEF TypeInv, EntryOK, AccountOK, CallOK, TypeOK
<1>. QED BY <1>1, TypeAlways, PTL

-----------------------------------------------------------------------------
(* Which calls were open together.                                         *)

\* A call that takes a step begins or is open.  Who begins is beside all who are open.
LEMMA OpenTogether ==
    ASSUME TypeInv, NEW c \in Calls, CallNext(c)
    PROVE  /\ pc[c] = "idle" \/ Open(c)
           /\ \A d \in Calls : d # c \/ pc[c] # "idle" => beside[d] \subseteq beside'[d]
           /\ pc[c] = "idle" =>
                 /\ BeginStep(c)
                 /\ \A d \in Calls \ {c} : Open(d) => c \in beside'[d] /\ d \in beside'[c]
<1>1. CASE BeginStep(c)
    <2>1. PICK in, next : Begin(c, in, next)
        BY <1>1, Beginning
    <2>. DEFINE others == {d \in Calls : Open(d)}
    <2>2. /\ beside' = [d \in Calls |-> IF d = c THEN others ELSE IF d \in others THEN beside[d] \cup {c}
                                        ELSE beside[d]]
          /\ pc[c] = "idle"
        BY <2>1 DEF Begin
    <2>3. \A d \in Calls : Open(d) => d \in others
        OBVIOUS
    <2>. HIDE DEF others
    <2>4. /\ \A d \in Calls \ {c} : beside[d] \subseteq beside'[d]
          /\ \A d \in Calls \ {c} : Open(d) => c \in beside'[d] /\ d \in beside'[c]
        BY <2>2, <2>3
    <2>. QED BY <1>1, <2>2, <2>4
<1>2. CASE ~BeginStep(c)
    <2>1. Open(c)
        BY <1>2 DEF CallNext, BeginStep, ReadLog, CheckSubmit, Sign, NoSignature, Send, Bust,
                    StoreKey, StoreHandle, ClearCode, Fails, Open
    <2>2. pc[c] # "idle"
        BY <2>1 DEF Open
    <2>. QED BY <2>1, <2>2, OthersAlone
<1>. QED BY <1>1, <1>2

-----------------------------------------------------------------------------
(* A mailed code.                                                          *)

\* A code that signed is not in the row any more, so whoever brings it again began
\* while the first was open.
CodeInv ==
    /\ row.code \in 1..codes \cup {None}
    /\ \A c \in Calls : arg[c].kind = "sign" =>
          /\ arg[c].code \in 1..codes
          /\ pc[c] = "ok" => row.code # arg[c].code
    /\ \A c, d \in Calls :
          /\ c # d /\ pc[c] # "failed" /\ pc[d] # "failed"
          /\ arg[c].kind = "sign" /\ arg[d].kind = "sign" /\ arg[c].code = arg[d].code
          => d \in beside[c]

\* A call brings the code of the row, and clears it when it has signed.
LEMMA CodeCall ==
    ASSUME TypeInv, CodeInv, NEW c \in Calls, CallNext(c)
    PROVE  CodeInv'
<1>. USE KeysAssumption
<1>1. /\ \A d \in Calls \ {c} : arg'[d] = arg[d] /\ pc'[d] = pc[d]
      /\ codes' = codes /\ arg'[c].kind \in Kinds
      /\ pc[c] = "idle" \/ Open(c)
      /\ \A d \in Calls : d # c \/ pc[c] # "idle" => beside[d] \subseteq beside'[d]
      /\ pc[c] # "idle" => arg'[c].kind = arg[c].kind /\ arg'[c].code = arg[c].code
      /\ pc[c] = "idle" =>
            /\ BeginStep(c) /\ pc'[c] \in {"read", "failed"}
            /\ \A d \in Calls \ {c} : Open(d) => c \in beside'[d] /\ d \in beside'[c]
    BY OthersAlone, OpenTogether
<1>2. row'.code \in {row.code, None} /\ (arg[c].kind = "sign" /\ pc[c] # "idle" /\ pc'[c] = "ok" => row'.code = None)
    <2>2. CASE BeginStep(c)
        <3>1. PICK in, next : Brought(in, next) /\ Begin(c, in, next)
            BY <2>2, Beginning
        <3>. QED BY <3>1 DEF Begin, account
    <2>3. CASE ReadLog(c) \/ Sign(c) \/ Send(c)
        BY <2>3 DEF ReadLog, Sign, Send, Goto, account, TypeInv, AccountOK
    <2>4. CASE CheckSubmit(c) \/ NoSignature(c) \/ Fails(c)
        BY <2>4 DEF CheckSubmit, NoSignature, Fails, Goto, Answer, account, TypeInv, AccountOK
    <2>5. CASE Bust(c)
        BY <2>5 DEF Bust, account, TypeInv, CallOK
    <2>6. CASE StoreKey(c) \/ StoreHandle(c)
        BY <2>6 DEF StoreKey, StoreHandle, TypeInv, AccountOK
    <2>7. CASE ClearCode(c)
        BY <2>7 DEF ClearCode, Cleared, TypeInv, AccountOK
    <2>. QED BY <2>2, <2>3, <2>4, <2>5, <2>6, <2>7 DEF CallNext, BeginStep
<1>3. pc[c] = "idle" /\ arg'[c].kind = "sign" => arg'[c].code = row.code /\ arg'[c].code \in Nat
    <2>. SUFFICES ASSUME pc[c] = "idle", arg'[c].kind = "sign"
                  PROVE  arg'[c].code = row.code /\ arg'[c].code \in Nat
        OBVIOUS
    <2>1. PICK in, next : Brought(in, next) /\ Begin(c, in, next)
        BY <1>1, Beginning
    <2>2. arg'[c] = in
        BY <2>1 DEF Begin, TypeInv, AccountOK
    <2>. QED BY <2>1, <2>2 DEF Brought
<1>4. codes \in Nat /\ None \notin Nat
    BY DEF TypeInv, AccountOK
<1>5. row'.code \in 1..codes' \cup {None}
    BY <1>1, <1>2 DEF CodeInv
<1>6. ASSUME NEW d \in Calls, arg'[d].kind = "sign"
      PROVE  arg'[d].code \in 1..codes' /\ (pc'[d] = "ok" => row'.code # arg'[d].code)
    <2>1. CASE d # c
        BY <1>1, <1>2, <1>4, <1>6, <2>1 DEF CodeInv
    <2>2. CASE d = c /\ pc[c] = "idle"
        BY <1>1, <1>3, <1>4, <1>6, <2>2 DEF CodeInv
    <2>3. CASE d = c /\ pc[c] # "idle"
        BY <1>1, <1>2, <1>4, <1>6, <2>3 DEF CodeInv
    <2>. QED BY <2>1, <2>2, <2>3
<1>7. ASSUME NEW d \in Calls, NEW e \in Calls, d # e, pc'[d] # "failed", pc'[e] # "failed",
             arg'[d].kind = "sign", arg'[e].kind = "sign", arg'[d].code = arg'[e].code
      PROVE  e \in beside'[d]
    <2>1. CASE pc[c] # "idle"
        <3>1. pc[d] # "failed" /\ pc[e] # "failed" /\ arg[d].kind = "sign" /\ arg[e].kind = "sign"
              /\ arg[d].code = arg[e].code
            BY <1>1, <1>7, <2>1 DEF Open
        <3>. QED BY <1>1, <1>7, <2>1, <3>1 DEF CodeInv
    <2>2. CASE pc[c] = "idle" /\ c \notin {d, e}
        BY <1>1, <1>7, <2>2 DEF CodeInv
    <2>3. ASSUME pc[c] = "idle", NEW x \in Calls \ {c}, x \in {d, e}, c \in {d, e}
          PROVE  Open(x)
        <3>1. arg[x].kind = "sign" /\ arg[x].code = row.code /\ pc[x] # "failed"
            BY <1>1, <1>3, <1>7, <2>3
        <3>2. pc[x] # "ok"
            BY <3>1 DEF CodeInv
        <3>3. pc[x] # "idle"
            BY <3>1, KindsAssumption DEF TypeInv, CallOK, Kinds
        <3>. QED BY <3>1, <3>2, <3>3 DEF Open, TypeInv, AccountOK, Places
    <2>. QED BY <1>1, <1>7, <2>1, <2>2, <2>3
<1>. QED BY <1>5, <1>6, <1>7 DEF CodeInv

\* A code is a new number, and each step keeps what is known of those before.
LEMMA CodeStep == TypeInv /\ CodeInv /\ [Next]_vars => CodeInv'
<1>. SUFFICES ASSUME TypeInv, CodeInv, [Next]_vars PROVE CodeInv'
    OBVIOUS
<1>. USE KeysAssumption DEF TypeInv, AccountOK, CodeInv
<1>1. CASE RequestCode
    BY <1>1 DEF RequestCode, calls
<1>2. CASE CodeExpires
    BY <1>2 DEF CodeExpires, calls
<1>3. CASE UNCHANGED <<row, codes, calls>>
    BY <1>3 DEF calls
<1>4. CASE SignerConnects \/ (PassportNext /\ UNCHANGED <<directory, account, calls>>)
          \/ UNCHANGED vars
    BY <1>3, <1>4 DEF SignerConnects, account, vars
<1>. QED BY <1>1, <1>2, <1>4, CodeCall DEF Next

\* A mailed code gets one operation signed, unless two calls with it were open together:
\* signPlcOperation compares it at its start and clears it at its end.
THEOREM CodesSignOnce == Spec => []CodeSignsOnce
<1>1. Init => CodeInv
    <2>. SUFFICES ASSUME Init PROVE CodeInv
        OBVIOUS
    <2>1. row.code = None /\ \A c \in Calls : arg[c].kind = None
        BY DEF Init, NoArg
    <2>. QED BY <2>1, KindsAssumption DEF CodeInv, Kinds
<1>2. CodeInv => CodeSignsOnce
    BY DEF CodeInv, CodeSignsOnce
<1>. QED BY <1>1, <1>2, CodeStep, TypeAlways, PTL DEF Spec

-----------------------------------------------------------------------------
(* The cached document.                                                    *)

\* A change of the directory is known that no bust has followed yet, or none will.
Dirty == \E c \in Calls : \/ pc[c] = "bust" \/ c \in slipped
                          \/ pc[c] = "store" /\ arg[c].kind = "register"
Explained(number, late) == number < directory.number => late \/ Dirty

\* Not only the cache: the answer of an open request and the document that a fetch
\* is about to put may be as old.
CacheInv ==
    /\ cache # None => Explained(cache.number, cache.late)
    /\ flight # None /\ flight.answer # None => Explained(flight.answer, flight.late)
    /\ \A f \in Fetches : fetch[f].pc = "put" => Explained(fetch[f].number, fetch[f].late)

\* Only a bust makes the directory clean, and what changes the directory makes it dirty.
LEMMA StaysDirty ==
    ASSUME TypeInv, NEW c \in Calls, CallNext(c), ~Bust(c)
    PROVE  /\ UNCHANGED passport
           /\ Dirty => Dirty'
           /\ directory' # directory => Dirty'
<1>1. /\ \A d \in Calls \ {c} : arg'[d] = arg[d] /\ pc'[d] = pc[d]
      /\ slipped \subseteq slipped' /\ c \in Calls
    BY OthersAlone
<1>2. ASSUME pc[c] \notin {"bust", "store"}, directory' = directory
      PROVE  (Dirty => Dirty') /\ (directory' # directory => Dirty')
    BY <1>1, <1>2 DEF Dirty
<1>3. CASE BeginStep(c)
    <2>1. PICK in, next : Begin(c, in, next)
        BY <1>3, Beginning
    <2>2. pc[c] = "idle" /\ UNCHANGED <<directory, passport>>
        BY <2>1 DEF Begin
    <2>. QED BY <1>2, <2>2
<1>4. CASE ReadLog(c) \/ CheckSubmit(c) \/ Sign(c) \/ NoSignature(c)
    BY <1>2, <1>4 DEF ReadLog, CheckSubmit, Sign, NoSignature
<1>5. CASE Send(c)
    <2>1. pc'[c] \in {"store", "bust"} /\ (pc'[c] = "store" => arg'[c].kind = "register")
        BY <1>5 DEF Send, Goto, TypeInv, AccountOK
    <2>2. Dirty'
        BY <2>1 DEF Dirty
    <2>. QED BY <1>5, <2>2 DEF Send
<1>6. CASE StoreKey(c)
    <2>1. pc'[c] = "bust"
        BY <1>6 DEF StoreKey, Goto, TypeInv, AccountOK
    <2>2. Dirty'
        BY <2>1 DEF Dirty
    <2>. QED BY <1>6, <2>2 DEF StoreKey
<1>7. ASSUME pc[c] = "store", arg[c].kind # "register" \/ c \in slipped', directory' = directory
      PROVE  (Dirty => Dirty') /\ (directory' # directory => Dirty')
    BY <1>1, <1>7 DEF Dirty
<1>8. CASE StoreHandle(c) \/ ClearCode(c)
    BY <1>7, <1>8 DEF StoreHandle, ClearCode
<1>9. CASE Fails(c)
    <2>1. UNCHANGED passport /\ pc[c] \in {"send", "store"}
        BY <1>9 DEF Fails
    <2>2. CASE c \in slipped'
        BY <2>1, <2>2 DEF Dirty
    <2>3. CASE c \notin slipped'
        <3>1. directory' = directory
            BY <1>9, <2>3 DEF Fails
        <3>2. pc[c] = "store" => arg[c].kind # "register"
            BY <1>9, <2>3 DEF Fails
        <3>. QED BY <1>2, <1>7, <2>1, <3>1, <3>2
    <2>. QED BY <2>2, <2>3
<1>. QED BY <1>3, <1>4, <1>5, <1>6, <1>8, <1>9 DEF CallNext, BeginStep

\* Every step keeps it: what is not late was read after the last bust.
LEMMA CacheStep == TypeInv /\ CacheInv /\ [Next]_vars => CacheInv'
<1>. SUFFICES ASSUME TypeInv, CacheInv, [Next]_vars PROVE CacheInv'
    OBVIOUS
<1>. USE KeysAssumption
<1>1. ASSUME UNCHANGED passport, Dirty => Dirty', directory' # directory => Dirty'
      PROVE  CacheInv'
    <2>1. \A n, l : Explained(n, l) => Explained(n, l)'
        BY <1>1 DEF Explained
    <2>. QED BY <1>1, <2>1 DEF CacheInv, passport
<1>2. ASSUME NEW c \in Calls, CallNext(c) PROVE CacheInv'
    <2>1. CASE Bust(c)
        <3>1. \A n : Explained(n, TRUE)'
            BY DEF Explained
        <3>2. /\ cache' = None /\ (flight' # None => flight'.late = TRUE)
              /\ \A f \in Fetches : fetch'[f].pc = "put" => fetch'[f].late = TRUE
            BY <2>1 DEF Bust, BustDoc, Late, TypeInv, PassportOK
        <3>. QED BY <3>1, <3>2 DEF CacheInv
    <2>. QED BY <1>1, <1>2, <2>1, StaysDirty
<1>3. CASE PassportNext /\ UNCHANGED <<directory, account, calls>>
    <2>1. \A n, l : Explained(n, l) => Explained(n, l)'
        BY <1>3 DEF Explained, Dirty, calls
    <2>2. \A n, l : n = directory.number => Explained(n, l)'
        BY <1>3 DEF Explained, TypeInv, EntryOK
    <2>. USE DEF CacheInv, TypeInv, PassportOK
    <2>3. ASSUME NEW f \in Fetches, AskDirectory(f) PROVE CacheInv'
        BY <2>1, <2>3 DEF AskDirectory
    <2>4. ASSUME NEW f \in Fetches, PutDoc(f) PROVE CacheInv'
        BY <2>1, <2>4 DEF PutDoc, Fetch
    <2>5. CASE DirectoryReads
        <3>1. /\ flight' = [answer |-> directory.number, late |-> flight.late]
              /\ UNCHANGED <<cache, fetch>>
            BY <2>5 DEF DirectoryReads
        <3>2. flight'.answer = directory.number
            BY <3>1
        <3>. QED BY <2>1, <2>2, <3>1, <3>2
    <2>6. CASE FlightEnds
        <3>1. ASSUME NEW f \in Fetches, fetch'[f].pc = "put"
              PROVE  Explained(fetch[f].number, fetch[f].late)'
            <4>1. CASE fetch[f].pc # "waiting"
                BY <2>1, <2>6, <3>1, <4>1 DEF FlightEnds
            <4>2. CASE fetch[f].pc = "waiting"
                BY <2>1, <2>6, <3>1, <4>2 DEF FlightEnds, Fetch
            <4>. QED BY <4>1, <4>2
        <3>. QED BY <2>1, <2>6, <3>1 DEF FlightEnds
    <2>7. CASE Expires
        BY <2>1, <2>7 DEF Expires
    <2>. QED BY <1>3, <2>3, <2>4, <2>5, <2>6, <2>7 DEF PassportNext
<1>4. CASE RequestCode \/ CodeExpires \/ SignerConnects \/ UNCHANGED vars
    <2>1. UNCHANGED <<directory, passport, calls>>
        BY <1>4 DEF RequestCode, CodeExpires, SignerConnects, vars
    <2>. QED BY <1>1, <2>1 DEF Dirty, calls
<1>. QED BY <1>2, <1>3, <1>4 DEF Next

\* A cached document older than the directory's last operation was fetched across a
\* bust, or a change still has its bust before it, failed half-way or was refused.
THEOREM CachedDocsAreNew == Spec => []CachedDocIsNew
<1>1. Init => CacheInv
    BY DEF Init, PassportInit, Fetch, CacheInv
<1>2. CacheInv => CachedDocIsNew
    BY DEF CacheInv, CachedDocIsNew, Explained, Dirty
<1>. QED BY <1>1, <1>2, CacheStep, TypeAlways, PTL DEF Spec

-----------------------------------------------------------------------------
(* What is built on the directory's latest entry.                          *)

\* The keys that the row has had, and the server's.
InRow(k) ==
    \/ k \in {FirstKey, Pds}
    \/ \E c \in Calls : arg[c].kind = "register" /\ arg[c].key = k /\ pc[c] \in {"bust", "ok"}

\* Every signature is by one of them, and every registration brings a new one.
KnownInv ==
    /\ row.key = None \/ InRow(row.key)
    /\ signer = None \/ InRow(signer)
    /\ \A o \in signed : InRow(o.by)
    /\ \A c \in Calls : pc[c] \in {"send", "bust", "store"} => InRow(op[c].by)
    /\ \A c, d \in Calls :
          c # d /\ arg[c].kind = "register" /\ arg[d].kind = "register" => arg[c].key # arg[d].key

\* An operation follows an entry that was there; while that one is the latest, it
\* changes what its call is about and nothing else.
OpBuilt(c) ==
    /\ pc[c] \in {"sign", "send", "bust", "store"} => op[c].prev <= directory.number
    /\ pc[c] \in {"sign", "send"} /\ arg[c].kind = "register" =>
          /\ op[c].atproto = arg[c].key /\ op[c].rotation = {arg[c].key}
          /\ op[c].prev = directory.number => op[c].aka = directory.aka
    /\ pc[c] \in {"sign", "send"} /\ arg[c].kind = "handle" /\ op[c].prev = directory.number =>
          op[c].atproto = directory.atproto /\ op[c].rotation = directory.rotation
    /\ pc[c] = "send" /\ arg[c].kind = "submit" =>
          op[c] = arg[c].op /\ op[c].atproto = view[c].key
BuiltInv ==
    /\ \A o \in signed : o.prev <= directory.number
    /\ \A c \in Calls : OpBuilt(c)

\* A key that the directory took and the row has not yet is one that nobody signs
\* with, and it alone rotates.
FrozenInv ==
    \A c \in Calls : pc[c] = "store" /\ arg[c].kind = "register" /\ c \notin slipped =>
        directory.atproto = arg[c].key /\ directory.rotation = {arg[c].key}

\* No registration is, or was left, between the two stores.
Quiet == \A c \in Calls : arg[c].kind = "register" => c \notin slipped /\ pc[c] # "store"
\* A submission that the directory would still take was checked by the row's key.
KeysInv ==
    Quiet =>
        /\ IF row.key = None
           THEN directory.atproto = Pds /\ Pds \in directory.rotation
           ELSE directory.atproto = row.key
        /\ \A c \in Calls :
              /\ pc[c] \in {"read", "send"} /\ arg[c].kind = "submit"
              /\ arg[c].op.prev = directory.number /\ arg[c].op.by \in directory.rotation
              => view[c].key = row.key

\* Calls that are open together know of it.
BesideInv == \A c, d \in Calls : c # d /\ Open(c) /\ Open(d) => d \in beside[c]

\* No change of the handle met another, was refused or failed half-way, and nothing
\* was submitted.
Calm == \A c \in Calls :
    /\ arg[c].kind = "handle" =>
          c \notin slipped /\ \A d \in beside[c] : arg[d].kind # "handle"
    /\ arg[c].kind # "submit"
\* The names are the row's handle alone, and after the directory took a new one, that one.
HandlesInv ==
    Calm =>
        /\ \A c \in Calls : arg[c].kind = "handle" =>
              /\ pc[c] \in {"read", "sign", "send"} =>
                    view[c].handle = row.handle /\ directory.aka = <<row.handle>>
              /\ pc[c] \in {"sign", "send"} /\ op[c].prev = directory.number =>
                    op[c].aka = <<arg[c].handle>>
              /\ pc[c] \in {"bust", "store"} => directory.aka = <<arg[c].handle>>
        /\ (\A c \in Calls : arg[c].kind = "handle" => ~Open(c)) =>
              directory.aka = <<row.handle>>

\* What a call does to the directory: nothing, or the operation that it sends is taken.
LEMMA DirectoryMoves ==
    ASSUME TypeInv, NEW c \in Calls, CallNext(c)
    PROVE  \/ directory' = directory
           \/ /\ pc[c] = "send" /\ op[c].prev = directory.number
              /\ op[c].by \in directory.rotation
              /\ directory'.number = directory.number + 1 /\ directory'.atproto = op[c].atproto
              /\ directory'.rotation = op[c].rotation /\ directory'.aka = op[c].aka
              /\ UNCHANGED <<row, signer, signed>>
              /\ \/ Send(c) /\ op'[c] = op[c] /\ view'[c] = view[c] /\ arg'[c] = arg[c]
                    /\ pc'[c] = IF arg[c].kind = "register" THEN "store" ELSE "bust"
                 \/ c \in slipped' /\ pc'[c] = "failed"
<1>1. CASE BeginStep(c)
    <2>1. PICK in, next : Begin(c, in, next)
        BY <1>1, Beginning
    <2>. QED BY <2>1 DEF Begin
<1>2. ASSUME pc[c] = "send", Accepted(op[c])
      PROVE  /\ Applied(op[c]).number = directory.number + 1
             /\ Applied(op[c]).atproto = op[c].atproto /\ Applied(op[c]).rotation = op[c].rotation
             /\ Applied(op[c]).aka = op[c].aka
             /\ op[c].prev = directory.number /\ op[c].by \in directory.rotation
    <2>1. OperationOK(op[c])
        BY <1>2 DEF TypeInv, CallOK
    <2>. QED BY <1>2, <2>1, SignsOperation DEF Accepted
<1>3. CASE Send(c)
    <2>1. CASE Accepted(op[c])
        <3>1. /\ pc[c] = "send" /\ directory' = Applied(op[c]) /\ UNCHANGED <<row, signer, signed, op>>
              /\ Goto(c, IF arg[c].kind = "register" THEN "store" ELSE "bust")
            BY <1>3, <2>1 DEF Send, account
        <3>2. /\ pc'[c] = IF arg[c].kind = "register" THEN "store" ELSE "bust"
              /\ view'[c] = view[c] /\ arg'[c] = arg[c]
            BY <3>1 DEF Goto, TypeInv, AccountOK
        <3>. QED BY <1>2, <1>3, <2>1, <3>1, <3>2
    <2>. QED BY <1>3, <2>1 DEF Send
<1>4. CASE Fails(c)
    <2>1. CASE directory' # directory
        <3>1. /\ pc[c] = "send" /\ Accepted(op[c]) /\ directory' = Applied(op[c])
              /\ c \in slipped' /\ Answer(c, "failed") /\ UNCHANGED <<row, signer, signed>>
            BY <1>4, <2>1 DEF Fails, account
        <3>2. pc'[c] = "failed"
            BY <3>1 DEF Answer, TypeInv, AccountOK
        <3>. QED BY <1>2, <3>1, <3>2
    <2>. QED BY <2>1
<1>5. CASE ReadLog(c) \/ CheckSubmit(c) \/ Sign(c) \/ NoSignature(c) \/ Bust(c) \/ StoreKey(c)
           \/ StoreHandle(c) \/ ClearCode(c)
    BY <1>5 DEF ReadLog, CheckSubmit, Sign, NoSignature, Bust, StoreKey, StoreHandle, ClearCode
<1>. QED BY <1>1, <1>3, <1>4, <1>5 DEF CallNext, BeginStep

\* What a call does to the row, the connection and the signed operations.
LEMMA AccountMoves ==
    ASSUME TypeInv, NEW c \in Calls, CallNext(c)
    PROVE  /\ signer' = signer
           /\ \/ row'.key = row.key
              \/ /\ StoreKey(c) /\ pc[c] = "store" /\ arg[c].kind = "register"
                 /\ row'.key = arg[c].key /\ pc'[c] = "bust" /\ directory' = directory
           /\ \/ row'.handle = row.handle
              \/ /\ StoreHandle(c) /\ pc[c] = "store" /\ arg[c].kind = "handle"
                 /\ row'.handle = arg[c].handle /\ pc'[c] = "ok" /\ directory' = directory
           /\ signed' = signed \/ (pc[c] = "store" /\ signed' = signed \cup {op[c]})
           /\ pc[c] = "store" /\ arg[c].kind = "register" => StoreKey(c) \/ c \in slipped'
<1>1. CASE BeginStep(c)
    <2>1. PICK in, next : Begin(c, in, next)
        BY <1>1, Beginning
    <2>. QED BY <2>1 DEF Begin, account
<1>2. CASE ReadLog(c) \/ CheckSubmit(c) \/ Sign(c) \/ NoSignature(c) \/ Send(c) \/ Bust(c)
    BY <1>2 DEF ReadLog, CheckSubmit, Sign, NoSignature, Send, Bust, account
<1>3. CASE StoreKey(c)
    BY <1>3 DEF StoreKey, Goto, TypeInv, AccountOK
<1>4. CASE StoreHandle(c)
    BY <1>4 DEF StoreHandle, Answer, TypeInv, AccountOK
<1>5. CASE ClearCode(c)
    BY <1>5 DEF ClearCode, Cleared, TypeInv, AccountOK
<1>6. CASE Fails(c)
    BY <1>6 DEF Fails, account
<1>. QED BY <1>1, <1>2, <1>3, <1>4, <1>5, <1>6 DEF CallNext, BeginStep

\* The operation of a call: built on the latest entry, brought by the user, signed, or
\* carried along.
Builds(c) ==
    /\ pc[c] = "read" /\ arg[c].kind \in {"register", "handle", "sign"}
    /\ directory' = directory
    /\ pc'[c] \in {"sign", "send"} /\ (pc'[c] = "send" => op'[c].by = Pds)
    /\ op'[c].prev = directory.number
    /\ arg[c].kind = "register" =>
          op'[c].atproto = arg[c].key /\ op'[c].rotation = {arg[c].key} /\ op'[c].aka = directory.aka
    /\ arg[c].kind = "handle" =>
          /\ op'[c].atproto = directory.atproto /\ op'[c].rotation = directory.rotation
          /\ op'[c].aka = Append(Without(directory.aka, view[c].handle), arg[c].handle)
Brings(c) ==
    /\ pc[c] = "read" /\ arg[c].kind = "submit" /\ pc'[c] = "send" /\ directory' = directory
    /\ arg[c].op \in signed /\ op'[c] = arg[c].op /\ op'[c].atproto = view[c].key
Signs(c) ==
    /\ pc[c] = "sign" /\ directory' = directory
    /\ pc'[c] \in {"send", "store"} /\ (pc'[c] = "store" => arg[c].kind = "sign")
    /\ signer # None /\ op'[c].by = signer
    /\ op'[c].prev = op[c].prev /\ op'[c].aka = op[c].aka
    /\ op'[c].atproto = op[c].atproto /\ op'[c].rotation = op[c].rotation
Carries(c) ==
    /\ op'[c] = op[c]
    /\ \/ Send(c) /\ pc[c] = "send" /\ pc'[c] = IF arg[c].kind = "register" THEN "store" ELSE "bust"
       \/ pc[c] = "bust" /\ pc'[c] = "store" /\ arg[c].kind = "handle" /\ directory' = directory
       \/ pc[c] = "store" /\ pc'[c] = "bust" /\ arg[c].kind = "register" /\ directory' = directory
\* There is no other way to an operation.
LEMMA OperationMoves ==
    ASSUME TypeInv, NEW c \in Calls, CallNext(c), pc'[c] \in {"sign", "send", "bust", "store"}
    PROVE  /\ arg'[c] = arg[c] /\ view'[c] = view[c]
           /\ Builds(c) \/ Brings(c) \/ Signs(c) \/ Carries(c)
<1>1. ASSUME NEW next, Answer(c, next), next \in {"ok", "failed"} PROVE FALSE
    <2>1. pc'[c] = next
        BY <1>1 DEF Answer, TypeInv, AccountOK
    <2>. QED BY <1>1, <2>1
<1>2. CASE BeginStep(c)
    <2>1. PICK in, next : Brought(in, next) /\ Begin(c, in, next)
        BY <1>2, Beginning
    <2>2. pc'[c] = next
        BY <2>1 DEF Begin, TypeInv, AccountOK
    <2>. QED BY <2>1, <2>2 DEF Brought
<1>3. ASSUME NEW next, Goto(c, next)
      PROVE  arg'[c] = arg[c] /\ view'[c] = view[c] /\ pc'[c] = next
    BY <1>3 DEF Goto, TypeInv, AccountOK
<1>4. CASE ReadLog(c)
    <2>. DEFINE o == IF ByPds(c) THEN [Built(c, directory) EXCEPT !.by = Pds] ELSE Built(c, directory)
                next == IF ByPds(c) THEN "send" ELSE "sign"
    <2>1. /\ pc[c] = "read" /\ arg[c].kind # "submit" /\ op'[c] = o /\ directory' = directory
          /\ Goto(c, next)
        BY <1>4 DEF ReadLog, TypeInv, AccountOK
    <2>2. arg[c].kind \in {"register", "handle", "sign"} /\ EntryOK(directory)
        BY <2>1, KindsAssumption DEF TypeInv, CallOK, ArgType, Kinds
    <2>3. /\ OperationOK(Built(c, directory)) /\ Built(c, directory).prev = directory.number
          /\ arg[c].kind = "register" =>
                /\ Built(c, directory).atproto = arg[c].key
                /\ Built(c, directory).rotation = {arg[c].key}
                /\ Built(c, directory).aka = directory.aka
          /\ arg[c].kind = "handle" =>
                /\ Built(c, directory).atproto = directory.atproto
                /\ Built(c, directory).rotation = directory.rotation
                /\ Built(c, directory).aka = Append(Without(directory.aka, view[c].handle), arg[c].handle)
        <3>1. CASE arg[c].kind = "register"
            BY <2>2, <3>1, BuildsOperation DEF Built, TypeInv, CallOK
        <3>2. CASE arg[c].kind = "handle"
            BY <2>2, <3>2, BuildsOperation DEF Built
        <3>3. CASE arg[c].kind = "sign"
            <4>1. arg[c].wish \in Wishes
                BY <2>1, <3>3 DEF TypeInv, CallOK, Open
            <4>. QED BY <2>2, <3>3, <4>1, BuildsOperation DEF Built
        <3>. QED BY <2>2, <3>1, <3>2, <3>3
    <2>4. /\ ByPds(c) => o.by = Pds
          /\ o.prev = Built(c, directory).prev /\ o.aka = Built(c, directory).aka
          /\ o.atproto = Built(c, directory).atproto /\ o.rotation = Built(c, directory).rotation
        <3>1. Pds \in Signers
            BY DEF Signers
        <3>. QED BY <2>3, <3>1, SignsOperation
    <2>. HIDE DEF o
    <2>5. pc'[c] = next /\ next \in {"send", "sign"} /\ (next = "send" => o.by = Pds)
        BY <1>3, <2>1, <2>4
    <2>6. Builds(c)
        BY <2>1, <2>2, <2>3, <2>4, <2>5 DEF Builds
    <2>. QED BY <1>3, <2>1, <2>6
<1>5. CASE CheckSubmit(c)
    <2>1. Goto(c, "send") /\ op' = [op EXCEPT ![c] = arg[c].op] /\ MaySubmit(arg[c].op, view[c], directory)
        BY <1>1, <1>5 DEF CheckSubmit
    <2>2. pc[c] = "read" /\ arg[c].kind = "submit" /\ directory' = directory
        BY <1>5 DEF CheckSubmit
    <2>3. op'[c] = arg[c].op /\ arg[c].op \in signed /\ arg[c].op.atproto = view[c].key
        BY <2>1, <2>2 DEF MaySubmit, TypeInv, AccountOK, CallOK, Open
    <2>. QED BY <1>3, <2>1, <2>2, <2>3 DEF Brings
<1>6. CASE Sign(c)
    <2>1. /\ pc[c] = "sign" /\ signer # None /\ directory' = directory
          /\ op'[c] = [op[c] EXCEPT !.by = signer]
        BY <1>6 DEF Sign, TypeInv, AccountOK
    <2>2. OperationOK(op[c]) /\ signer \in Signers
        BY <2>1 DEF TypeInv, AccountOK, CallOK, Signers
    <2>3. PICK next \in {"store", "send"} : Goto(c, next) /\ (next = "store") = (arg[c].kind = "sign")
        BY <1>6 DEF Sign
    <2>4. /\ op'[c].by = signer /\ op'[c].prev = op[c].prev /\ op'[c].aka = op[c].aka
          /\ op'[c].atproto = op[c].atproto /\ op'[c].rotation = op[c].rotation
        BY <2>1, <2>2, SignsOperation
    <2>. QED BY <1>3, <2>1, <2>3, <2>4 DEF Signs
<1>7. CASE Send(c)
    BY <1>3, <1>7 DEF Send, Carries, TypeInv, AccountOK
<1>8. CASE Bust(c)
    BY <1>1, <1>3, <1>8 DEF Bust, Carries, TypeInv, AccountOK
<1>9. CASE StoreKey(c)
    BY <1>3, <1>9 DEF StoreKey, Carries, TypeInv, AccountOK
<1>10. CASE NoSignature(c) \/ StoreHandle(c) \/ ClearCode(c) \/ Fails(c)
    BY <1>1, <1>10 DEF NoSignature, StoreHandle, ClearCode, Fails
<1>. QED BY <1>2, <1>4, <1>5, <1>6, <1>7, <1>8, <1>9, <1>10 DEF CallNext, BeginStep

\* A key that was in the row has been there ever after; a stored one gets there.
LEMMA RowsRemember ==
    ASSUME TypeInv, NEW c \in Calls, CallNext(c)
    PROVE  /\ \A k : InRow(k) => InRow(k)'
           /\ row'.key = row.key \/ InRow(row.key)'
<1>1. /\ \A d \in Calls \ {c} : arg'[d] = arg[d] /\ pc'[d] = pc[d]
      /\ pc[c] # "idle" => arg'[c].kind = arg[c].kind /\ arg'[c].key = arg[c].key
    BY OthersAlone
<1>2. arg[c].kind = "register" /\ pc[c] \in {"bust", "ok"} => pc'[c] = "ok"
    <2>. SUFFICES ASSUME arg[c].kind = "register", pc[c] \in {"bust", "ok"} PROVE pc'[c] = "ok"
        OBVIOUS
    <2>1. pc[c] = "bust"
        BY OpenTogether DEF Open
    <2>2. ~BeginStep(c)
        BY <2>1, Beginning DEF Begin
    <2>3. Bust(c)
        BY <2>1, <2>2 DEF CallNext, BeginStep, ReadLog, CheckSubmit, Sign, NoSignature, Send,
                          StoreKey, StoreHandle, ClearCode, Fails
    <2>. QED BY <2>3 DEF Bust, Answer, TypeInv, AccountOK
<1>3. ASSUME NEW k, InRow(k) PROVE InRow(k)'
    <2>1. CASE k \in {FirstKey, Pds}
        BY <2>1 DEF InRow
    <2>2. ASSUME NEW d \in Calls, arg[d].kind = "register", arg[d].key = k, pc[d] \in {"bust", "ok"}
          PROVE  InRow(k)'
        <3>1. arg'[d].kind = "register" /\ arg'[d].key = k /\ pc'[d] \in {"bust", "ok"}
            BY <1>1, <1>2, <2>2
        <3>. QED BY <3>1 DEF InRow
    <2>. QED BY <1>3, <2>1, <2>2 DEF InRow
<1>4. CASE row'.key # row.key
    <2>1. /\ pc[c] = "store" /\ arg[c].kind = "register" /\ row'.key = arg[c].key /\ pc'[c] = "bust"
        BY <1>4, AccountMoves
    <2>2. arg'[c].kind = "register" /\ arg'[c].key = row'.key
        BY <1>1, <2>1
    <2>. QED BY <1>3, <2>1, <2>2 DEF InRow
<1>. QED BY <1>3, <1>4

\* Signatures are asked of who has signed before.
LEMMA KnownStep == TypeInv /\ KnownInv /\ [Next]_vars => KnownInv'
<1>. SUFFICES ASSUME TypeInv, KnownInv, [Next]_vars PROVE KnownInv'
    OBVIOUS
<1>1. ASSUME NEW c \in Calls, CallNext(c) PROVE KnownInv'
    <2>1. \A k : InRow(k) => InRow(k)'
        BY <1>1, RowsRemember
    <2>2. (row.key = None \/ InRow(row.key))'
        <3>1. CASE row'.key = row.key
            BY <2>1, <3>1 DEF KnownInv
        <3>. QED BY <1>1, <3>1, RowsRemember
    <2>3. (signer = None \/ InRow(signer))'
        BY <1>1, <2>1, AccountMoves DEF KnownInv
    <2>4. ASSUME NEW o \in signed' PROVE InRow(o.by)'
        BY <1>1, <2>1, <2>4, AccountMoves DEF KnownInv
    <2>5. ASSUME NEW d \in Calls, pc'[d] \in {"send", "bust", "store"} PROVE InRow(op[d].by)'
        <3>1. \E k : k = op'[d].by /\ InRow(k)
            <4>1. CASE d # c
                BY <1>1, <2>5, <4>1, OthersAlone DEF KnownInv
            <4>2. CASE d = c
                <5>1. Builds(c) \/ Brings(c) \/ Signs(c) \/ Carries(c)
                    BY <1>1, <2>5, <4>2, OperationMoves
                <5>2. CASE Builds(c)
                    BY <2>5, <4>2, <5>2 DEF Builds, InRow
                <5>3. CASE Brings(c)
                    BY <4>2, <5>3 DEF Brings, KnownInv
                <5>4. CASE Signs(c)
                    BY <4>2, <5>4 DEF Signs, KnownInv
                <5>5. CASE Carries(c)
                    BY <4>2, <5>5 DEF Carries, KnownInv
                <5>. QED BY <5>1, <5>2, <5>3, <5>4, <5>5
            <4>. QED BY <4>1, <4>2
        <3>. QED BY <2>1, <3>1
    <2>6. ASSUME NEW d \in Calls, NEW e \in Calls, d # e,
                 arg'[d].kind = "register", arg'[e].kind = "register"
          PROVE  arg'[d].key # arg'[e].key
        <3>1. CASE pc[c] # "idle"
            BY <1>1, <2>6, <3>1, OthersAlone DEF KnownInv
        <3>2. CASE pc[c] = "idle"
            <4>1. PICK in, next : Brought(in, next) /\ Begin(c, in, next)
                BY <1>1, <3>2, OpenTogether, Beginning
            <4>2. arg'[c] = in
                BY <4>1 DEF Begin, TypeInv, AccountOK
            <4>3. \A x \in Calls \ {c} : arg'[x] = arg[x]
                BY <1>1, OthersAlone
            <4>. QED BY <2>6, <4>1, <4>2, <4>3 DEF KnownInv, Brought
        <3>. QED BY <3>1, <3>2
    <2>. QED BY <2>2, <2>3, <2>4, <2>5, <2>6 DEF KnownInv
<1>2. CASE ~\E c \in Calls : CallNext(c)
    <2>1. UNCHANGED <<calls, signed>> /\ row'.key = row.key /\ signer' \in {signer, row.key}
        BY <1>2 DEF Next, RequestCode, CodeExpires, SignerConnects, vars, account,
                    TypeInv, AccountOK
    <2>2. \A k : InRow(k) => InRow(k)'
        BY <2>1 DEF InRow, calls
    <2>. QED BY <2>1, <2>2 DEF KnownInv, calls
<1>. QED BY <1>1, <1>2

\* The directory's numbers grow, and what is not the latest any more stays so.
LEMMA BuiltStep == TypeInv /\ BuiltInv /\ [Next]_vars => BuiltInv'
<1>. SUFFICES ASSUME TypeInv, BuiltInv, [Next]_vars PROVE BuiltInv'
    OBVIOUS
<1>0. directory.number \in Nat /\ \A c \in Calls : pc[c] \in {"sign", "send", "bust", "store"} => op[c].prev \in Nat
    BY DEF TypeInv, EntryOK, CallOK, OperationOK
<1>1. ASSUME NEW c \in Calls, CallNext(c) PROVE BuiltInv'
    <2>1. directory' = directory \/ directory'.number = directory.number + 1
        BY <1>1, DirectoryMoves
    <2>2. \A d \in Calls \ {c} : op'[d] = op[d] /\ pc'[d] = pc[d] /\ arg'[d] = arg[d] /\ view'[d] = view[d]
        BY <1>1, OthersAlone
    <2>3. ASSUME NEW o \in signed' PROVE o.prev <= directory'.number
        <3>1. o \in signed \/ (pc[c] = "store" /\ o = op[c])
            BY <1>1, <2>3, AccountMoves
        <3>2. o.prev <= directory.number /\ o.prev \in Nat
            BY <1>0, <3>1 DEF BuiltInv, OpBuilt, TypeInv, AccountOK, OperationOK
        <3>. QED BY <1>0, <2>1, <3>2
    <2>4. ASSUME NEW d \in Calls \ {c} PROVE OpBuilt(d)'
        <3>1. CASE directory' = directory
            BY <2>2, <2>4, <3>1 DEF BuiltInv, OpBuilt
        <3>2. CASE directory'.number = directory.number + 1
            <4>1. pc[d] \in {"sign", "send", "bust", "store"} =>
                      op[d].prev <= directory'.number /\ op[d].prev # directory'.number
                BY <1>0, <2>4, <3>2 DEF BuiltInv, OpBuilt
            <4>. QED BY <2>2, <2>4, <4>1 DEF BuiltInv, OpBuilt
        <3>. QED BY <2>1, <3>1, <3>2
    <2>5. OpBuilt(c)'
        <3>. SUFFICES ASSUME pc'[c] \in {"sign", "send", "bust", "store"} PROVE OpBuilt(c)'
            BY DEF OpBuilt
        <3>1. arg'[c] = arg[c] /\ view'[c] = view[c] /\ (Builds(c) \/ Brings(c) \/ Signs(c) \/ Carries(c))
            BY <1>1, OperationMoves
        <3>2. CASE Builds(c)
            BY <1>0, <3>1, <3>2 DEF Builds, OpBuilt
        <3>3. CASE Brings(c)
            <4>1. arg[c].op.prev <= directory.number
                BY <3>3 DEF Brings, BuiltInv
            <4>. QED BY <3>1, <3>3, <4>1 DEF Brings, OpBuilt
        <3>4. CASE Signs(c)
            <4>1. arg[c].kind # "submit" /\ OpBuilt(c)
                BY <3>4 DEF Signs, TypeInv, CallOK, BuiltInv
            <4>. QED BY <3>1, <3>4, <4>1 DEF Signs, OpBuilt
        <3>5. CASE Carries(c)
            <4>1. pc[c] \in {"send", "bust", "store"} /\ pc'[c] \in {"bust", "store"} /\ op'[c] = op[c]
                BY <3>5 DEF Carries
            <4>2. op[c].prev <= directory.number /\ op[c].prev \in Nat
                BY <1>0, <4>1 DEF BuiltInv, OpBuilt
            <4>3. op'[c].prev <= directory'.number
                BY <1>0, <2>1, <4>1, <4>2
            <4>. QED BY <4>1, <4>3 DEF OpBuilt
        <3>. QED BY <3>1, <3>2, <3>3, <3>4, <3>5
    <2>. QED BY <2>3, <2>4, <2>5 DEF BuiltInv
<1>2. CASE ~\E c \in Calls : CallNext(c)
    <2>1. UNCHANGED <<calls, signed, directory>>
        BY <1>2 DEF Next, RequestCode, CodeExpires, SignerConnects, vars, account
    <2>. QED BY <2>1 DEF BuiltInv, OpBuilt, calls
<1>. QED BY <1>1, <1>2

\* Nobody can sign yet with a key that is about to be stored.
LEMMA NotYetInRow ==
    ASSUME TypeInv, KnownInv, NEW c \in Calls, pc[c] = "store", arg[c].kind = "register"
    PROVE  ~InRow(arg[c].key)
<1>1. arg[c].key \notin {FirstKey, Pds}
    BY KeysAssumption DEF TypeInv, CallOK
<1>2. \A d \in Calls : arg[d].kind = "register" /\ pc[d] \in {"bust", "ok"} => arg[d].key # arg[c].key
    BY DEF KnownInv
<1>. QED BY <1>1, <1>2 DEF InRow

\* So the directory takes nothing until it is stored.
LEMMA FrozenStep == TypeInv /\ KnownInv /\ BuiltInv /\ FrozenInv /\ [Next]_vars => FrozenInv'
<1>. SUFFICES ASSUME TypeInv, KnownInv, BuiltInv, FrozenInv, [Next]_vars PROVE FrozenInv'
    OBVIOUS
<1>1. ASSUME NEW c \in Calls, CallNext(c), NEW d \in Calls,
             pc'[d] = "store", arg'[d].kind = "register", d \notin slipped'
      PROVE  (directory.atproto = arg[d].key /\ directory.rotation = {arg[d].key})'
    <2>1. CASE d # c
        <3>1. /\ pc[d] = "store" /\ arg[d].kind = "register" /\ d \notin slipped /\ arg'[d] = arg[d]
            BY <1>1, <2>1, OthersAlone
        <3>2. directory.atproto = arg[d].key /\ directory.rotation = {arg[d].key}
            BY <3>1 DEF FrozenInv
        <3>3. directory' = directory
            <4>. SUFFICES ASSUME directory' # directory PROVE FALSE
                OBVIOUS
            <4>1. pc[c] = "send" /\ op[c].by \in directory.rotation
                BY <1>1, DirectoryMoves
            <4>. QED BY <3>1, <3>2, <4>1, NotYetInRow DEF KnownInv
        <3>. QED BY <3>1, <3>2, <3>3
    <2>2. CASE d = c
        <3>1. arg'[c] = arg[c] /\ (Builds(c) \/ Brings(c) \/ Signs(c) \/ Carries(c))
            BY <1>1, <2>2, OperationMoves
        <3>2. Send(c) /\ pc[c] = "send"
            BY <1>1, <2>2, <3>1 DEF Builds, Brings, Signs, Carries
        <3>3. Accepted(op[c]) /\ directory' = Applied(op[c])
            BY <1>1, <2>2, <3>2 DEF Send
        <3>4. directory'.atproto = op[c].atproto /\ directory'.rotation = op[c].rotation
            BY <3>2, <3>3, SignsOperation DEF TypeInv, CallOK
        <3>. QED BY <1>1, <2>2, <3>1, <3>2, <3>4 DEF BuiltInv, OpBuilt
    <2>. QED BY <2>1, <2>2
<1>2. CASE ~\E c \in Calls : CallNext(c)
    <2>1. UNCHANGED <<calls, directory>>
        BY <1>2 DEF Next, RequestCode, CodeExpires, SignerConnects, vars
    <2>. QED BY <2>1 DEF FrozenInv, calls
<1>. QED BY <1>1, <1>2 DEF FrozenInv

\* Only who begins is before its read, with the key and the handle of the row.
LEMMA ReadsRow ==
    ASSUME TypeInv, NEW c \in Calls, CallNext(c), pc'[c] = "read"
    PROVE  /\ pc[c] = "idle" /\ directory' = directory /\ row' = row
           /\ view'[c].key = row.key /\ view'[c].handle = row.handle
<1>1. CASE BeginStep(c)
    <2>1. PICK in, next : Begin(c, in, next)
        BY <1>1, Beginning
    <2>. QED BY <2>1 DEF Begin, account, TypeInv, AccountOK
<1>2. CASE ~BeginStep(c)
    <2>1. ASSUME NEW next, Goto(c, next) \/ Answer(c, next), next # "read" PROVE FALSE
        BY <2>1 DEF Goto, Answer, TypeInv, AccountOK
    <2>. QED BY <1>2, <2>1 DEF CallNext, BeginStep, ReadLog, CheckSubmit, Sign, NoSignature, Send, Bust,
                    StoreKey, StoreHandle, ClearCode, Fails
<1>. QED BY <1>1, <1>2

\* No step makes the row and the directory disagree about the key.
LEMMA KeysStep ==
    TypeInv /\ KnownInv /\ BuiltInv /\ FrozenInv /\ KeysInv /\ [Next]_vars => KeysInv'
<1>. SUFFICES ASSUME TypeInv, KnownInv, BuiltInv, FrozenInv, KeysInv, [Next]_vars PROVE KeysInv'
    OBVIOUS
<1>1. ASSUME NEW c \in Calls, CallNext(c) PROVE KeysInv'
    <2>. SUFFICES ASSUME Quiet'
                  PROVE  /\ IF row'.key = None
                            THEN directory'.atproto = Pds /\ Pds \in directory'.rotation
                            ELSE directory'.atproto = row'.key
                         /\ \A d \in Calls :
                               /\ pc'[d] \in {"read", "send"} /\ arg'[d].kind = "submit"
                               /\ arg'[d].op.prev = directory'.number
                               /\ arg'[d].op.by \in directory'.rotation
                               => view'[d].key = row'.key
        BY DEF KeysInv
    <2>1. /\ \A d \in Calls \ {c} : op'[d] = op[d] /\ pc'[d] = pc[d] /\ arg'[d] = arg[d] /\ view'[d] = view[d]
          /\ slipped \subseteq slipped'
          /\ pc[c] # "idle" => arg'[c].kind = arg[c].kind
        BY <1>1, OthersAlone
    <2>2. \A d \in Calls : pc[d] = "idle" => arg[d].kind \notin {"register", "submit"}
        BY KindsAssumption DEF TypeInv, CallOK, Kinds
    <2>3. \A d \in Calls : /\ pc[d] \in {"read", "send"} /\ arg[d].kind = "submit"
                           => arg[d].op \in signed /\ view[d].key # None
        BY DEF TypeInv, CallOK, Open
    <2>4. CASE StoreKey(c)
        <3>1. /\ pc[c] = "store" /\ arg[c].kind = "register" /\ row'.key = arg[c].key
              /\ pc'[c] = "bust" /\ directory' = directory
            BY <2>4 DEF StoreKey, Goto, TypeInv, AccountOK
        <3>2. directory.atproto = arg[c].key /\ directory.rotation = {arg[c].key}
            BY <2>1, <3>1 DEF Quiet, FrozenInv
        <3>3. arg[c].key # None
            BY <3>1, KeysAssumption DEF TypeInv, CallOK
        <3>4. ASSUME NEW d \in Calls, pc'[d] \in {"read", "send"}, arg'[d].kind = "submit",
                     arg'[d].op.by \in directory'.rotation
              PROVE  FALSE
            <4>1. d # c
                BY <3>1, <3>4
            <4>2. arg[d].op \in signed /\ arg[d].op.by = arg[c].key
                BY <2>1, <2>3, <3>1, <3>2, <3>4, <4>1
            <4>. QED BY <3>1, <4>2, NotYetInRow DEF KnownInv
        <3>. QED BY <3>1, <3>2, <3>3, <3>4
    <2>5. CASE ~StoreKey(c)
        <3>1. row'.key = row.key
            BY <1>1, <2>5, AccountMoves
        <3>2. Quiet
            <4>1. pc[c] = "store" /\ arg[c].kind = "register" => c \in slipped'
                BY <1>1, <2>5, AccountMoves
            <4>. QED BY <2>1, <2>2, <4>1 DEF Quiet
        <3>3. CASE directory' = directory
            <4>1. ASSUME NEW d \in Calls, pc'[d] \in {"read", "send"}, arg'[d].kind = "submit",
                         arg'[d].op.prev = directory'.number, arg'[d].op.by \in directory'.rotation
                  PROVE  view'[d].key = row'.key
                <5>1. CASE d # c
                    BY <2>1, <3>1, <3>2, <3>3, <4>1, <5>1 DEF KeysInv
                <5>2. CASE d = c /\ pc'[c] = "read"
                    BY <1>1, <5>2, ReadsRow
                <5>3. CASE d = c /\ pc'[c] = "send"
                    <6>1. arg'[c] = arg[c] /\ view'[c] = view[c]
                          /\ (Builds(c) \/ Brings(c) \/ Signs(c) \/ Carries(c))
                        BY <1>1, <5>3, OperationMoves
                    <6>2. pc[c] = "sign" => arg[c].kind # "submit"
                        BY DEF TypeInv, CallOK
                    <6>3. pc[c] = "read"
                        BY <4>1, <5>3, <6>1, <6>2 DEF Builds, Brings, Signs, Carries
                    <6>. QED BY <3>1, <3>2, <3>3, <4>1, <5>3, <6>1, <6>3 DEF KeysInv
                <5>. QED BY <4>1, <5>1, <5>2, <5>3
            <4>. QED BY <3>1, <3>2, <3>3, <4>1 DEF KeysInv
        <3>4. CASE directory' # directory
            <4>1. /\ pc[c] = "send" /\ op[c].prev = directory.number
                  /\ op[c].by \in directory.rotation
                  /\ directory'.number = directory.number + 1 /\ directory'.atproto = op[c].atproto
                  /\ directory'.rotation = op[c].rotation
                  /\ pc'[c] \in {"store", "bust", "failed"}
                  /\ arg[c].kind = "register" => pc'[c] = "store" \/ c \in slipped'
                BY <1>1, <3>4, DirectoryMoves
            <4>2. arg[c].kind \in {"handle", "submit"}
                <5>1. arg[c].kind \in Kinds /\ arg[c].kind # "sign"
                    BY <4>1 DEF TypeInv, CallOK, ArgType
                <5>2. arg[c].kind # "register"
                    BY <2>1, <4>1 DEF Quiet
                <5>. QED BY <5>1, <5>2 DEF Kinds
            <4>3. IF row.key = None
                  THEN directory'.atproto = Pds /\ Pds \in directory'.rotation
                  ELSE directory'.atproto = row.key
                <5>1. OpBuilt(c)
                    BY DEF BuiltInv
                <5>2. CASE arg[c].kind = "handle"
                    BY <3>2, <4>1, <5>1, <5>2 DEF OpBuilt, KeysInv
                <5>3. CASE arg[c].kind = "submit"
                    <6>1. op[c] = arg[c].op /\ op[c].atproto = view[c].key
                        BY <4>1, <5>1, <5>3 DEF OpBuilt
                    <6>2. view[c].key = row.key
                        BY <3>2, <4>1, <5>3, <6>1 DEF KeysInv
                    <6>. QED BY <2>3, <4>1, <5>3, <6>1, <6>2
                <5>. QED BY <4>2, <5>2, <5>3
            <4>4. ASSUME NEW d \in Calls, pc'[d] \in {"read", "send"}, arg'[d].kind = "submit",
                         arg'[d].op.prev = directory'.number
                  PROVE  FALSE
                <5>1. d # c
                    BY <4>1, <4>4
                <5>2. arg[d].op \in signed /\ arg[d].op.prev = directory.number + 1
                    BY <2>1, <2>3, <4>1, <4>4, <5>1
                <5>3. arg[d].op.prev <= directory.number /\ directory.number \in Nat
                    BY <5>2 DEF BuiltInv, TypeInv, EntryOK
                <5>. QED BY <5>2, <5>3
            <4>. QED BY <3>1, <4>3, <4>4
        <3>. QED BY <3>3, <3>4
    <2>. QED BY <2>4, <2>5
<1>2. CASE ~\E c \in Calls : CallNext(c)
    <2>1. UNCHANGED <<calls, directory>> /\ row'.key = row.key
        BY <1>2 DEF Next, RequestCode, CodeExpires, SignerConnects, vars, account, TypeInv, AccountOK
    <2>. QED BY <2>1 DEF KeysInv, Quiet, calls
<1>. QED BY <1>1, <1>2

\* Nothing was called yet, and an operation that is signed is on the latest entry.
LEMMA IdentityInit == Init => KnownInv /\ BuiltInv /\ FrozenInv /\ KeysInv
<1>. SUFFICES ASSUME Init PROVE KnownInv /\ BuiltInv /\ FrozenInv /\ KeysInv
    OBVIOUS
<1>. USE KeysAssumption
<1>1. \A c \in Calls : pc[c] = "idle" /\ arg[c].kind = None
    BY DEF Init, NoArg
<1>2. None \notin {"register", "submit", "handle", "sign"} /\ TypeInv
    BY KindsAssumption, TypeInit DEF Kinds
<1>3. CASE directory = NewDid /\ signer = None /\ signed = {}
    <2>1. row.key = None /\ directory.atproto = Pds /\ Pds \in directory.rotation
        BY <1>3 DEF Init, NewDid
    <2>. QED BY <1>1, <1>2, <1>3, <2>1 DEF KnownInv, BuiltInv, OpBuilt, FrozenInv, KeysInv
<1>4. ASSUME directory = OwnedDid, signer = FirstKey, NEW wish \in Wishes,
             signed = {[Following(OwnedDid, Wished(OwnedDid, wish)) EXCEPT !.by = FirstKey]}
      PROVE  KnownInv /\ BuiltInv /\ FrozenInv /\ KeysInv
    <2>1. row.key = FirstKey /\ directory.atproto = FirstKey /\ EntryOK(OwnedDid)
        BY <1>2, <1>4 DEF Init, OwnedDid, TypeInv
    <2>2. \A o \in signed : o.prev = directory.number /\ o.by = FirstKey
        <3>. DEFINE o == Following(OwnedDid, Wished(OwnedDid, wish))
        <3>1. OperationOK(o) /\ o.prev = directory.number /\ signed = {[o EXCEPT !.by = FirstKey]}
            BY <1>4, <2>1, BuildsOperation
        <3>. HIDE DEF o
        <3>2. FirstKey \in Signers
            BY DEF Signers
        <3>3. [o EXCEPT !.by = FirstKey].by = FirstKey /\ [o EXCEPT !.by = FirstKey].prev = o.prev
            BY <3>1, <3>2, SignsOperation
        <3>. QED BY <3>1, <3>3
    <2>3. directory.number \in Nat
        BY <1>2 DEF TypeInv, EntryOK
    <2>. QED BY <1>1, <1>2, <1>4, <2>1, <2>2, <2>3
         DEF KnownInv, InRow, BuiltInv, OpBuilt, FrozenInv, KeysInv
<1>. QED BY <1>3, <1>4 DEF Init, NewOrOwned

\* What the row has had, what calls build and who signs it, together.
LEMMA IdentityAlways == Spec => [](TypeInv /\ KnownInv /\ BuiltInv /\ FrozenInv /\ KeysInv)
<1>1. Init => TypeInv /\ KnownInv /\ BuiltInv /\ FrozenInv /\ KeysInv
    BY TypeInit, IdentityInit
<1>2. TypeInv /\ KnownInv /\ BuiltInv /\ FrozenInv /\ KeysInv /\ [Next]_vars =>
          (TypeInv /\ KnownInv /\ BuiltInv /\ FrozenInv /\ KeysInv)'
    BY TypeStep, KnownStep, BuiltStep, FrozenStep, KeysStep
<1>. QED BY <1>1, <1>2, PTL DEF Spec

\* The row has the key that the directory names, however registrations and other changes
\* overlap, while no registration failed between the two stores or was refused.
THEOREM KeysAgreeAlways == Spec => []KeysAgree
<1>1. KeysInv => KeysAgree
    BY DEF KeysInv, KeysAgree, Quiet
<1>. QED BY <1>1, IdentityAlways, PTL

-----------------------------------------------------------------------------
(* The handle.                                                             *)

\* When the row's handle is the only name, the new one replaces it.
LEMMA NewName == ASSUME NEW x, NEW h PROVE Append(Without(<<x>>, x), h) = <<h>>
<1>. DEFINE kept == {i \in 1..Len(<<x>>) : <<x>>[i] # x}
<1>1. kept = {}
    OBVIOUS
<1>2. Cardinality(kept) = 0
    BY <1>1, FS_EmptySet
<1>3. Without(<<x>>, x) = [n \in 1..Cardinality(kept) |->
            <<x>>[CHOOSE i \in kept : Cardinality({k \in kept : k <= i}) = n]]
    BY DEF Without
<1>. HIDE DEF kept
<1>4. Without(<<x>>, x) = [n \in {} |->
            <<x>>[CHOOSE i \in kept : Cardinality({k \in kept : k <= i}) = n]]
    <2>1. 1..Cardinality(kept) = {}
        BY <1>2
    <2>. QED BY <1>3, <2>1
<1>5. Without(<<x>>, x) = << >>
    BY <1>4
<1>. QED BY <1>5

\* Who begins is beside all who are open, and nobody is forgotten.
LEMMA BesideStep == TypeInv /\ BesideInv /\ [Next]_vars => BesideInv'
<1>. SUFFICES ASSUME TypeInv, BesideInv, [Next]_vars PROVE BesideInv'
    OBVIOUS
<1>1. ASSUME NEW c \in Calls, CallNext(c), NEW d \in Calls, NEW e \in Calls, d # e,
             Open(d)', Open(e)'
      PROVE  e \in beside'[d]
    <2>1. \A x \in Calls \ {c} : pc'[x] = pc[x]
        BY <1>1, OthersAlone
    <2>2. CASE pc[c] = "idle" /\ c \in {d, e}
        <3>1. \A x \in Calls \ {c} : Open(x)' => Open(x)
            BY <2>1 DEF Open
        <3>. QED BY <1>1, <2>2, <3>1, OpenTogether
    <2>3. CASE pc[c] # "idle" \/ c \notin {d, e}
        <3>1. Open(d) /\ Open(e)
            BY <1>1, <2>1, <2>3, OpenTogether DEF Open
        <3>. QED BY <1>1, <2>3, <3>1, OpenTogether DEF BesideInv
    <2>. QED BY <2>2, <2>3
<1>2. CASE ~\E c \in Calls : CallNext(c)
    <2>1. UNCHANGED calls
        BY <1>2 DEF Next, RequestCode, CodeExpires, SignerConnects, vars
    <2>. QED BY <2>1 DEF BesideInv, Open, calls
<1>. QED BY <1>1, <1>2 DEF BesideInv

\* Once handles met, were refused, failed half-way or were submitted, that stays so.
LEMMA CalmBefore ==
    ASSUME TypeInv, NEW c \in Calls, CallNext(c), Calm'
    PROVE  Calm
<1>1. /\ \A d \in Calls \ {c} : arg'[d] = arg[d]
      /\ slipped \subseteq slipped'
      /\ pc[c] # "idle" => arg'[c].kind = arg[c].kind
    BY OthersAlone
<1>2. \A d \in Calls : d # c \/ pc[c] # "idle" => beside[d] \subseteq beside'[d]
    BY OpenTogether
<1>3. pc[c] = "idle" => arg[c].kind \notin {"handle", "submit"}
    BY KindsAssumption DEF TypeInv, CallOK, Kinds
<1>4. \A d \in Calls : arg[d].kind \in {"handle", "submit"} => arg'[d].kind = arg[d].kind
    BY <1>1, <1>3
<1>5. \A d \in Calls : beside[d] \subseteq Calls
    BY DEF TypeInv, AccountOK
<1>6. ASSUME NEW d \in Calls, arg[d].kind = "handle"
      PROVE  d \notin slipped /\ \A e \in beside[d] : arg[e].kind # "handle"
    <2>1. arg'[d].kind = "handle" /\ beside[d] \subseteq beside'[d]
        BY <1>2, <1>3, <1>4, <1>6
    <2>2. d \notin slipped' /\ \A e \in beside'[d] : arg'[e].kind # "handle"
        BY <2>1 DEF Calm
    <2>. QED BY <1>1, <1>4, <1>5, <2>1, <2>2
<1>7. \A d \in Calls : arg[d].kind # "submit"
    BY <1>4 DEF Calm
<1>. QED BY <1>6, <1>7 DEF Calm

\* A change of the handle that ends whole: before it was sent, or when the row has it.
LEMMA HandleEnds ==
    ASSUME TypeInv, NEW c \in Calls, CallNext(c), arg[c].kind = "handle", Open(c),
           pc'[c] \notin {"sign", "send", "bust", "store"}, c \notin slipped'
    PROVE  /\ directory' = directory
           /\ \/ pc[c] \in {"read", "sign", "send"} /\ row'.handle = row.handle
              \/ pc[c] = "store" /\ row'.handle = arg[c].handle
<1>1. ASSUME NEW next \in {"sign", "send", "bust", "store"}, Goto(c, next) PROVE FALSE
    BY <1>1 DEF Goto, TypeInv, AccountOK
<1>2. ~BeginStep(c)
    BY Beginning DEF Begin, Open
<1>3. CASE ReadLog(c) \/ Sign(c) \/ Send(c) \/ Bust(c)
    BY <1>1, <1>3 DEF ReadLog, Sign, Send, Bust
<1>4. CASE CheckSubmit(c) \/ StoreKey(c) \/ ClearCode(c)
    BY <1>4 DEF CheckSubmit, StoreKey, ClearCode
<1>5. CASE NoSignature(c)
    BY <1>5 DEF NoSignature, account
<1>6. CASE StoreHandle(c)
    BY <1>6 DEF StoreHandle, TypeInv, AccountOK
<1>7. CASE Fails(c)
    BY <1>7 DEF Fails, account
<1>. QED BY <1>2, <1>3, <1>4, <1>5, <1>6, <1>7 DEF CallNext, BeginStep

\* Every step keeps the names and the handle together.
LEMMA HandlesStep ==
    TypeInv /\ BuiltInv /\ BesideInv /\ HandlesInv /\ [Next]_vars => HandlesInv'
<1>. SUFFICES ASSUME TypeInv, BuiltInv, BesideInv, HandlesInv, [Next]_vars PROVE HandlesInv'
    OBVIOUS
<1>1. ASSUME NEW c \in Calls, CallNext(c) PROVE HandlesInv'
    <2>. DEFINE HandleOK(d) ==
                   /\ pc[d] \in {"read", "sign", "send"} =>
                         view[d].handle = row.handle /\ directory.aka = <<row.handle>>
                   /\ pc[d] \in {"sign", "send"} /\ op[d].prev = directory.number =>
                         op[d].aka = <<arg[d].handle>>
                   /\ pc[d] \in {"bust", "store"} => directory.aka = <<arg[d].handle>>
                NoneOpen == \A d \in Calls : arg[d].kind = "handle" => ~Open(d)
    <2>. SUFFICES ASSUME Calm'
                  PROVE  /\ \A d \in Calls : arg'[d].kind = "handle" => HandleOK(d)'
                         /\ NoneOpen' => directory'.aka = <<row'.handle>>
        BY DEF HandlesInv
    <2>1. /\ Calm
          /\ \A d \in Calls : arg[d].kind = "handle" => HandleOK(d)
          /\ NoneOpen => directory.aka = <<row.handle>>
        BY <1>1, CalmBefore DEF HandlesInv
    <2>2. /\ \A d \in Calls \ {c} : op'[d] = op[d] /\ pc'[d] = pc[d] /\ arg'[d] = arg[d] /\ view'[d] = view[d]
          /\ pc[c] # "idle" => arg'[c].kind = arg[c].kind
          /\ pc'[c] # "idle"
        BY <1>1, OthersAlone
    <2>3. pc[c] = "idle" => arg[c].kind # "handle"
        BY KindsAssumption DEF TypeInv, CallOK, Kinds
    <2>4. \A d \in Calls \ {c} : (Open(d)' <=> Open(d)) /\ (arg'[d].kind = "handle" <=> arg[d].kind = "handle")
        BY <2>2 DEF Open
    <2>5. CASE arg'[c].kind # "handle"
        <3>1. arg[c].kind # "handle"
            BY <2>2, <2>3, <2>5
        <3>2. row'.handle = row.handle
            BY <1>1, <3>1, AccountMoves
        <3>3. NoneOpen' => NoneOpen
            BY <2>4, <3>1
        <3>4. CASE directory' = directory
            <4>1. \A d \in Calls \ {c} : arg'[d].kind = "handle" => HandleOK(d)'
                BY <2>1, <2>2, <3>2, <3>4
            <4>. QED BY <2>1, <2>5, <3>2, <3>3, <3>4, <4>1
        <3>5. CASE directory' # directory
            <4>1. /\ pc[c] = "send" /\ op[c].prev = directory.number
                  /\ directory'.number = directory.number + 1 /\ directory'.aka = op[c].aka
                BY <1>1, <3>5, DirectoryMoves
            <4>2. arg[c].kind = "register"
                <5>1. arg[c].kind \in Kinds /\ arg[c].kind # "sign"
                    BY <4>1 DEF TypeInv, CallOK, ArgType
                <5>2. arg[c].kind # "submit"
                    BY <2>1 DEF Calm
                <5>. QED BY <3>1, <5>1, <5>2 DEF Kinds
            <4>3. directory'.aka = directory.aka
                BY <4>1, <4>2 DEF BuiltInv, OpBuilt
            <4>4. ASSUME NEW d \in Calls \ {c}, arg'[d].kind = "handle" PROVE HandleOK(d)'
                <5>1. pc[d] \in {"sign", "send"} => op[d].prev # directory'.number
                    BY <4>1 DEF BuiltInv, OpBuilt, TypeInv, EntryOK, CallOK, OperationOK
                <5>. QED BY <2>1, <2>2, <3>2, <4>3, <4>4, <5>1
            <4>. QED BY <2>1, <2>5, <3>2, <3>3, <4>3, <4>4
        <3>. QED BY <3>4, <3>5
    <2>6. CASE arg'[c].kind = "handle" /\ pc[c] = "idle"
        <3>1. directory' = directory /\ row' = row /\ pc'[c] \in {"read", "failed"}
            <4>1. PICK in, next : Brought(in, next) /\ Begin(c, in, next)
                BY <1>1, <2>6, OpenTogether, Beginning
            <4>. QED BY <1>1, <2>6, <4>1, OthersAlone DEF Begin, account
        <3>2. \A d \in Calls \ {c} : arg'[d].kind = "handle" => HandleOK(d)'
            BY <2>1, <2>2, <3>1
        <3>3. CASE pc'[c] = "failed"
            <4>1. HandleOK(c)'
                BY <3>3
            <4>2. NoneOpen' => NoneOpen
                BY <2>3, <2>4, <2>6
            <4>. QED BY <2>1, <3>1, <3>2, <4>1, <4>2
        <3>4. CASE pc'[c] = "read"
            <4>1. ASSUME NEW d \in Calls, arg[d].kind = "handle", Open(d) PROVE FALSE
                <5>1. d # c
                    BY <2>3, <2>6, <4>1
                <5>2. d \in beside'[c] /\ arg'[d].kind = "handle"
                    BY <1>1, <2>4, <2>6, <4>1, <5>1, OpenTogether
                <5>. QED BY <2>6, <5>2 DEF Calm
            <4>2. directory.aka = <<row.handle>>
                BY <2>1, <4>1
            <4>3. view'[c].handle = row.handle
                BY <1>1, <3>4, ReadsRow
            <4>4. HandleOK(c)'
                BY <3>1, <3>4, <4>2, <4>3
            <4>5. ~NoneOpen'
                BY <2>6, <3>4 DEF Open
            <4>. QED BY <3>2, <4>4, <4>5
        <3>. QED BY <3>1, <3>3, <3>4
    <2>7. CASE arg'[c].kind = "handle" /\ pc[c] # "idle"
        <3>1. arg[c].kind = "handle" /\ Open(c) /\ HandleOK(c) /\ c \notin slipped'
            <4>1. arg[c].kind = "handle" /\ Open(c)
                BY <1>1, <2>2, <2>7, OpenTogether
            <4>2. c \notin slipped'
                BY <2>7 DEF Calm
            <4>. QED BY <2>1, <4>1, <4>2
        <3>2. ASSUME NEW d \in Calls \ {c}, arg'[d].kind = "handle" PROVE HandleOK(d)'
            <4>1. arg[d].kind = "handle" /\ ~Open(d)
                BY <2>1, <2>4, <3>1, <3>2 DEF BesideInv, Calm
            <4>2. ~Open(d)'
                BY <2>4, <4>1
            <4>. QED BY <4>2 DEF Open
        <3>3. CASE pc'[c] \in {"sign", "send", "bust", "store"}
            <4>1. arg'[c] = arg[c] /\ view'[c] = view[c]
                  /\ (Builds(c) \/ Brings(c) \/ Signs(c) \/ Carries(c))
                BY <1>1, <3>3, OperationMoves
            <4>2. row'.handle = row.handle
                BY <1>1, <3>3, AccountMoves
            <4>3. ~NoneOpen'
                BY <2>7, <3>3 DEF Open
            <4>4. CASE Builds(c)
                <5>1. view[c].handle = row.handle /\ directory.aka = <<row.handle>>
                    BY <3>1, <4>4 DEF Builds
                <5>2. op'[c].aka = <<arg[c].handle>>
                    <6>1. op'[c].aka = Append(Without(directory.aka, view[c].handle), arg[c].handle)
                        BY <3>1, <4>4 DEF Builds
                    <6>2. PICK x : x = row.handle
                        OBVIOUS
                    <6>3. op'[c].aka = Append(Without(<<x>>, x), arg[c].handle)
                        BY <5>1, <6>1, <6>2
                    <6>. QED BY <6>3, NewName
                <5>3. HandleOK(c)'
                    BY <4>1, <4>2, <4>4, <5>1, <5>2 DEF Builds
                <5>. QED BY <3>2, <4>3, <5>3
            <4>5. CASE Brings(c)
                BY <3>1, <4>5 DEF Brings
            <4>6. CASE Signs(c)
                <5>1. pc[c] = "sign" /\ pc'[c] = "send" /\ directory' = directory
                      /\ op'[c].prev = op[c].prev /\ op'[c].aka = op[c].aka
                    BY <3>1, <4>6 DEF Signs
                <5>2. HandleOK(c)'
                    BY <3>1, <4>1, <4>2, <5>1
                <5>. QED BY <3>2, <4>3, <5>2
            <4>7. CASE Carries(c)
                <5>1. CASE Send(c) /\ pc[c] = "send" /\ pc'[c] = "bust"
                    <6>1. Accepted(op[c]) /\ directory' = Applied(op[c])
                        BY <3>1, <5>1 DEF Send
                    <6>2. directory'.aka = op[c].aka /\ op[c].prev = directory.number
                        BY <5>1, <6>1, SignsOperation DEF Accepted, TypeInv, CallOK
                    <6>3. directory'.aka = <<arg[c].handle>>
                        BY <3>1, <5>1, <6>2
                    <6>4. HandleOK(c)'
                        BY <4>1, <5>1, <6>3
                    <6>. QED BY <3>2, <4>3, <6>4
                <5>2. CASE pc[c] = "bust" /\ pc'[c] = "store" /\ directory' = directory
                    <6>1. HandleOK(c)'
                        BY <3>1, <4>1, <5>2
                    <6>. QED BY <3>2, <4>3, <6>1
                <5>. QED BY <3>1, <4>7, <5>1, <5>2 DEF Carries
            <4>. QED BY <4>1, <4>4, <4>5, <4>6, <4>7
        <3>4. CASE pc'[c] \notin {"sign", "send", "bust", "store"}
            <4>1. pc'[c] # "read"
                BY <1>1, <2>7, ReadsRow
            <4>2. HandleOK(c)'
                BY <3>4, <4>1
            <4>3. directory'.aka = <<row'.handle>>
                BY <1>1, <3>1, <3>4, HandleEnds
            <4>. QED BY <3>2, <4>2, <4>3
        <3>. QED BY <3>3, <3>4
    <2>. QED BY <2>5, <2>6, <2>7
<1>2. CASE ~\E c \in Calls : CallNext(c)
    <2>1. UNCHANGED <<calls, directory>> /\ row'.handle = row.handle
        BY <1>2 DEF Next, RequestCode, CodeExpires, SignerConnects, vars, account, TypeInv, AccountOK
    <2>. QED BY <2>1 DEF HandlesInv, Calm, Open, calls
<1>. QED BY <1>1, <1>2

\* The first of the directory's names is the row's handle, unless two changes of it
\* overlapped, one was refused or failed half-way, or the user submitted an operation.
THEOREM HandlesAgreeAlways == Spec => []HandlesAgree
<1>1. Init => BesideInv /\ HandlesInv
    <2>. SUFFICES ASSUME Init PROVE BesideInv /\ HandlesInv
        OBVIOUS
    <2>1. \A c \in Calls : pc[c] = "idle"
        BY DEF Init
    <2>2. directory.aka = <<row.handle>>
        <3>1. row.handle = FirstHandle /\ directory \in {NewDid, OwnedDid}
            BY DEF Init, NewOrOwned
        <3>. DEFINE names == <<FirstHandle>>
        <3>2. /\ NewDid = [number |-> 1, atproto |-> Pds, rotation |-> {Pds},
                            aka |-> names, here |-> TRUE]
              /\ OwnedDid = [NewDid EXCEPT !.number = 2, !.atproto = FirstKey, !.rotation = {FirstKey}]
            BY DEF NewDid, OwnedDid
        <3>3. names = <<row.handle>>
            BY <3>1
        <3>. HIDE DEF names
        <3>4. NewDid.aka = names /\ OwnedDid.aka = names
            BY <3>2
        <3>. QED BY <3>1, <3>3, <3>4
    <2>. QED BY <2>1, <2>2 DEF BesideInv, HandlesInv, Open
<1>2. HandlesInv => HandlesAgree
    <2>. SUFFICES ASSUME HandlesInv,
                         \A c \in Calls :
                            /\ arg[c].kind = "handle" =>
                                  /\ c \notin slipped /\ ~Open(c)
                                  /\ \A d \in beside[c] : arg[d].kind # "handle"
                            /\ arg[c].kind # "submit"
                  PROVE  directory.aka # <<>> /\ Head(directory.aka) = row.handle
        BY DEF HandlesAgree
    <2>1. directory.aka = <<row.handle>>
        BY DEF HandlesInv, Calm
    <2>. QED BY <2>1
<1>. QED BY <1>1, <1>2, IdentityAlways, BesideStep, HandlesStep, PTL DEF Spec

=============================================================================
