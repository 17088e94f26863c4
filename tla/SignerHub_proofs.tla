-------------------------- MODULE SignerHub_proofs --------------------------
(***************************************************************************)
(* Theorems about SignerHub, for every set of accounts, sessions and calls.*)
(***************************************************************************)
EXTENDS SignerHubRefinement, SequenceTheorems, TLAPS

\* Cutting a request out of a queue leaves a queue of requests.
LEMMA WithoutType ==
    ASSUME NEW S, NEW s \in Seq(S), NEW r
    PROVE  Without(s, r) \in Seq(S)
<1>1. CASE \E i \in 1..Len(s) : s[i] = r
    <2>. DEFINE i == CHOOSE i \in 1..Len(s) : s[i] = r /\ \A j \in 1..(i - 1) : s[j] # r
    <2>. DEFINE t == [j \in 1..(Len(s) - 1) |-> IF j < i THEN s[j] ELSE s[j + 1]]
    <2>1. Len(s) \in Nat /\ Len(s) - 1 \in Nat
        BY <1>1
    <2>2. \A j \in 1..(Len(s) - 1) : t[j] \in S
        BY <2>1
    <2>3. t \in [1..(Len(s) - 1) -> S]
        BY <2>2
    <2>4. t \in Seq(S)
        BY <2>1, <2>3
    <2>5. Without(s, r) = t
        BY <1>1 DEF Without
    <2>. QED BY <2>4, <2>5
<1>2. CASE ~(\E i \in 1..Len(s) : s[i] = r)
    BY <1>2 DEF Without
<1>. QED BY <1>1, <1>2

-----------------------------------------------------------------------------
(* Types.                                                                  *)

\* A handler that is delivering an answer knows which one.
DeliveryKnown ==
    \A c \in Conns : handler[c] \in {"deliver", "reply", "wake"} => dlv[c] \in Deliveries

\* A call between its look-up and its return has a connection.
ConnectionKnown ==
    \A r \in Requests : call[r] \notin {"idle", "returned"} => callConn[r] \in Conns

\* TypeOK alone is not inductive: SendReply puts dlv[c].ans in a channel, and
\* Enqueue appends to the queue of callConn[r].
TypeInv == TypeOK /\ DeliveryKnown /\ ConnectionKnown

\* NewSignerHub and the empty connections are typed.
LEMMA TypeInit == Init => TypeInv
BY DEF Init, TypeInv, TypeOK, DeliveryKnown, ConnectionKnown, HandlerStates, PumpStates,
       CallStates, Results, Replies, Prompts

\* No step of RequestSignature leaves the types.
LEMMA CallerType ==
    ASSUME TypeInv, NEW r \in Requests, Caller(r)
    PROVE  TypeInv'
<1>. USE ConnDidAssumption, ReqDidAssumption, NoneAssumption
     DEF TypeInv, TypeOK, DeliveryKnown, ConnectionKnown, HandlerStates, CallStates, Results,
         Replies, callerKeeps, callVars, pumpVars, queueVars, loopVars, wireVars, Return
<1>1. CASE LookUp(r)
    <2>. DEFINE c == hub[ReqDid[r]]
    <2>1. c \in Conns \cup {None}
        OBVIOUS
    <2>2. CASE c = None
        <3>1. /\ call' = [call EXCEPT ![r] = "returned"]
              /\ result' = [result EXCEPT ![r] = "notConnected"]
              /\ UNCHANGED <<callerKeeps, queueVars, reply, callConn>>
            BY <1>1, <2>2 DEF LookUp
        <3>. QED BY <3>1
    <2>3. CASE c # None
        <3>1. /\ call' = [call EXCEPT ![r] = "enqueue"]
              /\ callConn' = [callConn EXCEPT ![r] = c]
              /\ UNCHANGED <<callerKeeps, queueVars, reply, result>>
            BY <1>1, <2>3 DEF LookUp
        <3>. QED BY <2>1, <2>3, <3>1
    <2>. QED BY <2>2, <2>3
<1>2. CASE Enqueue(r)
    <2>1. callConn[r] \in Conns
        BY <1>2 DEF Enqueue
    <2>2. pending[callConn[r]] \in Seq(Requests)
        BY <2>1
    <2>3. Append(pending[callConn[r]], r) \in Seq(Requests)
        BY <2>2
    <2>4. pending' \in [Conns -> Seq(Requests)]
        BY <1>2, <2>1, <2>3 DEF Enqueue
    <2>. QED BY <1>2, <2>4 DEF Enqueue
<1>3. CASE Notify(r)
    BY <1>3 DEF Notify
<1>4. CASE ReceiveReply(r)
    BY <1>4 DEF ReceiveReply
<1>5. CASE SeeDone(r)
    BY <1>5 DEF SeeDone
<1>6. CASE ContextDone(r)
    BY <1>6 DEF ContextDone
<1>7. CASE Cancel(r)
    <2>1. callConn[r] \in Conns /\ Without(pending[callConn[r]], r) \in Seq(Requests)
        BY <1>7, WithoutType DEF Cancel
    <2>. QED BY <1>7, <2>1 DEF Cancel
<1>. QED BY <1>1, <1>2, <1>3, <1>4, <1>5, <1>6, <1>7 DEF Caller

\* No step of NextRequest and its pump leaves the types.
LEMMA PumpType ==
    ASSUME TypeInv, NEW c \in Conns, Pump(c)
    PROVE  TypeInv'
<1>. USE DEF TypeInv, TypeOK, DeliveryKnown, ConnectionKnown, PumpStates, MayTake, pumpKeeps,
         callVars, pumpVars, queueVars, loopVars, wireVars
<1>1. CASE PumpTake(c)
    <2>1. Head(pending[c]) \in Requests /\ Tail(pending[c]) \in Seq(Requests)
        BY <1>1 DEF PumpTake
    <2>. QED BY <1>1, <2>1 DEF PumpTake
<1>2. CASE PumpIdle(c)
    BY <1>2 DEF PumpIdle
<1>3. CASE PumpWake(c)
    BY <1>3 DEF PumpWake
<1>4. CASE PumpSend(c)
    BY <1>4 DEF PumpSend
<1>5. CASE PumpStop(c)
    BY <1>5 DEF PumpStop
<1>. QED BY <1>1, <1>2, <1>3, <1>4, <1>5 DEF Pump

\* No step of a handler's main loop and of deliver leaves the types.
LEMMA LoopType ==
    ASSUME TypeInv, NEW c \in Conns, Loop(c)
    PROVE  TypeInv'
<1>. USE ConnDidAssumption, NoneAssumption
     DEF TypeInv, TypeOK, DeliveryKnown, ConnectionKnown, HandlerStates, Replies,
         Prompts, MoveHandler, LeaveLoop, loopKeeps, callVars,
         pumpVars, queueVars, loopVars, wireVars
<1>1. CASE SendPrompt(c)
    BY <1>1 DEF SendPrompt
<1>2. CASE WriteFails(c)
    BY <1>2 DEF WriteFails
<1>3. CASE DropAnswer(c)
    BY <1>3 DEF DropAnswer
<1>4. CASE RouteAnswer(c)
    <2>. DEFINE to == hub[ConnDid[c]]
    <2>1. PICK r \in inbound[c] :
              /\ prompt[r] \in {"sig", "reject"}
              /\ payloads' = [payloads EXCEPT ![c] = @ \ {r}]
              /\ inbound' = [inbound EXCEPT ![c] = @ \ {r}]
              /\ IF to = None
                 THEN UNCHANGED <<handler, dlv>>
                 ELSE /\ MoveHandler(c, "deliver")
                      /\ dlv' = [dlv EXCEPT ![c] =
                                    [to |-> to, req |-> r, ans |-> prompt[r]]]
        BY <1>4 DEF RouteAnswer
    <2>2. UNCHANGED <<loopKeeps, queueVars, nextReq, reply, wsUp, prompt>>
        BY <1>4 DEF RouteAnswer
    <2>3. r \in Requests /\ to \in Conns \cup {None}
        OBVIOUS
    <2>4. CASE to = None
        BY <2>1, <2>2, <2>4
    <2>5. CASE to # None
        <3>. DEFINE d == [to |-> to, req |-> r, ans |-> prompt[r]]
        <3>1. d \in Deliveries
            BY <2>1, <2>3, <2>5 DEF Deliveries
        <3>2. dlv' = [dlv EXCEPT ![c] = d]
            BY <2>1, <2>5
        <3>. HIDE DEF d
        <3>3. dlv' \in [Conns -> Deliveries \cup {None}] /\ dlv'[c] \in Deliveries
            BY <3>1, <3>2
        <3>4. handler' = [handler EXCEPT ![c] = "deliver"]
            BY <2>1, <2>5
        <3>5. TypeOK'
            BY <2>1, <2>2, <3>3, <3>4
        <3>6. \A b \in Conns \ {c} : dlv'[b] = dlv[b] /\ handler'[b] = handler[b]
            BY <3>2, <3>4
        <3>7. DeliveryKnown' /\ ConnectionKnown'
            BY <2>2, <3>3, <3>6
        <3>. QED BY <3>5, <3>7
    <2>. QED BY <2>4, <2>5
<1>5. CASE TakeInflight(c)
    <2>1. CASE dlv[c].req \in inflight[dlv[c].to]
        <3>1. inflight' = [inflight EXCEPT ![dlv[c].to] = @ \ {dlv[c].req}]
            BY <1>5, <2>1 DEF TakeInflight
        <3>2. inflight' \in [Conns -> SUBSET Requests]
            <4>. DEFINE to == dlv[c].to
                        taken == inflight[to] \ {dlv[c].req}
            <4>1. inflight' = [inflight EXCEPT ![to] = taken]
                BY <3>1
            <4>2. to \in Conns => taken \in SUBSET Requests
                OBVIOUS
            <4>. HIDE DEF to, taken
            <4>. QED BY <4>1, <4>2
        <3>3. /\ handler' = [handler EXCEPT ![c] = "reply"]
              /\ UNCHANGED <<loopKeeps, wireVars, nextReq, reply, pending, notify, payloads, dlv>>
            BY <1>5, <2>1 DEF TakeInflight
        <3>4. dlv[c] \in Deliveries
            BY <1>5 DEF TakeInflight
        <3>. QED BY <3>2, <3>3, <3>4
    <2>2. CASE dlv[c].req \notin inflight[dlv[c].to]
        <3>1. /\ handler' = [handler EXCEPT ![c] = "loop"]
              /\ dlv' = [dlv EXCEPT ![c] = None]
              /\ UNCHANGED <<loopKeeps, wireVars, nextReq, reply, queueVars, payloads>>
            BY <1>5, <2>2 DEF TakeInflight
        <3>. QED BY <3>1
    <2>. QED BY <2>1, <2>2
<1>6. CASE SendReply(c)
    <2>1. dlv[c] \in Deliveries
        BY <1>6 DEF SendReply
    <2>2. dlv[c].ans \in Replies
        BY <2>1 DEF Deliveries
    <2>. QED BY <1>6, <2>2 DEF SendReply
<1>7. CASE WakePump(c)
    BY <1>7 DEF WakePump
<1>8. CASE Disconnect(c)
    BY <1>8 DEF Disconnect
<1>. QED BY <1>1, <1>2, <1>3, <1>4, <1>5, <1>6, <1>7, <1>8 DEF Loop

\* No step of Unregister and failAll leaves the types.
LEMMA TeardownType ==
    ASSUME TypeInv, NEW c \in Conns, Teardown(c)
    PROVE  TypeInv'
<1>. USE ConnDidAssumption, NoneAssumption
     DEF TypeInv, TypeOK, DeliveryKnown, ConnectionKnown, HandlerStates, Replies,
         MoveHandler, teardownKeeps, callVars, pumpVars
<1>1. CASE Unregister(c)
    BY <1>1 DEF Unregister
<1>2. CASE FailAllLock(c)
    BY <1>2 DEF FailAllLock
<1>3. CASE FailInflight(c)
    BY <1>3 DEF FailInflight
<1>4. CASE FailPending(c)
    <2>1. Tail(pending[c]) \in Seq(Requests)
        BY <1>4 DEF FailPending
    <2>. QED BY <1>4, <2>1 DEF FailPending
<1>5. CASE FailAllDone(c)
    BY <1>5 DEF FailAllDone
<1>. QED BY <1>1, <1>2, <1>3, <1>4, <1>5 DEF Teardown

\* Opening, losing and answering on a socket leave nobody untyped.
LEMMA WireType ==
    ASSUME TypeInv, NEW c \in Conns,
           Connect(c) \/ TokenExpires(c) \/ Drop(c) \/ Answer(c)
    PROVE  TypeInv'
<1>. USE ConnDidAssumption, NoneAssumption, VerdictsAssumption
     DEF TypeInv, TypeOK, DeliveryKnown, ConnectionKnown, HandlerStates, PumpStates,
         Prompts, MoveHandler, LeaveLoop, loopKeeps, callVars, pumpVars,
         queueVars, loopVars
<1>1. CASE Connect(c)
    BY <1>1 DEF Connect, Register
<1>2. CASE TokenExpires(c)
    BY <1>2 DEF TokenExpires
<1>3. CASE Drop(c)
    BY <1>3 DEF Drop
<1>4. CASE Answer(c)
    BY <1>4 DEF Answer
<1>. QED BY <1>1, <1>2, <1>3, <1>4

\* The typing invariant is inductive.
LEMMA TypeStep == TypeInv /\ [Next]_vars => TypeInv'
<1>. SUFFICES ASSUME TypeInv, [Next]_vars PROVE TypeInv'
    OBVIOUS
<1>1. CASE Next
    BY <1>1, CallerType, PumpType, LoopType, TeardownType, WireType DEF Next
<1>2. CASE UNCHANGED vars
    BY <1>2 DEF TypeInv, TypeOK, DeliveryKnown, ConnectionKnown, vars, callVars,
                pumpVars, queueVars, loopVars, wireVars
<1>. QED BY <1>1, <1>2

\* The state of the hub and of its goroutines stays in its types: queues hold
\* requests, one-slot channels hold one value of the right kind.
THEOREM TypeCorrect == Spec => []TypeOK
<1>1. TypeInv => TypeOK
    BY DEF TypeInv
<1>. QED BY TypeInit, TypeStep, <1>1, PTL DEF Spec

-----------------------------------------------------------------------------
(* The hub's connections are live.                                         *)

\* A session that has not been opened has an open done channel.
IdleIsFresh == \A c \in Conns : handler[c] = "idle" => ~done[c]

\* Needed beside HubConnectionIsLive: Register puts an idle session in the hub.
HubInv == HubConnectionIsLive /\ IdleIsFresh

Serving == {"loop", "deliver", "reply", "wake", "unregister"}

\* A step that leaves the hub and the done channels alone, and at most moves
\* one serving handler to another serving state, keeps the invariant.
LEMMA ServingStep ==
    ASSUME TypeInv, HubInv, UNCHANGED <<hub, done>>, NEW c \in Conns,
           \/ UNCHANGED handler
           \/ /\ handler[c] \in Serving
              /\ \E state \in Serving : MoveHandler(c, state)
    PROVE  HubInv'
<1>. USE DEF TypeInv, TypeOK, HubInv, HubConnectionIsLive, IdleIsFresh, Serving
<1>1. CASE UNCHANGED handler
    BY <1>1
<1>2. CASE handler[c] \in Serving /\ \E state \in Serving : MoveHandler(c, state)
    BY <1>2 DEF MoveHandler
<1>. QED BY <1>1, <1>2

\* The main loop and deliver touch neither the hub nor a done channel, and
\* keep their handler serving.
LEMMA LoopServes ==
    ASSUME TypeInv, NEW c \in Conns, Loop(c)
    PROVE  /\ UNCHANGED <<hub, done>>
           /\ \/ UNCHANGED handler
              \/ /\ handler[c] \in Serving
                 /\ \E state \in Serving : MoveHandler(c, state)
<1>. USE DEF loopKeeps, LeaveLoop, Serving
<1>1. CASE SendPrompt(c)
    BY <1>1 DEF SendPrompt
<1>2. CASE WriteFails(c)
    BY <1>2 DEF WriteFails
<1>3. CASE DropAnswer(c)
    BY <1>3 DEF DropAnswer
<1>4. CASE RouteAnswer(c)
    BY <1>4 DEF RouteAnswer
<1>5. CASE TakeInflight(c)
    BY <1>5 DEF TakeInflight
<1>6. CASE SendReply(c)
    BY <1>6 DEF SendReply
<1>7. CASE WakePump(c)
    BY <1>7 DEF WakePump
<1>8. CASE Disconnect(c)
    BY <1>8 DEF Disconnect
<1>. QED BY <1>1, <1>2, <1>3, <1>4, <1>5, <1>6, <1>7, <1>8 DEF Loop

\* Register closes only the done channel it evicts and Unregister only that of
\* the entry it removes: the hub invariant is inductive.
LEMMA HubStep == TypeInv /\ HubInv /\ [Next]_vars => HubInv'
<1>. SUFFICES ASSUME TypeInv, HubInv, [Next]_vars PROVE HubInv'
    OBVIOUS
<1>0. ASSUME UNCHANGED <<hub, done, handler>> PROVE HubInv'
    BY <1>0 DEF HubInv, HubConnectionIsLive, IdleIsFresh
<1>1. ASSUME NEW r \in Requests, Caller(r) PROVE HubInv'
    BY <1>0, <1>1 DEF Caller, LookUp, Enqueue, Notify, ReceiveReply, SeeDone,
                      ContextDone, Cancel, callerKeeps, loopVars
<1>2. ASSUME NEW c \in Conns, Pump(c) PROVE HubInv'
    BY <1>0, <1>2 DEF Pump, PumpTake, PumpIdle, PumpWake, PumpSend, PumpStop,
                      pumpKeeps, loopVars
<1>3. ASSUME NEW c \in Conns, Loop(c) PROVE HubInv'
    BY <1>3, LoopServes, ServingStep
<1>4. ASSUME NEW c \in Conns, Teardown(c) PROVE HubInv'
    <2>. USE ConnDidAssumption, NoneAssumption
         DEF TypeInv, TypeOK, HubInv, HubConnectionIsLive, IdleIsFresh, MoveHandler
    <2>1. CASE Unregister(c)
        <3>1. handler' = [handler EXCEPT ![c] = "failAll"]
            BY <2>1 DEF Unregister
        <3>2. CASE hub[ConnDid[c]] = c
            <4>1. /\ hub' = [hub EXCEPT ![ConnDid[c]] = None]
                  /\ done' = [done EXCEPT ![c] = TRUE]
                BY <2>1, <3>2 DEF Unregister
            <4>2. \A d \in Dids : hub'[d] # None => hub'[d] = hub[d] /\ hub[d] # c
                BY <4>1
            <4>. QED BY <3>1, <4>1, <4>2
        <3>3. CASE hub[ConnDid[c]] # c
            <4>1. UNCHANGED <<hub, done>>
                BY <2>1, <3>3 DEF Unregister
            <4>. QED BY <3>1, <3>3, <4>1
        <3>. QED BY <3>2, <3>3
    \* The remaining steps belong to a handler that has left the hub.
    <2>2. ASSUME UNCHANGED <<hub, done>>,
                 handler[c] \in {"failAll", "drain"},
                 \E state \in {"drain", "closed"} : MoveHandler(c, state)
          PROVE  HubInv'
        BY <2>2
    <2>3. CASE FailAllLock(c)
        BY <2>2, <2>3 DEF FailAllLock
    <2>4. CASE FailInflight(c) \/ FailPending(c)
        BY <1>0, <2>4 DEF FailInflight, FailPending
    <2>5. CASE FailAllDone(c)
        BY <2>2, <2>5 DEF FailAllDone
    <2>. QED BY <1>4, <2>1, <2>3, <2>4, <2>5 DEF Teardown
<1>5. ASSUME NEW c \in Conns, Connect(c) PROVE HubInv'
    <2>. USE ConnDidAssumption, NoneAssumption
         DEF TypeInv, TypeOK, HubInv, HubConnectionIsLive, IdleIsFresh
    <2>. DEFINE old == hub[ConnDid[c]]
    <2>1. /\ handler[c] = "idle"
          /\ hub' = [hub EXCEPT ![ConnDid[c]] = c]
          /\ handler' = [handler EXCEPT ![c] = "loop"]
        BY <1>5 DEF Connect, Register, MoveHandler
    <2>2. done' = IF old = None THEN done ELSE [done EXCEPT ![old] = TRUE]
        BY <1>5 DEF Connect, Register
    <2>3. ASSUME NEW d \in Dids, hub[d] = c PROVE FALSE
        <3>1. hub[d] # None
            BY <2>3
        <3>2. handler[hub[d]] # "idle"
            BY <3>1
        <3>. QED BY <2>1, <2>3, <3>2
    <2>4. \A b \in Conns : b # old => done'[b] = done[b]
        BY <2>2
    <2>5. \A d \in Dids : d # ConnDid[c] /\ hub[d] # None => hub[d] # old
        BY <2>1
    <2>6. HubConnectionIsLive'
        BY <2>1, <2>3, <2>4, <2>5
    <2>7. IdleIsFresh'
        <3>1. \A b \in Conns : handler[b] = "idle" => b # old
            <4>1. ConnDid[c] \in Dids
                OBVIOUS
            <4>2. old # None => handler[old] # "idle"
                BY <4>1
            <4>. QED BY <4>2
        <3>2. \A b \in Conns : handler'[b] = "idle" => handler[b] = "idle"
            BY <2>1
        <3>. SUFFICES ASSUME NEW b \in Conns, handler'[b] = "idle" PROVE ~done'[b]
            OBVIOUS
        <3>3. done'[b] = done[b]
            BY <2>4, <3>1, <3>2
        <3>4. ~done[b]
            BY <3>2
        <3>. QED BY <3>3, <3>4
    <2>. QED BY <2>6, <2>7
<1>6. ASSUME NEW c \in Conns, TokenExpires(c) PROVE HubInv'
    BY <1>6, ServingStep DEF TokenExpires, LeaveLoop, loopKeeps, Serving
<1>7. ASSUME NEW c \in Conns, Drop(c) \/ Answer(c) PROVE HubInv'
    BY <1>0, <1>7 DEF Drop, Answer, loopKeeps, loopVars
<1>8. CASE UNCHANGED vars
    BY <1>0, <1>8 DEF vars, loopVars
<1>. QED BY <1>1, <1>2, <1>3, <1>4, <1>5, <1>6, <1>7, <1>8 DEF Next

\* What the hub has for a DID is a connection of that DID that still serves and
\* whose done channel is open: neither Register nor Unregister closes a closed
\* channel, which would panic.
THEOREM HubIsLive == Spec => []HubConnectionIsLive
<1>1. Init => HubInv
    BY DEF Init, HubInv, HubConnectionIsLive, IdleIsFresh
<1>2. HubInv => HubConnectionIsLive
    BY DEF HubInv
<1>. QED BY TypeInit, TypeStep, HubStep, <1>1, <1>2, PTL DEF Spec

-----------------------------------------------------------------------------
(* One prompt at a time.                                                   *)

Elements(s) == {s[i] : i \in 1..Len(s)}
Distinct(s) == \A i, j \in 1..Len(s) : s[i] = s[j] => i = j

Called(r) == call[r] \notin {"idle", "enqueue"}
Answered(r) == prompt[r] \in {"sig", "bad", "reject"}
Running(c) == handler[c] \in {"idle", "loop", "deliver", "reply", "wake"}

\* A queued request belongs to its queue, once, and has gone nowhere yet.
QueueInv ==
    \A c \in Conns :
        /\ Distinct(pending[c])
        /\ \A r \in Elements(pending[c]) :
              /\ Called(r) /\ callConn[r] = c
              /\ prompt[r] = "unsent"
              /\ \A b \in Conns : r \notin inflight[b]

\* At most one request of a connection is in flight.
FlightInv ==
    \A c \in Conns :
        /\ \A r \in inflight[c] : Called(r) /\ callConn[r] = c
        /\ \A r, s \in inflight[c] : r = s

\* What the pump or the nextReq channel of a running loop holds is in flight
\* and unsent, and only one of the two holds something.
HandOverInv ==
    \A c \in Conns : Running(c) =>
        /\ nextReq[c] # None =>
              nextReq[c] \in inflight[c] /\ prompt[nextReq[c]] = "unsent"
        /\ picked[c] # None =>
              /\ picked[c] \in inflight[c] /\ prompt[picked[c]] = "unsent"
              /\ nextReq[c] = None

\* An open prompt keeps its request in flight, a call that has not enqueued
\* has no prompt, and only answered prompts are being delivered.
PromptStateInv ==
    /\ \A r \in Requests : prompt[r] = "sent" =>
          /\ callConn[r] \in Conns
          /\ \/ r \in inflight[callConn[r]]
             \/ handler[callConn[r]] \in {"drain", "closed"}
    /\ \A r \in Requests : ~Called(r) => prompt[r] = "unsent"
    /\ \A c \in Conns :
          handler[c] \in {"deliver", "reply", "wake"} => Answered(dlv[c].req)

\* OnePromptPerConnection says nothing of requests that are not shown yet; to
\* be inductive it has to follow a request from the queue to the signer.
PromptInv == QueueInv /\ FlightInv /\ HandOverInv /\ PromptStateInv

\* Appending a new element keeps a queue free of repetitions.
LEMMA AppendQueue ==
    ASSUME NEW S, NEW s \in Seq(S), NEW r \in S
    PROVE  /\ Elements(Append(s, r)) = Elements(s) \cup {r}
           /\ Distinct(s) /\ r \notin Elements(s) => Distinct(Append(s, r))
<1>. DEFINE t == Append(s, r)
<1>1. Len(s) \in Nat /\ Len(t) = Len(s) + 1
    OBVIOUS
<1>2. \A i \in 1..Len(s) : t[i] = s[i]
    OBVIOUS
<1>3. t[Len(s) + 1] = r
    OBVIOUS
<1>. HIDE DEF t
<1>4. Elements(t) = Elements(s) \cup {r}
    BY <1>1, <1>2, <1>3 DEF Elements
<1>5. ASSUME Distinct(s), r \notin Elements(s) PROVE Distinct(t)
    BY <1>1, <1>2, <1>3, <1>5 DEF Distinct, Elements
<1>. QED BY <1>4, <1>5 DEF t

\* Taking the head off a queue without repetitions takes its only occurrence.
LEMMA TailQueue ==
    ASSUME NEW S, NEW s \in Seq(S), s # <<>>
    PROVE  /\ Head(s) \in Elements(s)
           /\ Elements(Tail(s)) \subseteq Elements(s)
           /\ Distinct(s) => Distinct(Tail(s)) /\ Head(s) \notin Elements(Tail(s))
<1>. DEFINE t == Tail(s)
<1>1. Len(s) \in Nat \ {0} /\ Len(t) = Len(s) - 1
    OBVIOUS
<1>2. \A i \in 1..Len(t) : t[i] = s[i + 1]
    OBVIOUS
<1>3. Head(s) = s[1]
    OBVIOUS
<1>. HIDE DEF t
<1>4. Head(s) \in Elements(s)
    BY <1>1, <1>3 DEF Elements
<1>5. \A i \in 1..Len(t) : i + 1 \in 1..Len(s)
    BY <1>1
<1>6. Elements(t) \subseteq Elements(s)
    BY <1>2, <1>5 DEF Elements
<1>7. ASSUME Distinct(s) PROVE Distinct(t) /\ Head(s) \notin Elements(t)
    <2>1. Distinct(t)
        BY <1>1, <1>2, <1>5, <1>7 DEF Distinct
    <2>2. ASSUME NEW i \in 1..Len(t), t[i] = s[1] PROVE FALSE
        BY <1>1, <1>2, <1>5, <1>7, <2>2 DEF Distinct
    <2>. QED BY <1>3, <2>1, <2>2 DEF Elements
<1>. QED BY <1>4, <1>6, <1>7 DEF t

\* Cutting a request out of a queue adds nothing and repeats nothing.
LEMMA WithoutQueue ==
    ASSUME NEW S, NEW s \in Seq(S), NEW r, Distinct(s)
    PROVE  Elements(Without(s, r)) \subseteq Elements(s) /\ Distinct(Without(s, r))
<1>1. CASE \E i \in 1..Len(s) : s[i] = r
    <2>. DEFINE i == CHOOSE i \in 1..Len(s) : s[i] = r /\ \A j \in 1..(i - 1) : s[j] # r
    <2>. DEFINE t == [j \in 1..(Len(s) - 1) |-> IF j < i THEN s[j] ELSE s[j + 1]]
    <2>. DEFINE at(j) == IF j < i THEN j ELSE j + 1
    <2>1. Len(s) \in Nat \ {0} /\ Len(s) - 1 \in Nat
        BY <1>1
    <2>2. Without(s, r) = t
        BY <1>1 DEF Without
    <2>3. i \in 1..Len(s)
        <3>1. PICK n \in 1..Len(s) : s[n] = r
            BY <1>1
        <3>2. \A j \in 1..(n - 1) : s[j] # r
            BY <2>1, <3>1 DEF Distinct
        <3>. QED BY <3>1, <3>2
    <2>. HIDE DEF i
    <2>4. \A j \in 1..(Len(s) - 1) : at(j) \in 1..Len(s) /\ t[j] = s[at(j)]
        BY <2>1, <2>3
    <2>5. \A j, k \in 1..(Len(s) - 1) : at(j) = at(k) => j = k
        BY <2>1, <2>3
    <2>6. Len(t) = Len(s) - 1
        BY <2>1
    <2>. HIDE DEF t, at
    <2>7. Elements(t) \subseteq Elements(s)
        BY <2>4, <2>6 DEF Elements
    <2>8. Distinct(t)
        BY <2>4, <2>5, <2>6 DEF Distinct
    <2>. QED BY <2>2, <2>7, <2>8
<1>2. CASE ~(\E i \in 1..Len(s) : s[i] = r)
    BY <1>2 DEF Without
<1>. QED BY <1>1, <1>2

\* A step that shows no prompt and moves no request forward keeps PromptInv:
\* queues may only shrink, a request leaves inflight only when it is answered
\* or its connection is drained, the two hand-over slots may be emptied.
Recedes ==
    /\ \A c \in Conns :
          /\ Elements(pending'[c]) \subseteq Elements(pending[c])
          /\ Distinct(pending'[c])
          /\ inflight'[c] \subseteq inflight[c]
          /\ \A r \in inflight[c] \ inflight'[c] :
                Answered(r) \/ handler[c] \in {"drain", "closed"}
          /\ nextReq'[c] \in {nextReq[c], None}
          /\ picked'[c] \in {picked[c], None}
          /\ Running(c)' => Running(c)
          /\ handler[c] \in {"drain", "closed"} => handler'[c] \in {"drain", "closed"}
          /\ handler'[c] \in {"deliver", "reply", "wake"} => Answered(dlv'[c].req)
    /\ \A r \in Requests : Called(r) => Called(r)' /\ callConn'[r] = callConn[r]
    /\ UNCHANGED prompt

\* A step in which no request moves forward keeps the prompt invariant.
LEMMA RecedingStep ==
    ASSUME TypeInv, PromptInv, Recedes
    PROVE  PromptInv'
<1>. USE DEF TypeInv, TypeOK, PromptInv
<1>0. \A c \in Conns : Elements(pending[c]) \subseteq Requests
    BY DEF Elements
<1>1. QueueInv'
    <2>. SUFFICES ASSUME NEW c \in Conns, NEW r \in Elements(pending'[c])
                  PROVE  /\ Called(r)' /\ callConn'[r] = c
                         /\ prompt'[r] = "unsent"
                         /\ \A b \in Conns : r \notin inflight'[b]
        BY DEF QueueInv, Recedes
    <2>1. r \in Elements(pending[c]) /\ r \in Requests
        BY <1>0 DEF Recedes
    <2>2. /\ Called(r) /\ callConn[r] = c /\ prompt[r] = "unsent"
          /\ \A b \in Conns : r \notin inflight[b]
        BY <2>1 DEF QueueInv
    <2>. QED BY <2>1, <2>2 DEF Recedes
<1>2. FlightInv'
    <2>1. \A c \in Conns : \A r \in inflight'[c] : r \in inflight[c] /\ r \in Requests
        BY DEF Recedes
    <2>. QED BY <2>1 DEF FlightInv, Recedes
<1>3. HandOverInv'
    <2>. SUFFICES ASSUME NEW c \in Conns, Running(c)'
                  PROVE  /\ nextReq'[c] # None =>
                               nextReq'[c] \in inflight'[c] /\ prompt'[nextReq'[c]] = "unsent"
                         /\ picked'[c] # None =>
                               /\ picked'[c] \in inflight'[c] /\ prompt'[picked'[c]] = "unsent"
                               /\ nextReq'[c] = None
        BY DEF HandOverInv
    <2>1. Running(c) /\ handler[c] \notin {"drain", "closed"}
        BY DEF Recedes, Running
    <2>2. \A r \in inflight[c] : prompt[r] = "unsent" => r \in inflight'[c]
        BY <2>1 DEF Recedes, Answered
    <2>3. /\ nextReq'[c] \in {nextReq[c], None}
          /\ picked'[c] \in {picked[c], None}
          /\ prompt' = prompt
        BY DEF Recedes
    <2>4. /\ nextReq[c] # None => nextReq[c] \in inflight[c] /\ prompt[nextReq[c]] = "unsent"
          /\ picked[c] # None => /\ picked[c] \in inflight[c] /\ prompt[picked[c]] = "unsent"
                                 /\ nextReq[c] = None
        BY <2>1 DEF HandOverInv
    <2>. QED BY <2>2, <2>3, <2>4
<1>4. PromptStateInv'
    <2>1. ASSUME NEW r \in Requests, prompt'[r] = "sent"
          PROVE  /\ callConn'[r] \in Conns
                 /\ \/ r \in inflight'[callConn'[r]]
                    \/ handler'[callConn'[r]] \in {"drain", "closed"}
        <3>1. prompt[r] = "sent" /\ Called(r) /\ callConn'[r] = callConn[r]
            BY <2>1 DEF Recedes, PromptStateInv
        <3>2. callConn[r] \in Conns
            BY <3>1 DEF PromptStateInv
        <3>. DEFINE c == callConn[r]
        <3>3. r \in inflight[c] \/ handler[c] \in {"drain", "closed"}
            BY <3>1 DEF PromptStateInv
        <3>4. r \in inflight[c] => r \in inflight'[c] \/ handler[c] \in {"drain", "closed"}
            BY <3>1, <3>2 DEF Recedes, Answered
        <3>5. handler[c] \in {"drain", "closed"} => handler'[c] \in {"drain", "closed"}
            BY <3>2 DEF Recedes
        <3>. QED BY <3>1, <3>2, <3>3, <3>4, <3>5
    <2>2. ASSUME NEW r \in Requests, ~Called(r)' PROVE prompt'[r] = "unsent"
        BY <2>2 DEF Recedes, PromptStateInv
    <2>3. ASSUME NEW c \in Conns, handler'[c] \in {"deliver", "reply", "wake"}
          PROVE  prompt'[dlv'[c].req] \in {"sig", "bad", "reject"}
        BY <2>3 DEF Recedes, Answered
    <2>. QED BY <2>1, <2>2, <2>3 DEF PromptStateInv, Answered
<1>. QED BY <1>1, <1>2, <1>3, <1>4

\* Of the caller's steps only Enqueue moves a request forward.
LEMMA CallerRecedes ==
    ASSUME TypeInv, PromptInv, NEW r \in Requests, Caller(r), ~Enqueue(r)
    PROVE  Recedes
<1>. USE DEF TypeInv, TypeOK, callerKeeps, callVars, pumpVars, queueVars, loopVars, wireVars
<1>1. /\ UNCHANGED <<callerKeeps, inflight>>
      /\ \/ UNCHANGED pending
         \/ /\ callConn[r] \in Conns
            /\ pending' = [pending EXCEPT ![callConn[r]] = Without(@, r)]
    BY DEF Caller, LookUp, Notify, ReceiveReply, SeeDone, ContextDone, Cancel, ConnectionKnown
<1>2. \A s \in Requests : Called(s) => Called(s)' /\ callConn'[s] = callConn[s]
    BY DEF Caller, LookUp, Notify, ReceiveReply, SeeDone, ContextDone, Cancel, Called, Return
<1>3. \A c \in Conns : Distinct(pending[c]) /\ pending[c] \in Seq(Requests)
    BY DEF PromptInv, QueueInv
<1>4. \A c \in Conns : Elements(pending'[c]) \subseteq Elements(pending[c]) /\ Distinct(pending'[c])
    <2>1. CASE UNCHANGED pending
        BY <1>3, <2>1
    <2>2. CASE /\ callConn[r] \in Conns
               /\ pending' = [pending EXCEPT ![callConn[r]] = Without(@, r)]
        <3>. SUFFICES ASSUME NEW c \in Conns
                      PROVE  Elements(pending'[c]) \subseteq Elements(pending[c]) /\ Distinct(pending'[c])
            OBVIOUS
        <3>1. CASE c = callConn[r]
            <4>1. pending'[c] = Without(pending[c], r)
                BY <2>2, <3>1
            <4>. QED BY <1>3, <4>1, WithoutQueue
        <3>2. CASE c # callConn[r]
            BY <1>3, <2>2, <3>2
        <3>. QED BY <3>1, <3>2
    <2>. QED BY <1>1, <2>1, <2>2
<1>5. \A c \in Conns : handler[c] \in {"deliver", "reply", "wake"} => Answered(dlv[c].req)
    BY DEF PromptInv, PromptStateInv
<1>. QED BY <1>1, <1>2, <1>4, <1>5 DEF Recedes, Running

\* Of the pump's steps PumpTake and PumpSend move a request forward.
LEMMA PumpRecedes ==
    ASSUME TypeInv, PromptInv, NEW c \in Conns, PumpIdle(c) \/ PumpWake(c) \/ PumpStop(c)
    PROVE  Recedes
<1>1. /\ UNCHANGED <<pumpKeeps, pending, inflight, nextReq>>
      /\ picked' = picked \/ picked' = [picked EXCEPT ![c] = None]
    BY DEF PumpIdle, PumpWake, PumpStop, pumpKeeps, queueVars
<1>2. \A b \in Conns : Distinct(pending[b])
    BY DEF PromptInv, QueueInv
<1>3. \A b \in Conns : handler[b] \in {"deliver", "reply", "wake"} => Answered(dlv[b].req)
    BY DEF PromptInv, PromptStateInv
<1>. QED BY <1>1, <1>2, <1>3
         DEF Recedes, Running, Called, TypeInv, TypeOK, pumpKeeps, callVars, loopVars, wireVars

\* A step of one handler that touches no queue.
LEMMA HandlerRecedes ==
    ASSUME TypeInv, PromptInv, NEW c \in Conns,
           UNCHANGED <<pending, inflight, prompt, callVars, picked>>,
           nextReq' = nextReq \/ nextReq' = [nextReq EXCEPT ![c] = None],
           \A b \in Conns \ {c} : handler'[b] = handler[b] /\ dlv'[b] = dlv[b],
           Running(c)' => Running(c),
           handler[c] \in {"drain", "closed"} => handler'[c] \in {"drain", "closed"},
           handler'[c] \in {"deliver", "reply", "wake"} => Answered(dlv'[c].req)
    PROVE  Recedes
<1>1. \A b \in Conns : Distinct(pending[b])
    BY DEF PromptInv, QueueInv
<1>2. \A b \in Conns : handler[b] \in {"deliver", "reply", "wake"} => Answered(dlv[b].req)
    BY DEF PromptInv, PromptStateInv
<1>. QED BY <1>1, <1>2 DEF Recedes, Running, Called, TypeInv, TypeOK, callVars

\* Of the main loop's steps only SendPrompt moves a request forward.
LEMMA LoopRecedes ==
    ASSUME TypeInv, PromptInv, NEW c \in Conns, Loop(c), ~SendPrompt(c)
    PROVE  Recedes
<1>. USE DEF TypeInv, TypeOK, Running, loopKeeps, pumpVars, queueVars, wireVars,
             MoveHandler, LeaveLoop
<1>0. \A b \in Conns : handler[b] \in {"deliver", "reply", "wake"} => Answered(dlv[b].req)
    BY DEF PromptInv, PromptStateInv
<1>1. CASE WriteFails(c) \/ Disconnect(c)
    BY <1>1, HandlerRecedes DEF WriteFails, Disconnect
<1>2. CASE DropAnswer(c)
    BY <1>0, <1>2, HandlerRecedes DEF DropAnswer
<1>3. CASE RouteAnswer(c)
    <2>1. CASE UNCHANGED <<handler, dlv>>
        BY <1>0, <1>3, <2>1, HandlerRecedes DEF RouteAnswer
    <2>2. CASE ~UNCHANGED <<handler, dlv>>
        <3>1. PICK r \in inbound[c] :
                 /\ prompt[r] \in {"sig", "reject"}
                 /\ handler' = [handler EXCEPT ![c] = "deliver"]
                 /\ dlv' = [dlv EXCEPT ![c] =
                               [to |-> hub[ConnDid[c]], req |-> r, ans |-> prompt[r]]]
            BY <1>3, <2>2 DEF RouteAnswer
        <3>2. dlv'[c].req = r
            BY <3>1
        <3>3. Answered(dlv'[c].req)
            BY <3>1, <3>2 DEF Answered
        <3>4. handler[c] = "loop"
            BY <1>3 DEF RouteAnswer
        <3>5. UNCHANGED <<pending, inflight, prompt, callVars, picked, nextReq>>
            BY <1>3 DEF RouteAnswer
        <3>6. \A b \in Conns \ {c} : handler'[b] = handler[b] /\ dlv'[b] = dlv[b]
            BY <3>1
        <3>7. handler'[c] = "deliver"
            BY <3>1
        <3>. QED BY <3>3, <3>4, <3>5, <3>6, <3>7, HandlerRecedes
    <2>. QED BY <2>1, <2>2
<1>4. CASE TakeInflight(c)
    <2>. DEFINE to == dlv[c].to
                r == dlv[c].req
    <2>1. handler[c] = "deliver" /\ Answered(r)
        BY <1>0, <1>4 DEF TakeInflight
    <2>2. CASE r \notin inflight[to]
        BY <1>4, <2>1, <2>2, HandlerRecedes DEF TakeInflight
    <2>3. CASE r \in inflight[to]
        <3>1. /\ inflight' = [inflight EXCEPT ![to] = @ \ {r}]
              /\ handler' = [handler EXCEPT ![c] = "reply"]
              /\ UNCHANGED <<pending, prompt, callVars, picked, nextReq, dlv>>
            BY <1>4, <2>3 DEF TakeInflight
        <3>. HIDE DEF to, r
        <3>2. \A b \in Conns : /\ inflight'[b] \subseteq inflight[b]
                               /\ \A s \in inflight[b] \ inflight'[b] : s = r
            BY <3>1
        <3>3. \A b \in Conns : Distinct(pending[b])
            BY DEF PromptInv, QueueInv
        <3>4. \A b \in Conns : handler'[b] \in {"deliver", "reply", "wake"} => Answered(dlv[b].req)
            BY <1>0, <2>1, <3>1 DEF r
        <3>5. \A b \in Conns :
                 /\ Running(b)' => Running(b)
                 /\ handler[b] \in {"drain", "closed"} => handler'[b] \in {"drain", "closed"}
            BY <2>1, <3>1
        <3>6. \A s \in Requests : Called(s) => Called(s)' /\ callConn'[s] = callConn[s]
            BY <3>1 DEF Called, callVars
        <3>. QED BY <2>1, <3>1, <3>2, <3>3, <3>4, <3>5, <3>6 DEF Recedes
    <2>. QED BY <2>2, <2>3
<1>5. CASE SendReply(c)
    BY <1>0, <1>5, HandlerRecedes DEF SendReply
<1>6. CASE WakePump(c)
    BY <1>6, HandlerRecedes DEF WakePump
<1>. QED BY <1>1, <1>2, <1>3, <1>4, <1>5, <1>6 DEF Loop

\* Tearing a connection down moves no request forward.
LEMMA TeardownRecedes ==
    ASSUME TypeInv, PromptInv, NEW c \in Conns, Teardown(c)
    PROVE  Recedes
<1>. USE DEF TypeInv, TypeOK, Running, teardownKeeps, pumpVars, MoveHandler
<1>0. /\ \A b \in Conns : handler[b] \in {"deliver", "reply", "wake"} => Answered(dlv[b].req)
      /\ \A b \in Conns : Distinct(pending[b]) /\ pending[b] \in Seq(Requests)
    BY DEF PromptInv, PromptStateInv, QueueInv
<1>1. CASE Unregister(c) \/ FailAllLock(c) \/ FailAllDone(c)
    BY <1>1, HandlerRecedes DEF Unregister, FailAllLock, FailAllDone
<1>2. CASE FailInflight(c)
    BY <1>0, <1>2 DEF FailInflight, Recedes, Called, callVars
<1>3. CASE FailPending(c)
    <2>1. \A b \in Conns : /\ Elements(pending'[b]) \subseteq Elements(pending[b])
                           /\ Distinct(pending'[b])
        BY <1>0, <1>3, TailQueue DEF FailPending
    <2>. QED BY <1>0, <1>3, <2>1 DEF FailPending, Recedes, Called, callVars
<1>. QED BY <1>1, <1>2, <1>3 DEF Teardown

\* Opening, expiring or losing a connection moves no request forward.
LEMMA WireRecedes ==
    ASSUME TypeInv, PromptInv, NEW c \in Conns, Connect(c) \/ TokenExpires(c) \/ Drop(c)
    PROVE  Recedes
<1>. USE DEF TypeInv, TypeOK, Running, loopKeeps, pumpVars, queueVars, loopVars,
             MoveHandler, LeaveLoop
<1>1. CASE Connect(c)
    BY <1>1, HandlerRecedes DEF Connect
<1>2. CASE TokenExpires(c)
    BY <1>2, HandlerRecedes DEF TokenExpires
<1>3. CASE Drop(c)
    <2>1. \A b \in Conns : handler[b] \in {"deliver", "reply", "wake"} => Answered(dlv[b].req)
        BY DEF PromptInv, PromptStateInv
    <2>. QED BY <1>3, <2>1, HandlerRecedes DEF Drop
<1>. QED BY <1>1, <1>2, <1>3

\* A call joins the queue of its connection.
LEMMA EnqueuePrompt ==
    ASSUME TypeInv, PromptInv, NEW r \in Requests, Enqueue(r)
    PROVE  PromptInv'
<1>. USE DEF TypeInv, TypeOK, PromptInv
<1>. DEFINE c == callConn[r]
<1>1. c \in Conns /\ ~Called(r) /\ call[r] = "enqueue"
    BY DEF Enqueue, ConnectionKnown, Called
<1>2. /\ pending' = [pending EXCEPT ![c] = Append(@, r)]
      /\ call' = [call EXCEPT ![r] = "notify"]
      /\ UNCHANGED <<callConn, inflight, prompt, handler, dlv, nextReq, picked>>
    BY DEF Enqueue, callerKeeps, loopVars, wireVars, pumpVars
<1>3. /\ prompt[r] = "unsent"
      /\ \A b \in Conns : r \notin inflight[b] /\ r \notin Elements(pending[b])
    BY <1>1 DEF PromptStateInv, QueueInv, FlightInv
<1>4. \A s \in Requests : Called(s)' <=> (Called(s) \/ s = r)
    BY <1>2 DEF Called
<1>. HIDE DEF c
<1>5. /\ pending[c] \in Seq(Requests)
      /\ pending'[c] = Append(pending[c], r)
      /\ \A b \in Conns \ {c} : pending'[b] = pending[b]
    BY <1>1, <1>2
<1>6. /\ Elements(pending'[c]) = Elements(pending[c]) \cup {r}
      /\ Distinct(pending'[c])
    BY <1>1, <1>3, <1>5, AppendQueue DEF QueueInv
<1>7. \A b \in Conns : Elements(pending[b]) \subseteq Requests
    BY DEF Elements
<1>8. QueueInv'
    <2>. SUFFICES ASSUME NEW b \in Conns
                  PROVE  /\ Distinct(pending'[b])
                         /\ \A s \in Elements(pending'[b]) :
                               /\ Called(s)' /\ callConn'[s] = b
                               /\ prompt'[s] = "unsent"
                               /\ \A e \in Conns : s \notin inflight'[e]
        BY DEF QueueInv
    <2>1. Distinct(pending'[b])
        BY <1>5, <1>6 DEF QueueInv
    <2>2. ASSUME NEW s \in Elements(pending'[b])
          PROVE  /\ Called(s)' /\ callConn'[s] = b
                 /\ prompt'[s] = "unsent"
                 /\ \A e \in Conns : s \notin inflight'[e]
        <3>1. CASE b = c /\ s = r
            BY <1>2, <1>3, <1>4, <3>1 DEF c
        <3>2. CASE ~(b = c /\ s = r)
            <4>0. s \in Elements(pending[b])
                <5>1. CASE b = c
                    BY <1>6, <2>2, <3>2, <5>1
                <5>2. CASE b # c
                    BY <1>5, <2>2, <5>2
                <5>. QED BY <5>1, <5>2
            <4>1. s \in Elements(pending[b]) /\ s \in Requests
                BY <1>7, <4>0
            <4>2. /\ Called(s) /\ callConn[s] = b /\ prompt[s] = "unsent"
                  /\ \A e \in Conns : s \notin inflight[e]
                BY <4>1 DEF QueueInv
            <4>. QED BY <1>2, <1>4, <4>1, <4>2
        <3>. QED BY <3>1, <3>2
    <2>. QED BY <2>1, <2>2
<1>9. FlightInv'
    <2>1. \A b \in Conns : \A s \in inflight[b] : s \in Requests
        OBVIOUS
    <2>. QED BY <1>2, <1>4, <2>1 DEF FlightInv
<1>10. HandOverInv'
    BY <1>2 DEF HandOverInv, Running
<1>11. PromptStateInv'
    BY <1>2, <1>4 DEF PromptStateInv, Answered
<1>. QED BY <1>8, <1>9, <1>10, <1>11

\* The pump takes the head of the queue when nothing is in flight.
LEMMA TakePrompt ==
    ASSUME TypeInv, PromptInv, NEW c \in Conns, PumpTake(c)
    PROVE  PromptInv'
<1>. USE DEF TypeInv, TypeOK, PromptInv
<1>. DEFINE r == Head(pending[c])
<1>1. /\ inflight[c] = {}
      /\ pending[c] # <<>>
      /\ pending' = [pending EXCEPT ![c] = Tail(@)]
      /\ inflight' = [inflight EXCEPT ![c] = {r}]
      /\ picked' = [picked EXCEPT ![c] = r]
      /\ UNCHANGED <<call, callConn, prompt, handler, dlv, nextReq>>
    BY DEF PumpTake, MayTake, pumpKeeps, callVars, loopVars, wireVars
<1>2. /\ r \in Elements(pending[c])
      /\ Elements(pending'[c]) \subseteq Elements(pending[c])
      /\ Distinct(pending'[c]) /\ r \notin Elements(pending'[c])
    BY <1>1, TailQueue DEF QueueInv
<1>3. \A b \in Conns : Elements(pending[b]) \subseteq Requests
    BY DEF Elements
<1>4. /\ r \in Requests /\ Called(r) /\ callConn[r] = c /\ prompt[r] = "unsent"
    BY <1>2, <1>3 DEF QueueInv
<1>. HIDE DEF r
<1>5. \A b \in Conns \ {c} : /\ pending'[b] = pending[b]
                             /\ inflight'[b] = inflight[b]
                             /\ picked'[b] = picked[b]
    BY <1>1
<1>6. inflight'[c] = {r} /\ picked'[c] = r
    BY <1>1
<1>7. QueueInv'
    <2>. SUFFICES ASSUME NEW b \in Conns
                  PROVE  /\ Distinct(pending'[b])
                         /\ \A s \in Elements(pending'[b]) :
                               /\ Called(s)' /\ callConn'[s] = b
                               /\ prompt'[s] = "unsent"
                               /\ \A e \in Conns : s \notin inflight'[e]
        BY DEF QueueInv
    <2>1. Distinct(pending'[b])
        BY <1>2, <1>5 DEF QueueInv
    <2>2. ASSUME NEW s \in Elements(pending'[b])
          PROVE  /\ Called(s)' /\ callConn'[s] = b
                 /\ prompt'[s] = "unsent"
                 /\ \A e \in Conns : s \notin inflight'[e]
        <3>1. s \in Elements(pending[b])
            BY <1>2, <1>5, <2>2
        <3>2. /\ Called(s) /\ callConn[s] = b /\ prompt[s] = "unsent"
              /\ \A e \in Conns : s \notin inflight[e]
            BY <3>1 DEF QueueInv
        <3>3. s # r
            BY <1>2, <1>4, <2>2, <3>2
        <3>. QED BY <1>1, <1>5, <1>6, <3>2, <3>3 DEF Called
    <2>. QED BY <2>1, <2>2
<1>8. FlightInv'
    BY <1>1, <1>4, <1>5, <1>6 DEF FlightInv, Called
<1>9. HandOverInv'
    <2>1. Running(c) => nextReq[c] = None
        BY <1>1 DEF HandOverInv
    <2>2. ASSUME NEW b \in Conns, Running(b)'
          PROVE  /\ nextReq'[b] # None =>
                       nextReq'[b] \in inflight'[b] /\ prompt'[nextReq'[b]] = "unsent"
                 /\ picked'[b] # None =>
                       /\ picked'[b] \in inflight'[b] /\ prompt'[picked'[b]] = "unsent"
                       /\ nextReq'[b] = None
        <3>1. Running(b)
            BY <1>1, <2>2 DEF Running
        <3>2. CASE b = c
            BY <1>1, <1>4, <1>6, <2>1, <3>1, <3>2
        <3>3. CASE b # c
            BY <1>1, <1>5, <3>1, <3>3 DEF HandOverInv
        <3>. QED BY <3>2, <3>3
    <2>. QED BY <2>2 DEF HandOverInv
<1>10. PromptStateInv'
    <2>1. \A s \in Requests : prompt[s] = "sent" => callConn[s] # c \/ handler[c] \in {"drain", "closed"}
        BY <1>1 DEF PromptStateInv
    <2>. QED BY <1>1, <1>5, <2>1 DEF PromptStateInv, Called, Answered
<1>. QED BY <1>7, <1>8, <1>9, <1>10

\* The pump hands the request it took to the main loop.
LEMMA HandOverPrompt ==
    ASSUME TypeInv, PromptInv, NEW c \in Conns, PumpSend(c)
    PROVE  PromptInv'
<1>. USE DEF TypeInv, TypeOK, PromptInv
<1>1. /\ nextReq[c] = None
      /\ nextReq' = [nextReq EXCEPT ![c] = picked[c]]
      /\ picked' = [picked EXCEPT ![c] = None]
      /\ UNCHANGED <<call, callConn, prompt, handler, dlv, pending, inflight>>
    BY DEF PumpSend, pumpKeeps, callVars, loopVars, wireVars, queueVars
<1>2. QueueInv' /\ FlightInv'
    BY <1>1 DEF QueueInv, FlightInv, Called
<1>3. PromptStateInv'
    BY <1>1 DEF PromptStateInv, Called, Answered
<1>4. HandOverInv'
    BY <1>1 DEF HandOverInv, Running
<1>. QED BY <1>2, <1>3, <1>4

\* The main loop writes a prompt to the socket.
LEMMA ShowPrompt ==
    ASSUME TypeInv, PromptInv, NEW c \in Conns, SendPrompt(c)
    PROVE  PromptInv'
<1>. USE DEF TypeInv, TypeOK, PromptInv
<1>. DEFINE r == nextReq[c]
<1>1. /\ r # None
      /\ Running(c)
      /\ nextReq' = [nextReq EXCEPT ![c] = None]
      /\ prompt' = prompt \/ prompt' = [prompt EXCEPT ![r] = "sent"]
      /\ UNCHANGED <<call, callConn, handler, dlv, pending, inflight, picked>>
    BY DEF SendPrompt, Running, loopKeeps, callVars, pumpVars, queueVars
<1>2. r \in inflight[c] /\ prompt[r] = "unsent" /\ picked[c] = None
    BY <1>1 DEF HandOverInv
<1>3. r \in Requests /\ Called(r) /\ callConn[r] = c
    BY <1>2 DEF FlightInv
<1>. HIDE DEF r
<1>4. \A s \in Requests \ {r} : prompt'[s] = prompt[s]
    BY <1>1
<1>5. prompt'[r] \in {"unsent", "sent"}
    BY <1>1, <1>2, <1>3
<1>6. QueueInv'
    <2>1. \A b \in Conns : \A s \in Elements(pending[b]) : s \in Requests
        BY DEF Elements
    <2>2. \A b \in Conns : \A s \in Elements(pending[b]) : s # r
        BY <1>2 DEF QueueInv
    <2>. QED BY <1>1, <1>4, <2>1, <2>2 DEF QueueInv, Called
<1>7. FlightInv'
    BY <1>1 DEF FlightInv, Called
<1>8. HandOverInv'
    <2>1. ASSUME NEW b \in Conns, b # c, Running(b)
          PROVE  (nextReq[b] # None => nextReq[b] # r) /\ (picked[b] # None => picked[b] # r)
        BY <1>3, <2>1 DEF HandOverInv, FlightInv
    <2>2. ASSUME NEW b \in Conns, Running(b)'
          PROVE  /\ nextReq'[b] # None =>
                       nextReq'[b] \in inflight'[b] /\ prompt'[nextReq'[b]] = "unsent"
                 /\ picked'[b] # None =>
                       /\ picked'[b] \in inflight'[b] /\ prompt'[picked'[b]] = "unsent"
                       /\ nextReq'[b] = None
        <3>1. Running(b)
            BY <1>1, <2>2 DEF Running
        <3>2. CASE b = c
            BY <1>1, <1>2, <3>2
        <3>3. CASE b # c
            BY <1>1, <1>4, <2>1, <3>1, <3>3 DEF HandOverInv
        <3>. QED BY <3>2, <3>3
    <2>. QED BY <2>2 DEF HandOverInv
<1>9. PromptStateInv'
    <2>1. \A b \in Conns : handler[b] \in {"deliver", "reply", "wake"} =>
                              dlv[b].req \in Requests /\ dlv[b].req # r
        BY <1>2 DEF PromptStateInv, Answered, DeliveryKnown, Deliveries
    <2>. QED BY <1>1, <1>2, <1>3, <1>4, <2>1 DEF PromptStateInv, Called, Answered
<1>. QED BY <1>6, <1>7, <1>8, <1>9

\* The signer answers an open prompt.
LEMMA AnswerPrompt ==
    ASSUME TypeInv, PromptInv, NEW c \in Conns, Answer(c)
    PROVE  PromptInv'
<1>. USE DEF TypeInv, TypeOK, PromptInv
<1>1. PICK r \in Requests, v \in Verdicts :
          prompt[r] = "sent" /\ prompt' = [prompt EXCEPT ![r] = v]
    BY DEF Answer
<1>2. UNCHANGED <<call, callConn, handler, dlv, pending, inflight, nextReq, picked>>
    BY DEF Answer, loopKeeps, callVars, pumpVars, queueVars, loopVars
<1>3. /\ prompt'[r] \in {"sig", "bad", "reject"}
      /\ \A s \in Requests \ {r} : prompt'[s] = prompt[s]
    BY <1>1, VerdictsAssumption
<1>4. QueueInv' /\ FlightInv'
    <2>1. \A b \in Conns : \A s \in Elements(pending[b]) : s \in Requests
        BY DEF Elements
    <2>2. \A b \in Conns : \A s \in Elements(pending[b]) : s # r
        BY <1>1 DEF QueueInv
    <2>. QED BY <1>2, <1>3, <2>1, <2>2 DEF QueueInv, FlightInv, Called
<1>5. HandOverInv'
    BY <1>1, <1>2, <1>3 DEF HandOverInv, Running
<1>6. PromptStateInv'
    <2>1. \A b \in Conns : handler[b] \in {"deliver", "reply", "wake"} => dlv[b].req \in Requests
        BY DEF DeliveryKnown, Deliveries
    <2>. QED BY <1>1, <1>2, <1>3, <2>1 DEF PromptStateInv, Called, Answered
<1>. QED BY <1>4, <1>5, <1>6

\* The path of a request from queue to signer is kept by every step.
LEMMA PromptStep == TypeInv /\ PromptInv /\ [Next]_vars => PromptInv'
<1>. SUFFICES ASSUME TypeInv, PromptInv, [Next]_vars PROVE PromptInv'
    OBVIOUS
<1>1. ASSUME NEW r \in Requests, Caller(r) PROVE PromptInv'
    BY <1>1, CallerRecedes, RecedingStep, EnqueuePrompt
<1>2. ASSUME NEW c \in Conns, Pump(c) PROVE PromptInv'
    BY <1>2, PumpRecedes, RecedingStep, TakePrompt, HandOverPrompt DEF Pump
<1>3. ASSUME NEW c \in Conns, Loop(c) PROVE PromptInv'
    BY <1>3, LoopRecedes, RecedingStep, ShowPrompt
<1>4. ASSUME NEW c \in Conns, Teardown(c) PROVE PromptInv'
    BY <1>4, TeardownRecedes, RecedingStep
<1>5. ASSUME NEW c \in Conns, Connect(c) \/ TokenExpires(c) \/ Drop(c) PROVE PromptInv'
    BY <1>5, WireRecedes, RecedingStep
<1>6. ASSUME NEW c \in Conns, Answer(c) PROVE PromptInv'
    BY <1>6, AnswerPrompt
<1>7. CASE UNCHANGED vars
    BY <1>7 DEF PromptInv, QueueInv, FlightInv, HandOverInv, PromptStateInv, Called,
                Answered, Running, vars, callVars, pumpVars, queueVars, loopVars, wireVars
<1>. QED BY <1>1, <1>2, <1>3, <1>4, <1>5, <1>6, <1>7 DEF Next

\* Before the first call no request is anywhere on that path.
LEMMA PromptInit == Init => PromptInv
BY NoneAssumption DEF Init, PromptInv, QueueInv, FlightInv, HandOverInv, PromptStateInv,
       Called, Answered, Running, Elements, Distinct

\* A connection never has two prompts open at its signer.
THEOREM OnePromptAtATime == Spec => []OnePromptPerConnection
<1>1. PromptInv => OnePromptPerConnection
    <2>. SUFFICES ASSUME PromptInv, NEW r \in Requests, NEW s \in Requests,
                         prompt[r] = "sent", prompt[s] = "sent",
                         callConn[r] = callConn[s],
                         handler[callConn[r]] \notin {"drain", "closed"}
                  PROVE  r = s
        BY DEF OnePromptPerConnection
    <2>1. callConn[r] \in Conns /\ r \in inflight[callConn[r]] /\ s \in inflight[callConn[r]]
        BY DEF PromptInv, PromptStateInv
    <2>. QED BY <2>1 DEF PromptInv, FlightInv
<1>. QED BY TypeInit, TypeStep, PromptInit, PromptStep, <1>1, PTL DEF Spec

-----------------------------------------------------------------------------
(* No request is lost.                                                     *)

Waiting(r) == call[r] \in {"notify", "wait"}

\* Somebody will find the request of r: it is queued, inflight, on its way
\* back, or answered.
Findable(r) ==
    \/ r \in Elements(pending[callConn[r]])
    \/ r \in inflight[callConn[r]]
    \/ reply[r] # "empty"
    \/ \E b \in Conns : handler[b] = "reply" /\ dlv[b].req = r

\* NoLostRequest in the words of Elements.
LEMMA Findings ==
    NoLostRequest <=> \A r \in Requests : Waiting(r) /\ ~done[callConn[r]] => Findable(r)
BY DEF NoLostRequest, Waiting, Findable, Queued, Elements

\* Cutting r out of a queue leaves everything else in it, and r no more when
\* it was there once.
LEMMA WithoutElements ==
    ASSUME NEW S, NEW s \in Seq(S), NEW r, Distinct(s)
    PROVE  Elements(Without(s, r)) = Elements(s) \ {r}
<1>1. CASE \E i \in 1..Len(s) : s[i] = r
    <2>. DEFINE i == CHOOSE i \in 1..Len(s) : s[i] = r /\ \A j \in 1..(i - 1) : s[j] # r
    <2>. DEFINE t == [j \in 1..(Len(s) - 1) |-> IF j < i THEN s[j] ELSE s[j + 1]]
    <2>. DEFINE at(j) == IF j < i THEN j ELSE j + 1
    <2>1. Len(s) \in Nat \ {0} /\ Len(s) - 1 \in Nat
        BY <1>1
    <2>2. Without(s, r) = t
        BY <1>1 DEF Without
    <2>3. i \in 1..Len(s) /\ s[i] = r
        <3>1. PICK n \in 1..Len(s) : s[n] = r
            BY <1>1
        <3>2. \A j \in 1..(n - 1) : s[j] # r
            BY <2>1, <3>1 DEF Distinct
        <3>. QED BY <3>1, <3>2
    <2>. HIDE DEF i
    <2>4. \A j \in 1..(Len(s) - 1) : at(j) \in 1..Len(s) /\ at(j) # i /\ t[j] = s[at(j)]
        BY <2>1, <2>3
    <2>5. Len(t) = Len(s) - 1
        BY <2>1
    <2>6. \A n \in 1..Len(s) : n # i => \E j \in 1..(Len(s) - 1) : at(j) = n
        <3>. SUFFICES ASSUME NEW n \in 1..Len(s), n # i
                      PROVE  \E j \in 1..(Len(s) - 1) : at(j) = n
            OBVIOUS
        <3>1. CASE n < i
            <4>1. n \in 1..(Len(s) - 1) /\ at(n) = n
                BY <2>1, <2>3, <3>1
            <4>. QED BY <4>1
        <3>2. CASE n > i
            <4>1. n - 1 \in 1..(Len(s) - 1) /\ at(n - 1) = n
                BY <2>1, <2>3, <3>2
            <4>. QED BY <4>1
        <3>. QED BY <2>1, <2>3, <3>1, <3>2
    <2>. HIDE DEF t, at
    <2>7. \A n \in 1..Len(s) : n # i => s[n] # r
        BY <2>3 DEF Distinct
    <2>8. Elements(t) \subseteq Elements(s) \ {r}
        BY <2>4, <2>5, <2>7 DEF Elements
    <2>9. Elements(s) \ {r} \subseteq Elements(t)
        <3>. SUFFICES ASSUME NEW n \in 1..Len(s), s[n] # r PROVE s[n] \in Elements(t)
            BY DEF Elements
        <3>1. PICK j \in 1..(Len(s) - 1) : at(j) = n
            BY <2>3, <2>6
        <3>. QED BY <2>4, <2>5, <3>1 DEF Elements
    <2>. QED BY <2>2, <2>8, <2>9
<1>2. CASE ~(\E i \in 1..Len(s) : s[i] = r)
    BY <1>2 DEF Without, Elements
<1>. QED BY <1>1, <1>2

\* The tail of a queue has everything but its head.
LEMMA TailElements ==
    ASSUME NEW S, NEW s \in Seq(S), s # <<>>
    PROVE  Elements(s) = Elements(Tail(s)) \cup {Head(s)}
<1>. DEFINE t == Tail(s)
<1>1. Len(s) \in Nat \ {0} /\ Len(t) = Len(s) - 1 /\ Head(s) = s[1]
    OBVIOUS
<1>2. \A i \in 1..Len(t) : t[i] = s[i + 1] /\ i + 1 \in 1..Len(s)
    OBVIOUS
<1>3. \A n \in 1..Len(s) : n = 1 \/ (n - 1 \in 1..Len(t) /\ t[n - 1] = s[n])
    OBVIOUS
<1>. HIDE DEF t
<1>4. Elements(s) \subseteq Elements(t) \cup {s[1]}
    BY <1>3 DEF Elements
<1>5. Elements(t) \cup {s[1]} \subseteq Elements(s)
    BY <1>1, <1>2 DEF Elements
<1>. QED BY <1>1, <1>4, <1>5 DEF t

\* What keeps a waiting request findable: done channels stay closed, a call
\* that waits either was waiting and can still be found, or has just joined.
LEMMA FindableStep ==
    ASSUME TypeInv, NoLostRequest,
           \A c \in Conns : done[c] => done'[c],
           \A r \in Requests : Waiting(r)' =>
               \/ Findable(r)'
               \/ Waiting(r) /\ callConn'[r] = callConn[r] /\ (Findable(r) => Findable(r)')
    PROVE  NoLostRequest'
<1>1. \A r \in Requests : Waiting(r) => callConn[r] \in Conns
    BY DEF TypeInv, ConnectionKnown, Waiting
<1>2. \A r \in Requests : Waiting(r) /\ ~done[callConn[r]] => Findable(r)
    BY Findings
<1>3. \A r \in Requests : Waiting(r)' /\ ~done'[callConn'[r]] => Findable(r)'
    BY <1>1, <1>2
<1>. QED BY <1>3 DEF NoLostRequest, Waiting, Findable, Queued, Elements

\* A step that takes nothing out of a queue, from inflight or from a reply
\* channel, and interrupts no delivery.
LEMMA NothingTaken ==
    ASSUME NEW r \in Requests, UNCHANGED <<pending, inflight, reply>>,
           callConn'[r] = callConn[r],
           \A b \in Conns : handler[b] = "reply" => handler'[b] = "reply" /\ dlv'[b] = dlv[b]
    PROVE  Findable(r) => Findable(r)'
BY DEF Findable

\* The caller's own steps lose neither its request nor another's.
LEMMA CallerFindable ==
    ASSUME TypeInv, PromptInv, NoLostRequest, NEW s \in Requests, Caller(s)
    PROVE  NoLostRequest'
<1>. USE DEF TypeInv, TypeOK, Waiting
<1>0. /\ UNCHANGED <<done, handler, dlv, inflight>>
      /\ \A r \in Requests \ {s} : call'[r] = call[r] /\ callConn'[r] = callConn[r]
    BY DEF Caller, LookUp, Enqueue, Notify, ReceiveReply, SeeDone, ContextDone, Cancel, Return,
           callerKeeps, loopVars, queueVars
<1>1. CASE LookUp(s)
    <2>1. UNCHANGED <<pending, reply>> /\ ~Waiting(s)'
        BY <1>1 DEF LookUp, Return, queueVars
    <2>. QED BY <1>0, <2>1, NothingTaken, FindableStep
<1>2. CASE Enqueue(s)
    <2>. DEFINE c == callConn[s]
    <2>1. /\ c \in Conns
          /\ pending' = [pending EXCEPT ![c] = Append(@, s)]
          /\ UNCHANGED <<reply, callConn>>
        BY <1>2 DEF Enqueue, ConnectionKnown
    <2>. HIDE DEF c
    <2>2. Elements(pending'[c]) = Elements(pending[c]) \cup {s}
        BY <2>1, AppendQueue
    <2>3. \A b \in Conns \ {c} : pending'[b] = pending[b]
        BY <2>1
    <2>4. Findable(s)'
        BY <2>1, <2>2 DEF Findable, c
    <2>5. \A r \in Requests : callConn[r] \in Conns /\ Findable(r) => Findable(r)'
        BY <1>0, <2>1, <2>2, <2>3 DEF Findable
    <2>6. \A r \in Requests : Waiting(r) => callConn[r] \in Conns
        BY DEF ConnectionKnown
    <2>. QED BY <1>0, <2>1, <2>4, <2>5, <2>6, FindableStep
<1>3. CASE Notify(s)
    <2>1. UNCHANGED <<pending, reply, callConn>> /\ Waiting(s)
        BY <1>3 DEF Notify
    <2>. QED BY <1>0, <2>1, NothingTaken, FindableStep
<1>4. CASE ReceiveReply(s)
    <2>1. UNCHANGED <<pending, callConn>> /\ ~Waiting(s)'
        BY <1>4 DEF ReceiveReply, Return, queueVars
    <2>2. \A r \in Requests \ {s} : reply'[r] = reply[r]
        BY <1>4 DEF ReceiveReply
    <2>3. \A r \in Requests \ {s} : Findable(r) => Findable(r)'
        BY <1>0, <2>1, <2>2 DEF Findable
    <2>. QED BY <1>0, <2>1, <2>3, FindableStep
<1>5. CASE SeeDone(s) \/ ContextDone(s)
    <2>1. UNCHANGED <<pending, reply, callConn>> /\ ~Waiting(s)'
        BY <1>5 DEF SeeDone, ContextDone, Return, queueVars
    <2>. QED BY <1>0, <2>1, NothingTaken, FindableStep
<1>6. CASE Cancel(s)
    <2>. DEFINE c == callConn[s]
    <2>1. /\ c \in Conns /\ ~Waiting(s)'
          /\ pending' = [pending EXCEPT ![c] = Without(@, s)]
          /\ UNCHANGED <<reply, callConn>>
        BY <1>6 DEF Cancel, ConnectionKnown, Return
    <2>. HIDE DEF c
    <2>2. Elements(pending'[c]) = Elements(pending[c]) \ {s}
        BY <2>1, WithoutElements DEF PromptInv, QueueInv
    <2>3. \A b \in Conns \ {c} : pending'[b] = pending[b]
        BY <2>1
    <2>4. \A r \in Requests \ {s} : callConn[r] \in Conns /\ Findable(r) => Findable(r)'
        BY <1>0, <2>1, <2>2, <2>3 DEF Findable
    <2>5. \A r \in Requests : Waiting(r) => callConn[r] \in Conns
        BY DEF ConnectionKnown
    <2>. QED BY <1>0, <2>1, <2>4, <2>5, FindableStep
<1>. QED BY <1>1, <1>2, <1>3, <1>4, <1>5, <1>6 DEF Caller

\* The pump moves a request from the queue to inflight in one step.
LEMMA PumpFindable ==
    ASSUME TypeInv, PromptInv, NoLostRequest, NEW c \in Conns, Pump(c)
    PROVE  NoLostRequest'
<1>. USE DEF TypeInv, TypeOK, Waiting
<1>0. UNCHANGED <<done, handler, dlv, reply, call, callConn>>
    BY DEF Pump, PumpTake, PumpIdle, PumpWake, PumpSend, PumpStop, pumpKeeps, loopVars, callVars
<1>1. CASE PumpTake(c)
    <2>. DEFINE s == Head(pending[c])
    <2>1. /\ pending[c] # <<>>
          /\ pending' = [pending EXCEPT ![c] = Tail(@)]
          /\ inflight' = [inflight EXCEPT ![c] = @ \cup {s}]
        BY <1>1 DEF PumpTake, MayTake
    <2>2. Elements(pending[c]) = Elements(Tail(pending[c])) \cup {s}
        BY <2>1, TailElements
    <2>. HIDE DEF s
    <2>3. /\ Elements(pending[c]) \cup inflight[c] \subseteq Elements(pending'[c]) \cup inflight'[c]
          /\ \A b \in Conns \ {c} : pending'[b] = pending[b] /\ inflight'[b] = inflight[b]
        BY <2>1, <2>2
    <2>4. \A r \in Requests : callConn[r] \in Conns /\ Findable(r) => Findable(r)'
        BY <1>0, <2>3 DEF Findable
    <2>5. \A r \in Requests : Waiting(r) => callConn[r] \in Conns
        BY DEF ConnectionKnown
    <2>. QED BY <1>0, <2>4, <2>5, FindableStep
<1>2. CASE PumpIdle(c) \/ PumpWake(c) \/ PumpSend(c) \/ PumpStop(c)
    <2>1. UNCHANGED <<pending, inflight>>
        BY <1>2 DEF PumpIdle, PumpWake, PumpSend, PumpStop, queueVars
    <2>. QED BY <1>0, <2>1, NothingTaken, FindableStep
<1>. QED BY <1>1, <1>2 DEF Pump

\* deliver takes a request out of inflight with its answer in hand, and lets
\* go of the answer only into the reply channel.
LEMMA LoopFindable ==
    ASSUME TypeInv, PromptInv, NoLostRequest, NEW c \in Conns, Loop(c)
    PROVE  NoLostRequest'
<1>. USE DEF TypeInv, TypeOK, Waiting
<1>0. /\ UNCHANGED <<done, pending, call, callConn>>
      /\ \A b \in Conns \ {c} : handler'[b] = handler[b] /\ dlv'[b] = dlv[b]
    BY DEF Loop, SendPrompt, WriteFails, DropAnswer, RouteAnswer, TakeInflight, SendReply,
           WakePump, Disconnect, LeaveLoop, MoveHandler, loopKeeps, callVars, queueVars
<1>1. CASE SendPrompt(c) \/ DropAnswer(c) \/ RouteAnswer(c) \/ WakePump(c) \/ Disconnect(c)
    <2>1. UNCHANGED <<inflight, reply>> /\ handler[c] # "reply"
        BY <1>1 DEF SendPrompt, DropAnswer, RouteAnswer, WakePump, Disconnect, queueVars
    <2>. QED BY <1>0, <2>1, NothingTaken, FindableStep
<1>2. CASE WriteFails(c)
    <2>1. /\ UNCHANGED inflight /\ handler[c] # "reply"
          /\ reply' = [reply EXCEPT ![nextReq[c]] = "connErr"]
        BY <1>2 DEF WriteFails, queueVars
    <2>2. \A r \in Requests : reply[r] # "empty" => reply'[r] # "empty"
        BY <2>1
    <2>3. \A r \in Requests : Findable(r) => Findable(r)'
        BY <1>0, <2>1, <2>2 DEF Findable
    <2>. QED BY <1>0, <2>3, FindableStep
<1>3. CASE TakeInflight(c)
    <2>. DEFINE to == dlv[c].to
                s == dlv[c].req
    <2>1. handler[c] = "deliver" /\ UNCHANGED reply
        BY <1>3 DEF TakeInflight
    <2>2. CASE s \in inflight[to]
        <3>1. /\ inflight' = [inflight EXCEPT ![to] = @ \ {s}]
              /\ handler' = [handler EXCEPT ![c] = "reply"]
              /\ UNCHANGED dlv
            BY <1>3, <2>2 DEF TakeInflight, MoveHandler
        <3>2. handler'[c] = "reply" /\ dlv'[c].req = s
            BY <3>1
        <3>. HIDE DEF to, s
        <3>3. \A b \in Conns : inflight[b] \subseteq inflight'[b] \cup {s}
            BY <3>1
        <3>4. ASSUME NEW r \in Requests, callConn[r] \in Conns, Findable(r) PROVE Findable(r)'
            <4>1. callConn'[r] = callConn[r] /\ reply'[r] = reply[r]
                BY <1>0, <2>1
            <4>2. pending'[callConn[r]] = pending[callConn[r]]
                BY <1>0
            <4>3. r \in inflight[callConn[r]] => r \in inflight'[callConn[r]] \/ r = s
                BY <3>3, <3>4
            <4>4. ASSUME NEW b \in Conns, handler[b] = "reply", dlv[b].req = r
                  PROVE  handler'[b] = "reply" /\ dlv'[b].req = r
                BY <2>1, <3>1, <4>4
            <4>. QED BY <3>2, <3>4, <4>1, <4>2, <4>3, <4>4 DEF Findable
        <3>5. \A r \in Requests : Waiting(r) => callConn[r] \in Conns
            BY DEF ConnectionKnown
        <3>. QED BY <1>0, <3>4, <3>5, FindableStep
    <2>3. CASE s \notin inflight[to]
        <3>1. UNCHANGED inflight
            BY <1>3, <2>3 DEF TakeInflight
        <3>. QED BY <1>0, <2>1, <3>1, NothingTaken, FindableStep
    <2>. QED BY <2>2, <2>3
<1>4. CASE SendReply(c)
    <2>. DEFINE s == dlv[c].req
    <2>1. s \in Requests /\ dlv[c].ans \in {"sig", "reject"}
        BY <1>4 DEF SendReply, DeliveryKnown, Deliveries
    <2>2. /\ reply' = [reply EXCEPT ![s] = dlv[c].ans]
          /\ UNCHANGED inflight
        BY <1>4 DEF SendReply, queueVars
    <2>3. reply'[s] # "empty" /\ \A r \in Requests : reply[r] # "empty" => reply'[r] # "empty"
        BY <2>1, <2>2
    <2>4. \A r \in Requests : Findable(r) => Findable(r)'
        BY <1>0, <2>2, <2>3 DEF Findable
    <2>. QED BY <1>0, <2>4, FindableStep
<1>. QED BY <1>1, <1>2, <1>3, <1>4 DEF Loop

\* failAll answers what it takes from inflight and from the queue.
LEMMA TeardownFindable ==
    ASSUME TypeInv, PromptInv, NoLostRequest, NEW c \in Conns, Teardown(c)
    PROVE  NoLostRequest'
<1>. USE DEF TypeInv, TypeOK, Waiting
<1>0. /\ UNCHANGED <<dlv, call, callConn>>
      /\ \A b \in Conns : done[b] => done'[b]
      /\ \A b \in Conns : handler[b] = "reply" => handler'[b] = "reply"
    BY DEF Teardown, Unregister, FailAllLock, FailInflight, FailPending, FailAllDone,
           MoveHandler, teardownKeeps, callVars
<1>1. CASE Unregister(c) \/ FailAllLock(c) \/ FailAllDone(c)
    <2>1. UNCHANGED <<pending, inflight, reply>>
        BY <1>1 DEF Unregister, FailAllLock, FailAllDone
    <2>. QED BY <1>0, <2>1, NothingTaken, FindableStep
<1>2. CASE FailInflight(c)
    <2>1. PICK s \in inflight[c] : /\ reply' = [reply EXCEPT ![s] = "connErr"]
                                   /\ inflight' = [inflight EXCEPT ![c] = @ \ {s}]
        BY <1>2 DEF FailInflight
    <2>2. UNCHANGED pending
        BY <1>2 DEF FailInflight
    <2>3. reply'[s] # "empty" /\ \A r \in Requests : reply[r] # "empty" => reply'[r] # "empty"
        BY <2>1
    <2>4. \A r \in Requests : Findable(r) => Findable(r)'
        BY <1>0, <2>1, <2>2, <2>3 DEF Findable
    <2>. QED BY <1>0, <2>4, FindableStep
<1>3. CASE FailPending(c)
    <2>. DEFINE s == Head(pending[c])
    <2>1. /\ pending[c] # <<>>
          /\ reply' = [reply EXCEPT ![s] = "connErr"]
          /\ pending' = [pending EXCEPT ![c] = Tail(@)]
          /\ UNCHANGED inflight
        BY <1>3 DEF FailPending
    <2>2. Elements(pending[c]) = Elements(Tail(pending[c])) \cup {s} /\ s \in Requests
        BY <2>1, TailElements
    <2>. HIDE DEF s
    <2>3. reply'[s] # "empty" /\ \A r \in Requests : reply[r] # "empty" => reply'[r] # "empty"
        BY <2>1, <2>2
    <2>4. /\ Elements(pending[c]) = Elements(pending'[c]) \cup {s}
          /\ \A b \in Conns \ {c} : pending'[b] = pending[b]
        BY <2>1, <2>2
    <2>5. \A r \in Requests : callConn[r] \in Conns /\ Findable(r) => Findable(r)'
        BY <1>0, <2>1, <2>3, <2>4 DEF Findable
    <2>6. \A r \in Requests : Waiting(r) => callConn[r] \in Conns
        BY DEF ConnectionKnown
    <2>. QED BY <1>0, <2>5, <2>6, FindableStep
<1>. QED BY <1>1, <1>2, <1>3 DEF Teardown

\* Every step of the hub keeps the request of a waiting call findable.
LEMMA FindableKept == TypeInv /\ PromptInv /\ NoLostRequest /\ [Next]_vars => NoLostRequest'
<1>. SUFFICES ASSUME TypeInv, PromptInv, NoLostRequest, [Next]_vars PROVE NoLostRequest'
    OBVIOUS
<1>1. ASSUME NEW c \in Conns, Connect(c) \/ TokenExpires(c) \/ Drop(c) \/ Answer(c)
      PROVE  NoLostRequest'
    <2>1. /\ UNCHANGED <<pending, inflight, reply, call, callConn, dlv>>
          /\ \A b \in Conns : done[b] => done'[b]
          /\ \A b \in Conns : handler[b] = "reply" => handler'[b] = "reply"
        <3>. USE DEF MoveHandler, loopKeeps, queueVars, callVars, loopVars, TypeInv, TypeOK
        <3>1. CASE Connect(c)
            BY <3>1 DEF Connect, Register
        <3>2. CASE TokenExpires(c)
            BY <3>2 DEF TokenExpires, LeaveLoop
        <3>3. CASE Drop(c) \/ Answer(c)
            BY <3>3 DEF Drop, Answer
        <3>. QED BY <1>1, <3>1, <3>2, <3>3
    <2>. QED BY <2>1, NothingTaken, FindableStep DEF Waiting
<1>2. CASE UNCHANGED vars
    BY <1>2 DEF vars, callVars, pumpVars, queueVars, loopVars, wireVars, NoLostRequest, Queued
<1>. QED BY <1>1, <1>2, CallerFindable, PumpFindable, LoopFindable, TeardownFindable DEF Next

\* While a call waits on a connection that is not done, its request is in the
\* queue, inflight, on its way back, or answered: enqueueing, NextRequest,
\* deliver, failAll and a cancellation beside it never let it slip.
THEOREM RequestsAreFound == Spec => []NoLostRequest
<1>1. Init => NoLostRequest
    BY DEF Init, NoLostRequest
<1>. QED BY TypeInit, TypeStep, PromptInit, PromptStep, FindableKept, <1>1, PTL DEF Spec

-----------------------------------------------------------------------------
(* No wake-up is lost.                                                     *)

\* A connection that has been opened and whose done channel is open is the
\* hub's: only an eviction closes the channel of one that still serves.
GoneIsDone == \A c \in Conns : handler[c] # "idle" /\ ~done[c] => hub[ConnDid[c]] = c

\* A connection beyond Unregister has a closed done channel.
LEMMA LeftIsDone ==
    ASSUME TypeInv, HubInv, GoneIsDone, NEW c \in Conns,
           handler[c] \in {"failAll", "drain", "closed"}
    PROVE  done[c]
<1>. SUFFICES ASSUME ~done[c] PROVE FALSE
    OBVIOUS
<1>1. hub[ConnDid[c]] = c
    BY DEF GoneIsDone
<1>2. ConnDid[c] \in Dids /\ c # None
    BY ConnDidAssumption, NoneAssumption
<1>3. handler[c] \in {"loop", "deliver", "reply", "wake", "unregister"}
    BY <1>1, <1>2 DEF HubInv, HubConnectionIsLive
<1>. QED BY <1>3

\* Register files the connection and closes the one it replaces, Unregister
\* closes the one it takes out of the hub.
LEMMA GoneStep == TypeInv /\ HubInv /\ GoneIsDone /\ [Next]_vars => GoneIsDone'
<1>. SUFFICES ASSUME TypeInv, HubInv, GoneIsDone, [Next]_vars PROVE GoneIsDone'
    OBVIOUS
<1>. USE DEF TypeInv, TypeOK, GoneIsDone
<1>0. ASSUME UNCHANGED <<hub, done>>, \A c \in Conns : handler'[c] # "idle" => handler[c] # "idle"
      PROVE  GoneIsDone'
    BY <1>0
<1>1. ASSUME NEW r \in Requests, Caller(r) PROVE GoneIsDone'
    BY <1>0, <1>1 DEF Caller, LookUp, Enqueue, Notify, ReceiveReply, SeeDone,
                      ContextDone, Cancel, callerKeeps, loopVars
<1>2. ASSUME NEW c \in Conns, Pump(c) PROVE GoneIsDone'
    BY <1>0, <1>2 DEF Pump, PumpTake, PumpIdle, PumpWake, PumpSend, PumpStop,
                      pumpKeeps, loopVars
<1>3. ASSUME NEW c \in Conns, Loop(c) PROVE GoneIsDone'
    <2>1. /\ UNCHANGED <<hub, done>>
          /\ \/ UNCHANGED handler
             \/ /\ handler[c] \in Serving
                /\ \E state \in Serving : MoveHandler(c, state)
        BY <1>3, LoopServes
    <2>. QED BY <1>0, <2>1 DEF Serving, MoveHandler
<1>4. ASSUME NEW c \in Conns, Teardown(c) PROVE GoneIsDone'
    <2>1. CASE Unregister(c)
        <3>1. handler' = [handler EXCEPT ![c] = "failAll"] /\ handler[c] = "unregister"
            BY <2>1 DEF Unregister, MoveHandler
        <3>2. CASE hub[ConnDid[c]] = c
            <4>1. /\ hub' = [hub EXCEPT ![ConnDid[c]] = None]
                  /\ done' = [done EXCEPT ![c] = TRUE]
                BY <2>1, <3>2 DEF Unregister
            <4>. QED BY <3>1, <3>2, <4>1, ConnDidAssumption
        <3>3. CASE hub[ConnDid[c]] # c
            <4>1. UNCHANGED <<hub, done>>
                BY <2>1, <3>3 DEF Unregister
            <4>. QED BY <3>1, <4>1
        <3>. QED BY <3>2, <3>3
    <2>2. CASE FailAllLock(c) \/ FailInflight(c) \/ FailPending(c) \/ FailAllDone(c)
        BY <1>0, <2>2 DEF FailAllLock, FailInflight, FailPending, FailAllDone, MoveHandler
    <2>. QED BY <1>4, <2>1, <2>2 DEF Teardown
<1>5. ASSUME NEW c \in Conns, Connect(c) PROVE GoneIsDone'
    <2>. DEFINE old == hub[ConnDid[c]]
    <2>1. /\ handler[c] = "idle"
          /\ hub' = [hub EXCEPT ![ConnDid[c]] = c]
          /\ handler' = [handler EXCEPT ![c] = "loop"]
          /\ done' = IF old = None THEN done ELSE [done EXCEPT ![old] = TRUE]
        BY <1>5 DEF Connect, Register, MoveHandler
    <2>2. \A b \in Conns : b # c /\ ~done'[b] => ~done[b] /\ b # old
        BY <2>1, NoneAssumption
    <2>. QED BY <2>1, <2>2, ConnDidAssumption
<1>6. ASSUME NEW c \in Conns, TokenExpires(c) \/ Drop(c) \/ Answer(c) PROVE GoneIsDone'
    BY <1>0, <1>6 DEF TokenExpires, LeaveLoop, MoveHandler, Drop, Answer, loopKeeps, loopVars
<1>7. CASE UNCHANGED vars
    BY <1>0, <1>7 DEF vars, loopVars
<1>. QED BY <1>1, <1>2, <1>3, <1>4, <1>5, <1>6, <1>7 DEF Next

\* Somebody has woken the pump of c, is about to, or need not any more.
Awake(c) ==
    \/ notify[c]
    \/ done[c]
    \/ \E r \in Requests : call[r] = "notify" /\ callConn[r] = c
    \/ \E b \in Conns : handler[b] \in {"reply", "wake"} /\ dlv[b].to = c

\* A step keeps NoLostWakeup when each pump either does not come to wait with
\* something to take, or was in that state before and stays awake, or is awake
\* because of the step.
LEMMA AwakeStep ==
    ASSUME NoLostWakeup,
           \A c \in Conns : pump'[c] = "wait" /\ MayTake(c)' =>
               \/ Awake(c)'
               \/ pump[c] = "wait" /\ MayTake(c) /\ (Awake(c) => Awake(c)')
    PROVE  NoLostWakeup'
BY DEF NoLostWakeup, Awake, MayTake

\* A step that leaves notify alone, opens no done channel, and leaves every
\* caller that is about to notify and every delivery where it is.
LEMMA StaysAwake ==
    ASSUME NEW c \in Conns,
           notify[c] => notify'[c], done[c] => done'[c],
           \A r \in Requests : call[r] = "notify" => call'[r] = "notify" /\ callConn'[r] = callConn[r],
           \A b \in Conns : handler[b] \in {"reply", "wake"} =>
                               handler'[b] \in {"reply", "wake"} /\ dlv'[b] = dlv[b]
    PROVE  Awake(c) => Awake(c)'
BY DEF Awake

\* A caller that makes a queue non-empty has its own send on notify to do.
LEMMA CallerWakes ==
    ASSUME TypeInv, NoLostWakeup, NEW s \in Requests, Caller(s)
    PROVE  NoLostWakeup'
<1>. USE DEF TypeInv, TypeOK
<1>0. /\ UNCHANGED <<done, handler, dlv, inflight, pump>>
      /\ \A r \in Requests \ {s} : call'[r] = call[r] /\ callConn'[r] = callConn[r]
    BY DEF Caller, LookUp, Enqueue, Notify, ReceiveReply, SeeDone, ContextDone, Cancel, Return,
           callerKeeps, loopVars, queueVars, pumpVars
<1>1. CASE LookUp(s) \/ ReceiveReply(s) \/ SeeDone(s) \/ ContextDone(s)
    <2>1. UNCHANGED <<notify, pending>> /\ call[s] # "notify"
        BY <1>1 DEF LookUp, ReceiveReply, SeeDone, ContextDone, queueVars
    <2>2. \A c \in Conns : Awake(c) => Awake(c)'
        BY <1>0, <2>1, StaysAwake
    <2>3. \A c \in Conns : MayTake(c)' = MayTake(c)
        BY <1>0, <2>1 DEF MayTake
    <2>. QED BY <1>0, <2>2, <2>3, AwakeStep
<1>2. CASE Enqueue(s)
    <2>0. PICK e \in Conns : e = callConn[s]
        BY <1>2 DEF Enqueue, ConnectionKnown
    <2>1. /\ call[s] # "notify"
          /\ pending' = [pending EXCEPT ![e] = Append(@, s)]
          /\ call' = [call EXCEPT ![s] = "notify"]
          /\ UNCHANGED <<notify, callConn>>
        BY <1>2, <2>0 DEF Enqueue
    <2>2. Awake(e)'
        BY <2>0, <2>1 DEF Awake
    <2>3. \A c \in Conns \ {e} : MayTake(c)' = MayTake(c)
        BY <1>0, <2>1 DEF MayTake
    <2>4. \A c \in Conns : Awake(c) => Awake(c)'
        BY <1>0, <2>1, StaysAwake
    <2>. QED BY <1>0, <2>2, <2>3, <2>4, AwakeStep
<1>3. CASE Notify(s)
    <2>0. PICK e \in Conns : e = callConn[s]
        BY <1>3 DEF Notify, ConnectionKnown
    <2>1. /\ notify' = [notify EXCEPT ![e] = TRUE]
          /\ UNCHANGED <<pending, callConn>>
        BY <1>3, <2>0 DEF Notify
    <2>2. Awake(e)'
        BY <2>1 DEF Awake
    <2>3. \A c \in Conns : MayTake(c)' = MayTake(c)
        BY <1>0, <2>1 DEF MayTake
    <2>4. \A c \in Conns \ {e} : Awake(c) => Awake(c)'
        BY <1>0, <2>0, <2>1 DEF Awake
    <2>. QED BY <1>0, <2>2, <2>3, <2>4, AwakeStep
<1>4. CASE Cancel(s)
    <2>. DEFINE e == callConn[s]
    <2>1. /\ e \in Conns /\ call[s] # "notify"
          /\ pending' = [pending EXCEPT ![e] = Without(@, s)]
          /\ UNCHANGED notify
        BY <1>4 DEF Cancel, ConnectionKnown
    <2>. HIDE DEF e
    <2>2. pending[e] = <<>> => pending'[e] = <<>>
        BY <2>1 DEF Without
    <2>3. \A c \in Conns : MayTake(c)' => MayTake(c)
        BY <1>0, <2>1, <2>2 DEF MayTake
    <2>4. \A c \in Conns : Awake(c) => Awake(c)'
        BY <1>0, <2>1, StaysAwake
    <2>. QED BY <1>0, <2>3, <2>4, AwakeStep
<1>. QED BY <1>1, <1>2, <1>3, <1>4 DEF Caller

\* The pump goes to sleep only after it has seen that it may take nothing.
LEMMA PumpWakes ==
    ASSUME TypeInv, NoLostWakeup, NEW c \in Conns, Pump(c)
    PROVE  NoLostWakeup'
<1>. USE DEF TypeInv, TypeOK
<1>1. /\ UNCHANGED <<done, handler, dlv, call, callConn>>
      /\ \A b \in Conns \ {c} : /\ pump'[b] = pump[b] /\ notify'[b] = notify[b]
                                /\ pending'[b] = pending[b] /\ inflight'[b] = inflight[b]
    BY DEF Pump, PumpTake, PumpIdle, PumpWake, PumpSend, PumpStop, pumpKeeps, loopVars,
           callVars, queueVars
<1>2. ~(pump'[c] = "wait" /\ MayTake(c)')
    BY DEF Pump, PumpTake, PumpIdle, PumpWake, PumpSend, PumpStop, MayTake, queueVars
<1>3. \A b \in Conns \ {c} : MayTake(b)' = MayTake(b) /\ (Awake(b) => Awake(b)')
    BY <1>1 DEF MayTake, Awake
<1>. QED BY <1>1, <1>2, <1>3, AwakeStep

\* A delivery that frees the slot of a connection wakes that connection's pump.
LEMMA LoopWakes ==
    ASSUME TypeInv, NoLostWakeup, NEW c \in Conns, Loop(c)
    PROVE  NoLostWakeup'
<1>. USE DEF TypeInv, TypeOK
<1>0. /\ UNCHANGED <<done, pending, pump, call, callConn>>
      /\ \A b \in Conns \ {c} : handler'[b] = handler[b] /\ dlv'[b] = dlv[b]
    BY DEF Loop, SendPrompt, WriteFails, DropAnswer, RouteAnswer, TakeInflight, SendReply,
           WakePump, Disconnect, LeaveLoop, MoveHandler, loopKeeps, callVars, queueVars, pumpVars
<1>1. CASE SendPrompt(c) \/ WriteFails(c) \/ DropAnswer(c) \/ RouteAnswer(c) \/ Disconnect(c)
    <2>1. UNCHANGED <<inflight, notify>> /\ handler[c] = "loop"
        BY <1>1 DEF SendPrompt, WriteFails, DropAnswer, RouteAnswer, Disconnect, queueVars
    <2>2. \A b \in Conns : MayTake(b)' = MayTake(b) /\ (Awake(b) => Awake(b)')
        BY <1>0, <2>1, StaysAwake DEF MayTake
    <2>. QED BY <1>0, <2>2, AwakeStep
<1>2. CASE TakeInflight(c)
    <2>. DEFINE s == dlv[c].req
    <2>0. dlv[c] \in Deliveries
        BY <1>2 DEF TakeInflight, DeliveryKnown
    <2>00. PICK to \in Conns : to = dlv[c].to
        BY <2>0 DEF Deliveries
    <2>1. handler[c] = "deliver" /\ UNCHANGED notify
        BY <1>2 DEF TakeInflight
    <2>2. CASE s \in inflight[to]
        <3>1. /\ inflight' = [inflight EXCEPT ![to] = @ \ {s}]
              /\ handler' = [handler EXCEPT ![c] = "reply"]
              /\ UNCHANGED dlv
            BY <1>2, <2>00, <2>2 DEF TakeInflight, MoveHandler
        <3>2. handler'[c] = "reply"
            BY <3>1
        <3>3. Awake(to)'
            BY <2>00, <3>1, <3>2 DEF Awake
        <3>. HIDE DEF s
        <3>4. \A b \in Conns : b # to => MayTake(b)' = MayTake(b)
            BY <1>0, <3>1 DEF MayTake
        <3>5. \A b \in Conns : Awake(b) => Awake(b)'
            BY <1>0, <2>1, <3>1, StaysAwake
        <3>. QED BY <1>0, <3>3, <3>4, <3>5, AwakeStep
    <2>3. CASE s \notin inflight[to]
        <3>1. UNCHANGED inflight
            BY <1>2, <2>00, <2>3 DEF TakeInflight
        <3>2. \A b \in Conns : MayTake(b)' = MayTake(b) /\ (Awake(b) => Awake(b)')
            BY <1>0, <2>1, <3>1, StaysAwake DEF MayTake
        <3>. QED BY <1>0, <3>2, AwakeStep
    <2>. QED BY <2>2, <2>3
<1>3. CASE SendReply(c)
    <2>1. UNCHANGED <<inflight, notify, dlv>> /\ handler' = [handler EXCEPT ![c] = "wake"]
        BY <1>3 DEF SendReply, MoveHandler, queueVars
    <2>2. \A b \in Conns : MayTake(b)' = MayTake(b)
        BY <1>0, <2>1 DEF MayTake
    <2>3. \A b \in Conns : Awake(b) => Awake(b)'
        BY <1>0, <2>1, StaysAwake
    <2>. QED BY <1>0, <2>2, <2>3, AwakeStep
<1>4. CASE WakePump(c)
    <2>0. dlv[c] \in Deliveries
        BY <1>4 DEF WakePump, DeliveryKnown
    <2>1. PICK to \in Conns : to = dlv[c].to
        BY <2>0 DEF Deliveries
    <2>2. /\ handler[c] = "wake"
          /\ notify' = [notify EXCEPT ![to] = TRUE]
          /\ UNCHANGED inflight
        BY <1>4, <2>1 DEF WakePump
    <2>3. Awake(to)'
        BY <2>2 DEF Awake
    <2>4. \A b \in Conns : MayTake(b)' = MayTake(b)
        BY <1>0, <2>2 DEF MayTake
    <2>5. \A b \in Conns : b # to /\ Awake(b) => Awake(b)'
        BY <1>0, <2>1, <2>2 DEF Awake
    <2>. QED BY <1>0, <2>3, <2>4, <2>5, AwakeStep
<1>. QED BY <1>1, <1>2, <1>3, <1>4 DEF Loop

\* failAll frees slots of a connection whose done channel is closed.
LEMMA TeardownWakes ==
    ASSUME TypeInv, HubInv, GoneIsDone, NoLostWakeup, NEW c \in Conns, Teardown(c)
    PROVE  NoLostWakeup'
<1>. USE DEF TypeInv, TypeOK
<1>0. /\ UNCHANGED <<notify, dlv, call, callConn, pump>>
      /\ \A b \in Conns : done[b] => done'[b]
      /\ \A b \in Conns : handler[b] \in {"reply", "wake"} => handler'[b] = handler[b]
    <2>. USE DEF MoveHandler, teardownKeeps, callVars, pumpVars
    <2>1. CASE Unregister(c)
        BY <2>1 DEF Unregister
    <2>2. CASE FailAllLock(c) \/ FailAllDone(c)
        BY <2>2 DEF FailAllLock, FailAllDone
    <2>3. CASE FailInflight(c) \/ FailPending(c)
        BY <2>3 DEF FailInflight, FailPending
    <2>. QED BY <2>1, <2>2, <2>3 DEF Teardown
<1>1. \A b \in Conns : Awake(b) => Awake(b)'
    BY <1>0, StaysAwake
<1>2. CASE Unregister(c) \/ FailAllLock(c) \/ FailAllDone(c)
    <2>1. \A b \in Conns : MayTake(b)' = MayTake(b)
        BY <1>2 DEF Unregister, FailAllLock, FailAllDone, MayTake
    <2>. QED BY <1>0, <1>1, <2>1, AwakeStep
<1>3. CASE FailInflight(c) \/ FailPending(c)
    <2>1. /\ handler[c] = "drain"
          /\ \A b \in Conns \ {c} : pending'[b] = pending[b] /\ inflight'[b] = inflight[b]
        BY <1>3 DEF FailInflight, FailPending
    <2>2. done[c]
        BY <2>1, LeftIsDone
    <2>3. Awake(c)'
        BY <1>0, <2>2 DEF Awake
    <2>4. \A b \in Conns \ {c} : MayTake(b)' = MayTake(b)
        BY <2>1 DEF MayTake
    <2>. QED BY <1>0, <1>1, <2>3, <2>4, AwakeStep
<1>. QED BY <1>2, <1>3 DEF Teardown

\* No step of the hub puts a pump to sleep on work, or frees work beside a
\* sleeping pump, without a wake-up on its way.
LEMMA WakeupStep ==
    TypeInv /\ HubInv /\ GoneIsDone /\ NoLostWakeup /\ [Next]_vars => NoLostWakeup'
<1>. SUFFICES ASSUME TypeInv, HubInv, GoneIsDone, NoLostWakeup, [Next]_vars PROVE NoLostWakeup'
    OBVIOUS
<1>1. ASSUME NEW c \in Conns, Connect(c) \/ TokenExpires(c) \/ Drop(c) \/ Answer(c)
      PROVE  NoLostWakeup'
    <2>. USE DEF TypeInv, TypeOK
    <2>1. /\ UNCHANGED <<pending, inflight, notify, call, callConn, dlv>>
          /\ \A b \in Conns : done[b] => done'[b]
          /\ \A b \in Conns : handler[b] \in {"reply", "wake"} => handler'[b] = handler[b]
          /\ \A b \in Conns : pump'[b] = "wait" => pump[b] = "wait"
        <3>. USE DEF MoveHandler, loopKeeps, queueVars, callVars, loopVars, pumpVars
        <3>1. CASE Connect(c)
            BY <3>1 DEF Connect, Register
        <3>2. CASE TokenExpires(c)
            BY <3>2 DEF TokenExpires, LeaveLoop
        <3>3. CASE Drop(c) \/ Answer(c)
            BY <3>3 DEF Drop, Answer
        <3>. QED BY <1>1, <3>1, <3>2, <3>3
    <2>2. \A b \in Conns : MayTake(b)' = MayTake(b) /\ (Awake(b) => Awake(b)')
        BY <2>1, StaysAwake DEF MayTake
    <2>. QED BY <2>1, <2>2, AwakeStep
<1>2. CASE UNCHANGED vars
    BY <1>2 DEF vars, callVars, pumpVars, queueVars, loopVars, wireVars, NoLostWakeup, MayTake
<1>. QED BY <1>1, <1>2, CallerWakes, PumpWakes, LoopWakes, TeardownWakes DEF Next

\* The pump never sleeps through work: when it waits on notify while the queue
\* has a head it could take, a wake-up is in the channel or on its way, or the
\* connection is going away.
THEOREM WakeupsArrive == Spec => []NoLostWakeup
<1>1. Init => HubInv /\ GoneIsDone /\ NoLostWakeup
    BY DEF Init, HubInv, HubConnectionIsLive, IdleIsFresh, GoneIsDone, NoLostWakeup
<1>. QED BY TypeInit, TypeStep, HubStep, GoneStep, WakeupStep, <1>1, PTL DEF Spec

-----------------------------------------------------------------------------
(* Nobody is told what the signer did not say.                             *)

\* An answer on its way, in a delivery or in a reply channel, is the answer
\* that the signer gave for the request it is on its way to.
AnswerInv ==
    /\ OutcomeIsTheSigners
    /\ \A c \in Conns :
          handler[c] \in {"deliver", "reply", "wake"} => prompt[dlv[c].req] = dlv[c].ans
    /\ \A r \in Requests : reply[r] \in {"sig", "reject"} => prompt[r] = reply[r]

\* A prompt is shown once and answered once: SendPrompt finds it unsent and
\* Answer finds it open.
LEMMA AnswersStay ==
    ASSUME TypeInv, PromptInv, [Next]_vars, NEW r \in Requests, Answered(r)
    PROVE  prompt'[r] = prompt[r]
<1>. USE DEF TypeInv, TypeOK
<1>1. ASSUME NEW s \in Requests, Caller(s) PROVE UNCHANGED prompt
    BY <1>1 DEF Caller, LookUp, Enqueue, Notify, ReceiveReply, SeeDone, ContextDone, Cancel,
                callerKeeps, wireVars
<1>2. ASSUME NEW c \in Conns, Pump(c) PROVE UNCHANGED prompt
    BY <1>2 DEF Pump, PumpTake, PumpIdle, PumpWake, PumpSend, PumpStop, pumpKeeps, wireVars
<1>3. ASSUME NEW c \in Conns, Loop(c) PROVE prompt'[r] = prompt[r]
    <2>1. CASE SendPrompt(c)
        <3>1. nextReq[c] # None /\ Running(c)
            BY <2>1 DEF SendPrompt, Running
        <3>2. prompt[nextReq[c]] = "unsent"
            BY <3>1 DEF PromptInv, HandOverInv
        <3>3. r # nextReq[c]
            BY <3>2 DEF Answered
        <3>. QED BY <2>1, <3>3 DEF SendPrompt
    <2>2. CASE ~SendPrompt(c)
        BY <1>3, <2>2 DEF Loop, WriteFails, DropAnswer, RouteAnswer, TakeInflight, SendReply,
                          WakePump, Disconnect, LeaveLoop, wireVars
    <2>. QED BY <2>1, <2>2
<1>4. ASSUME NEW c \in Conns, Teardown(c) PROVE UNCHANGED prompt
    BY <1>4 DEF Teardown, Unregister, FailAllLock, FailInflight, FailPending, FailAllDone,
                teardownKeeps
<1>5. ASSUME NEW c \in Conns, Connect(c) \/ TokenExpires(c) \/ Drop(c) PROVE UNCHANGED prompt
    BY <1>5 DEF Connect, TokenExpires, Drop, LeaveLoop
<1>6. ASSUME NEW c \in Conns, Answer(c) PROVE prompt'[r] = prompt[r]
    BY <1>6 DEF Answer, Answered
<1>7. CASE UNCHANGED vars
    BY <1>7 DEF vars, wireVars
<1>. QED BY <1>1, <1>2, <1>3, <1>4, <1>5, <1>6, <1>7 DEF Next

\* A step that neither returns a call nor sends a reply nor starts a delivery.
LEMMA NothingTold ==
    ASSUME TypeInv, PromptInv, AnswerInv, [Next]_vars,
           UNCHANGED result,
           \A r \in Requests : reply'[r] \in {reply[r], "empty", "connErr"},
           \A c \in Conns : handler'[c] \in {"deliver", "reply", "wake"} =>
               handler[c] \in {"deliver", "reply", "wake"} /\ dlv'[c] = dlv[c]
    PROVE  AnswerInv'
<1>1. \A r \in Requests : Answered(r) => prompt'[r] = prompt[r]
    BY AnswersStay
<1>2. OutcomeIsTheSigners'
    BY <1>1 DEF AnswerInv, OutcomeIsTheSigners, Answered
<1>3. ASSUME NEW c \in Conns, handler'[c] \in {"deliver", "reply", "wake"}
      PROVE  prompt'[dlv'[c].req] = dlv'[c].ans
    <2>1. handler[c] \in {"deliver", "reply", "wake"} /\ dlv'[c] = dlv[c]
        BY <1>3
    <2>2. dlv[c] \in Deliveries /\ Answered(dlv[c].req)
        BY <2>1 DEF TypeInv, DeliveryKnown, PromptInv, PromptStateInv
    <2>. QED BY <1>1, <2>1, <2>2 DEF AnswerInv, Deliveries
<1>4. \A r \in Requests : reply'[r] \in {"sig", "reject"} => prompt'[r] = reply'[r]
    BY <1>1 DEF AnswerInv, Answered
<1>. QED BY <1>2, <1>3, <1>4 DEF AnswerInv

\* What a call returns with is what was in its reply channel.
LEMMA CallerTold ==
    ASSUME TypeInv, PromptInv, AnswerInv, [Next]_vars, NEW s \in Requests, Caller(s)
    PROVE  AnswerInv'
<1>. USE DEF TypeInv, TypeOK
<1>0. UNCHANGED <<prompt, handler, dlv>>
    BY DEF Caller, LookUp, Enqueue, Notify, ReceiveReply, SeeDone, ContextDone, Cancel,
           callerKeeps, loopVars, wireVars
<1>1. CASE ReceiveReply(s)
    <2>. DEFINE outcome == CASE reply[s] = "sig" -> "sig"
                             [] reply[s] = "reject" -> "rejected"
                             [] OTHER -> "notConnected"
    <2>1. /\ result' = [result EXCEPT ![s] = outcome]
          /\ reply' = [reply EXCEPT ![s] = "empty"]
        BY <1>1 DEF ReceiveReply, Return
    <2>2. /\ outcome = "sig" => prompt[s] = "sig"
          /\ outcome = "rejected" => prompt[s] = "reject"
        BY DEF AnswerInv
    <2>. HIDE DEF outcome
    <2>3. OutcomeIsTheSigners'
        BY <1>0, <2>1, <2>2 DEF AnswerInv, OutcomeIsTheSigners
    <2>. QED BY <1>0, <2>1, <2>3 DEF AnswerInv
<1>2. CASE ~ReceiveReply(s)
    <2>1. /\ UNCHANGED reply
          /\ result' = result \/ \E o \in {"notConnected", "timeout"} :
                                     result' = [result EXCEPT ![s] = o]
        BY <1>2 DEF Caller, LookUp, Enqueue, Notify, SeeDone, ContextDone, Cancel, Return
    <2>2. OutcomeIsTheSigners'
        BY <1>0, <2>1 DEF AnswerInv, OutcomeIsTheSigners
    <2>. QED BY <1>0, <2>1, <2>2 DEF AnswerInv
<1>. QED BY <1>1, <1>2

\* The main loop routes only what verified, and to its own request.
LEMMA LoopTold ==
    ASSUME TypeInv, PromptInv, AnswerInv, [Next]_vars, NEW c \in Conns, Loop(c)
    PROVE  AnswerInv'
<1>. USE DEF TypeInv, TypeOK
<1>0. /\ UNCHANGED result
      /\ \A b \in Conns \ {c} : handler'[b] = handler[b] /\ dlv'[b] = dlv[b]
    BY DEF Loop, SendPrompt, WriteFails, DropAnswer, RouteAnswer, TakeInflight, SendReply,
           WakePump, Disconnect, LeaveLoop, MoveHandler, loopKeeps, callVars
<1>1. CASE SendPrompt(c) \/ WriteFails(c) \/ DropAnswer(c) \/ WakePump(c) \/ Disconnect(c)
    <2>1. \A r \in Requests : reply'[r] \in {reply[r], "connErr"}
        BY <1>1 DEF SendPrompt, WriteFails, DropAnswer, WakePump, Disconnect
    <2>2. handler'[c] \in {"deliver", "reply", "wake"} => UNCHANGED <<handler, dlv>>
        BY <1>1 DEF SendPrompt, WriteFails, DropAnswer, WakePump, Disconnect, LeaveLoop, MoveHandler
    <2>. QED BY <1>0, <2>1, <2>2, NothingTold
<1>2. CASE RouteAnswer(c)
    <2>1. PICK r \in inbound[c] :
              /\ prompt[r] \in {"sig", "reject"}
              /\ \/ UNCHANGED <<handler, dlv>>
                 \/ dlv' = [dlv EXCEPT ![c] =
                               [to |-> hub[ConnDid[c]], req |-> r, ans |-> prompt[r]]]
        BY <1>2 DEF RouteAnswer
    <2>2. UNCHANGED <<reply, prompt>>
        BY <1>2 DEF RouteAnswer
    <2>3. CASE UNCHANGED <<handler, dlv>>
        BY <1>0, <2>2, <2>3, NothingTold
    <2>4. CASE dlv' = [dlv EXCEPT ![c] =
                          [to |-> hub[ConnDid[c]], req |-> r, ans |-> prompt[r]]]
        <3>1. dlv'[c] = [to |-> hub[ConnDid[c]], req |-> r, ans |-> prompt[r]]
            BY <2>4
        <3>2. dlv'[c].req = r /\ dlv'[c].ans = prompt[r]
            BY <3>1
        <3>. QED BY <1>0, <2>2, <3>2 DEF AnswerInv, OutcomeIsTheSigners
    <2>. QED BY <2>1, <2>3, <2>4
<1>3. CASE TakeInflight(c)
    <2>1. UNCHANGED reply /\ handler[c] = "deliver"
        BY <1>3 DEF TakeInflight
    <2>2. handler'[c] \in {"deliver", "reply", "wake"} => UNCHANGED dlv
        BY <1>3 DEF TakeInflight, MoveHandler
    <2>. QED BY <1>0, <2>1, <2>2, NothingTold
<1>4. CASE SendReply(c)
    <2>1. /\ reply' = [reply EXCEPT ![dlv[c].req] = dlv[c].ans]
          /\ handler[c] = "reply"
          /\ UNCHANGED <<dlv, prompt>>
        BY <1>4 DEF SendReply, wireVars
    <2>2. prompt[dlv[c].req] = dlv[c].ans
        BY <2>1 DEF AnswerInv
    <2>3. \A r \in Requests : reply'[r] \in {"sig", "reject"} => prompt'[r] = reply'[r]
        BY <2>1, <2>2 DEF AnswerInv
    <2>4. \A b \in Conns : handler'[b] \in {"deliver", "reply", "wake"} =>
                                prompt'[dlv'[b].req] = dlv'[b].ans
        BY <1>0, <2>1 DEF AnswerInv
    <2>5. OutcomeIsTheSigners'
        BY <1>0, <2>1 DEF AnswerInv, OutcomeIsTheSigners
    <2>. QED BY <2>3, <2>4, <2>5 DEF AnswerInv
<1>. QED BY <1>1, <1>2, <1>3, <1>4 DEF Loop

\* Every step of the hub keeps answers with their requests.
LEMMA AnswerStep == TypeInv /\ PromptInv /\ AnswerInv /\ [Next]_vars => AnswerInv'
<1>. SUFFICES ASSUME TypeInv, PromptInv, AnswerInv, [Next]_vars PROVE AnswerInv'
    OBVIOUS
<1>. USE DEF TypeInv, TypeOK
<1>1. ASSUME NEW c \in Conns, Pump(c) PROVE AnswerInv'
    <2>1. UNCHANGED <<result, reply, handler, dlv>>
        BY <1>1 DEF Pump, PumpTake, PumpIdle, PumpWake, PumpSend, PumpStop, pumpKeeps, loopVars,
                    callVars
    <2>. QED BY <2>1, NothingTold
<1>2. ASSUME NEW c \in Conns, Teardown(c) PROVE AnswerInv'
    <2>1. /\ UNCHANGED <<result, dlv>>
          /\ \A r \in Requests : reply'[r] \in {reply[r], "connErr"}
          /\ \A b \in Conns : handler'[b] \in {"deliver", "reply", "wake"} => handler'[b] = handler[b]
        BY <1>2 DEF Teardown, Unregister, FailAllLock, FailInflight, FailPending, FailAllDone,
                    MoveHandler, teardownKeeps, callVars
    <2>. QED BY <2>1, NothingTold
<1>3. ASSUME NEW c \in Conns, Connect(c) \/ TokenExpires(c) \/ Drop(c) \/ Answer(c)
      PROVE  AnswerInv'
    <2>1. /\ UNCHANGED <<result, reply, dlv>>
          /\ \A b \in Conns : handler'[b] \in {"deliver", "reply", "wake"} => handler'[b] = handler[b]
        BY <1>3 DEF Connect, TokenExpires, Drop, Answer, LeaveLoop, MoveHandler,
                    loopKeeps, callVars, loopVars
    <2>. QED BY <2>1, NothingTold
<1>4. CASE UNCHANGED vars
    BY <1>4, NothingTold DEF vars, callVars, loopVars
<1>. QED BY <1>1, <1>2, <1>3, <1>4, CallerTold, LoopTold DEF Next

\* RequestSignature reports a signature only if the signer sent a verifiable
\* one for that very request, and a rejection only if the signer rejected it,
\* whichever connection the answer came in on and was routed to.
THEOREM OutcomesAreTheSigners == Spec => []OutcomeIsTheSigners
<1>1. Init => AnswerInv
    BY DEF Init, AnswerInv, OutcomeIsTheSigners
<1>2. AnswerInv => OutcomeIsTheSigners
    BY DEF AnswerInv
<1>. QED BY TypeInit, TypeStep, PromptInit, PromptStep, AnswerStep, <1>1, <1>2, PTL DEF Spec

-----------------------------------------------------------------------------
(* Nothing that timed out is taken.                                        *)

\* A call has no result before it returns, and one that timed out is in no
\* queue any more.
LateInv ==
    \A r \in Requests :
        /\ call[r] # "returned" => result[r] = "none"
        /\ result[r] = "timeout" => \A c \in Conns : r \notin Elements(pending[c])

\* A step that returns no call and adds nothing to a queue.
LEMMA NothingLate ==
    ASSUME LateInv, UNCHANGED <<call, result>>,
           \A c \in Conns : Elements(pending'[c]) \subseteq Elements(pending[c])
    PROVE  LateInv'
BY DEF LateInv

\* Cancel cuts the request out of the only queue that can have it before the
\* call returns, and nobody enqueues for a call that has returned.
LEMMA CallerLate ==
    ASSUME TypeInv, PromptInv, LateInv, NEW s \in Requests, Caller(s)
    PROVE  LateInv'
<1>. USE DEF TypeInv, TypeOK
<1>1. CASE Enqueue(s)
    <2>0. PICK e \in Conns : e = callConn[s]
        BY <1>1 DEF Enqueue, ConnectionKnown
    <2>1. /\ call[s] = "enqueue"
          /\ pending' = [pending EXCEPT ![e] = Append(@, s)]
          /\ call' = [call EXCEPT ![s] = "notify"]
          /\ UNCHANGED result
        BY <1>1, <2>0 DEF Enqueue
    <2>2. \A c \in Conns : Elements(pending'[c]) \subseteq Elements(pending[c]) \cup {s}
        <3>1. Elements(pending'[e]) = Elements(pending[e]) \cup {s}
            BY <2>1, AppendQueue
        <3>. QED BY <2>1, <3>1
    <2>. QED BY <2>1, <2>2 DEF LateInv
<1>2. CASE Cancel(s)
    <2>0. PICK e \in Conns : e = callConn[s]
        BY <1>2 DEF Cancel, ConnectionKnown
    <2>1. /\ pending' = [pending EXCEPT ![e] = Without(@, s)]
          /\ call' = [call EXCEPT ![s] = "returned"]
          /\ result' = [result EXCEPT ![s] = "timeout"]
        BY <1>2, <2>0 DEF Cancel, Return
    <2>2. Elements(pending'[e]) = Elements(pending[e]) \ {s}
        BY <2>1, WithoutElements DEF PromptInv, QueueInv
    <2>3. \A c \in Conns \ {e} : pending'[c] = pending[c] /\ s \notin Elements(pending[c])
        BY <2>0, <2>1 DEF PromptInv, QueueInv
    <2>4. \A c \in Conns : Elements(pending'[c]) \subseteq Elements(pending[c]) \ {s}
        BY <2>2, <2>3
    <2>. QED BY <2>1, <2>4 DEF LateInv
<1>3. CASE LookUp(s) \/ ReceiveReply(s) \/ SeeDone(s)
    <2>1. /\ UNCHANGED pending
          /\ \A r \in Requests \ {s} : call'[r] = call[r] /\ result'[r] = result[r]
          /\ \/ call'[s] = "returned" /\ result'[s] # "timeout"
             \/ call'[s] = "enqueue" /\ call[s] = "idle" /\ result'[s] = result[s]
        BY <1>3 DEF LookUp, ReceiveReply, SeeDone, Return, queueVars
    <2>. QED BY <2>1 DEF LateInv
<1>4. CASE Notify(s) \/ ContextDone(s)
    <2>1. /\ UNCHANGED <<pending, result>> /\ call[s] # "returned"
          /\ \A r \in Requests \ {s} : call'[r] = call[r]
        BY <1>4 DEF Notify, ContextDone, queueVars
    <2>. QED BY <2>1 DEF LateInv
<1>. QED BY <1>1, <1>2, <1>3, <1>4 DEF Caller

\* No step puts a call that timed out back into a queue.
LEMMA LateStep == TypeInv /\ PromptInv /\ LateInv /\ [Next]_vars => LateInv'
<1>. SUFFICES ASSUME TypeInv, PromptInv, LateInv, [Next]_vars PROVE LateInv'
    OBVIOUS
<1>. USE DEF TypeInv, TypeOK
<1>1. ASSUME NEW c \in Conns, Pump(c) \/ Teardown(c) PROVE LateInv'
    <2>1. /\ UNCHANGED <<call, result>>
          /\ \/ UNCHANGED pending
             \/ pending[c] # <<>> /\ pending' = [pending EXCEPT ![c] = Tail(@)]
        BY <1>1 DEF Pump, PumpTake, PumpIdle, PumpWake, PumpSend, PumpStop, MayTake, Teardown,
                    Unregister, FailAllLock, FailInflight, FailPending, FailAllDone,
                    pumpKeeps, teardownKeeps, callVars, queueVars
    <2>2. pending[c] # <<>> => Elements(Tail(pending[c])) \subseteq Elements(pending[c])
        BY TailQueue
    <2>3. \A b \in Conns : Elements(pending'[b]) \subseteq Elements(pending[b])
        BY <2>1, <2>2
    <2>. QED BY <2>1, <2>3, NothingLate
<1>2. ASSUME NEW c \in Conns, \/ Loop(c)
                               \/ Connect(c) \/ TokenExpires(c) \/ Drop(c) \/ Answer(c)
      PROVE  LateInv'
    <2>1. UNCHANGED <<call, result, pending>>
        BY <1>2 DEF Loop, SendPrompt, WriteFails, DropAnswer, RouteAnswer, TakeInflight,
                    SendReply, WakePump, Disconnect, Connect, TokenExpires, Drop, Answer,
                    loopKeeps, callVars, queueVars
    <2>. QED BY <2>1, NothingLate
<1>3. CASE UNCHANGED vars
    BY <1>3, NothingLate DEF vars, callVars, queueVars
<1>. QED BY <1>1, <1>2, <1>3, CallerLate DEF Next

\* A request that timed out before the pump took it is never taken: no passkey
\* prompt, and no turn in the queue, is spent on it.
THEOREM LateIsNotTaken == Spec => TimedOutIsNotTaken
<1>1. Init => LateInv
    BY DEF Init, LateInv, Elements
<1>2. ASSUME TypeInv, LateInv, [Next]_vars, NEW r \in Requests, NEW c \in Conns,
             result[r] = "timeout", r \notin inflight[c]
      PROVE  r \notin inflight'[c]
    <2>. USE DEF TypeInv, TypeOK
    <2>1. ASSUME NEW b \in Conns, PumpTake(b) PROVE r \notin inflight'[c]
        <3>1. /\ pending[b] # <<>>
              /\ inflight' = [inflight EXCEPT ![b] = @ \cup {Head(pending[b])}]
            BY <2>1 DEF PumpTake, MayTake
        <3>2. Head(pending[b]) \in Elements(pending[b])
            BY <1>2, <3>1, TailQueue
        <3>3. r # Head(pending[b])
            BY <1>2, <3>2 DEF LateInv
        <3>. QED BY <1>2, <3>1, <3>3
    <2>2. CASE ~\E b \in Conns : PumpTake(b)
        <3>1. \A b \in Conns : inflight'[b] \subseteq inflight[b]
            <4>1. ASSUME NEW s \in Requests, Caller(s) PROVE inflight' = inflight
                BY <4>1 DEF Caller, LookUp, Enqueue, Notify, ReceiveReply, SeeDone, ContextDone,
                            Cancel, queueVars
            <4>2. ASSUME NEW b \in Conns, Pump(b) PROVE inflight' = inflight
                BY <2>2, <4>2 DEF Pump, PumpIdle, PumpWake, PumpSend, PumpStop, queueVars
            <4>3. ASSUME NEW b \in Conns, Loop(b)
                  PROVE  \A d \in Conns : inflight'[d] \subseteq inflight[d]
                <5>1. CASE TakeInflight(b)
                    <6>. DEFINE to == dlv[b].to
                                s == dlv[b].req
                    <6>1. inflight' = inflight \/ inflight' = [inflight EXCEPT ![to] = @ \ {s}]
                        BY <5>1 DEF TakeInflight
                    <6>2. inflight \in [Conns -> SUBSET Requests]
                        BY <1>2
                    <6>. HIDE DEF to, s, TypeInv, TypeOK
                    <6>. QED BY <6>1, <6>2
                <5>2. CASE ~TakeInflight(b)
                    BY <4>3, <5>2 DEF Loop, SendPrompt, WriteFails, DropAnswer, RouteAnswer,
                                      SendReply, WakePump, Disconnect, queueVars
                <5>. QED BY <5>1, <5>2
            <4>4. ASSUME NEW b \in Conns, Teardown(b)
                  PROVE  \A d \in Conns : inflight'[d] \subseteq inflight[d]
                <5>1. CASE FailInflight(b)
                    BY <1>2, <5>1 DEF FailInflight
                <5>2. CASE ~FailInflight(b)
                    BY <4>4, <5>2 DEF Teardown, Unregister, FailAllLock, FailPending, FailAllDone
                <5>. QED BY <5>1, <5>2
            <4>5. ASSUME NEW b \in Conns, Connect(b) \/ TokenExpires(b) \/ Drop(b) \/ Answer(b)
                  PROVE  inflight' = inflight
                BY <4>5 DEF Connect, TokenExpires, Drop, Answer, queueVars
            <4>6. UNCHANGED vars => inflight' = inflight
                BY DEF vars, queueVars
            <4>. HIDE DEF TypeInv, TypeOK
            <4>. QED BY <1>2, <4>1, <4>2, <4>3, <4>4, <4>5, <4>6 DEF Next
        <3>. QED BY <1>2, <3>1
    <2>. QED BY <2>1, <2>2
<1>3. TypeInv /\ LateInv /\ [Next]_vars =>
          [\A r \in Requests, c \in Conns :
              (result[r] = "timeout" /\ r \notin inflight[c]) => r \notin inflight'[c]]_vars
    BY <1>2
<1>. QED BY TypeInit, TypeStep, PromptInit, PromptStep, LateStep, <1>1, <1>3,
            PTL DEF Spec, TimedOutIsNotTaken

-----------------------------------------------------------------------------
(* The hub implements the signature service.                               *)

\* A request that is cut out of the end of a line is cut out of the line.
LEMMA CutOut ==
    ASSUME NEW S, NEW p \in Seq(S), NEW s \in Seq(S), NEW r, Distinct(s), r \in Elements(s)
    PROVE  \E k \in 1..Len(p \o s) :
              /\ (p \o s)[k] = r
              /\ p \o Without(s, r) = SubSeq(p \o s, 1, k - 1) \o SubSeq(p \o s, k + 1, Len(p \o s))
<1>. DEFINE i == CHOOSE i \in 1..Len(s) : s[i] = r /\ \A j \in 1..(i - 1) : s[j] # r
            w == [j \in 1..(Len(s) - 1) |-> IF j < i THEN s[j] ELSE s[j + 1]]
            l == p \o s
            k == Len(p) + i
            front == SubSeq(l, 1, k - 1)
            back == SubSeq(l, k + 1, Len(l))
<1>1. Len(p) \in Nat /\ Len(s) \in Nat \ {0} /\ \E n \in 1..Len(s) : s[n] = r
    BY DEF Elements
<1>2. Without(s, r) = w
    BY <1>1 DEF Without
<1>3. i \in 1..Len(s) /\ s[i] = r
    <2>1. PICK n \in 1..Len(s) : s[n] = r
        BY <1>1
    <2>2. \A j \in 1..(n - 1) : s[j] # r
        BY <1>1, <2>1 DEF Distinct
    <2>. QED BY <2>1, <2>2
<1>. HIDE DEF i
<1>4. w \in Seq(S) /\ Len(w) = Len(s) - 1 /\ \A j \in 1..(Len(s) - 1) : w[j] = IF j < i THEN s[j] ELSE s[j + 1]
    <2>1. Len(s) - 1 \in Nat /\ \A j \in 1..(Len(s) - 1) : w[j] \in S
        BY <1>1, <1>3
    <2>. QED BY <1>1, <2>1
<1>. HIDE DEF w
<1>5. /\ l \in Seq(S) /\ Len(l) = Len(p) + Len(s)
      /\ \A j \in 1..(Len(p) + Len(s)) : l[j] = IF j <= Len(p) THEN p[j] ELSE s[j - Len(p)]
    BY ConcatProperties
<1>6. k \in 1..Len(l) /\ l[k] = r
    BY <1>1, <1>3, <1>5
<1>7. /\ front \in Seq(S) /\ Len(front) = k - 1
      /\ \A j \in 1..(k - 1) : front[j] = l[j]
    <2>1. \A j \in 1..(k - 1) : l[j] \in S
        BY <1>1, <1>3, <1>5, ElementOfSeq
    <2>. HIDE DEF k, l
    <2>2. k \in Nat \ {0}
        BY <1>5, <1>6, <1>1
    <2>. QED BY <2>1, <2>2, SubSeqProperties
<1>8. /\ back \in Seq(S) /\ Len(back) = Len(l) - k
      /\ \A j \in 1..(Len(l) - k) : back[j] = l[k + j]
    <2>1. \A j \in (k + 1)..Len(l) : l[j] \in S
        BY <1>1, <1>3, <1>5, ElementOfSeq
    <2>2. k \in Nat \ {0} /\ Len(l) \in Nat /\ k <= Len(l)
        BY <1>5, <1>6, <1>1
    <2>. HIDE DEF k, l
    <2>3. /\ back \in Seq(S) /\ Len(back) = (IF k + 1 <= Len(l) THEN Len(l) - (k + 1) + 1 ELSE 0)
          /\ \A j \in 1..(Len(l) - (k + 1) + 1) : back[j] = l[(k + 1) + j - 1]
        BY <2>1, <2>2, SubSeqProperties
    <2>. QED BY <2>2, <2>3
<1>9. k = Len(p) + i /\ i \in 1..Len(s) /\ Len(p) \in Nat /\ Len(s) \in Nat \ {0}
    BY <1>1, <1>3
<1>10. p \o w = front \o back
    <2>. HIDE DEF k, l, front, back
    <2>1. /\ p \o w \in Seq(S) /\ Len(p \o w) = Len(p) + Len(w)
          /\ \A j \in 1..(Len(p) + Len(w)) : (p \o w)[j] = IF j <= Len(p) THEN p[j] ELSE w[j - Len(p)]
        BY <1>4, ConcatProperties
    <2>2. /\ front \o back \in Seq(S) /\ Len(front \o back) = Len(front) + Len(back)
          /\ \A j \in 1..(Len(front) + Len(back)) :
                (front \o back)[j] = IF j <= Len(front) THEN front[j] ELSE back[j - Len(front)]
        BY <1>7, <1>8, ConcatProperties
    <2>. DEFINE x == p \o w
                y == front \o back
    <2>3. /\ x \in Seq(S) /\ y \in Seq(S)
          /\ Len(x) = Len(p) + Len(s) - 1 /\ Len(y) = Len(p) + Len(s) - 1
        BY <1>4, <1>5, <1>7, <1>8, <1>9, <2>1, <2>2
    <2>4. ASSUME NEW j \in 1..(Len(p) + Len(s) - 1) PROVE x[j] = y[j]
        <3>0. /\ x[j] = IF j <= Len(p) THEN p[j] ELSE w[j - Len(p)]
              /\ y[j] = IF j <= k - 1 THEN front[j] ELSE back[j - (k - 1)]
            <4>1. Len(w) = Len(s) - 1 /\ Len(front) = k - 1 /\ Len(front) + Len(back) = Len(p) + Len(s) - 1
                BY <1>4, <1>5, <1>7, <1>8, <1>9
            <4>. QED BY <1>9, <2>1, <2>2, <4>1
        <3>. HIDE DEF x, y
        <3>1. CASE j <= Len(p)
            <4>1. front[j] = l[j] /\ l[j] = p[j]
                BY <1>5, <1>7, <1>9, <3>1
            <4>. QED BY <1>9, <3>0, <3>1, <4>1
        <3>2. CASE j > Len(p) /\ j < k
            <4>1. front[j] = l[j] /\ l[j] = s[j - Len(p)] /\ w[j - Len(p)] = s[j - Len(p)]
                <5>1. j \in 1..(k - 1) /\ j \in 1..(Len(p) + Len(s)) /\ ~(j <= Len(p))
                      /\ j - Len(p) \in 1..(Len(s) - 1) /\ j - Len(p) < i
                    BY <1>9, <3>2
                <5>. QED BY <1>4, <1>5, <1>7, <5>1
            <4>. QED BY <1>9, <3>0, <3>2, <4>1
        <3>3. CASE j >= k
            <4>1. w[j - Len(p)] = s[(j - Len(p)) + 1]
                BY <1>4, <1>9, <3>3
            <4>2. back[j - (k - 1)] = l[k + (j - (k - 1))] /\ k + (j - (k - 1)) = j + 1
                <5>1. j - (k - 1) \in 1..(Len(l) - k) /\ k + (j - (k - 1)) = j + 1
                    BY <1>5, <1>9, <3>3
                <5>. QED BY <1>8, <5>1
            <4>3. l[j + 1] = s[(j - Len(p)) + 1]
                <5>1. j + 1 \in 1..(Len(p) + Len(s)) /\ (j + 1) - Len(p) = (j - Len(p)) + 1 /\ j + 1 > Len(p)
                    BY <1>9, <3>3
                <5>. QED BY <1>5, <1>9, <5>1
            <4>. QED BY <1>9, <3>0, <3>3, <4>1, <4>2, <4>3
        <3>. QED BY <1>9, <3>1, <3>2, <3>3
    <2>. HIDE DEF x, y
    <2>5. x = y
        BY <2>3, <2>4, SeqEqual
    <2>. QED BY <2>5 DEF x, y
<1>. QED BY <1>2, <1>6, <1>10

States == [r \in Requests |-> StateOf(r)]
Lines == [c \in Conns |-> LineOf(c)]
Overs == [c \in Conns |-> IsOver(c)]

\* What stands before the queue in a line.
Ahead(c) == Slot(nextReq[c]) \o Slot(picked[c])

\* A running loop's line is its hand-over slots and its queue.
LEMMA LineType ==
    ASSUME TypeInv, NEW c \in Conns
    PROVE  /\ Ahead(c) \in Seq(Requests) /\ LineOf(c) \in Seq(Requests)
           /\ ~IsOver(c) => LineOf(c) = Ahead(c) \o pending[c]
           /\ IsOver(c) => LineOf(c) = << >>
           /\ Running(c) <=> ~IsOver(c)
<1>. USE NoneAssumption DEF TypeInv, TypeOK
<1>1. Slot(nextReq[c]) \in Seq(Requests) /\ Slot(picked[c]) \in Seq(Requests)
    BY DEF Slot
<1>2. Ahead(c) \in Seq(Requests)
    BY <1>1 DEF Ahead
<1>3. /\ ~IsOver(c) => LineOf(c) = Ahead(c) \o pending[c]
      /\ IsOver(c) => LineOf(c) = << >>
    BY DEF LineOf, Ahead
<1>4. pending[c] \in Seq(Requests)
    OBVIOUS
<1>5. LineOf(c) \in Seq(Requests)
    <2>. DEFINE a == Ahead(c)
                p == pending[c]
    <2>1. a \in Seq(Requests) /\ p \in Seq(Requests)
        BY <1>2, <1>4
    <2>2. (IsOver(c) => LineOf(c) = << >>) /\ (~IsOver(c) => LineOf(c) = a \o p)
        BY <1>3
    <2>. HIDE DEF a, p
    <2>3. a \o p \in Seq(Requests) /\ << >> \in Seq(Requests)
        BY <2>1, ConcatProperties
    <2>4. IsOver(c) \in BOOLEAN
        BY DEF IsOver
    <2>. HIDE DEF TypeInv, TypeOK
    <2>. QED BY <2>2, <2>3, <2>4, Zenon
<1>. QED BY <1>2, <1>3, <1>5 DEF Running, IsOver, HandlerStates

\* What the service shows is kept where its parts are kept.
LEMMA Shown ==
    /\ (\A r \in Requests : StateOf(r)' = StateOf(r)) => States' = States
    /\ (\A c \in Conns : LineOf(c)' = LineOf(c)) => Lines' = Lines
    /\ (\A c \in Conns : IsOver(c)' = IsOver(c)) => Overs' = Overs
    /\ \A r \in Requests : \A x :
          /\ StateOf(r)' = x
          /\ \A q \in Requests \ {r} : StateOf(q)' = StateOf(q)
          => States' = [States EXCEPT ![r] = x]
    /\ \A c \in Conns : \A x :
          /\ LineOf(c)' = x
          /\ \A b \in Conns \ {c} : LineOf(b)' = LineOf(b)
          => Lines' = [Lines EXCEPT ![c] = x]
    /\ \A c \in Conns : \A x :
          /\ IsOver(c)' = x
          /\ \A b \in Conns \ {c} : IsOver(b)' = IsOver(b)
          => Overs' = [Overs EXCEPT ![c] = x]
BY DEF States, Lines, Overs

\* A line is kept with what it is made of.
LEMMA LineKept ==
    ASSUME NEW c \in Conns,
           nextReq'[c] = nextReq[c], picked'[c] = picked[c], pending'[c] = pending[c],
           IsOver(c)' = IsOver(c)
    PROVE  LineOf(c)' = LineOf(c)
BY DEF LineOf

\* A state is kept with what it is read from.
LEMMA StateKept ==
    ASSUME NEW r \in Requests, call'[r] = call[r], result'[r] = result[r]
    PROVE  StateOf(r)' = StateOf(r)
BY DEF StateOf

\* A step that the service does not see.
LEMMA Unseen ==
    ASSUME States' = States, Lines' = Lines, Overs' = Overs, UNCHANGED <<callConn, prompt>>
    PROVE  UNCHANGED Service!vars
BY DEF Service!vars, States, Lines, Overs

\* The steps of the service, in the words of the hub.
LEMMA ServiceMoves ==
    /\ \A r \in Requests :
          /\ \A c \in Conns :
                /\ States[r] = "idle" /\ States' = [States EXCEPT ![r] = "asking"]
                /\ callConn' = [callConn EXCEPT ![r] = c] /\ Lines' = Lines /\ Overs' = Overs
                /\ prompt' = prompt
                => Service!Ask(r, c)
          /\ /\ States[r] = "idle" /\ States' = [States EXCEPT ![r] = "failed"]
             /\ Lines' = Lines /\ Overs' = Overs /\ UNCHANGED <<callConn, prompt>>
             => Service!Refuse(r)
          /\ /\ States[r] = "asking" /\ States' = [States EXCEPT ![r] = "queued"]
             /\ Lines' = IF Overs[callConn[r]] THEN Lines
                         ELSE [Lines EXCEPT ![callConn[r]] = Append(@, r)]
             /\ Overs' = Overs /\ UNCHANGED <<callConn, prompt>>
             => Service!Join(r)
          /\ \A how \in {"signed", "rejected", "failed"} :
                /\ States[r] = "queued" /\ States' = [States EXCEPT ![r] = how]
                /\ how = "signed" => prompt[r] = "sig"
                /\ how = "rejected" => prompt[r] = "reject"
                /\ Lines' = Lines /\ Overs' = Overs /\ UNCHANGED <<callConn, prompt>>
                => Service!Complete(r)
          /\ \A i \in 1..Len(Lines[callConn[r]]) :
                /\ States[r] = "queued" /\ States' = [States EXCEPT ![r] = "failed"]
                /\ Lines[callConn[r]][i] = r
                /\ Lines' = [Lines EXCEPT ![callConn[r]] =
                                SubSeq(@, 1, i - 1) \o SubSeq(@, i + 1, Len(@))]
                /\ Overs' = Overs /\ UNCHANGED <<callConn, prompt>>
                => Service!GiveUp(r)
          /\ \A v \in {"sig", "bad", "reject"} :
                /\ prompt[r] = "sent" /\ prompt' = [prompt EXCEPT ![r] = v]
                /\ States' = States /\ Lines' = Lines /\ Overs' = Overs /\ UNCHANGED callConn
                => Service!Decide(r)
    /\ \A c \in Conns :
          /\ /\ Lines[c] # << >> /\ prompt[Head(Lines[c])] = "unsent"
             /\ \A r \in Requests : callConn[r] = c => prompt[r] # "sent"
             /\ prompt' = [prompt EXCEPT ![Head(Lines[c])] = "sent"]
             /\ Lines' = [Lines EXCEPT ![c] = Tail(@)]
             /\ States' = States /\ Overs' = Overs /\ UNCHANGED callConn
             => Service!Show(c)
          /\ /\ Lines[c] # << >> /\ Lines' = [Lines EXCEPT ![c] = Tail(@)]
             /\ States' = States /\ Overs' = Overs /\ UNCHANGED <<callConn, prompt>>
             => Service!Lose(c)
          /\ /\ ~Overs[c] /\ Overs' = [Overs EXCEPT ![c] = TRUE]
             /\ Lines' = [Lines EXCEPT ![c] = << >>]
             /\ States' = States /\ UNCHANGED <<callConn, prompt>>
             => Service!End(c)
BY DEF Service!Ask, Service!Refuse, Service!Join, Service!Complete, Service!Finish, Service!GiveUp,
       Service!Decide, Service!Decisions, Service!Show, Service!Lose, Service!End,
       States, Lines, Overs

\* At first nothing was asked.
LEMMA ServiceInit == Init => Service!Init
<1>. SUFFICES ASSUME Init PROVE Service!Init
    OBVIOUS
<1>1. \A r \in Requests : StateOf(r) = "idle"
    BY DEF Init, StateOf
<1>2. \A c \in Conns : ~IsOver(c) /\ LineOf(c) = << >>
    BY DEF Init, IsOver, LineOf, Slot
<1>3. /\ [r \in Requests |-> StateOf(r)] = [r \in Requests |-> "idle"]
      /\ [c \in Conns |-> LineOf(c)] = [c \in Conns |-> <<>>]
      /\ [c \in Conns |-> IsOver(c)] = [c \in Conns |-> FALSE]
    <2>1. \A c \in Conns : IsOver(c) = FALSE /\ LineOf(c) = <<>>
        BY <1>2 DEF IsOver
    <2>. QED BY <1>1, <2>1
<1>. QED BY <1>3 DEF Init, Service!Init

\* Every operation of the service is one of its steps.
LEMMA ServiceSteps ==
    /\ \A r \in Requests :
          \/ Service!Refuse(r) \/ Service!Join(r) \/ Service!Decide(r)
          \/ Service!Complete(r) \/ Service!GiveUp(r) \/ \E c \in Conns : Service!Ask(r, c)
          => Service!Next
    /\ \A c \in Conns : Service!Show(c) \/ Service!Lose(c) \/ Service!End(c) => Service!Next
BY DEF Service!Next

\* RequestSignature asks, joins the line, and completes or gives up.
LEMMA CallerServes ==
    ASSUME TypeInv, PromptInv, AnswerInv, LateInv, LateInv', NEW r \in Requests, Caller(r)
    PROVE  [Service!Next]_(Service!vars)
<1>. USE NoneAssumption DEF TypeInv, TypeOK
<1>1. /\ UNCHANGED <<handler, nextReq, picked, prompt>>
      /\ \A q \in Requests \ {r} : call'[q] = call[q] /\ result'[q] = result[q]
    BY DEF Caller, LookUp, Enqueue, Notify, ReceiveReply, SeeDone, ContextDone, Cancel, Return,
           callerKeeps, pumpVars, loopVars, wireVars
<1>2. \A c \in Conns : IsOver(c)' = IsOver(c)
    BY <1>1 DEF IsOver
<1>3. Overs' = Overs
    BY <1>2, Shown
<1>4. \A q \in Requests \ {r} : StateOf(q)' = StateOf(q)
    BY <1>1, StateKept
<1>5. UNCHANGED pending => Lines' = Lines
    BY <1>1, <1>2, LineKept, Shown
<1>6. \A x : StateOf(r)' = x => States' = [States EXCEPT ![r] = x]
    BY <1>4, Shown
<1>7. States[r] = StateOf(r)
    BY DEF States
<1>8. CASE LookUp(r)
    <2>. DEFINE c == hub[ReqDid[r]]
    <2>1. call[r] = "idle" /\ UNCHANGED pending /\ StateOf(r) = "idle"
        BY <1>8 DEF LookUp, queueVars, StateOf, LateInv
    <2>2. c \in Conns \cup {None}
        BY ReqDidAssumption
    <2>3. CASE c = None
        <3>1. call'[r] = "returned" /\ result'[r] = "notConnected" /\ UNCHANGED callConn
            BY <1>8, <2>3 DEF LookUp, Return
        <3>2. StateOf(r)' = "failed"
            BY <3>1 DEF StateOf, LateInv
        <3>. QED BY <1>1, <1>3, <1>5, <1>6, <1>7, <2>1, <3>1, <3>2, ServiceMoves, ServiceSteps
    <2>4. CASE c # None
        <3>1. call'[r] = "enqueue" /\ callConn' = [callConn EXCEPT ![r] = c]
            BY <1>8, <2>4 DEF LookUp
        <3>2. StateOf(r)' = "asking"
            BY <3>1 DEF StateOf, LateInv
        <3>3. c \in Conns
            BY <2>2, <2>4
        <3>. HIDE DEF c
        <3>. QED BY <1>1, <1>3, <1>5, <1>6, <1>7, <2>1, <3>1, <3>2, <3>3, ServiceMoves, ServiceSteps
    <2>. QED BY <2>3, <2>4
<1>9. CASE Enqueue(r)
    <2>0. PICK e \in Conns : e = callConn[r]
        BY <1>9 DEF Enqueue, ConnectionKnown
    <2>1. /\ call[r] = "enqueue" /\ call'[r] = "notify" /\ UNCHANGED callConn
          /\ pending' = [pending EXCEPT ![e] = Append(@, r)]
        BY <1>9, <2>0 DEF Enqueue
    <2>2. StateOf(r) = "asking" /\ StateOf(r)' = "queued"
        BY <2>1 DEF StateOf, LateInv
    <2>3. \A c \in Conns \ {e} : LineOf(c)' = LineOf(c)
        BY <1>1, <1>2, <2>1, LineKept
    <2>4. LineOf(e)' = IF IsOver(e) THEN LineOf(e) ELSE Append(LineOf(e), r)
        <3>1. CASE IsOver(e)
            BY <1>2, <3>1 DEF LineOf
        <3>2. CASE ~IsOver(e)
            <4>. DEFINE a == Ahead(e)
                        p == pending[e]
            <4>1. LineOf(e)' = a \o Append(p, r) /\ LineOf(e) = a \o p
                BY <1>1, <1>2, <2>1, <3>2 DEF LineOf, Ahead, Slot
            <4>2. a \in Seq(Requests) /\ p \in Seq(Requests)
                BY LineType
            <4>. HIDE DEF a, p
            <4>3. a \o Append(p, r) = Append(a \o p, r)
                BY <4>2
            <4>. QED BY <3>2, <4>1, <4>3
        <3>. QED BY <3>1, <3>2
    <2>5. Lines' = [Lines EXCEPT ![e] = IF IsOver(e) THEN LineOf(e) ELSE Append(LineOf(e), r)]
        BY <2>3, <2>4, Shown
    <2>6. Overs[e] = IsOver(e) /\ Lines[e] = LineOf(e)
        BY DEF Overs, Lines
    <2>7. Lines' = IF Overs[callConn[r]] THEN Lines
                   ELSE [Lines EXCEPT ![callConn[r]] = Append(@, r)]
        BY <2>0, <2>5, <2>6 DEF Lines
    <2>. QED BY <1>1, <1>3, <1>6, <1>7, <2>1, <2>2, <2>7, ServiceMoves, ServiceSteps
<1>10. CASE Notify(r) \/ ContextDone(r)
    <2>1. /\ call[r] \in {"notify", "wait"} /\ call'[r] \in {"wait", "cancel"}
          /\ UNCHANGED <<callConn, pending>>
        BY <1>10 DEF Notify, ContextDone, queueVars
    <2>2. StateOf(r)' = StateOf(r)
        BY <2>1 DEF StateOf, LateInv
    <2>. QED BY <1>1, <1>3, <1>4, <1>5, <2>1, <2>2, Shown, Unseen
<1>11. CASE ReceiveReply(r) \/ SeeDone(r)
    <2>1. /\ call[r] = "wait" /\ call'[r] = "returned" /\ UNCHANGED <<callConn, pending>>
          /\ \/ result'[r] = "sig" /\ reply[r] = "sig"
             \/ result'[r] = "rejected" /\ reply[r] = "reject"
             \/ result'[r] = "notConnected"
        BY <1>11 DEF ReceiveReply, SeeDone, Return, queueVars
    <2>. DEFINE how == StateOf(r)'
    <2>2. StateOf(r) = "queued"
        BY <2>1 DEF StateOf, LateInv
    <2>3. \/ how = "signed" /\ prompt[r] = "sig"
          \/ how = "rejected" /\ prompt[r] = "reject"
          \/ how = "failed"
        BY <2>1 DEF StateOf, LateInv, AnswerInv
    <2>. HIDE DEF how
    <2>4. how \in {"signed", "rejected", "failed"} /\ States' = [States EXCEPT ![r] = how]
          /\ (how = "signed" => prompt[r] = "sig") /\ (how = "rejected" => prompt[r] = "reject")
        BY <1>6, <2>3 DEF how
    <2>. QED BY <1>1, <1>3, <1>5, <1>7, <2>1, <2>2, <2>4, ServiceMoves, ServiceSteps
<1>12. CASE Cancel(r)
    <2>0. PICK e \in Conns : e = callConn[r]
        BY <1>12 DEF Cancel, ConnectionKnown
    <2>1. /\ call[r] = "cancel" /\ call'[r] = "returned" /\ result'[r] = "timeout"
          /\ UNCHANGED callConn
          /\ pending' = [pending EXCEPT ![e] = Without(@, r)]
        BY <1>12, <2>0 DEF Cancel, Return
    <2>2. StateOf(r) = "queued" /\ StateOf(r)' = "failed"
        BY <2>1 DEF StateOf, LateInv
    <2>3. \A c \in Conns \ {e} : LineOf(c)' = LineOf(c)
        BY <1>1, <1>2, <2>1, LineKept
    <2>4. CASE ~IsOver(e) /\ r \in Elements(pending[e])
        <3>. DEFINE a == Ahead(e)
                    p == pending[e]
                    l == LineOf(e)
        <3>1. LineOf(e)' = a \o Without(p, r) /\ l = a \o p
            BY <1>1, <1>2, <2>1, <2>4 DEF LineOf, Ahead, Slot
        <3>2. a \in Seq(Requests) /\ p \in Seq(Requests) /\ Distinct(p) /\ r \in Elements(p)
            BY <2>4, LineType DEF PromptInv, QueueInv
        <3>. HIDE DEF a, p, l
        <3>3. PICK i \in 1..Len(a \o p) :
                  /\ (a \o p)[i] = r
                  /\ a \o Without(p, r) = SubSeq(a \o p, 1, i - 1) \o SubSeq(a \o p, i + 1, Len(a \o p))
            <4>. HIDE DEF TypeInv, TypeOK
            <4>. QED BY <3>2, CutOut, Zenon
        <3>. DEFINE cut == SubSeq(l, 1, i - 1) \o SubSeq(l, i + 1, Len(l))
        <3>4. i \in 1..Len(l) /\ l[i] = r /\ LineOf(e)' = cut
            BY <3>1, <3>3
        <3>. HIDE DEF cut
        <3>5. Lines' = [Lines EXCEPT ![e] = cut]
            BY <2>3, <3>4, Shown
        <3>6. Lines[e] = l
            BY DEF Lines, l
        <3>7. /\ i \in 1..Len(Lines[callConn[r]]) /\ Lines[callConn[r]][i] = r
              /\ Lines' = [Lines EXCEPT ![callConn[r]] =
                              SubSeq(@, 1, i - 1) \o SubSeq(@, i + 1, Len(@))]
            BY <2>0, <3>4, <3>5, <3>6 DEF cut
        <3>. QED BY <1>1, <1>3, <1>6, <1>7, <2>1, <2>2, <3>7, ServiceMoves, ServiceSteps
    <2>5. CASE IsOver(e) \/ r \notin Elements(pending[e])
        <3>1. LineOf(e)' = LineOf(e)
            <4>1. CASE IsOver(e)
                BY <1>2, <4>1 DEF LineOf
            <4>2. CASE r \notin Elements(pending[e])
                <5>1. Without(pending[e], r) = pending[e]
                    BY <4>2 DEF Without, Elements
                <5>2. pending'[e] = pending[e]
                    BY <2>1, <5>1
                <5>. QED BY <1>1, <1>2, <5>2, LineKept
            <4>. QED BY <2>5, <4>1, <4>2
        <3>2. Lines' = Lines
            BY <2>3, <3>1, Shown
        <3>3. States' = [States EXCEPT ![r] = "failed"]
            BY <1>6, <2>2
        <3>. QED BY <1>1, <1>3, <1>7, <2>1, <2>2, <3>2, <3>3, ServiceMoves, ServiceSteps
    <2>. QED BY <2>4, <2>5
<1>. QED BY <1>8, <1>9, <1>10, <1>11, <1>12 DEF Caller

\* A slot in front of a line is its head.
LEMMA InFront ==
    ASSUME NEW S, NEW s \in Seq(S), NEW x \in S
    PROVE  /\ << >> \o s = s /\ s \o << >> = s
           /\ <<x>> \o s # << >> /\ Head(<<x>> \o s) = x /\ Tail(<<x>> \o s) = s
           /\ s # << >> => /\ <<Head(s)>> \o Tail(s) = s /\ Tail(s) \in Seq(S) /\ Head(s) \in S
<1>1. s # << >> => <<Head(s)>> \o Tail(s) = s /\ Tail(s) \in Seq(S) /\ Head(s) \in S
    OBVIOUS
<1>2. << >> \o s = s /\ s \o << >> = s
    OBVIOUS
<1>3. <<x>> \o s \in Seq(S) /\ Len(<<x>> \o s) = 1 + Len(s) /\ (<<x>> \o s)[1] = x
    OBVIOUS
<1>4. Tail(<<x>> \o s) = s
    OBVIOUS
<1>. QED BY <1>1, <1>2, <1>3, <1>4

\* A running loop's line in each of the three ways its slots can be.
LEMMA LineForm ==
    ASSUME TypeInv, HandOverInv, NEW c \in Conns, ~IsOver(c)
    PROVE  /\ nextReq[c] = None /\ picked[c] = None => LineOf(c) = pending[c]
           /\ picked[c] # None => nextReq[c] = None /\ LineOf(c) = <<picked[c]>> \o pending[c]
           /\ nextReq[c] # None => picked[c] = None /\ LineOf(c) = <<nextReq[c]>> \o pending[c]
<1>. USE NoneAssumption DEF TypeInv, TypeOK
<1>1. LineOf(c) = Slot(nextReq[c]) \o Slot(picked[c]) \o pending[c]
    BY DEF LineOf
<1>2. picked[c] # None => nextReq[c] = None
    BY LineType DEF HandOverInv
<1>3. pending[c] \in Seq(Requests)
    OBVIOUS
<1>4. CASE nextReq[c] = None /\ picked[c] = None
    <2>1. LineOf(c) = << >> \o << >> \o pending[c]
        BY <1>1, <1>4 DEF Slot
    <2>. QED BY <1>3, <1>4, <2>1
<1>5. CASE nextReq[c] = None /\ picked[c] # None
    <2>1. LineOf(c) = << >> \o <<picked[c]>> \o pending[c] /\ picked[c] \in Requests
        BY <1>1, <1>5 DEF Slot
    <2>. QED BY <1>3, <1>5, <2>1
<1>6. CASE nextReq[c] # None /\ picked[c] = None
    <2>1. LineOf(c) = <<nextReq[c]>> \o << >> \o pending[c] /\ nextReq[c] \in Requests
        BY <1>1, <1>6 DEF Slot
    <2>. QED BY <1>3, <1>6, <2>1
<1>. QED BY <1>2, <1>4, <1>5, <1>6

\* The pump moves requests along the line; when it stops with one in its
\* hands, that one is lost.
LEMMA PumpServes ==
    ASSUME TypeInv, PromptInv, PromptInv', TypeInv', NEW c \in Conns, Pump(c)
    PROVE  [Service!Next]_(Service!vars)
<1>. USE NoneAssumption DEF TypeInv, TypeOK
<1>1. /\ UNCHANGED <<handler, call, callConn, result, prompt>>
      /\ \A b \in Conns \ {c} : /\ pending'[b] = pending[b] /\ nextReq'[b] = nextReq[b]
                                /\ picked'[b] = picked[b]
    BY DEF Pump, PumpTake, PumpIdle, PumpWake, PumpSend, PumpStop, pumpKeeps, callVars, loopVars,
           wireVars, queueVars
<1>2. \A b \in Conns : IsOver(b)' = IsOver(b)
    BY <1>1 DEF IsOver
<1>3. Overs' = Overs /\ States' = States
    BY <1>1, <1>2, Shown, StateKept
<1>4. \A b \in Conns \ {c} : LineOf(b)' = LineOf(b)
    BY <1>1, <1>2, LineKept
<1>5. SUFFICES LineOf(c)' # LineOf(c) =>
                   LineOf(c) # << >> /\ LineOf(c)' = Tail(LineOf(c))
    <2>1. CASE LineOf(c)' = LineOf(c)
        BY <1>1, <1>3, <1>4, <2>1, Shown, Unseen
    <2>2. CASE LineOf(c) # << >> /\ LineOf(c)' = Tail(LineOf(c))
        <3>. DEFINE t == Tail(LineOf(c))
        <3>1. LineOf(c)' = t
            BY <2>2
        <3>. HIDE DEF t
        <3>2. Lines' = [Lines EXCEPT ![c] = t]
            BY <1>4, <3>1, Shown
        <3>3. Lines[c] = LineOf(c)
            BY DEF Lines
        <3>4. Lines[c] # << >> /\ Lines' = [Lines EXCEPT ![c] = Tail(@)]
            BY <2>2, <3>2, <3>3 DEF t
        <3>. QED BY <1>1, <1>3, <3>4, ServiceMoves, ServiceSteps
    <2>. QED BY <1>5, <2>1, <2>2
<1>6. CASE IsOver(c)
    BY <1>2, <1>6 DEF LineOf
<1>7. CASE ~IsOver(c)
    <2>0. ~IsOver(c)' /\ HandOverInv /\ HandOverInv'
        BY <1>2, <1>7 DEF PromptInv
    <2>1. CASE PumpTake(c)
        <3>. DEFINE p == pending[c]
                    h == Head(p)
        <3>1. /\ p # << >> /\ inflight[c] = {}
              /\ pending'[c] = Tail(p) /\ picked'[c] = h /\ nextReq'[c] = nextReq[c]
            BY <2>1 DEF PumpTake, MayTake
        <3>2. nextReq[c] = None /\ picked[c] = None
            BY <2>0, <3>1, <1>7, LineType DEF HandOverInv
        <3>3. LineOf(c) = p
            BY <1>7, <2>0, <3>2, LineForm
        <3>4. h \in Requests /\ <<h>> \o Tail(p) = p
            BY <3>1
        <3>5. LineOf(c)' = << >> \o <<h>> \o Tail(p)
            BY <2>0, <3>1, <3>2, <3>4 DEF LineOf, Slot
        <3>6. Tail(p) \in Seq(Requests)
            BY <3>1
        <3>. HIDE DEF h, p
        <3>7. << >> \o <<h>> = <<h>>
            BY <3>4
        <3>8. LineOf(c)' = p
            BY <3>4, <3>5, <3>7, Zenon
        <3>. QED BY <3>3, <3>8, Zenon
    <2>2. CASE PumpIdle(c) \/ PumpWake(c)
        <3>1. pending' = pending /\ nextReq' = nextReq /\ picked' = picked
            BY <2>2 DEF PumpIdle, PumpWake, queueVars
        <3>. QED BY <1>2, <3>1, LineKept
    <2>3. CASE PumpSend(c)
        <3>. DEFINE p == pending[c]
                    h == picked[c]
        <3>1. /\ nextReq[c] = None /\ nextReq'[c] = h /\ picked'[c] = None /\ pending'[c] = p
            BY <2>3 DEF PumpSend, queueVars
        <3>2. LineOf(c) = Slot(None) \o Slot(h) \o p
            BY <1>7, <3>1 DEF LineOf
        <3>3. LineOf(c)' = Slot(h) \o Slot(None) \o p
            BY <2>0, <3>1 DEF LineOf, Slot
        <3>4. Slot(h) \in Seq(Requests) /\ Slot(None) = << >>
            BY DEF Slot
        <3>5. Slot(None) \o Slot(h) = Slot(h) /\ Slot(h) \o Slot(None) = Slot(h)
            BY <3>4
        <3>. HIDE DEF h, p
        <3>. QED BY <3>2, <3>3, <3>5
    <2>4. CASE PumpStop(c)
        <3>. DEFINE p == pending[c]
                    h == picked[c]
        <3>1. /\ nextReq'[c] = nextReq[c] /\ picked'[c] = None /\ pending'[c] = p
            BY <2>4 DEF PumpStop, queueVars
        <3>2. CASE h = None
            BY <1>2, <3>1, <3>2, LineKept
        <3>3. CASE h # None
            <4>1. nextReq[c] = None /\ LineOf(c) = <<h>> \o p
                BY <1>7, <2>0, <3>3, LineForm
            <4>2. LineOf(c)' = << >> \o << >> \o p
                BY <2>0, <3>1, <4>1 DEF LineOf, Slot
            <4>3. p \in Seq(Requests) /\ h \in Requests
                BY <3>3
            <4>. HIDE DEF h, p
            <4>4. LineOf(c)' = p
                BY <4>2, <4>3
            <4>5. <<h>> \o p # << >> /\ Tail(<<h>> \o p) = p
                BY <4>3, InFront
            <4>. QED BY <4>1, <4>4, <4>5
        <3>. QED BY <3>2, <3>3
    <2>. QED BY <2>1, <2>2, <2>3, <2>4 DEF Pump
<1>. QED BY <1>6, <1>7

\* A step of a handler that leaves the queue, the slots and the prompts alone
\* and does not end the main loop.
LEMMA HandlerUnseen ==
    ASSUME UNCHANGED <<call, callConn, result, prompt>>,
           \A c \in Conns : /\ IsOver(c)' = IsOver(c)
                            /\ IsOver(c) \/ UNCHANGED <<pending[c], nextReq[c], picked[c]>>
    PROVE  [Service!Next]_(Service!vars)
<1>1. ASSUME NEW c \in Conns PROVE LineOf(c)' = LineOf(c)
    <2>1. CASE IsOver(c)
        BY <2>1 DEF LineOf
    <2>2. CASE ~IsOver(c)
        BY <2>2, LineKept
    <2>. QED BY <2>1, <2>2
<1>2. States' = States /\ Lines' = Lines /\ Overs' = Overs
    BY <1>1, Shown, StateKept
<1>. QED BY <1>2, Unseen

\* The main loop returns: the session shows nothing any more.
LEMMA LoopEnds ==
    ASSUME NEW c \in Conns, LeaveLoop(c), handler[c] = "loop", TypeInv,
           UNCHANGED <<pending, picked, callVars>>,
           \A b \in Conns \ {c} : nextReq'[b] = nextReq[b]
    PROVE  [Service!Next]_(Service!vars)
<1>1. handler' = [handler EXCEPT ![c] = "unregister"] /\ UNCHANGED prompt
    BY DEF LeaveLoop, MoveHandler
<1>2. ~IsOver(c) /\ IsOver(c)' = TRUE /\ \A b \in Conns \ {c} : IsOver(b)' = IsOver(b)
    BY <1>1 DEF IsOver, TypeInv, TypeOK
<1>3. \A b \in Conns \ {c} : LineOf(b)' = LineOf(b)
    BY <1>2, LineKept
<1>4. LineOf(c)' = << >>
    BY <1>2 DEF LineOf
<1>5. Overs' = [Overs EXCEPT ![c] = TRUE] /\ ~Overs[c]
    BY <1>2, Shown DEF Overs
<1>6. Lines' = [Lines EXCEPT ![c] = << >>]
    BY <1>3, <1>4, Shown
<1>7. States' = States /\ UNCHANGED callConn
    BY Shown, StateKept DEF callVars
<1>. QED BY <1>1, <1>5, <1>6, <1>7, ServiceMoves, ServiceSteps

\* SendPrompt shows the head of the line, or loses it on a dead socket.
LEMMA PromptServes ==
    ASSUME TypeInv, PromptInv, NEW c \in Conns, SendPrompt(c)
    PROVE  [Service!Next]_(Service!vars)
<1>. USE NoneAssumption DEF TypeInv, TypeOK
<1>. DEFINE r == nextReq[c]
            p == pending[c]
<1>1. /\ handler[c] = "loop" /\ r \in Requests
      /\ prompt' = IF wsUp[c] THEN [prompt EXCEPT ![r] = "sent"] ELSE prompt
      /\ nextReq' = [nextReq EXCEPT ![c] = None]
      /\ UNCHANGED <<handler, pending, picked, call, callConn, result>>
    BY DEF SendPrompt, loopKeeps, callVars, pumpVars, queueVars
<1>2. \A b \in Conns : IsOver(b)' = IsOver(b)
    BY <1>1 DEF IsOver
<1>3. Overs' = Overs /\ States' = States
    BY <1>1, <1>2, Shown, StateKept
<1>4. \A b \in Conns \ {c} : LineOf(b)' = LineOf(b)
    BY <1>1, <1>2, LineKept
<1>5. ~IsOver(c) /\ Running(c) /\ ~IsOver(c)'
    BY <1>1, <1>2 DEF IsOver, Running
<1>6. LineOf(c) = <<r>> \o p /\ picked[c] = None /\ p \in Seq(Requests)
    BY <1>1, <1>5, LineForm DEF PromptInv
<1>7. LineOf(c)' = << >> \o << >> \o p
    BY <1>1, <1>5, <1>6 DEF LineOf, Slot
<1>. DEFINE l == LineOf(c)
<1>8. l # << >> /\ Head(l) = r /\ Tail(l) = p
    <2>. HIDE DEF r, p
    <2>. QED BY <1>1, <1>6, InFront
<1>9. LineOf(c)' = p
    <2>. HIDE DEF r, p
    <2>. QED BY <1>6, <1>7
<1>10. Lines[c] = l
    BY DEF Lines
<1>11. prompt[r] = "unsent" /\ \A q \in Requests : callConn[q] = c => prompt[q] # "sent"
    <2>1. prompt[r] = "unsent" /\ r \in inflight[c]
        BY <1>1, <1>5 DEF PromptInv, HandOverInv
    <2>2. ASSUME NEW q \in Requests, callConn[q] = c, prompt[q] = "sent" PROVE FALSE
        <3>1. q \in inflight[c]
            BY <1>1, <2>2 DEF PromptInv, PromptStateInv
        <3>2. q = r
            BY <2>1, <3>1 DEF PromptInv, FlightInv
        <3>. QED BY <2>1, <2>2, <3>2
    <2>. QED BY <2>1, <2>2
<1>. HIDE DEF r, p, l
<1>12. Lines' = [Lines EXCEPT ![c] = p]
    BY <1>4, <1>9, Shown
<1>13. Lines[c] # << >> /\ Lines' = [Lines EXCEPT ![c] = Tail(@)]
    BY <1>8, <1>10, <1>12
<1>14. CASE wsUp[c]
    <2>1. prompt' = [prompt EXCEPT ![Head(Lines[c])] = "sent"] /\ prompt[Head(Lines[c])] = "unsent"
        BY <1>1, <1>8, <1>10, <1>11, <1>14
    <2>. QED BY <1>1, <1>3, <1>11, <1>13, <2>1, ServiceMoves, ServiceSteps
<1>15. CASE ~wsUp[c]
    BY <1>1, <1>3, <1>13, <1>15, ServiceMoves, ServiceSteps
<1>. QED BY <1>14, <1>15

\* The main loop shows, ends, or is busy with answers, which the service does
\* not see.
LEMMA LoopActs ==
    ASSUME TypeInv, PromptInv, NEW c \in Conns, Loop(c)
    PROVE  [Service!Next]_(Service!vars)
<1>. USE DEF TypeInv, TypeOK
<1>1. CASE SendPrompt(c)
    BY <1>1, PromptServes
<1>2. CASE WriteFails(c)
    BY <1>2, LoopEnds DEF WriteFails, loopKeeps, queueVars, pumpVars
<1>3. CASE Disconnect(c)
    BY <1>3, LoopEnds DEF Disconnect, loopKeeps, queueVars, pumpVars
<1>4. CASE DropAnswer(c) \/ RouteAnswer(c) \/ TakeInflight(c) \/ SendReply(c) \/ WakePump(c)
    <2>1. /\ UNCHANGED <<call, callConn, result, prompt, pending, nextReq, picked>>
          /\ \/ UNCHANGED handler
             \/ \E h \in {"loop", "deliver", "reply", "wake"} :
                   /\ handler[c] \in {"loop", "deliver", "reply", "wake"}
                   /\ handler' = [handler EXCEPT ![c] = h]
        BY <1>4 DEF DropAnswer, RouteAnswer, TakeInflight, SendReply, WakePump, MoveHandler,
                    loopKeeps, callVars, pumpVars, queueVars, wireVars
    <2>2. \A b \in Conns : IsOver(b)' = IsOver(b)
        BY <2>1 DEF IsOver
    <2>. QED BY <2>1, <2>2, HandlerUnseen
<1>. QED BY <1>1, <1>2, <1>3, <1>4 DEF Loop

\* Nothing of the teardown, of opening a session and of the network's end of
\* the socket is seen, but the signer's decisions.
LEMMA BesideServes ==
    ASSUME TypeInv, NEW c \in Conns,
           Teardown(c) \/ Connect(c) \/ TokenExpires(c) \/ Drop(c) \/ Answer(c)
    PROVE  [Service!Next]_(Service!vars)
<1>. USE DEF TypeInv, TypeOK
<1>1. CASE Teardown(c)
    <2>1. /\ UNCHANGED <<call, callConn, result, prompt, nextReq, picked>>
          /\ IsOver(c) /\ \A b \in Conns : IsOver(b)' = IsOver(b)
          /\ \A b \in Conns \ {c} : pending'[b] = pending[b]
        BY <1>1 DEF Teardown, Unregister, FailAllLock, FailInflight, FailPending, FailAllDone,
                    MoveHandler, teardownKeeps, callVars, pumpVars, IsOver
    <2>. QED BY <2>1, HandlerUnseen
<1>2. CASE Connect(c) \/ Drop(c)
    <2>1. /\ UNCHANGED <<call, callConn, result, prompt, pending, nextReq, picked>>
          /\ \/ UNCHANGED handler
             \/ handler[c] = "idle" /\ handler' = [handler EXCEPT ![c] = "loop"]
        BY <1>2 DEF Connect, Drop, MoveHandler, loopKeeps, callVars, pumpVars, queueVars, loopVars
    <2>2. \A b \in Conns : IsOver(b)' = IsOver(b)
        BY <2>1 DEF IsOver
    <2>. QED BY <2>1, <2>2, HandlerUnseen
<1>3. CASE TokenExpires(c)
    BY <1>3, LoopEnds DEF TokenExpires, loopKeeps, queueVars, pumpVars
<1>4. CASE Answer(c)
    <2>1. PICK r \in Requests, v \in Verdicts :
              prompt[r] = "sent" /\ prompt' = [prompt EXCEPT ![r] = v]
        BY <1>4 DEF Answer
    <2>2. UNCHANGED <<handler, pending, nextReq, picked, call, callConn, result>>
        BY <1>4 DEF Answer, loopKeeps, callVars, pumpVars, queueVars, loopVars
    <2>3. v \in {"sig", "bad", "reject"}
        BY VerdictsAssumption
    <2>4. \A b \in Conns : IsOver(b)' = IsOver(b)
        BY <2>2 DEF IsOver
    <2>5. States' = States /\ Lines' = Lines /\ Overs' = Overs
        BY <2>2, <2>4, Shown, StateKept, LineKept
    <2>. QED BY <2>1, <2>2, <2>3, <2>5, ServiceMoves, ServiceSteps
<1>. QED BY <1>1, <1>2, <1>3, <1>4

\* Every step of the hub is a step of the service or none.
LEMMA ServiceStep ==
    ASSUME TypeInv, TypeInv', PromptInv, PromptInv', AnswerInv, LateInv, LateInv', [Next]_vars
    PROVE  [Service!Next]_(Service!vars)
<1>1. CASE UNCHANGED vars
    BY <1>1, HandlerUnseen DEF vars, callVars, pumpVars, queueVars, loopVars, wireVars, IsOver
<1>. QED BY <1>1, CallerServes, PumpServes, LoopActs, BesideServes DEF Next

\* The goroutines, channels and mutexes of the hub, its evictions, timeouts
\* and teardowns only ever do what the service allows: prompts in order and
\* one at a time per session, outcomes that are the signer's.
THEOREM HubImplementsService == Spec => ImplementsService
<1>1. Init => AnswerInv
    BY DEF Init, AnswerInv, OutcomeIsTheSigners
<1>2. Init => LateInv
    BY DEF Init, LateInv, Elements
<1>3. /\ TypeInv /\ TypeInv' /\ PromptInv /\ PromptInv' /\ AnswerInv /\ LateInv /\ LateInv'
      /\ [Next]_vars
      => [Service!Next]_(Service!vars)
    BY ServiceStep
<1>. QED BY TypeInit, TypeStep, PromptInit, PromptStep, AnswerStep, LateStep, ServiceInit,
            <1>1, <1>2, <1>3, PTL DEF Spec, ImplementsService, Service!Spec
-----------------------------------------------------------------------------
(* Where a handler can block.  A reply channel holds one value, and a second *)
(* send waits for a caller that may be gone.                                 *)

\* A handler after its main loop, before it has closed the connection.
Leaving(c) == handler[c] \in {"unregister", "failAll", "drain"}

\* A request that a delivery took out of inflight belongs to that delivery
\* alone, and its caller has not been told anything.
TakenInv ==
    \A b \in Conns : handler[b] = "reply" =>
        /\ reply[dlv[b].req] = "empty"
        /\ \A c \in Conns : dlv[b].req \notin inflight[c]
        /\ \A c \in Conns : handler[c] = "reply" /\ dlv[c].req = dlv[b].req => c = b

\* A request with a full reply channel is in no queue; it is still in flight
\* only where its prompt could not be written and the handler is leaving.
FullInv ==
    \A r \in Requests : reply[r] # "empty" =>
        /\ Called(r)
        /\ \A c \in Conns : r \notin Elements(pending[c])
        /\ \A c \in Conns : r \in inflight[c] => prompt[r] = "unsent" /\ Leaving(c)

RoomInv == TakenInv /\ FullInv

\* What every step but a successful TakeInflight does: a request enters a queue
\* from its caller only and inflight from the queue only, a prompt is shown
\* from a running main loop, and a leaving handler stays one until it has
\* emptied inflight.
Orderly ==
    /\ \A c \in Conns :
          /\ \A r \in Elements(pending'[c]) : r \in Elements(pending[c]) \/ ~Called(r)
          /\ \A r \in inflight'[c] : r \in inflight[c] \/ r \in Elements(pending[c])
          /\ Leaving(c) => Leaving(c)' \/ inflight'[c] = {}
          /\ handler'[c] = "reply" => handler[c] = "reply" /\ dlv'[c] = dlv[c]
    /\ \A r \in Requests :
          /\ Called(r) => Called(r)'
          /\ \/ prompt[r] # "unsent"
             \/ prompt'[r] = "unsent"
             \/ \E c \in Conns : handler[c] = "loop" /\ r \in inflight[c]

\* An orderly step that sends replies to the requests in R only, which are then
\* in no queue and in no delivery, keeps the invariant.
LEMMA RoomKept ==
    ASSUME TypeInv, TypeInv', PromptInv, RoomInv, Orderly, NEW R \in SUBSET Requests,
           \A r \in Requests \ R : reply'[r] \in {reply[r], "empty"},
           \A r \in R :
               /\ Called(r)
               /\ \A c \in Conns :
                     /\ r \notin Elements(pending'[c])
                     /\ r \in inflight'[c] => prompt'[r] = "unsent" /\ Leaving(c)'
                     /\ handler'[c] = "reply" => dlv'[c].req # r
    PROVE  RoomInv'
<1>1. TakenInv'
    <2>. SUFFICES ASSUME NEW b \in Conns, handler'[b] = "reply"
                  PROVE  /\ reply'[dlv'[b].req] = "empty"
                         /\ \A c \in Conns : dlv'[b].req \notin inflight'[c]
                         /\ \A c \in Conns :
                               handler'[c] = "reply" /\ dlv'[c].req = dlv'[b].req => c = b
        BY DEF TakenInv
    <2>. DEFINE r == dlv[b].req
    <2>1. handler[b] = "reply" /\ dlv'[b] = dlv[b]
        BY DEF Orderly
    <2>2. r \in Requests
        BY <2>1 DEF TypeInv, DeliveryKnown, Deliveries
    <2>3. Answered(r)
        BY <2>1 DEF PromptInv, PromptStateInv
    <2>4. \A c \in Conns : r \notin Elements(pending[c])
        BY <2>3 DEF PromptInv, QueueInv, Answered
    <2>5. /\ reply[r] = "empty"
          /\ \A c \in Conns : r \notin inflight[c]
          /\ \A c \in Conns : handler[c] = "reply" /\ dlv[c].req = r => c = b
        BY <2>1 DEF RoomInv, TakenInv
    <2>6. r \notin R
        BY <2>1
    <2>7. reply'[r] = "empty"
        BY <2>2, <2>5, <2>6
    <2>8. \A c \in Conns : r \notin inflight'[c]
        BY <2>4, <2>5 DEF Orderly
    <2>9. \A c \in Conns : handler'[c] = "reply" => handler[c] = "reply" /\ dlv'[c] = dlv[c]
        BY DEF Orderly
    <2>. QED BY <2>1, <2>5, <2>7, <2>8, <2>9
<1>2. FullInv'
    <2>. SUFFICES ASSUME NEW r \in Requests, reply'[r] # "empty"
                  PROVE  /\ Called(r)'
                         /\ \A c \in Conns : r \notin Elements(pending'[c])
                         /\ \A c \in Conns : r \in inflight'[c] =>
                               prompt'[r] = "unsent" /\ Leaving(c)'
        BY DEF FullInv
    <2>1. CASE r \in R
        BY <2>1 DEF Orderly
    <2>2. CASE r \notin R
        <3>1. reply[r] # "empty"
            BY <2>2
        <3>2. /\ Called(r)
              /\ \A c \in Conns : r \notin Elements(pending[c])
              /\ \A c \in Conns : r \in inflight[c] => prompt[r] = "unsent" /\ Leaving(c)
            BY <3>1 DEF RoomInv, FullInv
        <3>3. Called(r)' /\ \A c \in Conns : r \notin Elements(pending'[c])
            BY <3>2 DEF Orderly
        <3>4. ASSUME NEW c \in Conns, r \in inflight'[c]
              PROVE  prompt'[r] = "unsent" /\ Leaving(c)'
            <4>1. r \in inflight[c]
                BY <3>2, <3>4 DEF Orderly
            <4>2. prompt[r] = "unsent" /\ Leaving(c)
                BY <3>2, <4>1
            <4>3. \A b \in Conns : handler[b] = "loop" => r \notin inflight[b]
                BY <3>2 DEF Leaving
            <4>4. prompt'[r] = "unsent"
                BY <4>2, <4>3 DEF Orderly
            <4>5. Leaving(c)'
                BY <3>4, <4>2 DEF Orderly
            <4>. QED BY <4>4, <4>5
        <3>. QED BY <3>3, <3>4
    <2>. QED BY <2>1, <2>2
<1>. QED BY <1>1, <1>2 DEF RoomInv

\* An orderly step that sends no reply keeps it.
LEMMA QuietRoom ==
    ASSUME TypeInv, TypeInv', PromptInv, RoomInv, Orderly,
           \A r \in Requests : reply'[r] \in {reply[r], "empty"}
    PROVE  RoomInv'
<1>. DEFINE R == {}
<1>1. R \in SUBSET Requests /\ \A r \in R : FALSE
    OBVIOUS
<1>2. \A r \in Requests \ R : reply'[r] \in {reply[r], "empty"}
    OBVIOUS
<1>. HIDE DEF R
<1>3. \A r \in R :
          /\ Called(r)
          /\ \A c \in Conns :
                /\ r \notin Elements(pending'[c])
                /\ r \in inflight'[c] => prompt'[r] = "unsent" /\ Leaving(c)'
                /\ handler'[c] = "reply" => dlv'[c].req # r
    BY <1>1
<1>. QED BY <1>1, <1>2, <1>3, RoomKept

\* A step in which no request moves forward is orderly, if it starts no reply
\* and ends no teardown early.
LEMMA RecedingOrderly ==
    ASSUME TypeInv, Recedes,
           \A c \in Conns : Leaving(c) => Leaving(c)' \/ inflight'[c] = {},
           \A c \in Conns : handler'[c] = "reply" => handler[c] = "reply" /\ dlv'[c] = dlv[c]
    PROVE  Orderly
<1>1. \A c \in Conns :
          /\ \A r \in Elements(pending'[c]) : r \in Elements(pending[c])
          /\ \A r \in inflight'[c] : r \in inflight[c]
    BY DEF Recedes
<1>2. \A r \in Requests : (Called(r) => Called(r)') /\ prompt'[r] = prompt[r]
    BY DEF Recedes
<1>. QED BY <1>1, <1>2 DEF Orderly

\* A caller fills no reply channel.
LEMMA CallerRoom ==
    ASSUME TypeInv, TypeInv', PromptInv, RoomInv, NEW r \in Requests, Caller(r)
    PROVE  RoomInv'
<1>1. /\ UNCHANGED <<handler, dlv, prompt, inflight>>
      /\ reply' = reply \/ reply' = [reply EXCEPT ![r] = "empty"]
    BY DEF Caller, LookUp, Enqueue, Notify, ReceiveReply, SeeDone, ContextDone, Cancel,
           callerKeeps, loopVars, wireVars, queueVars
<1>2. \A s \in Requests : reply'[s] \in {reply[s], "empty"}
    BY <1>1 DEF TypeInv, TypeOK
<1>3. Orderly
    <2>1. CASE Enqueue(r)
        <3>. DEFINE c == callConn[r]
        <3>1. c \in Conns /\ call[r] = "enqueue"
            BY <2>1 DEF Enqueue, TypeInv, ConnectionKnown
        <3>2. /\ pending' = [pending EXCEPT ![c] = Append(pending[c], r)]
              /\ call' = [call EXCEPT ![r] = "notify"]
            BY <2>1 DEF Enqueue
        <3>. HIDE DEF c
        <3>3. \A b \in Conns : pending[b] \in Seq(Requests)
            BY DEF TypeInv, TypeOK
        <3>4. /\ Elements(Append(pending[c], r)) = Elements(pending[c]) \cup {r}
              /\ pending'[c] = Append(pending[c], r)
              /\ \A b \in Conns \ {c} : pending'[b] = pending[b]
            BY <3>1, <3>2, <3>3, AppendQueue DEF TypeInv, TypeOK
        <3>5. ~Called(r)
            BY <3>1 DEF Called
        <3>6. \A b \in Conns : \A s \in Elements(pending'[b]) :
                  s \in Elements(pending[b]) \/ ~Called(s)
            BY <3>1, <3>4, <3>5
        <3>7. \A s \in Requests : Called(s) => Called(s)'
            BY <3>2 DEF Called, TypeInv, TypeOK
        <3>. QED BY <1>1, <3>6, <3>7 DEF Orderly, Leaving
    <2>2. CASE ~Enqueue(r)
        BY <1>1, <2>2, CallerRecedes, RecedingOrderly DEF Leaving
    <2>. QED BY <2>1, <2>2
<1>. QED BY <1>2, <1>3, QuietRoom

\* A pump fills no reply channel; what it puts in flight was in the queue.
LEMMA PumpRoom ==
    ASSUME TypeInv, TypeInv', PromptInv, RoomInv, NEW c \in Conns, Pump(c)
    PROVE  RoomInv'
<1>1. UNCHANGED <<handler, dlv, prompt, reply, call>>
    BY DEF Pump, PumpTake, PumpIdle, PumpWake, PumpSend, PumpStop,
           pumpKeeps, callVars, loopVars, wireVars
<1>2. Orderly
    <2>1. CASE PumpTake(c)
        <3>1. /\ pending[c] # <<>> /\ pending[c] \in Seq(Requests)
              /\ pending' = [pending EXCEPT ![c] = Tail(pending[c])]
              /\ inflight' = [inflight EXCEPT ![c] = inflight[c] \cup {Head(pending[c])}]
            BY <2>1 DEF PumpTake, MayTake, TypeInv, TypeOK
        <3>2. /\ Head(pending[c]) \in Elements(pending[c])
              /\ Elements(Tail(pending[c])) \subseteq Elements(pending[c])
            BY <3>1, TailQueue
        <3>3. \A b \in Conns : Elements(pending'[b]) \subseteq Elements(pending[b])
            BY <3>1, <3>2 DEF TypeInv, TypeOK
        <3>4. \A b \in Conns : \A s \in inflight'[b] :
                  s \in inflight[b] \/ s \in Elements(pending[b])
            BY <3>1, <3>2 DEF TypeInv, TypeOK
        <3>. QED BY <1>1, <3>3, <3>4 DEF Orderly, Called, Leaving
    <2>2. CASE ~PumpTake(c)
        <3>1. UNCHANGED <<pending, inflight>>
            BY <2>2 DEF Pump, PumpIdle, PumpWake, PumpSend, PumpStop, queueVars
        <3>. QED BY <1>1, <3>1 DEF Orderly, Called, Leaving
    <2>. QED BY <2>1, <2>2
<1>. QED BY <1>1, <1>2, QuietRoom

\* An orderly step that sends one request a reply, while that request is called,
\* in no queue afterwards, being delivered by nobody, and in flight only where
\* the handler leaves after a failed write.
LEMMA ReplyRoom ==
    ASSUME TypeInv, TypeInv', PromptInv, RoomInv, Orderly, NEW r \in Requests,
           \A s \in Requests \ {r} : reply'[s] = reply[s],
           Called(r),
           \A c \in Conns :
               /\ r \notin Elements(pending'[c])
               /\ r \in inflight'[c] => prompt'[r] = "unsent" /\ Leaving(c)'
               /\ handler'[c] = "reply" => dlv'[c].req # r
    PROVE  RoomInv'
<1>. DEFINE R == {r}
<1>1. R \in SUBSET Requests /\ \A s \in R : s = r
    OBVIOUS
<1>2. \A s \in Requests \ R : reply'[s] \in {reply[s], "empty"}
    OBVIOUS
<1>. HIDE DEF R
<1>3. \A s \in R :
          /\ Called(s)
          /\ \A c \in Conns :
                /\ s \notin Elements(pending'[c])
                /\ s \in inflight'[c] => prompt'[s] = "unsent" /\ Leaving(c)'
                /\ handler'[c] = "reply" => dlv'[c].req # s
    BY <1>1
<1>. QED BY <1>1, <1>2, <1>3, RoomKept

\* deliver takes a request out of inflight for itself; its answer is the first
\* thing that the caller hears, for only an unsent prompt was failed before.
LEMMA TakeRoom ==
    ASSUME TypeInv, TypeInv', PromptInv, RoomInv, NEW c \in Conns, TakeInflight(c),
           dlv[c].req \in inflight[dlv[c].to]
    PROVE  RoomInv'
<1>. DEFINE to == dlv[c].to
            r == dlv[c].req
<1>1. /\ handler[c] = "deliver"
      /\ inflight' = [inflight EXCEPT ![to] = inflight[to] \ {r}]
      /\ handler' = [handler EXCEPT ![c] = "reply"]
      /\ UNCHANGED <<dlv, reply, prompt, pending, call>>
    BY DEF TakeInflight, MoveHandler, loopKeeps, callVars, wireVars
<1>2. to \in Conns /\ r \in Requests /\ r \in inflight[to]
    BY <1>1 DEF TypeInv, DeliveryKnown, Deliveries
<1>3. Answered(r)
    BY <1>1 DEF PromptInv, PromptStateInv
<1>4. reply[r] = "empty"
    BY <1>2, <1>3 DEF RoomInv, FullInv, Answered
<1>. HIDE DEF to, r
<1>5. inflight \in [Conns -> SUBSET Requests] /\ handler \in [Conns -> HandlerStates]
    BY DEF TypeInv, TypeOK
<1>6. \A b \in Conns : inflight'[b] \subseteq inflight[b]
    BY <1>1, <1>2, <1>5
<1>7. \A b \in Conns : r \notin inflight'[b]
    <2>1. \A b \in Conns : r \in inflight[b] => b = to
        BY <1>2 DEF PromptInv, FlightInv
    <2>2. r \notin inflight'[to]
        BY <1>1, <1>2, <1>5
    <2>. QED BY <1>6, <2>1, <2>2
<1>8. handler'[c] = "reply" /\ \A b \in Conns \ {c} : handler'[b] = handler[b]
    BY <1>1, <1>5
<1>9. TakenInv'
    <2>1. \A b \in Conns \ {c} : handler[b] = "reply" => dlv[b].req # r
        BY <1>2 DEF RoomInv, TakenInv
    <2>. SUFFICES ASSUME NEW b \in Conns, handler'[b] = "reply"
                  PROVE  /\ reply'[dlv'[b].req] = "empty"
                         /\ \A e \in Conns : dlv'[b].req \notin inflight'[e]
                         /\ \A e \in Conns :
                               handler'[e] = "reply" /\ dlv'[e].req = dlv'[b].req => e = b
        BY DEF TakenInv
    <2>2. CASE b = c
        <3>1. dlv'[b].req = r
            BY <1>1, <2>2 DEF r
        <3>2. \A e \in Conns : handler'[e] = "reply" /\ dlv'[e].req = r => e = b
            BY <1>1, <1>8, <2>1, <2>2
        <3>. QED BY <1>1, <1>4, <1>7, <3>1, <3>2
    <2>3. CASE b # c
        <3>1. handler[b] = "reply" /\ dlv'[b].req = dlv[b].req
            BY <1>1, <1>8, <2>3
        <3>2. /\ reply[dlv[b].req] = "empty"
              /\ \A e \in Conns : dlv[b].req \notin inflight[e]
              /\ \A e \in Conns : handler[e] = "reply" /\ dlv[e].req = dlv[b].req => e = b
            BY <3>1 DEF RoomInv, TakenInv
        <3>3. dlv[b].req # r
            BY <2>1, <2>3, <3>1
        <3>4. \A e \in Conns : handler'[e] = "reply" /\ dlv'[e].req = dlv[b].req => e = b
            <4>. SUFFICES ASSUME NEW e \in Conns, handler'[e] = "reply",
                                 dlv'[e].req = dlv[b].req
                          PROVE  e = b
                OBVIOUS
            <4>1. dlv[e].req = dlv[b].req /\ e # c
                BY <1>1, <3>3 DEF r
            <4>. QED BY <1>8, <3>2, <4>1
        <3>. QED BY <1>1, <1>6, <3>1, <3>2, <3>4
    <2>. QED BY <2>2, <2>3
<1>10. FullInv'
    <2>. SUFFICES ASSUME NEW s \in Requests, reply'[s] # "empty"
                  PROVE  /\ Called(s)'
                         /\ \A b \in Conns : s \notin Elements(pending'[b])
                         /\ \A b \in Conns : s \in inflight'[b] =>
                               prompt'[s] = "unsent" /\ Leaving(b)'
        BY DEF FullInv
    <2>1. /\ Called(s)
          /\ \A b \in Conns : s \notin Elements(pending[b])
          /\ \A b \in Conns : s \in inflight[b] => prompt[s] = "unsent" /\ Leaving(b)
        BY <1>1 DEF RoomInv, FullInv
    <2>2. \A b \in Conns : Leaving(b) => Leaving(b)'
        BY <1>1, <1>8 DEF Leaving
    <2>. QED BY <1>1, <1>6, <2>1, <2>2 DEF Called
<1>. QED BY <1>9, <1>10 DEF RoomInv

\* What a main loop and deliver send finds room.
LEMMA LoopRoom ==
    ASSUME TypeInv, TypeInv', PromptInv, RoomInv, NEW c \in Conns, Loop(c)
    PROVE  RoomInv'
<1>0. handler \in [Conns -> HandlerStates] /\ reply \in [Requests -> Replies]
    BY DEF TypeInv, TypeOK
<1>1. CASE SendPrompt(c)
    <2>1. /\ handler[c] = "loop" /\ nextReq[c] # None
          /\ UNCHANGED <<handler, dlv, reply, pending, inflight, call>>
          /\ \A r \in Requests \ {nextReq[c]} : prompt'[r] = prompt[r]
        BY <1>1 DEF SendPrompt, loopKeeps, callVars, queueVars, TypeInv, TypeOK
    <2>2. nextReq[c] \in inflight[c]
        BY <2>1 DEF PromptInv, HandOverInv, Running
    <2>3. Orderly
        BY <2>1, <2>2 DEF Orderly, Called, Leaving
    <2>. QED BY <2>1, <2>3, QuietRoom
<1>2. CASE WriteFails(c)
    <2>. DEFINE r == nextReq[c]
    <2>1. /\ handler[c] = "loop" /\ r # None
          /\ reply' = [reply EXCEPT ![r] = "connErr"]
          /\ handler' = [handler EXCEPT ![c] = "unregister"]
          /\ UNCHANGED <<dlv, pending, inflight, call, prompt>>
        BY <1>2 DEF WriteFails, LeaveLoop, MoveHandler, loopKeeps, callVars, queueVars
    <2>2. r \in inflight[c] /\ prompt[r] = "unsent"
        BY <2>1 DEF PromptInv, HandOverInv, Running
    <2>3. r \in Requests /\ Called(r) /\ callConn[r] = c
        BY <2>2 DEF PromptInv, FlightInv, TypeInv, TypeOK
    <2>. HIDE DEF r
    <2>4. handler'[c] = "unregister" /\ \A b \in Conns \ {c} : handler'[b] = handler[b]
        BY <1>0, <2>1
    <2>5. Orderly
        BY <2>1, <2>4 DEF Orderly, Called, Leaving
    <2>6. \A s \in Requests \ {r} : reply'[s] = reply[s]
        BY <1>0, <2>1
    <2>7. \A b \in Conns : r \notin Elements(pending'[b])
        BY <2>1, <2>2 DEF PromptInv, QueueInv
    <2>8. \A b \in Conns : r \in inflight'[b] => prompt'[r] = "unsent" /\ Leaving(b)'
        <3>1. \A b \in Conns : r \in inflight[b] => b = c
            BY <2>3 DEF PromptInv, FlightInv
        <3>. QED BY <2>1, <2>2, <2>4, <3>1 DEF Leaving
    <2>9. \A b \in Conns : handler'[b] = "reply" => dlv'[b].req # r
        BY <2>1, <2>2, <2>4 DEF RoomInv, TakenInv
    <2>. QED BY <2>3, <2>5, <2>6, <2>7, <2>8, <2>9, ReplyRoom
<1>3. CASE DropAnswer(c) \/ RouteAnswer(c) \/ WakePump(c) \/ Disconnect(c)
    <2>1. /\ handler[c] \in {"loop", "wake"} /\ handler'[c] # "reply"
          /\ UNCHANGED reply
          /\ \A b \in Conns \ {c} : handler'[b] = handler[b] /\ dlv'[b] = dlv[b]
        <3>1. dlv \in [Conns -> Deliveries \cup {None}]
            BY DEF TypeInv, TypeOK
        <3>2. CASE DropAnswer(c)
            BY <1>0, <3>2 DEF DropAnswer
        <3>3. CASE RouteAnswer(c)
            <4>1. /\ handler[c] = "loop" /\ UNCHANGED reply
                  /\ \/ UNCHANGED <<handler, dlv>>
                     \/ /\ handler' = [handler EXCEPT ![c] = "deliver"]
                        /\ \E d : dlv' = [dlv EXCEPT ![c] = d]
                BY <3>3 DEF RouteAnswer, MoveHandler
            <4>. QED BY <1>0, <3>1, <4>1
        <3>4. CASE WakePump(c) \/ Disconnect(c)
            BY <1>0, <3>1, <3>4 DEF WakePump, Disconnect, LeaveLoop, MoveHandler
        <3>. QED BY <1>3, <3>2, <3>3, <3>4
    <2>2. Recedes
        <3>1. ~SendPrompt(c)
            BY <1>3, <2>1 DEF SendPrompt, DropAnswer, RouteAnswer, WakePump, Disconnect,
                              LeaveLoop, MoveHandler, TypeInv, TypeOK
        <3>. QED BY <3>1, LoopRecedes
    <2>3. Orderly
        BY <2>1, <2>2, RecedingOrderly DEF Leaving
    <2>. QED BY <2>1, <2>3, QuietRoom
<1>4. CASE TakeInflight(c)
    <2>1. CASE dlv[c].req \in inflight[dlv[c].to]
        BY <1>4, <2>1, TakeRoom
    <2>2. CASE dlv[c].req \notin inflight[dlv[c].to]
        <3>1. /\ handler' = [handler EXCEPT ![c] = "loop"] /\ handler[c] = "deliver"
              /\ dlv' = [dlv EXCEPT ![c] = None]
              /\ UNCHANGED <<reply, pending, inflight, call, prompt>>
            BY <1>4, <2>2 DEF TakeInflight, MoveHandler, loopKeeps, callVars, wireVars
        <3>2. /\ handler'[c] = "loop"
              /\ \A b \in Conns \ {c} : handler'[b] = handler[b] /\ dlv'[b] = dlv[b]
            BY <1>0, <3>1
        <3>3. Orderly
            BY <3>1, <3>2 DEF Orderly, Called, Leaving
        <3>. QED BY <3>1, <3>3, QuietRoom
    <2>. QED BY <2>1, <2>2
<1>5. CASE SendReply(c)
    <2>. DEFINE r == dlv[c].req
    <2>1. /\ handler[c] = "reply"
          /\ reply' = [reply EXCEPT ![r] = dlv[c].ans]
          /\ handler' = [handler EXCEPT ![c] = "wake"]
          /\ UNCHANGED <<dlv, pending, inflight, call, prompt>>
        BY <1>5 DEF SendReply, MoveHandler, loopKeeps, callVars, queueVars, wireVars
    <2>2. r \in Requests /\ Answered(r)
        BY <2>1 DEF TypeInv, DeliveryKnown, Deliveries, PromptInv, PromptStateInv
    <2>3. Called(r)
        BY <2>2 DEF PromptInv, PromptStateInv, Answered
    <2>4. /\ \A b \in Conns : r \notin inflight[b]
          /\ \A b \in Conns \ {c} : handler[b] = "reply" => dlv[b].req # r
        BY <2>1 DEF RoomInv, TakenInv
    <2>. HIDE DEF r
    <2>5. handler'[c] = "wake" /\ \A b \in Conns \ {c} : handler'[b] = handler[b]
        BY <1>0, <2>1
    <2>6. Orderly
        BY <2>1, <2>5 DEF Orderly, Called, Leaving
    <2>7. \A s \in Requests \ {r} : reply'[s] = reply[s]
        BY <1>0, <2>1
    <2>8. \A b \in Conns : r \notin Elements(pending'[b])
        BY <2>1, <2>2 DEF PromptInv, QueueInv, Answered
    <2>9. \A b \in Conns : handler'[b] = "reply" => dlv'[b].req # r
        BY <2>1, <2>4, <2>5
    <2>. QED BY <2>1, <2>2, <2>3, <2>4, <2>6, <2>7, <2>8, <2>9, ReplyRoom
<1>. QED BY <1>1, <1>2, <1>3, <1>4, <1>5 DEF Loop

\* failAll tells each queued or unwritten request once, in the step that takes
\* it out of the queue or out of inflight.
LEMMA TeardownRoom ==
    ASSUME TypeInv, TypeInv', PromptInv, RoomInv, NEW c \in Conns, Teardown(c)
    PROVE  RoomInv'
<1>0. /\ handler \in [Conns -> HandlerStates] /\ reply \in [Requests -> Replies]
      /\ inflight \in [Conns -> SUBSET Requests] /\ pending \in [Conns -> Seq(Requests)]
    BY DEF TypeInv, TypeOK
<1>1. CASE Unregister(c) \/ FailAllLock(c) \/ FailAllDone(c)
    <2>1. /\ UNCHANGED <<dlv, reply, inflight>>
          /\ \A b \in Conns \ {c} : handler'[b] = handler[b]
          /\ handler'[c] \in {"failAll", "drain", "closed"}
          /\ handler'[c] = "closed" => inflight[c] = {}
        BY <1>0, <1>1 DEF Unregister, FailAllLock, FailAllDone, MoveHandler, teardownKeeps
    <2>2. Orderly
        BY <2>1, TeardownRecedes, RecedingOrderly DEF Leaving
    <2>. QED BY <2>1, <2>2, QuietRoom
<1>2. CASE FailInflight(c)
    <2>1. PICK r \in inflight[c] :
              /\ reply' = [reply EXCEPT ![r] = "connErr"]
              /\ inflight' = [inflight EXCEPT ![c] = inflight[c] \ {r}]
        BY <1>2 DEF FailInflight
    <2>2. UNCHANGED <<handler, dlv, pending>>
        BY <1>2 DEF FailInflight, teardownKeeps
    <2>3. r \in Requests /\ Called(r) /\ callConn[r] = c
        BY <1>0 DEF PromptInv, FlightInv
    <2>4. Orderly
        BY <2>2, TeardownRecedes, RecedingOrderly DEF Leaving
    <2>5. \A s \in Requests \ {r} : reply'[s] = reply[s]
        BY <1>0, <2>1
    <2>6. \A b \in Conns : r \notin Elements(pending'[b])
        BY <2>2 DEF PromptInv, QueueInv
    <2>7. \A b \in Conns : r \notin inflight'[b]
        <3>1. \A b \in Conns : r \in inflight[b] => b = c
            BY <2>3 DEF PromptInv, FlightInv
        <3>2. r \notin inflight'[c] /\ \A b \in Conns \ {c} : inflight'[b] = inflight[b]
            BY <1>0, <2>1
        <3>. QED BY <3>1, <3>2
    <2>8. \A b \in Conns : handler'[b] = "reply" => dlv'[b].req # r
        BY <2>2 DEF RoomInv, TakenInv
    <2>. QED BY <2>3, <2>4, <2>5, <2>6, <2>7, <2>8, ReplyRoom
<1>3. CASE FailPending(c)
    <2>. DEFINE r == Head(pending[c])
    <2>1. /\ pending[c] # <<>> /\ pending[c] \in Seq(Requests)
          /\ reply' = [reply EXCEPT ![r] = "connErr"]
          /\ pending' = [pending EXCEPT ![c] = Tail(pending[c])]
          /\ UNCHANGED <<handler, dlv, inflight>>
        BY <1>0, <1>3 DEF FailPending, teardownKeeps
    <2>2. /\ r \in Elements(pending[c])
          /\ r \notin Elements(Tail(pending[c]))
        BY <2>1, TailQueue DEF PromptInv, QueueInv
    <2>3. r \in Requests
        BY <2>1
    <2>. HIDE DEF r
    <2>4. /\ Called(r) /\ callConn[r] = c /\ prompt[r] = "unsent"
          /\ \A b \in Conns : r \notin inflight[b]
        BY <2>2 DEF PromptInv, QueueInv
    <2>5. Orderly
        BY <2>1, TeardownRecedes, RecedingOrderly DEF Leaving
    <2>6. \A s \in Requests \ {r} : reply'[s] = reply[s]
        BY <1>0, <2>1
    <2>7. \A b \in Conns : r \notin Elements(pending'[b])
        <3>1. \A b \in Conns : r \in Elements(pending[b]) => b = c
            BY <2>4 DEF PromptInv, QueueInv
        <3>2. /\ pending'[c] = Tail(pending[c])
              /\ \A b \in Conns \ {c} : pending'[b] = pending[b]
            BY <1>0, <2>1
        <3>. QED BY <2>2, <3>1, <3>2
    <2>8. \A b \in Conns : handler'[b] = "reply" => dlv'[b].req # r
        <3>1. \A b \in Conns : handler[b] = "reply" => Answered(dlv[b].req)
            BY DEF PromptInv, PromptStateInv
        <3>. QED BY <2>1, <2>4, <3>1 DEF Answered
    <2>. QED BY <2>1, <2>3, <2>4, <2>5, <2>6, <2>7, <2>8, ReplyRoom
<1>. QED BY <1>1, <1>2, <1>3 DEF Teardown

\* Opening, expiring, losing and answering on a connection send no reply.
LEMMA BesideRoom ==
    ASSUME TypeInv, TypeInv', PromptInv, RoomInv, NEW c \in Conns,
           Connect(c) \/ TokenExpires(c) \/ Drop(c) \/ Answer(c)
    PROVE  RoomInv'
<1>0. handler \in [Conns -> HandlerStates] /\ prompt \in [Requests -> Prompts]
    BY DEF TypeInv, TypeOK
<1>1. /\ UNCHANGED <<dlv, reply>>
      /\ \/ UNCHANGED handler
         \/ /\ handler[c] \in {"idle", "loop"}
            /\ \E s \in {"loop", "unregister"} : handler' = [handler EXCEPT ![c] = s]
    BY DEF Connect, TokenExpires, Drop, Answer, LeaveLoop, MoveHandler, loopKeeps, loopVars
<1>2. \A b \in Conns : /\ Leaving(b) => Leaving(b)'
                       /\ handler'[b] = "reply" => handler[b] = "reply"
    BY <1>0, <1>1 DEF Leaving
<1>3. Orderly
    <2>1. CASE Answer(c)
        <3>1. UNCHANGED <<pending, inflight, call>>
            BY <2>1 DEF Answer, loopKeeps, callVars, queueVars
        <3>2. PICK r \in Requests, v \in Verdicts :
                  prompt[r] = "sent" /\ prompt' = [prompt EXCEPT ![r] = v]
            BY <2>1 DEF Answer
        <3>3. \A s \in Requests : prompt[s] # "unsent" \/ prompt'[s] = "unsent"
            BY <1>0, <3>2
        <3>. QED BY <1>1, <1>2, <3>1, <3>3 DEF Orderly, Called
    <2>2. CASE Connect(c) \/ TokenExpires(c) \/ Drop(c)
        BY <1>1, <1>2, <2>2, WireRecedes, RecedingOrderly
    <2>. QED BY <2>1, <2>2
<1>. QED BY <1>1, <1>3, QuietRoom

\* Every step of the hub leaves room for the replies to come.
LEMMA RoomStep == TypeInv /\ TypeInv' /\ PromptInv /\ RoomInv /\ [Next]_vars => RoomInv'
<1>. SUFFICES ASSUME TypeInv, TypeInv', PromptInv, RoomInv, [Next]_vars PROVE RoomInv'
    OBVIOUS
<1>1. CASE UNCHANGED vars
    BY <1>1 DEF RoomInv, TakenInv, FullInv, Leaving, Called, vars, callVars, queueVars,
                loopVars, wireVars
<1>2. CASE Next
    BY <1>2, CallerRoom, PumpRoom, LoopRoom, TeardownRoom, BesideRoom DEF Next
<1>. QED BY <1>1, <1>2

\* Before the first call every reply channel is empty.
LEMMA RoomInit == Init => RoomInv
BY DEF Init, RoomInv, TakenInv, FullInv

\* The sends on reply channels that the hub's comment calls buffered: that of
\* deliver, that of a main loop whose write fails, and those of failAll to the
\* queued requests.  Each finds its channel empty.
SendsFindRoom ==
    \A c \in Conns :
        /\ handler[c] = "reply" => reply[dlv[c].req] = "empty"
        /\ handler[c] = "loop" /\ nextReq[c] # None => reply[nextReq[c]] = "empty"
        /\ pending[c] # <<>> => reply[Head(pending[c])] = "empty"

\* deliver, a failed write and failAll's loop over the queue never block on a
\* reply channel (signer_hub.go:21-24): whatever callers, deadlines, evictions
\* and answers did before, nobody has been told twice.
THEOREM SendsNeverBlock == Spec => []SendsFindRoom
<1>1. TypeInv /\ PromptInv /\ RoomInv => SendsFindRoom
    <2>. SUFFICES ASSUME TypeInv, PromptInv, RoomInv, NEW c \in Conns
                  PROVE  /\ handler[c] = "reply" => reply[dlv[c].req] = "empty"
                         /\ handler[c] = "loop" /\ nextReq[c] # None =>
                               reply[nextReq[c]] = "empty"
                         /\ pending[c] # <<>> => reply[Head(pending[c])] = "empty"
        BY DEF SendsFindRoom
    <2>1. handler[c] = "reply" => reply[dlv[c].req] = "empty"
        BY DEF RoomInv, TakenInv
    <2>2. ASSUME handler[c] = "loop", nextReq[c] # None
          PROVE  reply[nextReq[c]] = "empty"
        <3>1. nextReq[c] \in inflight[c] /\ nextReq[c] \in Requests
            BY <2>2 DEF PromptInv, HandOverInv, Running, TypeInv, TypeOK
        <3>. QED BY <2>2, <3>1 DEF RoomInv, FullInv, Leaving
    <2>3. ASSUME pending[c] # <<>> PROVE reply[Head(pending[c])] = "empty"
        <3>1. pending[c] \in Seq(Requests)
            BY DEF TypeInv, TypeOK
        <3>2. Head(pending[c]) \in Elements(pending[c]) /\ Head(pending[c]) \in Requests
            BY <2>3, <3>1, TailQueue
        <3>. QED BY <3>2 DEF RoomInv, FullInv
    <2>. QED BY <2>1, <2>2, <2>3
<1>. QED BY TypeInit, TypeStep, PromptInit, PromptStep, RoomInit, RoomStep, <1>1, PTL DEF Spec

\* What blocks the one send that can block, failAll's to a request in flight:
\* this handler's own failed write told the caller, who has not listened.
BlockedByOwnWrite ==
    \A c \in Conns : handler[c] = "drain" =>
        \A r \in inflight[c] :
            reply[r] # "empty" => reply[r] = "connErr" /\ prompt[r] = "unsent"

\* The only send that can block is failAll's, after a prompt that could not be
\* written: the run hub_hangs shows it, and there is no other way to it.
THEOREM OnlyFailedWritesBlock == Spec => []BlockedByOwnWrite
<1>1. TypeInv /\ AnswerInv /\ RoomInv => BlockedByOwnWrite
    <2>. SUFFICES ASSUME TypeInv, AnswerInv, RoomInv, NEW c \in Conns, NEW r \in inflight[c],
                         reply[r] # "empty"
                  PROVE  reply[r] = "connErr" /\ prompt[r] = "unsent"
        BY DEF BlockedByOwnWrite
    <2>1. r \in Requests /\ reply[r] \in Replies
        BY DEF TypeInv, TypeOK
    <2>2. prompt[r] = "unsent"
        BY <2>1 DEF RoomInv, FullInv
    <2>3. reply[r] \notin {"sig", "reject"}
        BY <2>1, <2>2 DEF AnswerInv
    <2>. QED BY <2>1, <2>2, <2>3 DEF Replies
<1>2. Init => AnswerInv
    BY DEF Init, AnswerInv, OutcomeIsTheSigners
<1>. QED BY TypeInit, TypeStep, PromptInit, PromptStep, AnswerStep, RoomInit, RoomStep,
            <1>1, <1>2, PTL DEF Spec

-----------------------------------------------------------------------------
(* What a handler that has to go on waits for.                             *)

\* A handler whose connection is in the hub delivers on its own connection: an
\* answer is routed to another one only after an eviction.
OwnRoute ==
    \A c \in Conns :
        handler[c] \in {"deliver", "reply", "wake"} /\ hub[ConnDid[c]] = c => dlv[c].to = c

\* A step that starts no delivery and puts no delivering connection in the hub.
LEMMA SameRoute ==
    ASSUME OwnRoute,
           \A c \in Conns : handler'[c] \in {"deliver", "reply", "wake"} =>
               /\ handler[c] \in {"deliver", "reply", "wake"} /\ dlv'[c] = dlv[c]
               /\ hub'[ConnDid[c]] = c => hub[ConnDid[c]] = c
    PROVE  OwnRoute'
BY DEF OwnRoute

\* A session registers once, so an evicted one never comes back to the hub.
LEMMA RouteStep == TypeInv /\ OwnRoute /\ [Next]_vars => OwnRoute'
<1>. SUFFICES ASSUME TypeInv, OwnRoute, [Next]_vars PROVE OwnRoute'
    OBVIOUS
<1>0. /\ handler \in [Conns -> HandlerStates] /\ hub \in [Dids -> Conns \cup {None}]
      /\ dlv \in [Conns -> Deliveries \cup {None}]
    BY DEF TypeInv, TypeOK
<1>1. ASSUME UNCHANGED <<hub, handler, dlv>> PROVE OwnRoute'
    BY <1>1 DEF OwnRoute
<1>2. ASSUME NEW r \in Requests, Caller(r) PROVE OwnRoute'
    BY <1>1, <1>2 DEF Caller, LookUp, Enqueue, Notify, ReceiveReply, SeeDone, ContextDone,
                      Cancel, callerKeeps, loopVars
<1>3. ASSUME NEW c \in Conns, Pump(c) PROVE OwnRoute'
    BY <1>1, <1>3 DEF Pump, PumpTake, PumpIdle, PumpWake, PumpSend, PumpStop, pumpKeeps,
                      loopVars
<1>4. ASSUME NEW c \in Conns, RouteAnswer(c) PROVE OwnRoute'
    <2>1. /\ UNCHANGED hub
          /\ \/ UNCHANGED <<handler, dlv>>
             \/ /\ handler' = [handler EXCEPT ![c] = "deliver"]
                /\ \E r \in inbound[c] :
                      dlv' = [dlv EXCEPT ![c] =
                                 [to |-> hub[ConnDid[c]], req |-> r, ans |-> prompt[r]]]
        BY <1>4 DEF RouteAnswer, MoveHandler, loopKeeps
    <2>2. CASE UNCHANGED <<handler, dlv>>
        BY <1>1, <2>1, <2>2
    <2>3. CASE ~UNCHANGED <<handler, dlv>>
        <3>1. dlv'[c].to = hub[ConnDid[c]]
            BY <1>0, <2>1, <2>3
        <3>2. \A b \in Conns \ {c} : handler'[b] = handler[b] /\ dlv'[b] = dlv[b]
            BY <1>0, <2>1, <2>3
        <3>. QED BY <2>1, <3>1, <3>2 DEF OwnRoute
    <2>. QED BY <2>2, <2>3
<1>5. ASSUME NEW c \in Conns, Loop(c), ~RouteAnswer(c) PROVE OwnRoute'
    <2>1. UNCHANGED hub
        BY <1>5 DEF Loop, SendPrompt, WriteFails, DropAnswer, TakeInflight, SendReply,
                    WakePump, Disconnect, loopKeeps
    <2>2. CASE SendPrompt(c) \/ DropAnswer(c)
        BY <1>1, <2>1, <2>2 DEF SendPrompt, DropAnswer
    <2>3. CASE WriteFails(c) \/ Disconnect(c) \/ WakePump(c)
        <3>1. /\ handler'[c] \in {"loop", "unregister"}
              /\ \A b \in Conns \ {c} : handler'[b] = handler[b] /\ dlv'[b] = dlv[b]
            BY <1>0, <2>3 DEF WriteFails, Disconnect, WakePump, LeaveLoop, MoveHandler
        <3>. QED BY <2>1, <3>1, SameRoute
    <2>4. CASE TakeInflight(c)
        <3>1. /\ handler[c] = "deliver"
              /\ \/ handler' = [handler EXCEPT ![c] = "reply"] /\ UNCHANGED dlv
                 \/ /\ handler' = [handler EXCEPT ![c] = "loop"]
                    /\ dlv' = [dlv EXCEPT ![c] = None]
            BY <2>4 DEF TakeInflight, MoveHandler
        <3>2. /\ handler'[c] \in {"loop", "reply"} /\ (handler'[c] = "reply" => UNCHANGED dlv)
              /\ \A b \in Conns \ {c} : handler'[b] = handler[b] /\ dlv'[b] = dlv[b]
            BY <1>0, <3>1
        <3>. QED BY <2>1, <3>1, <3>2, SameRoute
    <2>5. CASE SendReply(c)
        <3>1. /\ handler[c] = "reply" /\ handler'[c] = "wake" /\ UNCHANGED dlv
              /\ \A b \in Conns \ {c} : handler'[b] = handler[b]
            BY <1>0, <2>5 DEF SendReply, MoveHandler
        <3>. QED BY <2>1, <3>1, SameRoute
    <2>. QED BY <1>5, <2>2, <2>3, <2>4, <2>5 DEF Loop
<1>6. ASSUME NEW c \in Conns, Teardown(c) PROVE OwnRoute'
    <2>1. /\ UNCHANGED dlv
          /\ hub' = hub \/ hub' = [hub EXCEPT ![ConnDid[c]] = None]
          /\ \A b \in Conns : handler'[b] = handler[b] \/
                              handler'[b] \in {"failAll", "drain", "closed"}
        BY <1>0, <1>6 DEF Teardown, Unregister, FailAllLock, FailInflight, FailPending,
                          FailAllDone, MoveHandler, teardownKeeps
    <2>2. \A b \in Conns : hub'[ConnDid[b]] = b => hub[ConnDid[b]] = b
        BY <1>0, <2>1, ConnDidAssumption, NoneAssumption
    <2>. QED BY <2>1, <2>2, SameRoute
<1>7. ASSUME NEW c \in Conns, Connect(c) PROVE OwnRoute'
    <2>1. /\ hub' = [hub EXCEPT ![ConnDid[c]] = c] /\ UNCHANGED dlv
          /\ handler' = [handler EXCEPT ![c] = "loop"]
        BY <1>7 DEF Connect, Register, MoveHandler
    <2>2. \A b \in Conns \ {c} : /\ handler'[b] = handler[b]
                                 /\ hub'[ConnDid[b]] = b => hub[ConnDid[b]] = b
        BY <1>0, <2>1, ConnDidAssumption
    <2>3. handler'[c] = "loop"
        BY <1>0, <2>1
    <2>. QED BY <2>1, <2>2, <2>3, SameRoute
<1>8. ASSUME NEW c \in Conns, TokenExpires(c) PROVE OwnRoute'
    <2>1. /\ UNCHANGED <<hub, dlv>> /\ handler'[c] = "unregister"
          /\ \A b \in Conns \ {c} : handler'[b] = handler[b]
        BY <1>0, <1>8 DEF TokenExpires, LeaveLoop, MoveHandler, loopKeeps
    <2>. QED BY <2>1, SameRoute
<1>9. ASSUME NEW c \in Conns, Drop(c) \/ Answer(c) PROVE OwnRoute'
    BY <1>1, <1>9 DEF Drop, Answer, loopKeeps, loopVars
<1>10. CASE UNCHANGED vars
    BY <1>1, <1>10 DEF vars, loopVars
<1>. QED BY <1>2, <1>3, <1>4, <1>5, <1>6, <1>7, <1>8, <1>9, <1>10 DEF Next

\* A delivering handler of a registered connection waits neither for a mutex
\* that failAll holds nor for room in a reply channel.
RegisteredHandlerCanGo ==
    \A c \in Conns : hub[ConnDid[c]] = c =>
        /\ handler[c] = "deliver" => ~MuHeld(dlv[c].to)
        /\ handler[c] = "reply" => reply[dlv[c].req] = "empty"

\* The handler of the connection that the hub has for a DID is never blocked,
\* though other handlers may be, for good: so a dead connection gets to its
\* Unregister once its handler is scheduled (DeadConnectionLeavesHub).
THEOREM RegisteredHandlersGoOn == Spec => []RegisteredHandlerCanGo
<1>1. TypeInv /\ HubInv /\ RoomInv /\ OwnRoute => RegisteredHandlerCanGo
    <2>. SUFFICES ASSUME TypeInv, RoomInv, OwnRoute, NEW c \in Conns, hub[ConnDid[c]] = c
                  PROVE  /\ handler[c] = "deliver" => ~MuHeld(dlv[c].to)
                         /\ handler[c] = "reply" => reply[dlv[c].req] = "empty"
        BY DEF RegisteredHandlerCanGo
    <2>1. handler[c] = "deliver" => dlv[c].to = c
        BY DEF OwnRoute
    <2>2. handler[c] = "reply" => reply[dlv[c].req] = "empty"
        BY DEF RoomInv, TakenInv
    <2>. QED BY <2>1, <2>2 DEF MuHeld
<1>2. Init => HubInv
    BY DEF Init, HubInv, HubConnectionIsLive, IdleIsFresh
<1>3. Init => OwnRoute
    BY DEF Init, OwnRoute
<1>. QED BY TypeInit, TypeStep, PromptInit, PromptStep, RoomInit, RoomStep, HubStep, RouteStep,
            <1>1, <1>2, <1>3, PTL DEF Spec

\* What a step may do to the queue of a connection whose handler is in failAll:
\* nothing, answer the request in flight, answer the first one queued, or end
\* failAll with both containers empty.
DrainStep(c) ==
    \/ /\ pending'[c] = pending[c] /\ inflight'[c] = inflight[c]
       /\ handler'[c] = "drain"
    \/ /\ pending'[c] = pending[c] /\ handler'[c] = "drain"
       /\ \E r \in inflight[c] : inflight'[c] = inflight[c] \ {r}
    \/ /\ pending[c] # <<>> /\ pending'[c] = Tail(pending[c])
       /\ inflight[c] = {} /\ inflight'[c] = {} /\ handler'[c] = "drain"
    \/ /\ pending[c] = <<>> /\ pending'[c] = <<>>
       /\ inflight[c] = {} /\ inflight'[c] = {} /\ handler'[c] = "closed"

DrainOnlyShrinks == [][\A c \in Conns : handler[c] = "drain" => DrainStep(c)]_vars

\* failAll ends unless it is blocked: while it holds the mutex nobody adds to
\* the queue or to inflight, and each of its steps takes one request out, so
\* that it has at most one step per request and the last one.
THEOREM FailAllEnds == Spec => DrainOnlyShrinks
<1>1. ASSUME TypeInv, [Next]_vars, NEW c \in Conns, handler[c] = "drain"
      PROVE  DrainStep(c)
    <2>0. /\ handler \in [Conns -> HandlerStates] /\ pending \in [Conns -> Seq(Requests)]
          /\ inflight \in [Conns -> SUBSET Requests]
        BY <1>1 DEF TypeInv, TypeOK
    <2>. DEFINE Same == /\ pending'[c] = pending[c] /\ inflight'[c] = inflight[c]
                        /\ handler'[c] = "drain"
    <2>1. ASSUME NEW r \in Requests, Caller(r) PROVE Same
        <3>1. UNCHANGED <<handler, inflight>>
            BY <2>1 DEF Caller, LookUp, Enqueue, Notify, ReceiveReply, SeeDone, ContextDone,
                        Cancel, callerKeeps, loopVars, queueVars
        <3>2. \/ UNCHANGED pending
              \/ callConn[r] # c /\ \E q : pending' = [pending EXCEPT ![callConn[r]] = q]
            BY <1>1, <2>1 DEF Caller, LookUp, Enqueue, Notify, ReceiveReply, SeeDone,
                        ContextDone, Cancel, MuHeld, queueVars
        <3>. QED BY <1>1, <2>0, <3>1, <3>2
    <2>2. ASSUME NEW b \in Conns, Pump(b) PROVE Same
        <3>1. UNCHANGED handler
            BY <2>2 DEF Pump, PumpTake, PumpIdle, PumpWake, PumpSend, PumpStop, pumpKeeps,
                        loopVars
        <3>2. CASE PumpTake(b)
            BY <1>1, <2>0, <3>1, <3>2 DEF PumpTake, MuHeld
        <3>3. CASE ~PumpTake(b)
            BY <1>1, <2>2, <3>1, <3>3 DEF Pump, PumpIdle, PumpWake, PumpSend, PumpStop,
                                          queueVars
        <3>. QED BY <3>2, <3>3
    <2>3. ASSUME NEW b \in Conns, Loop(b) PROVE Same
        <3>1. b # c
            BY <1>1, <2>3 DEF Loop, SendPrompt, WriteFails, DropAnswer, RouteAnswer,
                        TakeInflight, SendReply, WakePump, Disconnect
        <3>2. UNCHANGED pending
            BY <2>3 DEF Loop, SendPrompt, WriteFails, DropAnswer, RouteAnswer,
                        TakeInflight, SendReply, WakePump, Disconnect, queueVars
        <3>3. handler' = handler \/ \E s : handler' = [handler EXCEPT ![b] = s]
            BY <2>3 DEF Loop, SendPrompt, WriteFails, DropAnswer, RouteAnswer, TakeInflight,
                        SendReply, WakePump, Disconnect, LeaveLoop, MoveHandler
        <3>4. \/ UNCHANGED inflight
              \/ dlv[b].to # c /\ \E q : inflight' = [inflight EXCEPT ![dlv[b].to] = q]
            BY <1>1, <2>3 DEF Loop, SendPrompt, WriteFails, DropAnswer, RouteAnswer,
                        TakeInflight, SendReply, WakePump, Disconnect, MuHeld, queueVars
        <3>. QED BY <1>1, <2>0, <3>1, <3>2, <3>3, <3>4
    <2>4. ASSUME NEW b \in Conns, b # c, Teardown(b) PROVE Same
        BY <1>1, <2>0, <2>4 DEF Teardown, Unregister, FailAllLock, FailInflight, FailPending,
                                FailAllDone, MoveHandler
    <2>5. ASSUME NEW b \in Conns, Connect(b) \/ TokenExpires(b) \/ Drop(b) \/ Answer(b)
          PROVE  Same
        <3>1. UNCHANGED <<pending, inflight>>
            BY <2>5 DEF Connect, TokenExpires, Drop, Answer, queueVars
        <3>2. \/ UNCHANGED handler
              \/ b # c /\ \E s : handler' = [handler EXCEPT ![b] = s]
            BY <1>1, <2>5 DEF Connect, TokenExpires, Drop, Answer, LeaveLoop, MoveHandler,
                        loopVars
        <3>. QED BY <1>1, <2>0, <3>1, <3>2
    <2>6. CASE FailInflight(c)
        <3>1. UNCHANGED <<handler, pending>>
            BY <2>6 DEF FailInflight, teardownKeeps
        <3>2. \E r \in inflight[c] : inflight'[c] = inflight[c] \ {r}
            BY <2>0, <2>6 DEF FailInflight
        <3>. QED BY <1>1, <3>1, <3>2 DEF DrainStep
    <2>7. CASE FailPending(c)
        BY <1>1, <2>0, <2>7 DEF FailPending, teardownKeeps, DrainStep
    <2>8. CASE FailAllDone(c)
        BY <1>1, <2>0, <2>8 DEF FailAllDone, MoveHandler, DrainStep
    <2>9. CASE Unregister(c) \/ FailAllLock(c)
        BY <1>1, <2>9 DEF Unregister, FailAllLock
    <2>10. CASE UNCHANGED vars
        BY <1>1, <2>10 DEF vars, loopVars, queueVars, DrainStep
    <2>11. Same => DrainStep(c)
        BY DEF DrainStep
    <2>. HIDE DEF Same
    <2>12. ASSUME NEW b \in Conns, Teardown(b) PROVE DrainStep(c)
        <3>1. CASE b # c
            BY <2>4, <2>11, <2>12, <3>1
        <3>2. CASE b = c
            <4>1. Teardown(c)
                BY <2>12, <3>2
            <4>. QED BY <2>6, <2>7, <2>8, <2>9, <4>1 DEF Teardown
        <3>. QED BY <3>1, <3>2
    <2>13. CASE Next
        <3>1. CASE \E r \in Requests : Caller(r)
            BY <2>1, <2>11, <3>1
        <3>2. CASE \E b \in Conns : Pump(b) \/ Loop(b) \/ Teardown(b)
            BY <2>2, <2>3, <2>11, <2>12, <3>2
        <3>3. CASE \E b \in Conns : Connect(b) \/ TokenExpires(b) \/ Drop(b) \/ Answer(b)
            BY <2>5, <2>11, <3>3
        <3>. QED BY <2>13, <3>1, <3>2, <3>3 DEF Next
    <2>. QED BY <1>1, <2>10, <2>13
<1>2. TypeInv /\ [Next]_vars => [\A c \in Conns : handler[c] = "drain" => DrainStep(c)]_vars
    BY <1>1
<1>. QED BY TypeInit, TypeStep, <1>2, PTL DEF Spec, DrainOnlyShrinks
=============================================================================
