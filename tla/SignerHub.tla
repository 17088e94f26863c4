------------------------------ MODULE SignerHub ------------------------------
(***************************************************************************)
(* The hub that carries signing requests to a user's passkey               *)
(* (server/signer_hub.go) together with the WebSocket handler goroutines   *)
(* that own the connections (server/handle_signer_connect.go and           *)
(* server/handle_account_signer.go).                                       *)
(*                                                                         *)
(* A caller of RequestSignature looks its DID's connection up, appends the *)
(* request to that connection's queue, nudges the queue pump and waits for *)
(* a reply, for the connection to go away, or for its own deadline.  The   *)
(* pump moves the queue's head to "inflight" when nothing else is there    *)
(* and hands it to the connection's main loop, which writes it to the      *)
(* socket.  The answer comes back through the main loop, which routes it   *)
(* to the caller by way of the hub.                                        *)
(*                                                                         *)
(* A mutex that is only ever held for a bounded piece of straight-line     *)
(* code is one atomic step.  The one exception is the connection mutex in  *)
(* failAll, which is held across sends on reply channels: the handler is   *)
(* then in state "drain".                                                  *)
(***************************************************************************)
EXTENDS Naturals, Sequences, FiniteSets

CONSTANTS
    Dids,       \* the accounts
    Conns,      \* WebSocket sessions; each is opened at most once
    Requests,   \* calls of RequestSignature; each has a fresh requestID
    ConnDid,    \* the account a session authenticated as
    ReqDid,     \* the account whose signature a call asks for
    Bearer,     \* sessions of the bearer-token endpoint: they can expire
    Verdicts,   \* what a signer may send back for a prompt
    None        \* no connection, no request

ASSUME ConnDidAssumption == ConnDid \in [Conns -> Dids]
ASSUME ReqDidAssumption == ReqDid \in [Requests -> Dids]
ASSUME BearerAssumption == Bearer \subseteq Conns
ASSUME VerdictsAssumption == Verdicts \subseteq {"sig", "bad", "reject"}
ASSUME NoneAssumption == None \notin Conns /\ None \notin Requests

VARIABLES
    hub,        \* SignerHub.conns: the registered connection of each DID
    handler,    \* where the handler goroutine of a connection is
    dlv,        \* the delivery the handler is in the middle of (deliver())
    done,       \* signerConn.done is closed
    wsUp,       \* the socket still works
    pending,    \* signerConn.pending
    inflight,   \* the keys of signerConn.inflight
    notify,     \* the one-slot channel signerConn.notify is full
    pump,       \* where the queue pump goroutine of a connection is
    picked,     \* the request NextRequest returned to the pump
    nextReq,    \* the content of the one-slot channel nextReq
    payloads,   \* the keys of the main loop's pendingPayloads
    inbound,    \* answers received and not yet handled by the main loop
    call,       \* where a call of RequestSignature is
    callConn,   \* the connection the call looked up
    reply,      \* the content of the call's one-slot reply channel
    result,     \* what the call returned
    prompt      \* the signer's side: was the prompt seen, how was it answered

callVars == <<call, callConn, result>>
pumpVars == <<pump, picked>>
queueVars == <<pending, inflight, notify>>
loopVars == <<handler, dlv, payloads>>
wireVars == <<wsUp, inbound, prompt>>
vars == <<hub, done, nextReq, reply, callVars, pumpVars, queueVars, loopVars, wireVars>>

\* What no step of a caller, of a pump, of a main loop, of a teardown touches.
callerKeeps == <<hub, done, nextReq, pumpVars, loopVars, wireVars>>
pumpKeeps == <<hub, done, reply, callVars, loopVars, wireVars>>
loopKeeps == <<hub, done, callVars, pumpVars>>
teardownKeeps == <<nextReq, callVars, pumpVars, notify, dlv, payloads, inbound, prompt>>

HandlerStates == {"idle", "loop", "deliver", "reply", "wake",
                  "unregister", "failAll", "drain", "closed"}
PumpStates == {"off", "check", "wait", "send", "stopped"}
CallStates == {"idle", "enqueue", "notify", "wait", "cancel", "returned"}
Results == {"none", "sig", "rejected", "notConnected", "timeout"}
Replies == {"empty", "sig", "reject", "connErr"}
Prompts == {"unsent", "sent", "sig", "bad", "reject"}
Deliveries == [to : Conns, req : Requests, ans : {"sig", "reject"}]

Init ==
    /\ hub = [d \in Dids |-> None]
    /\ handler = [c \in Conns |-> "idle"]
    /\ dlv = [c \in Conns |-> None]
    /\ done = [c \in Conns |-> FALSE]
    /\ wsUp = [c \in Conns |-> FALSE]
    /\ pending = [c \in Conns |-> <<>>]
    /\ inflight = [c \in Conns |-> {}]
    /\ notify = [c \in Conns |-> FALSE]
    /\ pump = [c \in Conns |-> "off"]
    /\ picked = [c \in Conns |-> None]
    /\ nextReq = [c \in Conns |-> None]
    /\ payloads = [c \in Conns |-> {}]
    /\ inbound = [c \in Conns |-> {}]
    /\ call = [r \in Requests |-> "idle"]
    /\ callConn = [r \in Requests |-> None]
    /\ reply = [r \in Requests |-> "empty"]
    /\ result = [r \in Requests |-> "none"]
    /\ prompt = [r \in Requests |-> "unsent"]

-----------------------------------------------------------------------------
(* Helpers.                                                                *)

\* failAll holds the connection mutex while it sends on reply channels.
MuHeld(c) == handler[c] = "drain"

Queued(r, c) == \E i \in 1..Len(pending[c]) : pending[c][i] = r

\* The first occurrence of r is cut out of the queue s.
Without(s, r) ==
    IF \E i \in 1..Len(s) : s[i] = r
    THEN LET i == CHOOSE i \in 1..Len(s) :
                      s[i] = r /\ \A j \in 1..(i - 1) : s[j] # r
         IN  [j \in 1..(Len(s) - 1) |-> IF j < i THEN s[j] ELSE s[j + 1]]
    ELSE s

Return(r, outcome) ==
    /\ call' = [call EXCEPT ![r] = "returned"]
    /\ result' = [result EXCEPT ![r] = outcome]
    /\ UNCHANGED callConn

MoveHandler(c, state) == handler' = [handler EXCEPT ![c] = state]

\* The main loop returns: its local map and what is in its channel are lost.
LeaveLoop(c) ==
    /\ MoveHandler(c, "unregister")
    /\ payloads' = [payloads EXCEPT ![c] = {}]
    /\ inbound' = [inbound EXCEPT ![c] = {}]
    /\ UNCHANGED <<dlv, wsUp, prompt>>

-----------------------------------------------------------------------------
(* The caller's goroutine: RequestSignature.                               *)

\* The connection is looked up under the hub's mutex.
LookUp(r) ==
    /\ call[r] = "idle"
    /\ LET c == hub[ReqDid[r]]
       IN  IF c = None
           THEN Return(r, "notConnected")
           ELSE /\ call' = [call EXCEPT ![r] = "enqueue"]
                /\ callConn' = [callConn EXCEPT ![r] = c]
                /\ UNCHANGED result
    /\ UNCHANGED <<callerKeeps, queueVars, reply>>

\* Mutant: the request goes to the front of the queue.
EnqueueFront(r) ==
    /\ call[r] = "enqueue"
    /\ ~MuHeld(callConn[r])
    /\ pending' = [pending EXCEPT ![callConn[r]] = <<r>> \o @]
    /\ call' = [call EXCEPT ![r] = "notify"]
    /\ UNCHANGED <<callerKeeps, reply, callConn, result, inflight, notify>>

Enqueue(r) ==
    /\ call[r] = "enqueue"
    /\ ~MuHeld(callConn[r])
    /\ pending' = [pending EXCEPT ![callConn[r]] = Append(@, r)]
    /\ call' = [call EXCEPT ![r] = "notify"]
    /\ UNCHANGED <<callerKeeps, reply, callConn, result, inflight, notify>>

\* A send on a full notify channel is a no-op.
Notify(r) ==
    /\ call[r] = "notify"
    /\ notify' = [notify EXCEPT ![callConn[r]] = TRUE]
    /\ call' = [call EXCEPT ![r] = "wait"]
    /\ UNCHANGED <<callerKeeps, reply, callConn, result, pending, inflight>>

\* The three arms of the select.  When several are ready, any may be taken.
ReceiveReply(r) ==
    /\ call[r] = "wait"
    /\ reply[r] # "empty"
    /\ Return(r, CASE reply[r] = "sig" -> "sig"
                   [] reply[r] = "reject" -> "rejected"
                   [] OTHER -> "notConnected")
    /\ reply' = [reply EXCEPT ![r] = "empty"]
    /\ UNCHANGED <<callerKeeps, queueVars>>

SeeDone(r) ==
    /\ call[r] = "wait"
    /\ done[callConn[r]]
    /\ Return(r, "notConnected")
    /\ UNCHANGED <<callerKeeps, queueVars, reply>>

\* The context ends: the 30 s deadline, or the HTTP client went away.
ContextDone(r) ==
    /\ call[r] = "wait"
    /\ call' = [call EXCEPT ![r] = "cancel"]
    /\ UNCHANGED <<callerKeeps, queueVars, reply, callConn, result>>

\* Mutant: the head of the queue is cut out, whoever's request it is.
CancelHead(r) ==
    /\ call[r] = "cancel"
    /\ ~MuHeld(callConn[r])
    /\ pending' = [pending EXCEPT ![callConn[r]] = IF @ = <<>> THEN @ ELSE Tail(@)]
    /\ Return(r, "timeout")
    /\ UNCHANGED <<callerKeeps, reply, inflight, notify>>

\* Mutant: the request stays in the queue.
CancelNothing(r) ==
    /\ call[r] = "cancel"
    /\ ~MuHeld(callConn[r])
    /\ Return(r, "timeout")
    /\ UNCHANGED <<callerKeeps, queueVars, reply>>

\* Still on the context's arm: the request is cut out of the queue, if it is
\* there, and the call returns.
Cancel(r) ==
    /\ call[r] = "cancel"
    /\ ~MuHeld(callConn[r])
    /\ pending' = [pending EXCEPT ![callConn[r]] = Without(@, r)]
    /\ Return(r, "timeout")
    /\ UNCHANGED <<callerKeeps, reply, inflight, notify>>

-----------------------------------------------------------------------------
(* The queue pump goroutine: NextRequest and the send on nextReq.          *)

\* Mutant: the pump does not look whether the passkey is free.
MayTakeAlways(c) == pending[c] # <<>>

MayTake(c) == pending[c] # <<>> /\ inflight[c] = {}

PumpTake(c) ==
    /\ pump[c] = "check"
    /\ ~MuHeld(c)
    /\ MayTake(c)
    /\ pending' = [pending EXCEPT ![c] = Tail(@)]
    /\ inflight' = [inflight EXCEPT ![c] = @ \cup {Head(pending[c])}]
    /\ picked' = [picked EXCEPT ![c] = Head(pending[c])]
    /\ pump' = [pump EXCEPT ![c] = "send"]
    /\ UNCHANGED <<pumpKeeps, nextReq, notify>>

PumpIdle(c) ==
    /\ pump[c] = "check"
    /\ ~MuHeld(c)
    /\ ~MayTake(c)
    /\ pump' = [pump EXCEPT ![c] = "wait"]
    /\ UNCHANGED <<pumpKeeps, queueVars, nextReq, picked>>

PumpWake(c) ==
    /\ pump[c] = "wait"
    /\ notify[c]
    /\ notify' = [notify EXCEPT ![c] = FALSE]
    /\ pump' = [pump EXCEPT ![c] = "check"]
    /\ UNCHANGED <<pumpKeeps, nextReq, picked, pending, inflight>>

PumpSend(c) ==
    /\ pump[c] = "send"
    /\ nextReq[c] = None
    /\ nextReq' = [nextReq EXCEPT ![c] = picked[c]]
    /\ picked' = [picked EXCEPT ![c] = None]
    /\ pump' = [pump EXCEPT ![c] = "check"]
    /\ UNCHANGED <<pumpKeeps, queueVars>>

\* The handler's context ends only when the handler has returned, and done is
\* closed by then: the context's arms are covered by done.
PumpStop(c) ==
    /\ pump[c] \in {"wait", "send"}
    /\ done[c]
    /\ picked' = [picked EXCEPT ![c] = None]
    /\ pump' = [pump EXCEPT ![c] = "stopped"]
    /\ UNCHANGED <<pumpKeeps, queueVars, nextReq>>

-----------------------------------------------------------------------------
(* The handler goroutine of a connection.                                  *)

\* The hub's Register evicts the DID's previous connection by closing its done
\* channel.
Register(c) ==
    /\ LET old == hub[ConnDid[c]]
       IN  done' = IF old = None THEN done ELSE [done EXCEPT ![old] = TRUE]
    /\ hub' = [hub EXCEPT ![ConnDid[c]] = c]

\* The socket is upgraded and registered; the reader, the pump and the main
\* loop start.
Connect(c) ==
    /\ handler[c] = "idle"
    /\ Register(c)
    /\ MoveHandler(c, "loop")
    /\ wsUp' = [wsUp EXCEPT ![c] = TRUE]
    /\ pump' = [pump EXCEPT ![c] = "check"]
    /\ UNCHANGED <<callVars, queueVars, nextReq, reply, picked, dlv, payloads, inbound, prompt>>

\* Mutant: a prompt is written although the channel gave nothing.
SendPromptUnchecked(c) ==
    /\ handler[c] = "loop"
    /\ payloads' = [payloads EXCEPT ![c] = @ \cup {nextReq[c]}]
    /\ prompt' = IF wsUp[c] THEN [prompt EXCEPT ![nextReq[c]] = "sent"] ELSE prompt
    /\ nextReq' = [nextReq EXCEPT ![c] = None]
    /\ UNCHANGED <<loopKeeps, queueVars, reply, handler, dlv, wsUp, inbound>>

\* A write to a dead socket may still succeed: the frame is then lost.
SendPrompt(c) ==
    /\ handler[c] = "loop"
    /\ nextReq[c] # None
    /\ payloads' = [payloads EXCEPT ![c] = @ \cup {nextReq[c]}]
    /\ prompt' = IF wsUp[c] THEN [prompt EXCEPT ![nextReq[c]] = "sent"] ELSE prompt
    /\ nextReq' = [nextReq EXCEPT ![c] = None]
    /\ UNCHANGED <<loopKeeps, queueVars, reply, handler, dlv, wsUp, inbound>>

\* The caller is told, and the handler returns; the request stays inflight.
WriteFails(c) ==
    /\ handler[c] = "loop"
    /\ nextReq[c] # None
    /\ ~wsUp[c]
    /\ reply[nextReq[c]] = "empty"
    /\ reply' = [reply EXCEPT ![nextReq[c]] = "connErr"]
    /\ nextReq' = [nextReq EXCEPT ![c] = None]
    /\ LeaveLoop(c)
    /\ UNCHANGED <<loopKeeps, queueVars>>

\* A sign_response needs the payload it was made for; a sign_reject does not.
\* A response that fails verification is dropped, its payload too, and the
\* request stays inflight.
DropAnswer(c) ==
    /\ handler[c] = "loop"
    /\ \E r \in inbound[c] :
          /\ \/ prompt[r] = "bad"
             \/ prompt[r] = "sig" /\ r \notin payloads[c]
          /\ payloads' = [payloads EXCEPT ![c] = @ \ {r}]
          /\ inbound' = [inbound EXCEPT ![c] = @ \ {r}]
    /\ UNCHANGED <<loopKeeps, queueVars, nextReq, reply, handler, dlv, wsUp, prompt>>

\* Mutant: the assertion is not verified.
RouteUnverified(c) ==
    /\ handler[c] = "loop"
    /\ \E r \in inbound[c] :
          /\ prompt[r] = "reject" \/ r \in payloads[c]
          /\ payloads' = [payloads EXCEPT ![c] = @ \ {r}]
          /\ inbound' = [inbound EXCEPT ![c] = @ \ {r}]
          /\ hub[ConnDid[c]] # None
          /\ MoveHandler(c, "deliver")
          /\ dlv' = [dlv EXCEPT ![c] =
                        [to |-> hub[ConnDid[c]], req |-> r,
                         ans |-> IF prompt[r] = "reject" THEN "reject" ELSE "sig"]]
    /\ UNCHANGED <<loopKeeps, queueVars, nextReq, reply, wsUp, prompt>>

\* A verified response or a rejection is routed to the connection that the
\* hub has for the DID now, which need not be this handler's own.
RouteAnswer(c) ==
    /\ handler[c] = "loop"
    /\ \E r \in inbound[c] :
          /\ \/ prompt[r] = "reject"
             \/ prompt[r] = "sig" /\ r \in payloads[c]
          /\ payloads' = [payloads EXCEPT ![c] = @ \ {r}]
          /\ inbound' = [inbound EXCEPT ![c] = @ \ {r}]
          /\ LET to == hub[ConnDid[c]]
             IN  IF to = None
                 THEN UNCHANGED <<handler, dlv>>
                 ELSE /\ MoveHandler(c, "deliver")
                      /\ dlv' = [dlv EXCEPT ![c] =
                                    [to |-> to, req |-> r, ans |-> prompt[r]]]
    /\ UNCHANGED <<loopKeeps, queueVars, nextReq, reply, wsUp, prompt>>

TakeInflight(c) ==
    /\ handler[c] = "deliver"
    /\ ~MuHeld(dlv[c].to)
    /\ IF dlv[c].req \in inflight[dlv[c].to]
       THEN /\ inflight' = [inflight EXCEPT ![dlv[c].to] = @ \ {dlv[c].req}]
            /\ MoveHandler(c, "reply")
            /\ UNCHANGED dlv
       ELSE /\ MoveHandler(c, "loop")
            /\ dlv' = [dlv EXCEPT ![c] = None]
            /\ UNCHANGED inflight
    /\ UNCHANGED <<loopKeeps, wireVars, nextReq, reply, pending, notify, payloads>>

SendReply(c) ==
    /\ handler[c] = "reply"
    /\ reply[dlv[c].req] = "empty"
    /\ reply' = [reply EXCEPT ![dlv[c].req] = dlv[c].ans]
    /\ MoveHandler(c, "wake")
    /\ UNCHANGED <<loopKeeps, queueVars, wireVars, nextReq, dlv, payloads>>

\* Mutant: deliver does not tell the pump that a slot is free.
WakeNobody(c) ==
    /\ handler[c] = "wake"
    /\ MoveHandler(c, "loop")
    /\ dlv' = [dlv EXCEPT ![c] = None]
    /\ UNCHANGED <<loopKeeps, queueVars, wireVars, nextReq, reply, payloads>>

WakePump(c) ==
    /\ handler[c] = "wake"
    /\ notify' = [notify EXCEPT ![dlv[c].to] = TRUE]
    /\ MoveHandler(c, "loop")
    /\ dlv' = [dlv EXCEPT ![c] = None]
    /\ UNCHANGED <<loopKeeps, wireVars, nextReq, reply, pending, inflight, payloads>>

\* A ping fails, the read deadline passes or the reader gets an error.
Disconnect(c) ==
    /\ handler[c] = "loop"
    /\ ~wsUp[c]
    /\ LeaveLoop(c)
    /\ UNCHANGED <<loopKeeps, queueVars, nextReq, reply>>

\* The minute ticker finds the session token expired.
TokenExpires(c) ==
    /\ c \in Bearer
    /\ handler[c] = "loop"
    /\ LeaveLoop(c)
    /\ UNCHANGED <<loopKeeps, queueVars, nextReq, reply>>

\* Mutant: done is closed and the hub's entry is left.
UnregisterKeepsEntry(c) ==
    /\ handler[c] = "unregister"
    /\ done' = [done EXCEPT ![c] = TRUE]
    /\ MoveHandler(c, "failAll")
    /\ UNCHANGED <<teardownKeeps, hub, reply, pending, inflight, wsUp>>

\* The handler's deferred calls: Unregister, failAll, conn.Close.
Unregister(c) ==
    /\ handler[c] = "unregister"
    /\ IF hub[ConnDid[c]] = c
       THEN /\ hub' = [hub EXCEPT ![ConnDid[c]] = None]
            /\ done' = [done EXCEPT ![c] = TRUE]
       ELSE UNCHANGED <<hub, done>>
    /\ MoveHandler(c, "failAll")
    /\ UNCHANGED <<teardownKeeps, reply, pending, inflight, wsUp>>

FailAllLock(c) ==
    /\ handler[c] = "failAll"
    /\ MoveHandler(c, "drain")
    /\ UNCHANGED <<teardownKeeps, hub, done, reply, pending, inflight, wsUp>>

\* The mutex is held until both loops are over, so nobody can tell that the
\* code empties the two containers after its loops and not during them.
FailInflight(c) ==
    /\ handler[c] = "drain"
    /\ \E r \in inflight[c] :
          /\ reply[r] = "empty"
          /\ reply' = [reply EXCEPT ![r] = "connErr"]
          /\ inflight' = [inflight EXCEPT ![c] = @ \ {r}]
    /\ UNCHANGED <<teardownKeeps, hub, done, handler, wsUp, pending>>

FailPending(c) ==
    /\ handler[c] = "drain"
    /\ inflight[c] = {}
    /\ pending[c] # <<>>
    /\ reply[Head(pending[c])] = "empty"
    /\ reply' = [reply EXCEPT ![Head(pending[c])] = "connErr"]
    /\ pending' = [pending EXCEPT ![c] = Tail(@)]
    /\ UNCHANGED <<teardownKeeps, hub, done, handler, wsUp, inflight>>

\* Mutant: the mutex is not released.
FailAllKeepsLock(c) ==
    /\ handler[c] = "drain"
    /\ inflight[c] = {}
    /\ pending[c] = <<>>
    /\ wsUp' = [wsUp EXCEPT ![c] = FALSE]
    /\ UNCHANGED <<teardownKeeps, hub, done, reply, pending, inflight, handler>>

FailAllDone(c) ==
    /\ handler[c] = "drain"
    /\ inflight[c] = {}
    /\ pending[c] = <<>>
    /\ MoveHandler(c, "closed")
    /\ wsUp' = [wsUp EXCEPT ![c] = FALSE]
    /\ UNCHANGED <<teardownKeeps, hub, done, reply, pending, inflight>>

-----------------------------------------------------------------------------
(* The other side of the socket.                                           *)

\* The page is closed or the network fails.
Drop(c) ==
    /\ wsUp[c]
    /\ wsUp' = [wsUp EXCEPT ![c] = FALSE]
    /\ UNCHANGED <<loopKeeps, queueVars, loopVars, nextReq, reply, inbound, prompt>>

\* A prompt is answered once.  The page sends the answer on its current
\* socket, which after a reconnection is not the one the prompt came on.  An
\* answer nobody reads any more is no different from none.
Answer(c) ==
    /\ wsUp[c]
    /\ handler[c] \in {"loop", "deliver", "reply", "wake"}
    /\ \E r \in Requests, v \in Verdicts :
          /\ prompt[r] = "sent"
          /\ ReqDid[r] = ConnDid[c]
          /\ prompt' = [prompt EXCEPT ![r] = v]
          /\ inbound' = [inbound EXCEPT ![c] = @ \cup {r}]
    /\ UNCHANGED <<loopKeeps, queueVars, loopVars, nextReq, reply, wsUp>>

-----------------------------------------------------------------------------
Caller(r) ==
    \/ LookUp(r) \/ Enqueue(r) \/ Notify(r)
    \/ ReceiveReply(r) \/ SeeDone(r) \/ ContextDone(r) \/ Cancel(r)

Pump(c) == PumpTake(c) \/ PumpIdle(c) \/ PumpWake(c) \/ PumpSend(c) \/ PumpStop(c)

Loop(c) ==
    \/ SendPrompt(c) \/ WriteFails(c) \/ DropAnswer(c) \/ RouteAnswer(c)
    \/ TakeInflight(c) \/ SendReply(c) \/ WakePump(c) \/ Disconnect(c)

Teardown(c) ==
    Unregister(c) \/ FailAllLock(c) \/ FailInflight(c) \/ FailPending(c) \/ FailAllDone(c)

Next ==
    \/ \E r \in Requests : Caller(r)
    \/ \E c \in Conns :
          \/ Connect(c) \/ TokenExpires(c) \/ Drop(c) \/ Answer(c)
          \/ Pump(c) \/ Loop(c) \/ Teardown(c)

Spec == Init /\ [][Next]_vars

-----------------------------------------------------------------------------
(* Safety.                                                                 *)

\* Every variable stays in its type: queues hold requests, one-slot channels
\* hold one value, a delivery names a real connection and request.
TypeOK ==
    /\ hub \in [Dids -> Conns \cup {None}]
    /\ handler \in [Conns -> HandlerStates]
    /\ dlv \in [Conns -> Deliveries \cup {None}]
    /\ done \in [Conns -> BOOLEAN]
    /\ wsUp \in [Conns -> BOOLEAN]
    /\ pending \in [Conns -> Seq(Requests)]
    /\ inflight \in [Conns -> SUBSET Requests]
    /\ notify \in [Conns -> BOOLEAN]
    /\ pump \in [Conns -> PumpStates]
    /\ picked \in [Conns -> Requests \cup {None}]
    /\ nextReq \in [Conns -> Requests \cup {None}]
    /\ payloads \in [Conns -> SUBSET Requests]
    /\ inbound \in [Conns -> SUBSET Requests]
    /\ call \in [Requests -> CallStates]
    /\ callConn \in [Requests -> Conns \cup {None}]
    /\ reply \in [Requests -> Replies]
    /\ result \in [Requests -> Results]
    /\ prompt \in [Requests -> Prompts]

\* A connection in the hub belongs to the DID it is filed under, its done
\* channel is still open and its handler has not got past Unregister.  Register
\* and Unregister close a hub connection's done channel, and a second close of
\* a channel panics: this is why neither does.
HubConnectionIsLive ==
    \A d \in Dids : hub[d] # None =>
        /\ ConnDid[hub[d]] = d
        /\ ~done[hub[d]]
        /\ handler[hub[d]] \in {"loop", "deliver", "reply", "wake", "unregister"}

\* A connection never has two prompts open at the signer: the request whose
\* frame went out keeps its place in inflight until the signer has answered it
\* or the connection is being torn down (NextRequest, deliver, failAll).
OnePromptPerConnection ==
    \A r, s \in Requests :
        (/\ prompt[r] = "sent" /\ prompt[s] = "sent"
         /\ callConn[r] = callConn[s]
         /\ handler[callConn[r]] \notin {"drain", "closed"}) => r = s

\* The pump never sleeps through work: when it waits on notify while the queue
\* has a head it could take, a wake-up is already in the channel, or a caller
\* or a delivery is about to put one there, or the connection is going away.
NoLostWakeup ==
    \A c \in Conns :
        (pump[c] = "wait" /\ MayTake(c)) =>
            \/ notify[c]
            \/ done[c]
            \/ \E r \in Requests : call[r] = "notify" /\ callConn[r] = c
            \/ \E b \in Conns : handler[b] \in {"reply", "wake"} /\ dlv[b].to = c

\* While a call waits on a connection that is not done, its request is where
\* somebody will find it: queued, inflight, on its way back, or answered.
NoLostRequest ==
    \A r \in Requests :
        (call[r] \in {"notify", "wait"} /\ ~done[callConn[r]]) =>
            \/ Queued(r, callConn[r])
            \/ r \in inflight[callConn[r]]
            \/ reply[r] # "empty"
            \/ \E b \in Conns : handler[b] = "reply" /\ dlv[b].req = r

\* A call reports a signature only if the signer sent a verifiable one for
\* this very request, and a rejection only if the signer rejected it: no
\* answer reaches another call and no bad signature gets through.
OutcomeIsTheSigners ==
    \A r \in Requests :
        /\ result[r] = "sig" => prompt[r] = "sig"
        /\ result[r] = "rejected" => prompt[r] = "reject"

\* A request that timed out before the pump took it is never taken: no passkey
\* prompt, and no turn in the queue, is spent on it.
TimedOutIsNotTaken ==
    [][\A r \in Requests, c \in Conns :
          (result[r] = "timeout" /\ r \notin inflight[c]) => r \notin inflight'[c]]_vars

-----------------------------------------------------------------------------
(* Fairness: the Go scheduler runs every goroutine that can run, select is *)
(* fair enough to take an arm that stays ready, and a mutex that is freed  *)
(* is handed on.                                                           *)

CallerFairness ==
    \A r \in Requests :
        /\ WF_vars(Enqueue(r)) /\ WF_vars(Notify(r))
        /\ WF_vars(ReceiveReply(r)) /\ WF_vars(SeeDone(r)) /\ WF_vars(Cancel(r))

PumpFairness == \A c \in Conns : WF_vars(Pump(c))

\* The main loop's select takes each arm that stays ready; the rest of the
\* handler is sequential.
HandlerFairness ==
    \A c \in Conns :
        /\ WF_vars(SendPrompt(c))
        /\ WF_vars(DropAnswer(c) \/ RouteAnswer(c))
        /\ WF_vars(Disconnect(c))
        /\ WF_vars(TakeInflight(c) \/ SendReply(c) \/ WakePump(c))
        /\ WF_vars(Teardown(c))

FairSpec == Spec /\ CallerFairness /\ PumpFairness /\ HandlerFairness

(* What some properties assume of the world beside it.                     *)

\* Every call has a deadline that fires.
Deadlines == \A r \in Requests : WF_vars(ContextDone(r))

\* The signer answers every prompt, as long as the connection it came on is
\* up, and never with a signature that does not verify.
AnswersIts(c) ==
    /\ \E r \in Requests : prompt[r] = "sent" /\ callConn[r] = c
    /\ Answer(c)

HonestSigner ==
    /\ \A c \in Conns : WF_vars(AnswersIts(c))
    /\ [](\A r \in Requests : prompt[r] # "bad")

-----------------------------------------------------------------------------
(* Liveness.                                                               *)

\* The handler of c is in failAll, about to send to a full reply channel.
StuckInFailAll(c) ==
    /\ handler[c] = "drain"
    /\ \E r \in inflight[c] : reply[r] # "empty"

\* With deadlines, every call of RequestSignature comes back, unless the
\* handler of its connection is blocked in failAll.
CallReturns ==
    Deadlines =>
        \A r \in Requests :
            call[r] = "enqueue" ~>
                \/ call[r] = "returned"
                \/ \E c \in Conns : callConn[r] = c /\ StuckInFailAll(c)

\* With a signer that answers with good signatures or rejections, a queued
\* request leaves the queue even when no deadline ever fires (a reply frees the
\* slot and the pump moves on), or its caller is told that the connection went.
QueueMoves ==
    HonestSigner =>
        \A c \in Conns, r \in Requests :
            Queued(r, c) ~> (~Queued(r, c) \/ call[r] = "returned" \/ StuckInFailAll(c))

\* A hub entry whose socket is dead is taken out or replaced, so that callers
\* stop being queued on it.
DeadConnectionLeavesHub ==
    \A c \in Conns : (hub[ConnDid[c]] = c /\ ~wsUp[c]) ~> hub[ConnDid[c]] # c

-----------------------------------------------------------------------------
(* What comments say, and the code does not do.                            *)

\* signer_hub.go:129-133: RequestSignature "blocks until one of" a reply, the
\* connection's end or its context's, and signer_hub.go:21-24: the goroutine of
\* the connection "never blocks delivering the result".
CallAlwaysReturns ==
    Deadlines => \A r \in Requests : call[r] = "enqueue" ~> call[r] = "returned"

\* signer_hub.go:41-43: the next request is popped after a reply arrives.
ReplyFreesTheSlot ==
    \A r \in Requests :
        prompt[r] \in {"sig", "bad", "reject"} ~> \A c \in Conns : r \notin inflight[c]
=============================================================================
