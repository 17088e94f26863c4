-------------------------- MODULE EventLog_proofs ---------------------------
(***************************************************************************)
(* Theorems about EventLog, for every set of connections, every size of    *)
(* pages and buffers, every retention time and every bound.                *)
(***************************************************************************)
EXTENDS EventLog, FiniteSetTheorems, TLAPS

\* What Append gives.
LEMMA Appended ==
    ASSUME NEW s \in Seq(Nat), NEW e \in Nat
    PROVE  /\ Append(s, e) \in Seq(Nat) /\ Append(s, e) # <<>>
           /\ Len(Append(s, e)) = Len(s) + 1
           /\ \A i \in 1..Len(s) : Append(s, e)[i] = s[i]
           /\ Append(s, e)[Len(s) + 1] = e
           /\ Last(Append(s, e)) = e
BY DEF Last

\* What Head and Tail give.
LEMMA Tailed ==
    ASSUME NEW s \in Seq(Nat), s # <<>>
    PROVE  /\ Head(s) = s[1] /\ Head(s) \in Nat /\ Len(s) \in Nat /\ Len(s) >= 1
           /\ Tail(s) \in Seq(Nat) /\ Len(Tail(s)) = Len(s) - 1
           /\ \A i \in 1..Len(Tail(s)) : Tail(s)[i] = s[i + 1]
           /\ Last(s) = s[Len(s)] /\ Last(s) \in Nat
BY DEF Last

-----------------------------------------------------------------------------
(* Types and the log.                                                      *)

\* A highest row; the rows were stored in the order of their numbers; the event that
\* is stored and not yet broadcast has the highest number.
LogInv ==
    /\ SeqCoversLog
    /\ rows # {} => \E r \in rows : \A s \in rows : s.seq <= r.seq
    /\ \A r \in rows : r.at <= clock
    /\ \A r, s \in rows : r.seq < s.seq => r.at <= s.at
    /\ writing # None => writing = seq /\ seq >= 1

TypeInv == TypeOK /\ LogInv

\* A restart resumes from the highest row.
LEMMA HighestIs ==
    ASSUME TypeInv, rows # {}
    PROVE  /\ Highest(rows) \in Nat /\ \E r \in rows : r.seq = Highest(rows)
           /\ \A r \in rows : r.seq <= Highest(rows)
<1>1. PICK r \in rows : \A s \in rows : s.seq <= r.seq
    BY DEF TypeInv, LogInv
<1>2. r.seq \in Seqs(rows) /\ \A m \in Seqs(rows) : m <= r.seq
    BY <1>1 DEF Seqs
<1>3. Highest(rows) \in Seqs(rows) /\ \A m \in Seqs(rows) : m <= Highest(rows)
    BY <1>2 DEF Highest
<1>. QED BY <1>3 DEF Seqs, TypeInv, TypeOK, Row

\* The end of a playback keeps the types.
LEMMA EndsPlayback ==
    ASSUME TypeInv, NEW c \in Conns, NEW next \in States, EndPlayback(c, next)
    PROVE  /\ st' \in [Conns -> States] /\ at' \in [Conns -> Nat] /\ page' \in [Conns -> SUBSET Nat]
           /\ more' \in [Conns -> BOOLEAN] /\ first' \in [Conns -> Nat \cup {None}]
           /\ st'[c] = next /\ page'[c] = {}
           /\ \A d \in Conns \ {c} : /\ st'[d] = st[d] /\ at'[d] = at[d] /\ page'[d] = page[d]
                                     /\ more'[d] = more[d] /\ first'[d] = first[d]
BY DEF EndPlayback, TypeInv, TypeOK

\* At first the log is empty and nobody is connected.
LEMMA TypeInit == Init => TypeInv
<1>. SUFFICES ASSUME Init PROVE TypeInv
    OBVIOUS
<1>1. <<>> \in Seq(Nat) /\ Len(<<>>) = 0
    OBVIOUS
<1>2. buf \in [Conns -> Seq(Nat)] /\ \A c \in Conns : Len(buf[c]) <= BufferSize
    BY <1>1, SizesAssumption DEF Init
<1>3. TypeOK
    BY <1>1, <1>2 DEF Init, TypeOK, States
<1>4. LogInv
    BY DEF Init, LogInv, SeqCoversLog
<1>. QED BY <1>3, <1>4 DEF TypeInv

\* Who gets an event, and who is dropped for it.
Subscribers == {c \in Conns : Registered(c) /\ c \notin slow /\ Len(buf[c]) # BufferSize}
LEMMA Broadcasts ==
    ASSUME Broadcast
    PROVE  /\ buf' = [c \in Conns |-> IF c \in Subscribers THEN Append(buf[c], writing) ELSE buf[c]]
           /\ slow' = slow \cup {c \in Conns : Registered(c) /\ c \notin Subscribers}
<1>. DEFINE Reg == {c \in Conns : Registered(c) /\ c \notin slow}
            Full == {c \in Reg : Len(buf[c]) = BufferSize}
<1>1. buf' = [c \in Conns |-> IF c \in Reg \ Full THEN Append(buf[c], writing) ELSE buf[c]]
      /\ slow' = slow \cup Full
    BY DEF Broadcast
<1>2. Reg \ Full = Subscribers
    BY DEF Subscribers
<1>3. slow \cup Full = slow \cup {c \in Conns : Registered(c) /\ c \notin Subscribers}
    BY DEF Subscribers
<1>. HIDE DEF Reg, Full
<1>. QED BY <1>1, <1>2, <1>3

\* The persister keeps the types and the order of its rows.
LEMMA LogStep ==
    ASSUME TypeInv, Insert \/ InsertFails \/ Broadcast \/ Cleanup \/ Restart \/ Tick
    PROVE  TypeInv'
<1>. USE NoneAssumption DEF TypeInv, TypeOK, Row
<1>1. CASE Insert
    <2>1. rows' = rows \cup {[seq |-> seq + 1, at |-> clock]} /\ seq' = seq + 1 /\ writing' = seq + 1
        BY <1>1 DEF Insert
    <2>2. TypeOK'
        BY <1>1, <2>1 DEF Insert, connVars, relayVars
    <2>3. LogInv'
        <3>. DEFINE new == [seq |-> seq + 1, at |-> clock]
        <3>1. new.seq = seq + 1 /\ new.at = clock /\ clock' = clock
            BY <1>1 DEF Insert
        <3>. HIDE DEF new
        <3>2. rows' = rows \cup {new}
            BY <2>1 DEF new
        <3>3. \A r \in rows : r.seq \in Nat /\ r.at \in Nat /\ r.seq <= seq /\ r.at <= clock
            BY DEF LogInv, SeqCoversLog
        <3>4. \A r \in rows' : r.seq <= new.seq /\ r.at <= new.at
            BY <3>1, <3>2, <3>3
        <3>5. ASSUME NEW r \in rows', NEW s \in rows', r.seq < s.seq PROVE r.at <= s.at
            <4>1. r # new
                BY <3>1, <3>2, <3>3, <3>5
            <4>2. CASE s = new
                BY <3>4, <4>2
            <4>. QED BY <3>2, <3>5, <4>1, <4>2 DEF LogInv
        <3>. QED BY <2>1, <3>1, <3>2, <3>4, <3>5 DEF LogInv, SeqCoversLog
    <2>. QED BY <2>2, <2>3
<1>2. CASE InsertFails
    BY <1>2 DEF InsertFails, LogInv, SeqCoversLog, connVars, relayVars
<1>3. CASE Broadcast
    <2>1. /\ writing \in Nat /\ writing' = None
          /\ UNCHANGED <<clock, seq, rows, st, up, at, page, more, first, relayVars>>
        BY <1>3 DEF Broadcast
    <2>2. ASSUME NEW c \in Conns PROVE buf'[c] \in Seq(Nat) /\ Len(buf'[c]) <= BufferSize
        <3>1. buf'[c] = IF c \in Subscribers THEN Append(buf[c], writing) ELSE buf[c]
            BY <1>3, Broadcasts
        <3>2. buf[c] \in Seq(Nat) /\ Len(buf[c]) \in Nat /\ Len(buf[c]) <= BufferSize
            OBVIOUS
        <3>3. CASE c \in Subscribers
            <4>1. Len(buf[c]) < BufferSize
                BY <3>2, <3>3, SizesAssumption DEF Subscribers
            <4>. QED BY <2>1, <3>1, <3>2, <3>3, <4>1, Appended, SizesAssumption
        <3>. QED BY <3>1, <3>2, <3>3
    <2>3. buf' \in [Conns -> Seq(Nat)]
        BY <1>3, <2>2, Broadcasts
    <2>4. slow' \subseteq Conns
        BY <1>3, Broadcasts
    <2>. QED BY <2>1, <2>2, <2>3, <2>4 DEF relayVars, LogInv, SeqCoversLog
<1>4. CASE Cleanup
    <2>1. rows' \subseteq rows /\ rows' = {r \in rows : r.at + Retention >= clock}
        BY <1>4 DEF Cleanup
    <2>2. TypeOK'
        BY <1>4, <2>1 DEF Cleanup, connVars, relayVars
    <2>3. ASSUME rows' # {} PROVE \E r \in rows' : \A s \in rows' : s.seq <= r.seq
        <3>1. PICK r \in rows : \A s \in rows : s.seq <= r.seq
            BY <2>1, <2>3 DEF LogInv
        <3>2. PICK s \in rows' : TRUE
            BY <2>3
        <3>3. s \in rows /\ s.at + Retention >= clock /\ s.seq <= r.seq
            BY <2>1, <3>1, <3>2
        <3>4. CASE s.seq = r.seq
            BY <2>1, <3>1, <3>2, <3>4
        <3>5. CASE s.seq < r.seq
            <4>1. s.at <= r.at
                BY <3>3, <3>5 DEF LogInv
            <4>2. s.at \in Nat /\ r.at \in Nat /\ clock \in Nat
                BY <3>3
            <4>3. r \in rows'
                BY <2>1, <3>3, <4>1, <4>2, SizesAssumption
            <4>. QED BY <2>1, <3>1, <4>3
        <3>6. s.seq \in Nat /\ r.seq \in Nat
            BY <3>3
        <3>. QED BY <3>3, <3>4, <3>5, <3>6
    <2>4. UNCHANGED <<clock, seq, writing>>
        BY <1>4 DEF Cleanup
    <2>. QED BY <2>1, <2>2, <2>3, <2>4 DEF LogInv, SeqCoversLog
<1>5. CASE Restart
    <2>1. seq' \in Nat /\ (rows # {} => \A r \in rows : r.seq <= seq')
        BY <1>5, HighestIs DEF Restart, Resume
    <2>2. /\ st' = [c \in Conns |-> IF st[c] = "off" THEN "off" ELSE "closed"]
          /\ up' = [c \in Conns |-> FALSE] /\ at' = [c \in Conns |-> 0]
          /\ page' = [c \in Conns |-> {}] /\ more' = [c \in Conns |-> FALSE]
          /\ first' = [c \in Conns |-> None] /\ buf' = [c \in Conns |-> <<>>] /\ slow' = {}
          /\ UNCHANGED <<clock, rows, got, from>> /\ writing' = None
        BY <1>5 DEF Restart
    <2>3. reused' \in BOOLEAN
        BY <1>5 DEF Restart
    <2>4. \A c \in Conns : Len(buf'[c]) <= BufferSize
        BY <2>2, SizesAssumption
    <2>. QED BY <2>1, <2>2, <2>3, <2>4 DEF States, LogInv, SeqCoversLog
<1>6. CASE Tick
    <2>1. clock' = clock + 1 /\ UNCHANGED <<logVars, connVars, relayVars>>
        BY <1>6 DEF Tick
    <2>2. \A r \in rows : r.at <= clock'
        BY <2>1 DEF LogInv
    <2>3. LogInv'
        BY <2>1, <2>2 DEF logVars, LogInv, SeqCoversLog
    <2>4. TypeOK'
        BY <2>1 DEF logVars, connVars, relayVars
    <2>. QED BY <2>3, <2>4
<1>. QED BY <1>1, <1>2, <1>3, <1>4, <1>5, <1>6

\* What the connections do, each at a time.
ConnStep(c) ==
    \/ SubscribeLive(c)
    \/ \E cursor \in 0..MaxSeq : SubscribeFrom(c, cursor)
    \/ Disconnect(c)
    \/ QueryPage(c) \/ QueryFails(c) \/ SendStored(c)
    \/ RegisterSub(c) \/ TakeFirst(c) \/ CaughtUp(c)
    \/ SendLive(c) \/ DropSlow(c)

\* A frame is a number that the relay adds to what it has, when it is there.
LEMMA ReceivesType ==
    ASSUME TypeInv, NEW c \in Conns, NEW e \in Nat, Receive(c, e)
    PROVE  got' \in Seq(Nat)
BY Appended DEF Receive, TypeInv, TypeOK

\* The connections keep the types.
LEMMA ConnType == ASSUME TypeInv, NEW c \in Conns, ConnStep(c) PROVE TypeInv'
<1>. USE NoneAssumption DEF TypeInv, TypeOK
<1>0. "live" \in States /\ "closed" \in States /\ "play" \in States /\ "wait" \in States
      /\ "replay" \in States
    BY DEF States
<1>1. ASSUME UNCHANGED logVars, clock' = clock PROVE LogInv'
    BY <1>1 DEF logVars, LogInv, SeqCoversLog
<1>2. CASE SubscribeLive(c)
    <2>1. (IF writing = None THEN seq ELSE seq - 1) \in Nat
        BY DEF LogInv
    <2>. QED BY <1>0, <1>1, <1>2, <2>1 DEF SubscribeLive, logVars
<1>3. ASSUME NEW cursor \in 0..MaxSeq, SubscribeFrom(c, cursor) PROVE TypeInv'
    <2>1. cursor \in Nat
        BY BoundsAssumption
    <2>. QED BY <1>0, <1>1, <1>3, <2>1 DEF SubscribeFrom, logVars
<1>4. CASE Disconnect(c)
    BY <1>1, <1>4 DEF Disconnect, logVars, relayVars
<1>5. CASE QueryPage(c)
    <2>1. PageOf(Above(at[c])) \subseteq Nat
        BY DEF PageOf, Above, Seqs, Row
    <2>. QED BY <1>1, <1>5, <2>1 DEF QueryPage, logVars, relayVars
<1>6. CASE QueryFails(c)
    <2>1. /\ EndPlayback(c, "closed") /\ UNCHANGED <<clock, logVars, relayVars>>
          /\ up' = [up EXCEPT ![c] = FALSE] /\ buf' = [buf EXCEPT ![c] = <<>>] /\ slow' = slow \ {c}
        BY <1>6 DEF QueryFails
    <2>2. <<>> \in Seq(Nat) /\ Len(<<>>) <= BufferSize
        BY SizesAssumption
    <2>3. buf' \in [Conns -> Seq(Nat)] /\ \A d \in Conns : Len(buf'[d]) <= BufferSize
        BY <2>1, <2>2
    <2>. QED BY <1>0, <1>1, <2>1, <2>3, EndsPlayback DEF logVars, relayVars
<1>7. CASE SendStored(c)
    <2>1. PICK e \in page[c] :
              IF st[c] = "replay" /\ e > first[c]
              THEN EndPlayback(c, "live") /\ UNCHANGED got
              ELSE /\ Receive(c, e)
                   /\ at' = [at EXCEPT ![c] = e]
                   /\ page' = [page EXCEPT ![c] = @ \ {e}]
                   /\ UNCHANGED <<st, more, first>>
        BY <1>7 DEF SendStored
    <2>2. e \in Nat /\ UNCHANGED <<clock, logVars, up, buf, slow, from, reused>>
        BY <1>7 DEF SendStored
    <2>3. CASE st[c] = "replay" /\ e > first[c]
        BY <1>0, <1>1, <2>1, <2>2, <2>3, EndsPlayback DEF logVars
    <2>4. CASE ~(st[c] = "replay" /\ e > first[c])
        <3>1. got' \in Seq(Nat)
            BY <2>1, <2>2, <2>4, ReceivesType
        <3>2. at' \in [Conns -> Nat]
            BY <2>1, <2>2, <2>4
        <3>3. page[c] \ {e} \in SUBSET Nat
            OBVIOUS
        <3>4. page' \in [Conns -> SUBSET Nat]
            <4>1. page' = [page EXCEPT ![c] = page[c] \ {e}]
                BY <2>1, <2>4
            <4>. QED BY <3>3, <4>1
        <3>. QED BY <1>1, <2>1, <2>2, <2>4, <3>1, <3>2, <3>4 DEF logVars
    <2>. QED BY <2>3, <2>4
<1>8. CASE RegisterSub(c)
    BY <1>0, <1>1, <1>8 DEF RegisterSub, logVars, relayVars
<1>9. CASE TakeFirst(c)
    <2>1. buf[c] \in Seq(Nat) /\ buf[c] # <<>>
        BY <1>9 DEF TakeFirst
    <2>2. Head(buf[c]) \in Nat /\ Tail(buf[c]) \in Seq(Nat) /\ Len(Tail(buf[c])) <= BufferSize
        BY <2>1, Tailed, SizesAssumption
    <2>3. /\ first' = [first EXCEPT ![c] = Head(buf[c])] /\ buf' = [buf EXCEPT ![c] = Tail(buf[c])]
          /\ st' = [st EXCEPT ![c] = "replay"] /\ more' = [more EXCEPT ![c] = TRUE]
          /\ UNCHANGED <<clock, logVars, up, at, page, slow, relayVars>>
        BY <1>9 DEF TakeFirst
    <2>4. buf' \in [Conns -> Seq(Nat)] /\ \A d \in Conns : Len(buf'[d]) <= BufferSize
        BY <2>2, <2>3
    <2>5. first' \in [Conns -> Nat \cup {None}] /\ st' \in [Conns -> States] /\ more' \in [Conns -> BOOLEAN]
        BY <1>0, <2>2, <2>3
    <2>. QED BY <1>1, <2>3, <2>4, <2>5 DEF logVars, relayVars
<1>10. CASE CaughtUp(c)
    BY <1>0, <1>1, <1>10, EndsPlayback DEF CaughtUp, logVars, relayVars
<1>11. CASE SendLive(c)
    <2>1. buf[c] \in Seq(Nat) /\ buf[c] # <<>>
        BY <1>11 DEF SendLive
    <2>2. Head(buf[c]) \in Nat /\ Tail(buf[c]) \in Seq(Nat) /\ Len(Tail(buf[c])) <= BufferSize
        BY <2>1, Tailed, SizesAssumption
    <2>3. /\ Receive(c, Head(buf[c])) /\ buf' = [buf EXCEPT ![c] = Tail(buf[c])]
          /\ UNCHANGED <<clock, logVars, st, up, at, page, more, first, slow, from, reused>>
        BY <1>11 DEF SendLive
    <2>4. buf' \in [Conns -> Seq(Nat)] /\ \A d \in Conns : Len(buf'[d]) <= BufferSize
        BY <2>2, <2>3
    <2>5. got' \in Seq(Nat)
        BY <2>2, <2>3, ReceivesType
    <2>. QED BY <1>1, <2>3, <2>4, <2>5 DEF logVars
<1>12. CASE DropSlow(c)
    BY <1>0, <1>1, <1>12, EndsPlayback DEF DropSlow, logVars, relayVars
<1>. QED BY <1>2, <1>3, <1>4, <1>5, <1>6, <1>7, <1>8, <1>9, <1>10, <1>11, <1>12 DEF ConnStep

\* Types and the order of the rows are inductive.
LEMMA TypeStep == TypeInv /\ [Next]_vars => TypeInv'
<1>. SUFFICES ASSUME TypeInv, [Next]_vars PROVE TypeInv'
    OBVIOUS
<1>1. CASE Insert \/ InsertFails \/ Broadcast \/ Cleanup \/ Restart \/ Tick
    BY <1>1, LogStep
<1>2. CASE \E c \in Conns : ConnStep(c)
    BY <1>2, ConnType
<1>3. CASE UNCHANGED vars
    BY <1>3 DEF vars, logVars, connVars, relayVars, TypeInv, TypeOK, LogInv, SeqCoversLog
<1>. QED BY <1>1, <1>2, <1>3 DEF Next, ConnStep

\* The variables keep their types, and no buffer grows over its capacity (DbPersister
\* and its subscribers).
THEOREM EventTypes == Spec => []TypeOK
<1>1. TypeInv => TypeOK
    BY DEF TypeInv
<1>. QED BY TypeInit, TypeStep, <1>1, PTL DEF Spec

\* The counter is never behind the log, across failed inserts, retention and restarts
\* (NewDbPersister resumes from the highest row).
THEOREM CounterCoversTheLog == Spec => []SeqCoversLog
<1>1. TypeInv => SeqCoversLog
    BY DEF TypeInv, LogInv
<1>. QED BY TypeInit, TypeStep, <1>1, PTL DEF Spec

-----------------------------------------------------------------------------
(* What is on its way to the relay.                                        *)

\* A number that was given out, and is not above the rows that are left.
Covered(e) == e <= seq /\ (rows # {} => \E r \in rows : e <= r.seq)

In(n, s) == \E i \in 1..Len(s) : s[i] = n

\* SentIsCovered is not inductive: the rows that are left must cover what was sent and
\* is going to be sent, for a restart resumes from the highest.
OnItsWay(e) ==
    \/ writing = e
    \/ \E c \in Conns : e \in page[c] \/ In(e, buf[c]) \/ first[c] = e

CoverInv ==
    /\ \A e \in Nat : OnItsWay(e) => Covered(e)
    /\ \A e \in Nat : ~reused /\ In(e, got) => Covered(e)
    /\ \A e, w \in Nat : \A c \in Conns :
          (In(e, buf[c]) \/ first[c] = e) /\ writing = w => e < w

\* What is covered stays so.
LEMMA CoveredStays ==
    ASSUME TypeInv, NEW e \in Nat, Covered(e),
           Insert \/ InsertFails \/ Cleanup \/ Tick \/ Broadcast \/ (Restart /\ ~reused')
    PROVE  Covered(e)'
<1>. USE DEF TypeInv, TypeOK, Row
<1>1. CASE Insert
    <2>1. rows' = rows \cup {[seq |-> seq + 1, at |-> clock]} /\ seq' = seq + 1
        BY <1>1 DEF Insert
    <2>2. \E r \in rows' : r.seq = seq + 1
        <3>1. [seq |-> seq + 1, at |-> clock] \in rows'
            BY <2>1
        <3>. QED BY <3>1
    <2>. QED BY <2>1, <2>2 DEF Covered
<1>2. CASE InsertFails
    BY <1>2 DEF InsertFails, Covered
<1>3. CASE Cleanup
    <2>1. rows' \subseteq rows /\ seq' = seq
        BY <1>3 DEF Cleanup
    <2>2. TypeInv'
        BY <1>3, TypeStep DEF Next
    <2>3. ASSUME rows' # {} PROVE \E r \in rows' : e <= r.seq
        <3>1. PICK r \in rows : e <= r.seq
            BY <2>1, <2>3 DEF Covered
        <3>2. PICK s \in rows' : \A q \in rows' : q.seq <= s.seq
            BY <2>2, <2>3 DEF LogInv
        <3>3. r \in rows' => r.seq <= s.seq
            BY <3>2
        <3>4. CASE r \notin rows'
            <4>1. ~(r.at + Retention >= clock) /\ s.at + Retention >= clock
                BY <1>3, <3>1, <3>2, <3>4 DEF Cleanup
            <4>2. r.at < s.at /\ s \in rows
                BY <2>1, <3>1, <3>2, <4>1, SizesAssumption
            <4>3. r.seq <= s.seq
                <5>1. r.seq \in Nat /\ s.seq \in Nat /\ r.at \in Nat /\ s.at \in Nat
                    BY <3>1, <4>2
                <5>2. ~(s.seq < r.seq)
                    BY <3>1, <4>2, <5>1 DEF LogInv
                <5>. QED BY <5>1, <5>2
            <4>. QED BY <2>1, <3>1, <3>2, <4>3
        <3>. QED BY <2>1, <3>1, <3>2, <3>3, <3>4
    <2>. QED BY <2>1, <2>3 DEF Covered
<1>4. CASE Restart /\ ~reused'
    <2>1. ~reused' /\ seq' = Resume /\ rows' = rows /\ reused' = (reused \/ (rows = {} /\ clock < seq))
        BY <1>4 DEF Restart
    <2>2. CASE rows = {}
        <3>1. ~(clock < seq) /\ seq' = clock
            BY <2>1, <2>2 DEF Resume
        <3>. QED BY <2>1, <2>2, <3>1 DEF Covered
    <2>3. CASE rows # {}
        <3>1. PICK r \in rows : e <= r.seq
            BY <2>3 DEF Covered
        <3>2. r.seq <= seq' /\ seq' \in Nat
            BY <2>1, <2>3, HighestIs DEF Resume
        <3>. QED BY <2>1, <3>1, <3>2 DEF Covered
    <2>. QED BY <2>2, <2>3
<1>5. CASE Broadcast \/ Tick
    BY <1>5 DEF Broadcast, Tick, logVars, Covered
<1>. QED BY <1>1, <1>2, <1>3, <1>4, <1>5

\* The numbers that were used again stay used again.
LEMMA ReusedStays == [Next]_vars /\ reused => reused'
<1>. SUFFICES ASSUME [Next]_vars, reused PROVE reused'
    OBVIOUS
<1>1. ASSUME NEW c \in Conns, ConnStep(c) PROVE reused'
    BY <1>1 DEF ConnStep, SubscribeLive, SubscribeFrom, Disconnect, QueryPage, QueryFails,
           SendStored, RegisterSub, TakeFirst, CaughtUp, SendLive, DropSlow, relayVars
<1>2. CASE Insert \/ InsertFails \/ Broadcast \/ Cleanup \/ Restart \/ Tick \/ UNCHANGED vars
    BY <1>2 DEF Insert, InsertFails, Broadcast, Cleanup, Restart, Tick, vars, relayVars
<1>. QED BY <1>1, <1>2 DEF Next, ConnStep

\* What a connection has comes from the rows, and what it sends from what it has.
LEMMA ConnMoves ==
    ASSUME TypeInv, NEW c \in Conns, ConnStep(c), NEW d \in Conns
    PROVE  /\ UNCHANGED <<seq, rows, writing, reused>>
           /\ page'[d] \subseteq page[d] \cup Seqs(rows)
           /\ \A i \in 1..Len(buf'[d]) : In(buf'[d][i], buf[d])
           /\ first'[d] # None => first'[d] = first[d] \/ In(first'[d], buf[d])
           /\ \A i \in 1..Len(got') : \/ In(got'[i], got) \/ got'[i] \in page[c]
                                      \/ In(got'[i], buf[c])
<1>. USE NoneAssumption DEF TypeInv, TypeOK
<1>0. /\ page'[d] = page[d] => page'[d] \subseteq page[d] \cup Seqs(rows)
      /\ buf'[d] = buf[d] => \A i \in 1..Len(buf'[d]) : In(buf'[d][i], buf[d])
      /\ got' = got => \A i \in 1..Len(got') : In(got'[i], got)
    BY DEF In
<1>1. CASE SubscribeLive(c) \/ \E cursor \in 0..MaxSeq : SubscribeFrom(c, cursor)
    BY <1>0, <1>1 DEF SubscribeLive, SubscribeFrom, logVars
<1>2. CASE Disconnect(c) \/ RegisterSub(c)
    BY <1>0, <1>2 DEF Disconnect, RegisterSub, logVars, relayVars
<1>3. CASE QueryPage(c)
    <2>1. PageOf(Above(at[c])) \subseteq Seqs(rows)
        BY DEF PageOf, Above
    <2>. QED BY <1>0, <1>3, <2>1 DEF QueryPage, logVars, relayVars
<1>4. CASE QueryFails(c)
    <2>1. /\ EndPlayback(c, "closed") /\ UNCHANGED <<clock, logVars, relayVars>>
          /\ buf' = [buf EXCEPT ![c] = <<>>]
        BY <1>4 DEF QueryFails
    <2>2. page'[d] \subseteq page[d] /\ first'[d] \in {None, first[d]}
        BY <2>1 DEF EndPlayback
    <2>3. \A i \in 1..Len(buf'[d]) : In(buf'[d][i], buf[d])
        BY <1>0, <2>1
    <2>. QED BY <1>0, <2>1, <2>2, <2>3 DEF logVars, relayVars
<1>5. CASE CaughtUp(c) \/ DropSlow(c)
    <2>1. /\ \E next \in States : EndPlayback(c, next)
          /\ UNCHANGED <<clock, logVars, buf, relayVars>>
        BY <1>5 DEF CaughtUp, DropSlow, States
    <2>2. page'[d] \subseteq page[d] /\ first'[d] \in {None, first[d]}
        BY <2>1 DEF EndPlayback
    <2>. QED BY <1>0, <2>1, <2>2 DEF logVars, relayVars
<1>6. ASSUME NEW e \in Nat, Receive(c, e)
      PROVE  \A i \in 1..Len(got') : In(got'[i], got) \/ got'[i] = e
    <2>1. CASE up[c]
        <3>1. got' = Append(got, e)
            BY <1>6, <2>1 DEF Receive
        <3>. QED BY <3>1, Appended DEF In
    <2>2. CASE ~up[c]
        BY <1>0, <1>6, <2>2 DEF Receive
    <2>. QED BY <2>1, <2>2
<1>7. CASE SendStored(c)
    <2>1. PICK e \in page[c] :
              IF st[c] = "replay" /\ e > first[c]
              THEN EndPlayback(c, "live") /\ UNCHANGED got
              ELSE /\ Receive(c, e)
                   /\ page' = [page EXCEPT ![c] = @ \ {e}]
                   /\ UNCHANGED <<st, more, first>>
        BY <1>7 DEF SendStored
    <2>2. e \in Nat /\ UNCHANGED <<clock, logVars, buf, reused>>
        BY <1>7 DEF SendStored
    <2>3. page'[d] \subseteq page[d] /\ first'[d] \in {None, first[d]}
        BY <2>1 DEF EndPlayback
    <2>4. \A i \in 1..Len(got') : In(got'[i], got) \/ got'[i] \in page[c]
        BY <1>0, <1>6, <2>1, <2>2
    <2>. QED BY <1>0, <2>2, <2>3, <2>4 DEF logVars
<1>8. ASSUME buf[c] # <<>>, buf' = [buf EXCEPT ![c] = Tail(buf[c])]
      PROVE  /\ In(Head(buf[c]), buf[c]) /\ Head(buf[c]) \in Nat
             /\ \A i \in 1..Len(buf'[d]) : In(buf'[d][i], buf[d])
    <2>1. buf[c] \in Seq(Nat) /\ buf[d] \in Seq(Nat)
        OBVIOUS
    <2>2. In(Head(buf[c]), buf[c]) /\ Head(buf[c]) \in Nat
        BY <1>8, <2>1, Tailed DEF In
    <2>3. CASE d = c
        <3>1. buf'[d] = Tail(buf[d]) /\ buf[d] # <<>>
            BY <1>8, <2>3
        <3>2. ASSUME NEW i \in 1..Len(Tail(buf[d])) PROVE In(Tail(buf[d])[i], buf[d])
            <4>1. i + 1 \in 1..Len(buf[d]) /\ Tail(buf[d])[i] = buf[d][i + 1]
                BY <2>1, <3>1, Tailed
            <4>. QED BY <4>1 DEF In
        <3>. QED BY <2>2, <3>1, <3>2
    <2>. QED BY <1>0, <1>8, <2>2, <2>3
<1>9. CASE TakeFirst(c)
    BY <1>0, <1>8, <1>9 DEF TakeFirst, logVars, relayVars
<1>10. CASE SendLive(c)
    <2>1. /\ buf[c] # <<>> /\ Receive(c, Head(buf[c])) /\ buf' = [buf EXCEPT ![c] = Tail(buf[c])]
          /\ UNCHANGED <<clock, logVars, page, first, reused>>
        BY <1>10 DEF SendLive
    <2>2. In(Head(buf[c]), buf[c]) /\ \A i \in 1..Len(got') : In(got'[i], got) \/ got'[i] = Head(buf[c])
        BY <1>6, <1>8, <2>1
    <2>3. \A i \in 1..Len(buf'[d]) : In(buf'[d][i], buf[d])
        BY <1>8, <2>1
    <2>. QED BY <1>0, <2>1, <2>2, <2>3 DEF logVars
<1>. QED BY <1>1, <1>2, <1>3, <1>4, <1>5, <1>7, <1>9, <1>10 DEF ConnStep

\* That the log covers what is sent and on its way is inductive.
LEMMA CoverStep == TypeInv /\ CoverInv /\ [Next]_vars => CoverInv'
<1>. SUFFICES ASSUME TypeInv, CoverInv, [Next]_vars PROVE CoverInv'
    OBVIOUS
<1>. USE NoneAssumption DEF TypeInv, TypeOK
<1>1. CASE Insert
    <2>1. \A e \in Nat : Covered(e) => Covered(e)'
        BY <1>1, CoveredStays
    <2>2. /\ writing' = seq + 1 /\ seq' = seq + 1 /\ UNCHANGED <<connVars, relayVars>>
          /\ rows' = rows \cup {[seq |-> seq + 1, at |-> clock]}
        BY <1>1 DEF Insert
    <2>3. \A e \in Nat : e = seq + 1 => Covered(e)'
        <3>1. [seq |-> seq + 1, at |-> clock] \in rows'
            BY <2>2
        <3>2. \E r \in rows' : r.seq = seq + 1
            BY <3>1
        <3>. QED BY <2>2, <3>2 DEF Covered
    <2>4. \A e \in Nat : Covered(e) => e < seq + 1
        BY DEF Covered
    <2>5. UNCHANGED <<page, buf, first, got, reused>>
        BY <2>2 DEF connVars, relayVars
    <2>6. ASSUME NEW e \in Nat, OnItsWay(e)' PROVE Covered(e)'
        BY <2>1, <2>2, <2>3, <2>5, <2>6 DEF CoverInv, OnItsWay, In
    <2>7. ASSUME NEW e \in Nat, ~reused', In(e, got)' PROVE Covered(e)'
        BY <2>1, <2>5, <2>7 DEF CoverInv, In
    <2>8. ASSUME NEW e \in Nat, NEW c \in Conns, (In(e, buf[c]) \/ first[c] = e)'
          PROVE  e < seq + 1
        BY <2>4, <2>5, <2>8 DEF CoverInv, OnItsWay, In
    <2>. QED BY <2>2, <2>6, <2>7, <2>8 DEF CoverInv
<1>2. CASE InsertFails \/ Cleanup \/ Tick
    <2>1. \A e \in Nat : Covered(e) => Covered(e)'
        BY <1>2, CoveredStays
    <2>2. UNCHANGED <<writing, page, buf, first, got, reused>>
        BY <1>2 DEF InsertFails, Cleanup, Tick, connVars, relayVars, logVars
    <2>. QED BY <2>1, <2>2 DEF CoverInv, OnItsWay, In
<1>3. CASE Broadcast
    <2>1. \A e \in Nat : Covered(e) => Covered(e)'
        BY <1>3, CoveredStays
    <2>2. /\ writing \in Nat /\ writing' = None /\ UNCHANGED <<page, first, got, reused>>
        BY <1>3 DEF Broadcast, relayVars
    <2>3. ASSUME NEW e \in Nat, NEW c \in Conns, In(e, buf[c])' PROVE In(e, buf[c]) \/ writing = e
        <3>1. buf'[c] = IF c \in Subscribers THEN Append(buf[c], writing) ELSE buf[c]
            BY <1>3, Broadcasts
        <3>2. buf[c] \in Seq(Nat)
            OBVIOUS
        <3>3. PICK i \in 1..Len(buf'[c]) : buf'[c][i] = e
            BY <2>3 DEF In
        <3>4. CASE c \in Subscribers
            BY <2>2, <3>1, <3>2, <3>3, <3>4, Appended DEF In
        <3>5. CASE c \notin Subscribers
            BY <3>1, <3>3, <3>5 DEF In
        <3>. QED BY <3>4, <3>5
    <2>4. ASSUME NEW e \in Nat, OnItsWay(e)' PROVE Covered(e)'
        BY <2>1, <2>2, <2>3, <2>4 DEF CoverInv, OnItsWay
    <2>. QED BY <2>1, <2>2, <2>4 DEF CoverInv, In
<1>4. CASE Restart
    <2>1. /\ page' = [c \in Conns |-> {}] /\ first' = [c \in Conns |-> None]
          /\ buf' = [c \in Conns |-> <<>>] /\ writing' = None /\ got' = got
        BY <1>4 DEF Restart
    <2>2. \A e \in Nat : ~OnItsWay(e)'
        BY <2>1 DEF OnItsWay, In
    <2>3. ASSUME NEW e \in Nat, ~reused', In(e, got)' PROVE Covered(e)'
        <3>1. Covered(e)
            BY <2>1, <2>3, ReusedStays DEF CoverInv, In
        <3>. QED BY <1>4, <2>3, <3>1, CoveredStays
    <2>. QED BY <2>1, <2>2, <2>3 DEF CoverInv
<1>5. ASSUME NEW c \in Conns, ConnStep(c) PROVE CoverInv'
    <2>0. UNCHANGED <<seq, rows, writing, reused>>
        BY <1>5, ConnMoves
    <2>1. \A e : Covered(e) => Covered(e)'
        BY <2>0 DEF Covered
    <2>2. \A n \in Seqs(rows) : Covered(n)
        <3>1. ASSUME NEW r \in rows PROVE Covered(r.seq)
            <4>1. r.seq <= seq
                BY DEF LogInv, SeqCoversLog
            <4>. QED BY <4>1 DEF Covered, LogInv
        <3>. QED BY <3>1 DEF Seqs
    <2>3. ASSUME NEW d \in Conns, NEW e \in Nat, In(e, buf[d])' PROVE In(e, buf[d])
        <3>1. PICK i \in 1..Len(buf'[d]) : buf'[d][i] = e
            BY <2>3 DEF In
        <3>2. In(buf'[d][i], buf[d])
            BY <1>5, ConnMoves
        <3>. QED BY <3>1, <3>2
    <2>4. ASSUME NEW d \in Conns, NEW e \in Nat, first'[d] = e
          PROVE  first[d] = e \/ In(e, buf[d])
        BY <1>5, <2>4, ConnMoves
    <2>5. ASSUME NEW e \in Nat, OnItsWay(e)' PROVE Covered(e)'
        <3>1. CASE writing' = e
            BY <2>0, <2>1, <3>1 DEF CoverInv, OnItsWay
        <3>2. ASSUME NEW d \in Conns, e \in page'[d] PROVE Covered(e)'
            <4>1. e \in page[d] \/ e \in Seqs(rows)
                BY <1>5, <3>2, ConnMoves
            <4>. QED BY <2>1, <2>2, <4>1 DEF CoverInv, OnItsWay
        <3>3. ASSUME NEW d \in Conns, In(e, buf[d])' \/ first'[d] = e PROVE Covered(e)'
            BY <2>1, <2>3, <2>4, <3>3 DEF CoverInv, OnItsWay
        <3>. QED BY <2>5, <3>1, <3>2, <3>3 DEF OnItsWay
    <2>6. ASSUME NEW e \in Nat, ~reused', In(e, got)' PROVE Covered(e)'
        <3>1. In(e, got) \/ e \in page[c] \/ In(e, buf[c])
            <4>1. PICK i \in 1..Len(got') : got'[i] = e
                BY <2>6 DEF In
            <4>2. In(got'[i], got) \/ got'[i] \in page[c] \/ In(got'[i], buf[c])
                BY <1>5, ConnMoves
            <4>. QED BY <4>1, <4>2
        <3>. QED BY <2>0, <2>1, <2>6, <3>1 DEF CoverInv, OnItsWay
    <2>7. ASSUME NEW e \in Nat, NEW w \in Nat, NEW d \in Conns,
                 (In(e, buf[d]) \/ first[d] = e)', writing' = w
          PROVE  e < w
        BY <2>0, <2>3, <2>4, <2>7 DEF CoverInv
    <2>. QED BY <2>5, <2>6, <2>7 DEF CoverInv
<1>6. CASE UNCHANGED vars
    BY <1>6 DEF vars, logVars, connVars, relayVars, CoverInv, Covered, OnItsWay, In
<1>. QED BY <1>1, <1>2, <1>3, <1>4, <1>5, <1>6 DEF Next, ConnStep

\* At first nothing was sent.
LEMMA CoverInit == Init => CoverInv
<1>. SUFFICES ASSUME Init PROVE CoverInv
    OBVIOUS
<1>1. \A e \in Nat : ~OnItsWay(e) /\ ~In(e, got)
    BY NoneAssumption DEF Init, OnItsWay, In
<1>. QED BY <1>1, NoneAssumption DEF Init, CoverInv

\* What a relay was sent was given out and will not be again (Persist inserts the row
\* before it broadcasts it).
THEOREM SentEventsAreCovered == Spec => []SentIsCovered
<1>1. TypeInv /\ CoverInv => SentIsCovered
    BY DEF TypeInv, TypeOK, CoverInv, Covered, In, SentIsCovered
<1>. QED BY TypeInit, TypeStep, CoverInit, CoverStep, <1>1, PTL DEF Spec

-----------------------------------------------------------------------------
(* The order and the completeness of what the relay receives.              *)

Increasing(s) == \A i, j \in 1..Len(s) : i < j => s[i] < s[j]

\* Where the relay is: what it has been sent up to, or where it started.
Place == IF got = <<>> THEN from ELSE Last(got)

\* Every row up to p that the relay is owed was received.
Complete(p) == \A n \in Seqs(rows) : from < n /\ n <= p => In(n, got)

\* The row n is in the buffer, or comes after what is in it: it is going to be
\* broadcast, or the subscriber is to be dropped before it is missed.
Pending(c, n) ==
    \/ In(n, buf[c])
    \/ /\ \A e \in Nat : In(e, buf[c]) => e < n
       /\ writing = n \/ c \in slow

\* A playback is at the relay's place, and its page leaves no row out.
PageFollows(c) ==
    /\ at[c] = Place
    /\ \A p \in page[c] : at[c] < p
    /\ \A p \in page[c], n \in Seqs(rows) : at[c] < n /\ n <= p => n \in page[c]

WaitFollows(c) ==
    /\ \A e, g \in Nat : In(e, buf[c]) /\ In(g, got) => g <= e
    /\ \A e \in Nat, n \in Seqs(rows) : In(e, buf[c]) /\ e <= n => Pending(c, n)

ReplayFollows(c) ==
    /\ first[c] # None
    /\ \A g \in Nat : In(g, got) => g <= first[c]
    /\ \A e \in Nat : In(e, buf[c]) => first[c] < e
    /\ \A n \in Seqs(rows) : first[c] < n => Pending(c, n)
    /\ ~more[c] => \A n \in Seqs(rows) : at[c] < n /\ n <= first[c] => n \in page[c]

LiveFollows(c) ==
    /\ \A e, g \in Nat : In(e, buf[c]) /\ In(g, got) => g < e
    /\ \A g \in Nat : In(g, got) /\ writing # None => g < writing
    /\ \A n \in Seqs(rows) : from < n => In(n, got) \/ Pending(c, n)

Follows(c) ==
    /\ st[c] \in {"play", "wait", "replay"} => PageFollows(c)
    /\ st[c] = "wait" => WaitFollows(c)
    /\ st[c] = "replay" => ReplayFollows(c)
    /\ st[c] = "live" => LiveFollows(c)

\* One connection at a time; nothing is in the page or the buffer of a connection
\* before it is played back or registered; buffers are in order.
ConnInv ==
    /\ \A c, d \in Conns : up[c] /\ up[d] => c = d
    /\ \A c \in Conns : up[c] => st[c] \in {"play", "wait", "replay", "live"} /\ from # None
    /\ \A c \in Conns : st[c] = "off" => page[c] = {}
    /\ \A c \in Conns : st[c] \in {"off", "play"} => buf[c] = <<>>
    /\ \A c \in Conns : Increasing(buf[c])
    /\ from = None => got = <<>>

\* Unless a number was used again: what was received is in order and complete up to
\* the relay's place, and what its connection holds continues it.
InStep ==
    /\ Increasing(got)
    /\ from # None => Complete(Place)
    /\ \A c \in Conns : up[c] => Follows(c)
RelayInv == ~reused => InStep

\* Sequences of numbers: what Append adds, what Head takes away, and where the
\* greatest number of an increasing one is.
LEMMA InOrder ==
    ASSUME NEW s \in Seq(Nat)
    PROVE  /\ \A n : In(n, s) => n \in Nat
           /\ \A e \in Nat : \A n : In(n, Append(s, e)) <=> In(n, s) \/ n = e
           /\ s # <<>> => \A n : In(n, s) <=> In(n, Tail(s)) \/ n = Head(s)
           /\ s # <<>> => In(Last(s), s)
           /\ s = <<>> => \A n : ~In(n, s)
<1>1. \A n : In(n, s) => n \in Nat
    BY DEF In
<1>2. ASSUME NEW e \in Nat, NEW n PROVE In(n, Append(s, e)) <=> In(n, s) \/ n = e
    <2>1. /\ Len(Append(s, e)) = Len(s) + 1 /\ Len(s) \in Nat
          /\ \A i \in 1..Len(s) : Append(s, e)[i] = s[i]
          /\ Append(s, e)[Len(s) + 1] = e
        BY Appended
    <2>2. ASSUME In(n, Append(s, e)) PROVE In(n, s) \/ n = e
        <3>1. PICK i \in 1..Len(Append(s, e)) : Append(s, e)[i] = n
            BY <2>2 DEF In
        <3>2. i \in 1..Len(s) \/ i = Len(s) + 1
            BY <2>1, <3>1
        <3>. QED BY <2>1, <3>1, <3>2 DEF In
    <2>3. ASSUME In(n, s) PROVE In(n, Append(s, e))
        <3>1. PICK i \in 1..Len(s) : s[i] = n
            BY <2>3 DEF In
        <3>2. i \in 1..Len(Append(s, e)) /\ Append(s, e)[i] = n
            BY <2>1, <3>1
        <3>. QED BY <3>2 DEF In
    <2>4. In(e, Append(s, e))
        <3>1. Len(s) + 1 \in 1..Len(Append(s, e))
            BY <2>1
        <3>. QED BY <2>1, <3>1 DEF In
    <2>. QED BY <2>2, <2>3, <2>4
<1>3. ASSUME s # <<>>, NEW n PROVE In(n, s) <=> In(n, Tail(s)) \/ n = Head(s)
    <2>1. /\ Head(s) = s[1] /\ Len(s) \in Nat /\ Len(s) >= 1
          /\ Len(Tail(s)) = Len(s) - 1
          /\ \A i \in 1..Len(Tail(s)) : Tail(s)[i] = s[i + 1]
        BY <1>3, Tailed
    <2>2. ASSUME In(n, s), n # Head(s) PROVE In(n, Tail(s))
        <3>1. PICK i \in 1..Len(s) : s[i] = n
            BY <2>2 DEF In
        <3>2. i - 1 \in 1..Len(Tail(s)) /\ Tail(s)[i - 1] = s[(i - 1) + 1] /\ (i - 1) + 1 = i
            BY <2>1, <2>2, <3>1
        <3>. QED BY <3>1, <3>2 DEF In
    <2>3. ASSUME In(n, Tail(s)) PROVE In(n, s)
        <3>1. PICK i \in 1..Len(Tail(s)) : Tail(s)[i] = n
            BY <2>3 DEF In
        <3>2. i + 1 \in 1..Len(s) /\ s[i + 1] = n
            BY <2>1, <3>1
        <3>. QED BY <3>2 DEF In
    <2>4. In(Head(s), s)
        BY <2>1 DEF In
    <2>. QED BY <2>2, <2>3, <2>4
<1>4. s # <<>> => In(Last(s), s)
    BY Tailed DEF In
<1>5. s = <<>> => \A n : ~In(n, s)
    BY DEF In
<1>. QED BY <1>1, <1>2, <1>3, <1>4, <1>5

\* What keeps a sequence increasing.
LEMMA StaysIncreasing ==
    ASSUME NEW s \in Seq(Nat), Increasing(s)
    PROVE  /\ \A e \in Nat : (\A n \in Nat : In(n, s) => n < e) => Increasing(Append(s, e))
           /\ s # <<>> => Increasing(Tail(s)) /\ \A n \in Nat : In(n, Tail(s)) => Head(s) < n
           /\ s # <<>> => \A n \in Nat : In(n, s) => n <= Last(s)
<1>1. ASSUME NEW e \in Nat, \A n \in Nat : In(n, s) => n < e PROVE Increasing(Append(s, e))
    <2>1. /\ Len(Append(s, e)) = Len(s) + 1 /\ Len(s) \in Nat
          /\ \A i \in 1..Len(s) : Append(s, e)[i] = s[i]
          /\ Append(s, e)[Len(s) + 1] = e
        BY Appended
    <2>2. \A i \in 1..Len(s) : s[i] < e
        BY <1>1 DEF In
    <2>. QED BY <2>1, <2>2 DEF Increasing
<1>2. ASSUME s # <<>>
      PROVE  Increasing(Tail(s)) /\ \A n \in Nat : In(n, Tail(s)) => Head(s) < n
    <2>1. /\ Head(s) = s[1] /\ Len(s) \in Nat /\ Len(s) >= 1
          /\ Len(Tail(s)) = Len(s) - 1
          /\ \A i \in 1..Len(Tail(s)) : Tail(s)[i] = s[i + 1]
        BY <1>2, Tailed
    <2>2. ASSUME NEW n \in Nat, In(n, Tail(s)) PROVE Head(s) < n
        <3>1. PICK i \in 1..Len(Tail(s)) : Tail(s)[i] = n
            BY <2>2 DEF In
        <3>2. 1 \in 1..Len(s) /\ i + 1 \in 1..Len(s) /\ 1 < i + 1 /\ s[i + 1] = n
            BY <2>1, <3>1
        <3>. QED BY <2>1, <3>2 DEF Increasing
    <2>3. ASSUME NEW i \in 1..Len(Tail(s)), NEW j \in 1..Len(Tail(s)), i < j
          PROVE  Tail(s)[i] < Tail(s)[j]
        <3>1. i + 1 \in 1..Len(s) /\ j + 1 \in 1..Len(s) /\ i + 1 < j + 1
            BY <2>1, <2>3
        <3>. QED BY <2>1, <3>1 DEF Increasing
    <2>. QED BY <2>2, <2>3 DEF Increasing
<1>3. ASSUME s # <<>>, NEW n \in Nat, In(n, s) PROVE n <= Last(s)
    <2>1. PICK i \in 1..Len(s) : s[i] = n
        BY <1>3 DEF In
    <2>2. Last(s) = s[Len(s)] /\ Len(s) \in 1..Len(s) /\ Last(s) \in Nat /\ i <= Len(s)
        BY <1>3, <2>1, Tailed
    <2>3. i = Len(s) \/ i < Len(s)
        BY <2>1, <2>2
    <2>. QED BY <2>1, <2>2, <2>3 DEF Increasing
<1>. QED BY <1>1, <1>2, <1>3

\* The shape of the connections is inductive.
LEMMA ConnInvStep == TypeInv /\ CoverInv /\ ConnInv /\ [Next]_vars => ConnInv'
<1>. SUFFICES ASSUME TypeInv, CoverInv, ConnInv, [Next]_vars PROVE ConnInv'
    OBVIOUS
<1>. USE NoneAssumption DEF TypeInv, TypeOK, States
<1>0. TypeInv'
    BY TypeStep
<1>1. CASE UNCHANGED <<st, up, page, buf, got, from>>
    BY <1>1 DEF ConnInv, Increasing
<1>2. CASE Broadcast
    <2>1. writing \in Nat /\ UNCHANGED <<st, up, page, got, from>>
        BY <1>2 DEF Broadcast, relayVars
    <2>2. \A c \in Conns : buf'[c] = IF c \in Subscribers THEN Append(buf[c], writing) ELSE buf[c]
        BY <1>2, Broadcasts
    <2>3. ASSUME NEW c \in Conns PROVE Increasing(buf[c])'
        <3>1. CASE c \in Subscribers
            <4>1. buf[c] \in Seq(Nat) /\ Increasing(buf[c]) /\ buf'[c] = Append(buf[c], writing)
                BY <2>2, <3>1 DEF ConnInv
            <4>2. \A n \in Nat : In(n, buf[c]) => n < writing
                BY <2>1 DEF CoverInv
            <4>3. Increasing(Append(buf[c], writing))
                BY <2>1, <4>1, <4>2, StaysIncreasing
            <4>. QED BY <4>1, <4>3 DEF Increasing
        <3>2. CASE c \notin Subscribers
            BY <2>2, <3>2 DEF ConnInv, Increasing
        <3>. QED BY <3>1, <3>2
    <2>4. \A c \in Conns : st[c] \in {"off", "play"} => c \notin Subscribers
        BY DEF Subscribers, Registered
    <2>. QED BY <2>1, <2>2, <2>3, <2>4 DEF ConnInv
<1>3. CASE Restart
    <2>1. /\ up' = [c \in Conns |-> FALSE] /\ page' = [c \in Conns |-> {}]
          /\ buf' = [c \in Conns |-> <<>>] /\ UNCHANGED <<got, from>>
        BY <1>3 DEF Restart
    <2>2. \A c \in Conns : Increasing(buf[c])'
        BY <2>1 DEF Increasing
    <2>. QED BY <2>1, <2>2 DEF ConnInv
<1>4. ASSUME NEW c \in Conns, SubscribeLive(c) \/ \E cursor \in 0..MaxSeq : SubscribeFrom(c, cursor)
      PROVE  ConnInv'
    <2>1. /\ st[c] = "off" /\ ~\E d \in Conns : up[d]
          /\ up' = [up EXCEPT ![c] = TRUE] /\ UNCHANGED <<page, buf, got>>
          /\ \E next \in {"live", "play"} : st' = [st EXCEPT ![c] = next]
        BY <1>4 DEF SubscribeLive, SubscribeFrom
    <2>2. from' # None
        <3>1. CASE SubscribeLive(c)
            <4>1. (writing # None => seq - 1 \in Nat) /\ seq \in Nat
                BY DEF LogInv
            <4>. QED BY <3>1, <4>1 DEF SubscribeLive
        <3>2. ASSUME NEW cursor \in 0..MaxSeq, SubscribeFrom(c, cursor) PROVE from' # None
            BY <3>2, BoundsAssumption DEF SubscribeFrom
        <3>. QED BY <1>4, <3>1, <3>2
    <2>. QED BY <2>1, <2>2 DEF ConnInv, Increasing
<1>5. ASSUME NEW c \in Conns, QueryPage(c) PROVE ConnInv'
    <2>1. st[c] \in {"play", "replay"} /\ \A d \in Conns : d # c => page'[d] = page[d]
        BY <1>5 DEF QueryPage
    <2>2. UNCHANGED <<st, up, buf, got, from>>
        BY <1>5 DEF QueryPage, relayVars
    <2>. QED BY <2>1, <2>2 DEF ConnInv, Increasing
<1>6. ASSUME NEW c \in Conns, NEW next \in {"live", "closed"}, EndPlayback(c, next), st[c] # "off",
             up' = up \/ up' = [up EXCEPT ![c] = FALSE], next = "closed" => ~up'[c],
             buf' = buf \/ buf' = [buf EXCEPT ![c] = <<>>], UNCHANGED <<got, from>>
      PROVE  ConnInv'
    <2>1. /\ st' = [st EXCEPT ![c] = next] /\ page' = [page EXCEPT ![c] = {}]
        BY <1>6 DEF EndPlayback
    <2>2. \A d \in Conns : buf'[d] = buf[d] \/ buf'[d] = <<>>
        BY <1>6
    <2>3. ASSUME NEW d \in Conns PROVE Increasing(buf[d])'
        <3>1. CASE buf'[d] = buf[d]
            BY <3>1 DEF ConnInv, Increasing
        <3>2. CASE buf'[d] = <<>>
            BY <3>2 DEF Increasing
        <3>. QED BY <2>2, <3>1, <3>2
    <2>4. \A d \in Conns : up'[d] => up[d]
        BY <1>6
    <2>. QED BY <1>6, <2>1, <2>2, <2>3, <2>4 DEF ConnInv
<1>7. ASSUME NEW c \in Conns, QueryFails(c) \/ CaughtUp(c) \/ DropSlow(c) PROVE ConnInv'
    <2>1. CASE QueryFails(c)
        BY <1>6, <2>1 DEF QueryFails, relayVars
    <2>2. CASE CaughtUp(c)
        BY <1>6, <2>2 DEF CaughtUp, relayVars
    <2>3. CASE DropSlow(c)
        BY <1>6, <2>3 DEF DropSlow, relayVars
    <2>. QED BY <1>7, <2>1, <2>2, <2>3
<1>8. ASSUME NEW c \in Conns, NEW e \in Nat, Receive(c, e), from' = from
      PROVE  from' = None => got' = <<>>
    BY <1>8 DEF Receive, ConnInv
<1>9. ASSUME NEW c \in Conns, SendStored(c) PROVE ConnInv'
    <2>1. PICK e \in page[c] :
              IF st[c] = "replay" /\ e > first[c]
              THEN EndPlayback(c, "live") /\ UNCHANGED got
              ELSE /\ Receive(c, e)
                   /\ page' = [page EXCEPT ![c] = @ \ {e}]
                   /\ UNCHANGED <<st, more, first>>
        BY <1>9 DEF SendStored
    <2>2. e \in Nat /\ UNCHANGED <<up, buf, from>> /\ st[c] \in {"play", "replay"}
        BY <1>9 DEF SendStored
    <2>3. CASE st[c] = "replay" /\ e > first[c]
        BY <1>6, <2>1, <2>2, <2>3
    <2>4. CASE ~(st[c] = "replay" /\ e > first[c])
        <3>1. /\ Receive(c, e) /\ st' = st /\ \A d \in Conns : page[d] = {} => page'[d] = {}
            BY <2>1, <2>2, <2>4
        <3>2. from' = None => got' = <<>>
            BY <1>8, <2>2, <3>1
        <3>. QED BY <2>2, <3>1, <3>2 DEF ConnInv, Increasing
    <2>. QED BY <2>3, <2>4
<1>10. ASSUME NEW c \in Conns, RegisterSub(c) PROVE ConnInv'
    BY <1>10 DEF RegisterSub, relayVars, ConnInv, Increasing
<1>11. ASSUME NEW c \in Conns, st[c] \in {"wait", "live"}, buf[c] # <<>>,
              buf' = [buf EXCEPT ![c] = Tail(buf[c])]
       PROVE  /\ \A d \in Conns : Increasing(buf[d])'
              /\ \A d \in Conns : d # c => buf'[d] = buf[d]
    <2>1. Increasing(Tail(buf[c]))
        <3>1. buf[c] \in Seq(Nat) /\ Increasing(buf[c])
            BY DEF ConnInv
        <3>. QED BY <1>11, <3>1, StaysIncreasing
    <2>. QED BY <1>11, <2>1 DEF ConnInv, Increasing
<1>12. ASSUME NEW c \in Conns, TakeFirst(c) PROVE ConnInv'
    <2>1. /\ st[c] = "wait" /\ buf[c] # <<>> /\ buf' = [buf EXCEPT ![c] = Tail(buf[c])]
          /\ st' = [st EXCEPT ![c] = "replay"] /\ UNCHANGED <<up, page, got, from>>
        BY <1>12 DEF TakeFirst, relayVars
    <2>. QED BY <1>11, <2>1 DEF ConnInv
<1>13. ASSUME NEW c \in Conns, SendLive(c) PROVE ConnInv'
    <2>1. /\ st[c] = "live" /\ buf[c] # <<>> /\ Receive(c, Head(buf[c]))
          /\ buf' = [buf EXCEPT ![c] = Tail(buf[c])] /\ UNCHANGED <<st, up, page, from>>
        BY <1>13 DEF SendLive
    <2>2. buf[c] \in Seq(Nat) /\ Head(buf[c]) \in Nat
        BY <2>1, Tailed
    <2>3. from' = None => got' = <<>>
        BY <1>8, <2>1, <2>2
    <2>. QED BY <1>11, <2>1, <2>3 DEF ConnInv
<1>14. ASSUME NEW c \in Conns, Disconnect(c) PROVE ConnInv'
    BY <1>14 DEF Disconnect, relayVars, ConnInv, Increasing
<1>15. Insert \/ InsertFails \/ Cleanup \/ Tick \/ UNCHANGED vars => UNCHANGED <<st, up, page, buf, got, from>>
    BY DEF Insert, InsertFails, Cleanup, Tick, vars, connVars, relayVars
<1>. QED BY <1>1, <1>2, <1>3, <1>4, <1>5, <1>7, <1>9, <1>10, <1>12, <1>13, <1>14, <1>15 DEF Next

\* A connection that is left alone still follows, whatever rows are deleted.
LEMMA LeftAlone ==
    ASSUME NEW c \in Conns, Follows(c), TypeInv,
           st'[c] = st[c], at'[c] = at[c], page'[c] = page[c], more'[c] = more[c],
           first'[c] = first[c], buf'[c] = buf[c], c \in slow => c \in slow',
           UNCHANGED <<writing, got, from>>, rows' \subseteq rows
    PROVE  Follows(c)'
<1>1. \A n : n \in Seqs(rows)' => n \in Seqs(rows)
    BY DEF Seqs
<1>2. Place' = Place
    BY DEF Place
<1>3. \A n : Pending(c, n) => Pending(c, n)'
    BY DEF Pending, In
<1>4. PageFollows(c) => PageFollows(c)'
    BY <1>1, <1>2 DEF PageFollows
<1>5. WaitFollows(c) => WaitFollows(c)'
    BY <1>1, <1>3 DEF WaitFollows, In
<1>6. ReplayFollows(c) => ReplayFollows(c)'
    BY <1>1, <1>3 DEF ReplayFollows, In
<1>7. LiveFollows(c) => LiveFollows(c)'
    BY <1>1, <1>3 DEF LiveFollows, In
<1>. QED BY <1>4, <1>5, <1>6, <1>7 DEF Follows

\* What one more event does to the order and to the completeness of what was received.
LEMMA Received ==
    ASSUME TypeInv, ConnInv, Increasing(got), NEW e \in Nat, NEW c \in Conns, up[c], Receive(c, e),
           \A g \in Nat : In(g, got) => g < e,
           \A n \in Seqs(rows) : from < n /\ n < e => In(n, got),
           UNCHANGED <<rows, from>>
    PROVE  /\ Increasing(got)' /\ Place' = e /\ Complete(e)'
           /\ \A n : In(n, got)' <=> In(n, got) \/ n = e
<1>. USE DEF TypeInv, TypeOK
<1>1. got \in Seq(Nat) /\ got' = Append(got, e)
    BY DEF Receive
<1>2. Increasing(Append(got, e)) /\ \A n : In(n, Append(got, e)) <=> In(n, got) \/ n = e
    BY <1>1, InOrder, StaysIncreasing
<1>3. Increasing(got)' /\ \A n : In(n, got)' <=> In(n, got) \/ n = e
    BY <1>1, <1>2 DEF Increasing, In
<1>4. Place' = e
    BY <1>1, Appended DEF Place
<1>5. \A n \in Seqs(rows) : n \in Nat
    BY DEF Seqs, Row
<1>6. Complete(e)'
    <2>1. ASSUME NEW n \in Seqs(rows), from < n, n <= e PROVE In(n, got)'
        <3>1. n < e \/ n = e
            BY <1>5, <2>1
        <3>. QED BY <1>3, <2>1, <3>1
    <2>2. Seqs(rows)' = Seqs(rows) /\ from' = from
        BY DEF Seqs
    <2>. QED BY <2>1, <2>2 DEF Complete
<1>. QED BY <1>3, <1>4, <1>6

\* Nothing received lies beyond the relay's place.
LEMMA PlaceIs ==
    ASSUME TypeInv, ConnInv, Increasing(got), from # None
    PROVE  /\ Place \in Nat /\ \A g \in Nat : In(g, got) => g <= Place
           /\ got # <<>> => In(Place, got)
BY InOrder, StaysIncreasing DEF TypeInv, TypeOK, Place

\* A page takes the first of the rows it finds, and all of them if they are few.
LEMMA PageTakesTheFirst ==
    ASSUME TypeInv, NEW a \in Nat
    PROVE  /\ \A p \in PageOf(Above(a)) : p \in Seqs(rows) /\ a < p
           /\ \A p \in PageOf(Above(a)), n \in Seqs(rows) : a < n /\ n <= p => n \in PageOf(Above(a))
           /\ Cardinality(Above(a)) < PageSize => PageOf(Above(a)) = Above(a)
<1>. USE SizesAssumption DEF TypeInv, TypeOK
<1>. DEFINE found == Above(a)
            before(m) == {k \in found : k < m}
<1>1. found \subseteq Nat /\ IsFiniteSet(found)
    <2>1. found \subseteq 0..seq
        BY DEF Above, Seqs, Row, LogInv, SeqCoversLog
    <2>2. IsFiniteSet(0..seq)
        BY FS_Interval
    <2>. QED BY <2>1, <2>2, FS_Subset
<1>2. \A p \in PageOf(found) : p \in Seqs(rows) /\ a < p /\ p \in found /\ Cardinality(before(p)) < PageSize
    BY DEF PageOf, Above
<1>. HIDE DEF found
<1>3. ASSUME NEW m \in Nat
      PROVE  /\ IsFiniteSet(before(m)) /\ Cardinality(before(m)) \in Nat
             /\ Cardinality(found) \in Nat /\ Cardinality(before(m)) <= Cardinality(found)
    <2>1. before(m) \subseteq found
        OBVIOUS
    <2>. HIDE DEF before
    <2>. QED BY <1>1, <2>1, FS_Subset, FS_CardinalityType
<1>4. ASSUME NEW p \in found, NEW n \in found, n <= p, Cardinality(before(p)) < PageSize
      PROVE  Cardinality(before(n)) < PageSize
    <2>1. p \in Nat /\ n \in Nat
        BY <1>1
    <2>2. before(n) \subseteq before(p)
        <3>1. ASSUME NEW k \in before(n) PROVE k \in before(p)
            <4>1. k \in found /\ k \in Nat /\ k < n
                BY <1>1
            <4>2. k < p
                BY <1>4, <2>1, <4>1
            <4>. QED BY <4>1, <4>2
        <3>. QED BY <3>1
    <2>3. IsFiniteSet(before(p)) /\ Cardinality(before(p)) \in Nat /\ Cardinality(before(n)) \in Nat
        BY <1>3, <2>1
    <2>. HIDE DEF before
    <2>4. Cardinality(before(n)) <= Cardinality(before(p))
        BY <2>2, <2>3, FS_Subset
    <2>. QED BY <1>4, <2>3, <2>4
<1>5. \A n \in found : Cardinality(before(n)) < PageSize => n \in PageOf(found)
    BY DEF PageOf
<1>6. ASSUME NEW p \in PageOf(found), NEW n \in Seqs(rows), a < n, n <= p
      PROVE  n \in PageOf(found)
    <2>1. n \in found
        BY <1>6 DEF found, Above
    <2>. QED BY <1>2, <1>4, <1>5, <1>6, <2>1
<1>7. ASSUME Cardinality(found) < PageSize PROVE PageOf(found) = found
    <2>1. ASSUME NEW n \in found PROVE Cardinality(before(n)) < PageSize
        <3>1. n \in Nat
            BY <1>1
        <3>. HIDE DEF before
        <3>. QED BY <1>3, <1>7, <3>1
    <2>2. PageOf(found) \subseteq found
        BY <1>2
    <2>. QED BY <1>5, <2>1, <2>2
<1>. QED BY <1>2, <1>6, <1>7 DEF found

\* A new row comes after everything a connection has, and is pending for those that
\* are registered.
LEMMA InsertFollows ==
    ASSUME TypeInv, CoverInv, ConnInv, ~reused, Increasing(got), Insert
    PROVE  /\ from # None /\ Complete(Place) => Complete(Place)'
           /\ \A c \in Conns : up[c] /\ Follows(c) => Follows(c)'
<1>. USE NoneAssumption DEF TypeInv, TypeOK
<1>1. /\ writing = None /\ writing' = seq + 1
      /\ rows' = rows \cup {[seq |-> seq + 1, at |-> clock]}
      /\ UNCHANGED <<st, up, at, page, more, first, buf, slow, got, from>>
    BY DEF Insert, connVars, relayVars
<1>2. Seqs(rows)' = Seqs(rows) \cup {seq + 1}
    <2>. DEFINE new == [seq |-> seq + 1, at |-> clock]
    <2>1. new.seq = seq + 1
        OBVIOUS
    <2>. HIDE DEF new
    <2>2. rows' = rows \cup {new}
        BY <1>1 DEF new
    <2>. QED BY <2>1, <2>2 DEF Seqs
<1>3. \A n \in Seqs(rows) : n \in Nat
    BY DEF Seqs, Row
<1>4. /\ \A g \in Nat : In(g, got) => g < seq + 1
      /\ \A c \in Conns : \A e \in Nat : In(e, buf[c]) \/ e \in page[c] \/ first[c] = e => e < seq + 1
    BY DEF CoverInv, OnItsWay, Covered
<1>5. Place' = Place
    BY <1>1 DEF Place
<1>6. /\ \A n \in Nat : In(n, got)' <=> In(n, got)
      /\ \A c \in Conns : \A n \in Nat : In(n, buf[c])' <=> In(n, buf[c])
    BY <1>1
<1>7. ASSUME from # None, Complete(Place) PROVE Complete(Place)'
    <2>1. Place \in Nat /\ (got # <<>> => Place < seq + 1) /\ (got = <<>> => Place = from)
        BY <1>4, <1>7, PlaceIs DEF Place
    <2>2. ~(from < seq + 1 /\ seq + 1 <= Place)
        BY <1>7, <2>1
    <2>. QED BY <1>1, <1>2, <1>5, <1>7, <2>2 DEF Complete, In
<1>8. ASSUME NEW c \in Conns, up[c], Follows(c) PROVE Follows(c)'
    <2>1. \A n \in Nat : Pending(c, n) => Pending(c, n)'
        BY <1>1 DEF Pending, In
    <2>2. \A n \in Nat : n = seq + 1 => Pending(c, n)'
        <3>1. \A e \in Nat : In(e, buf[c])' => e < seq + 1
            BY <1>4, <1>6
        <3>. QED BY <1>1, <3>1 DEF Pending
    <2>3. ASSUME PageFollows(c) PROVE PageFollows(c)'
        <3>1. \A p \in page[c] : p \in Nat /\ ~(seq + 1 <= p)
            BY <1>4
        <3>. QED BY <1>1, <1>2, <1>5, <2>3, <3>1 DEF PageFollows
    <2>4. WaitFollows(c) => WaitFollows(c)'
        BY <1>2, <1>3, <1>6, <2>1, <2>2 DEF WaitFollows
    <2>5. ASSUME ReplayFollows(c) PROVE ReplayFollows(c)'
        <3>1. first[c] \in Nat /\ ~(seq + 1 <= first[c])
            BY <1>4, <2>5 DEF ReplayFollows
        <3>2. UNCHANGED <<first, more, at, page>>
            BY <1>1
        <3>. QED BY <1>2, <1>3, <1>6, <2>1, <2>2, <2>5, <3>1, <3>2 DEF ReplayFollows
    <2>6. LiveFollows(c) => LiveFollows(c)'
        <3>1. writing' = seq + 1 /\ from' = from
            BY <1>1
        <3>. QED BY <1>2, <1>3, <1>4, <1>6, <2>1, <2>2, <3>1 DEF LiveFollows
    <2>. QED BY <1>1, <1>8, <2>3, <2>4, <2>5, <2>6 DEF Follows
<1>. QED BY <1>7, <1>8

\* A broadcast row is in the buffer, or its subscriber is to be dropped.
LEMMA BroadcastFollows ==
    ASSUME TypeInv, CoverInv, ConnInv, ~reused, Increasing(got), Broadcast,
           NEW c \in Conns, up[c], Follows(c)
    PROVE  Follows(c)'
<1>. USE NoneAssumption DEF TypeInv, TypeOK
<1>1. /\ writing \in Nat /\ writing' = None /\ writing = seq
      /\ UNCHANGED <<rows, st, up, at, page, more, first, got, from>>
    BY DEF Broadcast, relayVars, LogInv
<1>2. /\ buf'[c] = IF c \in Subscribers THEN Append(buf[c], writing) ELSE buf[c]
      /\ c \in slow => c \in slow' /\ c \notin Subscribers
      /\ Registered(c) /\ c \notin Subscribers => c \in slow'
    BY Broadcasts DEF Subscribers
<1>3. buf[c] \in Seq(Nat)
    OBVIOUS
<1>4. \A e \in Nat : In(e, buf[c])' <=> In(e, buf[c]) \/ (c \in Subscribers /\ e = writing)
    <2>1. CASE c \in Subscribers
        <3>1. buf'[c] = Append(buf[c], writing) /\ \A e : In(e, Append(buf[c], writing)) <=> In(e, buf[c]) \/ e = writing
            BY <1>1, <1>2, <1>3, <2>1, InOrder
        <3>. QED BY <2>1, <3>1
    <2>2. CASE c \notin Subscribers
        BY <1>2, <2>2
    <2>. QED BY <2>1, <2>2
<1>5. /\ \A e \in Nat : In(e, buf[c]) \/ first[c] = e => e < writing
      /\ \A g \in Nat : In(g, got) => g <= writing
      /\ \A n \in Seqs(rows) : n \in Nat /\ n <= writing
    <2>1. \A e \in Nat : In(e, buf[c]) \/ first[c] = e => e < writing
        BY <1>1 DEF CoverInv
    <2>2. \A g \in Nat : In(g, got) => g <= writing
        BY <1>1 DEF CoverInv, Covered, LogInv
    <2>3. \A n \in Seqs(rows) : n \in Nat /\ n <= writing
        BY <1>1 DEF Seqs, Row, LogInv, SeqCoversLog
    <2>. QED BY <2>1, <2>2, <2>3
<1>6. Seqs(rows)' = Seqs(rows) /\ Place' = Place /\ from' = from
      /\ \A n : In(n, got)' <=> In(n, got)
    BY <1>1 DEF Seqs, Place
<1>7. ASSUME Registered(c), NEW n \in Seqs(rows), Pending(c, n) PROVE Pending(c, n)'
    <2>0. n \in Nat
        BY <1>5
    <2>1. CASE In(n, buf[c])
        BY <1>4, <2>0, <2>1 DEF Pending
    <2>2. CASE writing = n /\ c \in Subscribers
        BY <1>4, <2>0, <2>2 DEF Pending
    <2>3. CASE (\A e \in Nat : In(e, buf[c]) => e < n) /\ c \notin Subscribers
        BY <1>2, <1>4, <1>7, <2>3 DEF Pending
    <2>. QED BY <1>2, <1>7, <2>1, <2>2, <2>3 DEF Pending
<1>8. PageFollows(c) => PageFollows(c)'
    BY <1>1, <1>6 DEF PageFollows
<1>9. ASSUME st[c] = "wait", WaitFollows(c) PROVE WaitFollows(c)'
    <2>0. Registered(c)
        BY <1>9 DEF Registered
    <2>1. ASSUME NEW e \in Nat, NEW n \in Seqs(rows), In(e, buf[c])', e <= n PROVE Pending(c, n)'
        <3>1. CASE In(e, buf[c])
            BY <1>7, <1>9, <2>0, <2>1, <3>1 DEF WaitFollows
        <3>2. CASE c \in Subscribers /\ e = writing
            <4>1. n = writing
                BY <1>1, <1>5, <2>1, <3>2
            <4>. QED BY <1>1, <1>4, <3>2, <4>1 DEF Pending
        <3>. QED BY <1>4, <2>1, <3>1, <3>2
    <2>2. ASSUME NEW e \in Nat, NEW g \in Nat, In(e, buf[c])', In(g, got)' PROVE g <= e
        BY <1>4, <1>5, <1>6, <1>9, <2>2 DEF WaitFollows
    <2>. QED BY <1>6, <2>1, <2>2 DEF WaitFollows
<1>10. ASSUME st[c] = "replay", ReplayFollows(c) PROVE ReplayFollows(c)'
    <2>0. Registered(c) /\ first[c] \in Nat
        BY <1>10 DEF Registered, ReplayFollows
    <2>1. \A n \in Seqs(rows) : first[c] < n => Pending(c, n)'
        BY <1>7, <1>10, <2>0 DEF ReplayFollows
    <2>2. \A e \in Nat : In(e, buf[c])' => first[c] < e
        BY <1>1, <1>4, <1>5, <1>10, <2>0 DEF ReplayFollows
    <2>. QED BY <1>1, <1>6, <1>10, <2>1, <2>2 DEF ReplayFollows
<1>11. ASSUME st[c] = "live", LiveFollows(c) PROVE LiveFollows(c)'
    <2>0. Registered(c)
        BY <1>11 DEF Registered
    <2>1. \A n \in Seqs(rows) : from < n => In(n, got)' \/ Pending(c, n)'
        BY <1>6, <1>7, <1>11, <2>0 DEF LiveFollows
    <2>2. \A e, g \in Nat : In(e, buf[c])' /\ In(g, got)' => g < e
        BY <1>1, <1>4, <1>6, <1>11 DEF LiveFollows
    <2>. QED BY <1>1, <1>6, <2>1, <2>2 DEF LiveFollows
<1>. QED BY <1>1, <1>8, <1>9, <1>10, <1>11 DEF Follows

\* A step of one connection leaves the others alone, and moves the relay only if it
\* holds that connection or makes it.
LEMMA OneAtATime ==
    ASSUME TypeInv, ConnInv, NEW c \in Conns, ConnStep(c)
    PROVE  /\ \A d \in Conns \ {c} :
                 /\ st'[d] = st[d] /\ at'[d] = at[d] /\ page'[d] = page[d] /\ more'[d] = more[d]
                 /\ first'[d] = first[d] /\ buf'[d] = buf[d] /\ up'[d] = up[d]
                 /\ d \in slow => d \in slow'
           /\ \/ up[c]
              \/ UNCHANGED <<got, from>> /\ ~up'[c]
              \/ (SubscribeLive(c) \/ \E cursor \in 0..MaxSeq : SubscribeFrom(c, cursor))
<1>. USE DEF TypeInv, TypeOK
<1>1. CASE SubscribeLive(c) \/ \E cursor \in 0..MaxSeq : SubscribeFrom(c, cursor)
    BY <1>1 DEF SubscribeLive, SubscribeFrom
<1>2. CASE Disconnect(c)
    BY <1>2 DEF Disconnect
<1>3. CASE QueryPage(c)
    BY <1>3 DEF QueryPage, relayVars
<1>4. CASE QueryFails(c)
    BY <1>4 DEF QueryFails, EndPlayback, relayVars
<1>5. CASE SendStored(c)
    BY <1>5 DEF SendStored, EndPlayback, Receive
<1>6. CASE RegisterSub(c)
    BY <1>6 DEF RegisterSub, relayVars
<1>7. CASE TakeFirst(c)
    BY <1>7 DEF TakeFirst, relayVars
<1>8. CASE CaughtUp(c)
    BY <1>8 DEF CaughtUp, EndPlayback, relayVars
<1>9. CASE SendLive(c)
    BY <1>9 DEF SendLive, Receive
<1>10. CASE DropSlow(c)
    BY <1>10 DEF DropSlow, EndPlayback, relayVars
<1>. QED BY <1>1, <1>2, <1>3, <1>4, <1>5, <1>6, <1>7, <1>8, <1>9, <1>10 DEF ConnStep

\* A relay that connects anew is where it was.
LEMMA SubscribeFollows ==
    ASSUME TypeInv, CoverInv, ConnInv, ~reused, InStep, NEW c \in Conns,
           SubscribeLive(c) \/ \E cursor \in 0..MaxSeq : SubscribeFrom(c, cursor)
    PROVE  Increasing(got)' /\ Complete(Place)' /\ Follows(c)'
<1>. USE NoneAssumption DEF TypeInv, TypeOK
<1>1. /\ st[c] = "off" /\ page[c] = {} /\ buf[c] = <<>>
      /\ UNCHANGED <<seq, rows, writing, page, buf, slow, got>> /\ Increasing(got)
    BY DEF SubscribeLive, SubscribeFrom, ConnInv, InStep, logVars
<1>2. /\ Increasing(got)' /\ Seqs(rows)' = Seqs(rows) /\ \A e : ~In(e, buf[c])'
      /\ \A n \in Seqs(rows) : n \in Nat /\ n <= seq
    BY <1>1 DEF Increasing, Seqs, In, Row, LogInv, SeqCoversLog
<1>3. CASE SubscribeLive(c)
    <2>1. /\ st'[c] = "live" /\ from = None /\ got = <<>> /\ got' = <<>>
          /\ from' = IF writing = None THEN seq ELSE seq - 1
        BY <1>1, <1>3 DEF SubscribeLive, ConnInv
    <2>2. writing # None => writing = seq /\ seq >= 1
        BY DEF LogInv
    <2>3. ~\E g : In(g, got)'
        BY <2>1 DEF In
    <2>4. Place' = from'
        BY <2>1 DEF Place
    <2>5. from' \in Nat
        BY <2>1, <2>2
    <2>6. Complete(Place)'
        BY <1>2, <2>4, <2>5 DEF Complete
    <2>7. ASSUME NEW n \in Seqs(rows), from' < n PROVE Pending(c, n)'
        <3>1. writing = n
            BY <1>2, <2>1, <2>2, <2>7
        <3>. QED BY <1>1, <1>2, <3>1 DEF Pending
    <2>8. LiveFollows(c)'
        BY <1>2, <2>3, <2>7 DEF LiveFollows
    <2>. QED BY <1>2, <2>1, <2>6, <2>8 DEF Follows
<1>4. ASSUME NEW cursor \in 0..MaxSeq, SubscribeFrom(c, cursor)
      PROVE  Increasing(got)' /\ Complete(Place)' /\ Follows(c)'
    <2>0. cursor \in Nat
        BY BoundsAssumption
    <2>1. /\ st'[c] = "play" /\ at'[c] = cursor /\ page'[c] = {}
          /\ IF got # <<>> THEN cursor = Last(got) ELSE from # None => cursor = from
          /\ from' = IF from = None THEN cursor ELSE from
        BY <1>1, <1>4 DEF SubscribeFrom
    <2>2. Place' = cursor /\ (from # None => Place = cursor) /\ (from = None => got = <<>>)
        BY <1>1, <2>1 DEF Place, ConnInv
    <2>3. Complete(Place)'
        <3>1. CASE from # None
            BY <1>1, <1>2, <2>1, <2>2, <3>1 DEF InStep, Complete
        <3>2. CASE from = None
            BY <1>2, <2>0, <2>1, <2>2, <3>2 DEF Complete
        <3>. QED BY <3>1, <3>2
    <2>4. PageFollows(c)'
        BY <2>1, <2>2 DEF PageFollows
    <2>. QED BY <1>2, <2>1, <2>3, <2>4 DEF Follows
<1>. QED BY <1>3, <1>4

\* A query brings the rows that follow the relay's place.
LEMMA QueryFollows ==
    ASSUME TypeInv, ConnInv, NEW c \in Conns, up[c], Follows(c), QueryPage(c)
    PROVE  Follows(c)'
<1>. USE NoneAssumption DEF TypeInv, TypeOK
<1>1. /\ st[c] \in {"play", "replay"} /\ at[c] \in Nat
      /\ page'[c] = PageOf(Above(at[c])) /\ more'[c] = (Cardinality(Above(at[c])) >= PageSize)
      /\ UNCHANGED <<seq, rows, writing, st, up, at, first, buf, slow, got, from>>
    BY DEF QueryPage, logVars, relayVars
<1>2. /\ \A p \in page'[c] : p \in Seqs(rows) /\ at[c] < p
      /\ \A p \in page'[c], n \in Seqs(rows) : at[c] < n /\ n <= p => n \in page'[c]
      /\ Cardinality(Above(at[c])) < PageSize => page'[c] = Above(at[c])
    BY <1>1, PageTakesTheFirst
<1>3. Seqs(rows)' = Seqs(rows) /\ Place' = Place /\ \A n : Pending(c, n)' <=> Pending(c, n)
    BY <1>1 DEF Seqs, Place, Pending
<1>4. PageFollows(c)'
    BY <1>1, <1>2, <1>3 DEF Follows, PageFollows
<1>5. ASSUME st[c] = "replay" PROVE ReplayFollows(c)'
    <2>1. ReplayFollows(c)
        BY <1>5 DEF Follows
    <2>2. \A n \in Seqs(rows) : at[c] < n => n \in Above(at[c])
        BY DEF Above
    <2>3. Cardinality(Above(at[c])) \in Nat
        <3>1. Above(at[c]) \subseteq 0..seq
            BY DEF Above, Seqs, Row, LogInv, SeqCoversLog
        <3>2. IsFiniteSet(0..seq)
            BY FS_Interval
        <3>. QED BY <3>1, <3>2, FS_Subset, FS_CardinalityType
    <2>4. ~more'[c] => page'[c] = Above(at[c])
        BY <1>1, <1>2, <2>3, SizesAssumption
    <2>. QED BY <1>1, <1>3, <2>1, <2>2, <2>4 DEF ReplayFollows
<1>. QED BY <1>1, <1>4, <1>5 DEF Follows

\* The second playback that ends, or passes the first live event, has brought
\* everything up to it: the buffer continues it.
LEMMA ReplayEnds ==
    ASSUME TypeInv, CoverInv, ConnInv, ~reused, InStep, NEW c \in Conns, up[c], Follows(c), st[c] = "replay",
           \A n \in Seqs(rows) : at[c] < n => first[c] < n \/ (\E p \in page[c] : n <= p),
           \A p \in page[c] : first[c] < p,
           EndPlayback(c, "live"), UNCHANGED <<rows, writing, buf, slow, got, from>>
    PROVE  Follows(c)'
<1>. USE NoneAssumption DEF TypeInv, TypeOK
<1>1. /\ from # None /\ Complete(Place) /\ Increasing(got) /\ at[c] = Place
      /\ PageFollows(c) /\ ReplayFollows(c) /\ first[c] \in Nat
    BY DEF InStep, ConnInv, Follows, PageFollows, ReplayFollows
<1>2. Seqs(rows)' = Seqs(rows) /\ \A n : Pending(c, n)' <=> Pending(c, n)
    BY DEF Seqs, Pending
<1>3. \A n \in Seqs(rows) : n \in Nat
    BY DEF Seqs, Row
<1>4. ASSUME NEW n \in Seqs(rows), from < n PROVE In(n, got) \/ Pending(c, n)
    <2>1. CASE n <= at[c]
        BY <1>1, <1>4, <2>1 DEF Complete
    <2>2. CASE first[c] < n
        BY <1>1, <2>2 DEF ReplayFollows
    <2>3. CASE at[c] < n /\ n <= first[c]
        <3>1. n \notin page[c]
            BY <1>1, <1>3, <2>3
        <3>2. \A p \in page[c] : ~(n <= p)
            BY <1>1, <2>3, <3>1 DEF PageFollows
        <3>3. first[c] < n \/ (\E p \in page[c] : n <= p)
            BY <2>3
        <3>4. n \in Nat /\ ~(first[c] < n)
            BY <1>1, <1>3, <2>3
        <3>. QED BY <3>2, <3>3, <3>4
    <2>. QED BY <1>1, <1>3, <2>1, <2>2, <2>3
<1>5. \A e, g \in Nat : In(e, buf[c]) /\ In(g, got) => g < e
    BY <1>1 DEF ReplayFollows
<1>6. \A g \in Nat : In(g, got) /\ writing # None => g < writing
    <2>1. writing # None => first[c] < writing /\ writing \in Nat
        BY <1>1 DEF CoverInv
    <2>2. \A g \in Nat : In(g, got) => g <= first[c]
        BY <1>1 DEF ReplayFollows
    <2>. QED BY <1>1, <2>1, <2>2
<1>7. LiveFollows(c)'
    BY <1>2, <1>4, <1>5, <1>6 DEF LiveFollows
<1>8. st'[c] = "live"
    BY DEF EndPlayback
<1>. QED BY <1>7, <1>8 DEF Follows

\* The least event of a page is the next one the relay is owed.
LEMMA StoredFollows ==
    ASSUME TypeInv, CoverInv, ConnInv, ~reused, InStep, NEW c \in Conns, up[c], SendStored(c)
    PROVE  Increasing(got)' /\ Complete(Place)' /\ Follows(c)'
<1>. USE NoneAssumption DEF TypeInv, TypeOK
<1>0. /\ from # None /\ Complete(Place) /\ Increasing(got) /\ Follows(c)
      /\ st[c] \in {"play", "replay"} /\ PageFollows(c) /\ at[c] = Place /\ at[c] \in Nat
      /\ st[c] = "replay" => ReplayFollows(c) /\ first[c] \in Nat
    BY DEF InStep, ConnInv, SendStored, Follows, PageFollows, ReplayFollows
<1>1. PICK e \in page[c] :
          /\ \A m \in page[c] : e <= m
          /\ IF st[c] = "replay" /\ e > first[c]
             THEN EndPlayback(c, "live") /\ UNCHANGED got
             ELSE /\ Receive(c, e)
                  /\ at' = [at EXCEPT ![c] = e]
                  /\ page' = [page EXCEPT ![c] = @ \ {e}]
                  /\ UNCHANGED <<st, more, first>>
    BY DEF SendStored
<1>2. e \in Nat /\ UNCHANGED <<seq, rows, writing, up, buf, slow, from, reused>> /\ page[c] \subseteq Nat
    BY DEF SendStored, logVars
<1>3. Seqs(rows)' = Seqs(rows) /\ \A n \in Seqs(rows) : n \in Nat
    BY <1>2 DEF Seqs, Row
<1>4. CASE st[c] = "replay" /\ e > first[c]
    <2>1. EndPlayback(c, "live") /\ UNCHANGED got
        BY <1>1, <1>4
    <2>2. \A p \in page[c] : first[c] < p
        BY <1>0, <1>1, <1>2, <1>4
    <2>3. \A n \in Seqs(rows) : at[c] < n => first[c] < n \/ (\E p \in page[c] : n <= p)
        BY <1>0, <1>2, <1>3, <1>4
    <2>4. Follows(c)'
        BY <1>0, <1>2, <1>4, <2>1, <2>2, <2>3, ReplayEnds
    <2>5. Increasing(got)' /\ Complete(Place)'
        BY <1>0, <1>2, <1>3, <2>1 DEF Increasing, Complete, Place
    <2>. QED BY <2>4, <2>5
<1>5. CASE ~(st[c] = "replay" /\ e > first[c])
    <2>1. /\ Receive(c, e) /\ at'[c] = e /\ page'[c] = page[c] \ {e}
          /\ UNCHANGED <<st, more, first>>
        BY <1>1, <1>5
    <2>2. at[c] < e /\ Place < e
        BY <1>0 DEF PageFollows
    <2>3. \A g \in Nat : In(g, got) => g < e
        BY <1>0, <1>2, <2>2, PlaceIs
    <2>4. ASSUME NEW n \in Seqs(rows), from < n, n < e PROVE In(n, got)
        <3>1. n <= Place \/ at[c] < n
            BY <1>0, <1>3
        <3>2. ASSUME at[c] < n PROVE FALSE
            <4>1. n \in page[c]
                BY <1>0, <1>2, <1>3, <2>4, <3>2 DEF PageFollows
            <4>. QED BY <1>1, <1>2, <1>3, <2>4, <4>1
        <3>. QED BY <1>0, <2>4, <3>1, <3>2 DEF Complete
    <2>5. /\ Increasing(got)' /\ Place' = e /\ Complete(e)'
          /\ \A n : In(n, got)' <=> In(n, got) \/ n = e
        BY <1>0, <1>2, <2>1, <2>3, <2>4, Received
    <2>6. Complete(Place)'
        BY <2>5 DEF Complete
    <2>7. PageFollows(c)'
        <3>1. ASSUME NEW p \in page'[c] PROVE e < p /\ p \in Nat
            <4>1. p \in page[c] /\ p # e /\ p \in Nat /\ e <= p
                BY <1>1, <1>2, <2>1
            <4>. QED BY <1>2, <4>1
        <3>2. ASSUME NEW p \in page'[c], NEW n \in Seqs(rows), e < n, n <= p PROVE n \in page'[c]
            <4>1. p \in page[c] /\ at[c] < n /\ n # e
                BY <1>0, <1>2, <1>3, <2>1, <2>2, <3>2
            <4>. QED BY <1>0, <2>1, <3>2, <4>1 DEF PageFollows
        <3>. QED BY <1>3, <2>1, <2>5, <3>1, <3>2 DEF PageFollows
    <2>8. ASSUME st[c] = "replay" PROVE ReplayFollows(c)'
        <3>1. e <= first[c] /\ first[c] \in Nat /\ ReplayFollows(c)
            BY <1>0, <1>2, <1>5, <2>8
        <3>2. \A n : Pending(c, n)' <=> Pending(c, n)
            BY <1>2 DEF Pending
        <3>3. \A g \in Nat : In(g, got)' => g <= first[c]
            BY <2>5, <3>1 DEF ReplayFollows
        <3>4. ASSUME ~more[c], NEW n \in Seqs(rows), e < n, n <= first[c] PROVE n \in page'[c]
            <4>1. at[c] < n /\ n # e
                BY <1>0, <1>2, <1>3, <2>2, <3>4
            <4>. QED BY <2>1, <3>1, <3>4, <4>1 DEF ReplayFollows
        <3>. QED BY <1>2, <1>3, <2>1, <3>1, <3>2, <3>3, <3>4 DEF ReplayFollows
    <2>. QED BY <1>0, <2>1, <2>5, <2>6, <2>7, <2>8 DEF Follows
<1>. QED BY <1>4, <1>5

\* A subscriber that is registered, or takes its first live event, is owed what its
\* buffer holds.
LEMMA RegisteredFollows ==
    ASSUME TypeInv, CoverInv, ConnInv, ~reused, InStep, NEW c \in Conns, up[c],
           RegisterSub(c) \/ TakeFirst(c)
    PROVE  Follows(c)'
<1>. USE NoneAssumption DEF TypeInv, TypeOK
<1>0. Follows(c) /\ PageFollows(c) /\ Increasing(buf[c]) /\ buf[c] \in Seq(Nat)
    BY DEF InStep, ConnInv, RegisterSub, TakeFirst, Follows
<1>1. UNCHANGED <<seq, rows, writing, up, at, page, slow, got, from>>
    BY DEF RegisterSub, TakeFirst, logVars, relayVars
<1>2. Seqs(rows)' = Seqs(rows) /\ Place' = Place /\ \A n \in Seqs(rows) : n \in Nat
    BY <1>1 DEF Seqs, Place, Row
<1>3. PageFollows(c)'
    BY <1>0, <1>1, <1>2 DEF PageFollows
<1>4. CASE RegisterSub(c)
    <2>1. st'[c] = "wait" /\ buf'[c] = <<>>
        BY <1>4 DEF RegisterSub, ConnInv
    <2>2. \A e : ~In(e, buf[c])'
        BY <2>1 DEF In
    <2>3. WaitFollows(c)'
        BY <2>2 DEF WaitFollows
    <2>. QED BY <1>3, <2>1, <2>3 DEF Follows
<1>5. CASE TakeFirst(c)
    <2>1. /\ st[c] = "wait" /\ st'[c] = "replay" /\ buf[c] # <<>> /\ more'[c]
          /\ first'[c] = Head(buf[c]) /\ buf'[c] = Tail(buf[c])
        BY <1>5 DEF TakeFirst
    <2>2. /\ Head(buf[c]) \in Nat
          /\ \A n \in Nat : In(n, buf[c]) <=> In(n, buf[c])' \/ n = Head(buf[c])
          /\ \A n \in Nat : In(n, buf[c])' => Head(buf[c]) < n
        BY <1>0, <2>1, Tailed, InOrder, StaysIncreasing
    <2>3. WaitFollows(c)
        BY <1>0, <2>1 DEF Follows
    <2>4. ASSUME NEW n \in Seqs(rows), Head(buf[c]) < n PROVE Pending(c, n)'
        <3>1. In(Head(buf[c]), buf[c]) /\ Head(buf[c]) <= n /\ n # Head(buf[c]) /\ n \in Nat
            BY <1>2, <2>2, <2>4
        <3>2. Pending(c, n)
            BY <2>2, <2>3, <3>1 DEF WaitFollows
        <3>3. CASE In(n, buf[c])
            BY <2>2, <3>1, <3>3 DEF Pending
        <3>4. CASE ~In(n, buf[c])
            BY <1>1, <2>2, <3>2, <3>4 DEF Pending
        <3>. QED BY <3>3, <3>4
    <2>5. \A g \in Nat : In(g, got) => g <= Head(buf[c])
        BY <2>2, <2>3 DEF WaitFollows
    <2>6. ReplayFollows(c)'
        BY <1>1, <1>2, <2>1, <2>2, <2>4, <2>5 DEF ReplayFollows
    <2>. QED BY <1>3, <2>1, <2>6 DEF Follows
<1>. QED BY <1>4, <1>5

\* The second playback has come to its end.
LEMMA CaughtUpFollows ==
    ASSUME TypeInv, CoverInv, ConnInv, ~reused, InStep, NEW c \in Conns, up[c], CaughtUp(c)
    PROVE  Follows(c)'
<1>1. /\ st[c] = "replay" /\ page[c] = {} /\ ~more[c] /\ EndPlayback(c, "live")
      /\ UNCHANGED <<rows, writing, up, buf, slow, got, from>> /\ Follows(c)
    BY DEF CaughtUp, InStep, logVars, relayVars
<1>2. ReplayFollows(c) /\ first[c] \in Nat
    BY <1>1 DEF Follows, ReplayFollows, TypeInv, TypeOK
<1>3. ASSUME NEW n \in Seqs(rows), at[c] < n PROVE first[c] < n
    <2>1. n \in Nat
        BY DEF Seqs, TypeInv, TypeOK, Row
    <2>2. ~(n <= first[c])
        BY <1>1, <1>2, <1>3 DEF ReplayFollows
    <2>. QED BY <1>2, <2>1, <2>2
<1>. QED BY <1>1, <1>3, ReplayEnds

\* The head of the buffer is the next event the relay is owed.
LEMMA LiveSends ==
    ASSUME TypeInv, CoverInv, ConnInv, ~reused, InStep, NEW c \in Conns, up[c], SendLive(c)
    PROVE  Increasing(got)' /\ Complete(Place)' /\ Follows(c)'
<1>. USE NoneAssumption DEF TypeInv, TypeOK
<1>0. PICK h \in Nat : h = Head(buf[c])
    BY Tailed DEF SendLive
<1>1. /\ st[c] = "live" /\ buf[c] # <<>> /\ Receive(c, h) /\ buf'[c] = Tail(buf[c])
      /\ UNCHANGED <<seq, rows, writing, st, up, slow, from>>
    BY <1>0 DEF SendLive, logVars
<1>2. /\ from # None /\ Increasing(got) /\ LiveFollows(c) /\ Increasing(buf[c]) /\ buf[c] \in Seq(Nat)
    BY <1>1 DEF InStep, ConnInv, Follows
<1>3. /\ h \in Nat
      /\ \A n \in Nat : In(n, buf[c]) <=> In(n, buf[c])' \/ n = h
      /\ \A n \in Nat : In(n, buf[c])' => h < n
    BY <1>0, <1>1, <1>2, InOrder, StaysIncreasing
<1>4. Seqs(rows)' = Seqs(rows) /\ \A n \in Seqs(rows) : n \in Nat
    BY <1>1 DEF Seqs, Row
<1>5. \A g \in Nat : In(g, got) => g < h
    BY <1>2, <1>3 DEF LiveFollows
<1>6. ASSUME NEW n \in Seqs(rows), from < n, n < h PROVE In(n, got)
    <2>1. n \in Nat /\ ~In(n, buf[c]) /\ ~(h < n) /\ In(h, buf[c])
        BY <1>3, <1>4, <1>6
    <2>2. ~Pending(c, n)
        BY <1>3, <2>1 DEF Pending
    <2>. QED BY <1>2, <1>6, <2>2 DEF LiveFollows
<1>7. /\ Increasing(got)' /\ Place' = h /\ Complete(h)'
      /\ \A n : In(n, got)' <=> In(n, got) \/ n = h
    BY <1>1, <1>2, <1>3, <1>5, <1>6, Received
<1>8. Complete(Place)'
    BY <1>7 DEF Complete
<1>9. ASSUME NEW n \in Seqs(rows), from < n PROVE In(n, got)' \/ Pending(c, n)'
    <2>1. n \in Nat /\ (In(n, got) \/ Pending(c, n))
        BY <1>2, <1>4, <1>9 DEF LiveFollows
    <2>2. CASE In(n, got) \/ n = h
        BY <1>7, <2>2
    <2>3. CASE Pending(c, n) /\ n # h
        BY <1>1, <1>3, <2>1, <2>3 DEF Pending
    <2>. QED BY <2>1, <2>2, <2>3
<1>10. ASSUME NEW g \in Nat, In(g, got)', writing # None PROVE g < writing
    <2>1. h < writing
        BY <1>3, <1>10 DEF CoverInv
    <2>. QED BY <1>2, <1>7, <1>10, <2>1 DEF LiveFollows
<1>11. ASSUME NEW e \in Nat, NEW g \in Nat, In(e, buf[c])', In(g, got)' PROVE g < e
    BY <1>2, <1>3, <1>7, <1>11 DEF LiveFollows
<1>12. LiveFollows(c)'
    BY <1>1, <1>4, <1>9, <1>10, <1>11 DEF LiveFollows
<1>. QED BY <1>1, <1>7, <1>8, <1>12 DEF Follows

\* The order and the completeness of what the relay receives are inductive.
LEMMA RelayStep == TypeInv /\ CoverInv /\ ConnInv /\ RelayInv /\ [Next]_vars => RelayInv'
<1>. SUFFICES ASSUME TypeInv, CoverInv, ConnInv, RelayInv, [Next]_vars, ~reused' PROVE InStep'
    BY DEF RelayInv
<1>. USE DEF TypeInv, TypeOK
<1>0. ~reused /\ InStep /\ Increasing(got) /\ (from # None => Complete(Place))
    BY ReusedStays DEF RelayInv, InStep
<1>1. ASSUME UNCHANGED <<got, from>>, rows' \subseteq rows
      PROVE  Increasing(got)' /\ (from # None => Complete(Place))'
    <2>1. Seqs(rows)' \subseteq Seqs(rows)
        BY <1>1 DEF Seqs
    <2>2. Increasing(got)' /\ Place' = Place
        BY <1>0, <1>1 DEF Increasing, Place
    <2>3. ASSUME from # None PROVE Complete(Place)'
        BY <1>0, <1>1, <2>1, <2>2, <2>3 DEF Complete
    <2>. QED BY <1>1, <2>2, <2>3
<1>2. CASE Insert
    <2>1. UNCHANGED <<up, got, from>>
        BY <1>2 DEF Insert, connVars, relayVars
    <2>2. \A c \in Conns : up[c] => Follows(c)'
        BY <1>0, <1>2, InsertFollows DEF InStep
    <2>3. from # None => Complete(Place)'
        BY <1>0, <1>2, InsertFollows
    <2>4. Increasing(got)'
        BY <1>0, <2>1 DEF Increasing
    <2>. QED BY <2>1, <2>2, <2>3, <2>4 DEF InStep
<1>3. CASE Broadcast
    <2>1. UNCHANGED <<rows, up, got, from>>
        BY <1>3 DEF Broadcast, relayVars
    <2>2. \A c \in Conns : up[c] => Follows(c)'
        BY <1>0, <1>3, BroadcastFollows DEF InStep
    <2>. QED BY <1>1, <2>1, <2>2 DEF InStep
<1>4. CASE InsertFails \/ Cleanup \/ Tick \/ UNCHANGED vars
    <2>1. rows' \subseteq rows /\ UNCHANGED <<writing, connVars, relayVars>>
        BY <1>4 DEF InsertFails, Cleanup, Tick, vars, logVars
    <2>2. ASSUME NEW c \in Conns, up'[c] PROVE Follows(c)'
        <3>1. Follows(c)
            BY <1>0, <2>1, <2>2 DEF InStep, connVars
        <3>. QED BY <2>1, <3>1, LeftAlone DEF connVars, relayVars
    <2>. QED BY <1>1, <2>1, <2>2 DEF InStep, relayVars
<1>5. CASE Restart
    <2>1. UNCHANGED <<rows, got, from>> /\ \A c \in Conns : ~up'[c]
        BY <1>5 DEF Restart
    <2>. QED BY <1>1, <2>1 DEF InStep
<1>6. ASSUME NEW c \in Conns, ConnStep(c) PROVE InStep'
    <2>0. UNCHANGED <<seq, rows, writing, reused>>
        BY <1>6, ConnMoves
    <2>1. CASE SubscribeLive(c) \/ \E cursor \in 0..MaxSeq : SubscribeFrom(c, cursor)
        <3>1. Increasing(got)' /\ Complete(Place)' /\ Follows(c)'
            BY <1>0, <2>1, SubscribeFollows
        <3>2. \A d \in Conns \ {c} : ~up'[d]
            <4>1. up' = [up EXCEPT ![c] = TRUE] /\ ~\E d \in Conns : up[d]
                BY <2>1 DEF SubscribeLive, SubscribeFrom
            <4>. QED BY <4>1
        <3>. QED BY <3>1, <3>2 DEF InStep
    <2>2. CASE UNCHANGED <<got, from>> /\ ~up'[c]
        <3>1. ASSUME NEW d \in Conns, up'[d] PROVE Follows(d)'
            <4>1. d \in Conns \ {c} /\ up[d]
                BY <1>6, <2>2, <3>1, OneAtATime
            <4>2. Follows(d)
                BY <1>0, <4>1 DEF InStep
            <4>3. /\ st'[d] = st[d] /\ at'[d] = at[d] /\ page'[d] = page[d] /\ more'[d] = more[d]
                  /\ first'[d] = first[d] /\ buf'[d] = buf[d]
                  /\ d \in slow => d \in slow'
                BY <1>6, <4>1, OneAtATime
            <4>. QED BY <2>0, <2>2, <4>2, <4>3, LeftAlone
        <3>2. rows' \subseteq rows
            BY <2>0
        <3>. QED BY <1>1, <2>2, <3>1, <3>2 DEF InStep
    <2>3. CASE up[c] /\ ~(UNCHANGED <<got, from>> /\ ~up'[c])
        <3>1. \A d \in Conns \ {c} : ~up'[d]
            BY <1>6, <2>3, OneAtATime DEF ConnInv
        <3>2. Follows(c) /\ from # None
            BY <1>0, <2>3 DEF InStep, ConnInv
        <3>3. ASSUME UNCHANGED <<got, from>>, Follows(c)' PROVE InStep'
            BY <1>1, <2>0, <3>1, <3>3 DEF InStep
        <3>4. ASSUME Increasing(got)', Complete(Place)', Follows(c)' PROVE InStep'
            BY <3>1, <3>4 DEF InStep
        <3>5. CASE QueryPage(c)
            BY <2>3, <3>2, <3>3, <3>5, QueryFollows DEF QueryPage, relayVars
        <3>6. CASE RegisterSub(c) \/ TakeFirst(c)
            BY <1>0, <2>3, <3>3, <3>6, RegisteredFollows DEF RegisterSub, TakeFirst, relayVars
        <3>7. CASE CaughtUp(c)
            BY <1>0, <2>3, <3>3, <3>7, CaughtUpFollows DEF CaughtUp, relayVars
        <3>8. CASE SendStored(c)
            BY <1>0, <2>3, <3>4, <3>8, StoredFollows
        <3>9. CASE SendLive(c)
            BY <1>0, <2>3, <3>4, <3>9, LiveSends
        <3>10. CASE Disconnect(c) \/ QueryFails(c) \/ DropSlow(c)
            BY <2>3, <3>10 DEF Disconnect, QueryFails, DropSlow, relayVars
        <3>11. CASE SubscribeLive(c) \/ \E cursor \in 0..MaxSeq : SubscribeFrom(c, cursor)
            BY <2>1, <3>11
        <3>. QED BY <1>6, <3>5, <3>6, <3>7, <3>8, <3>9, <3>10, <3>11 DEF ConnStep
    <2>. QED BY <1>6, <2>1, <2>2, <2>3, OneAtATime
<1>. QED BY <1>2, <1>3, <1>4, <1>5, <1>6 DEF Next, ConnStep

\* At first the relay has received nothing.
LEMMA RelayInit == Init => ConnInv /\ RelayInv
BY DEF Init, ConnInv, RelayInv, InStep, Increasing

\* A relay that comes back with its cursor receives every event at most once and in
\* order, over all its connections (handleSyncSubscribeRepos plays back what is stored
\* and then follows the broadcast, while events are stored and broadcast beside it).
THEOREM EventsComeOnceInOrder == Spec => []EachOnceInOrder
<1>1. TypeInv /\ RelayInv => EachOnceInOrder
    <2>. SUFFICES ASSUME TypeInv, RelayInv, ~reused, NEW i \in 1..(Len(got) - 1)
                  PROVE  got[i] < got[i + 1]
        BY DEF EachOnceInOrder
    <2>1. Increasing(got) /\ Len(got) \in Nat
        BY DEF RelayInv, InStep, TypeInv, TypeOK
    <2>2. i \in 1..Len(got) /\ i + 1 \in 1..Len(got) /\ i < i + 1
        BY <2>1
    <2>. QED BY <2>1, <2>2 DEF Increasing
<1>. QED BY TypeInit, TypeStep, CoverInit, CoverStep, RelayInit, ConnInvStep, RelayStep, <1>1, PTL DEF Spec

\* It misses no stored event between the place where it started and the last one it
\* received (the second playback covers what came between the first and the
\* registration).
THEOREM NoEventIsMissed == Spec => []NoneMissed
<1>1. TypeInv /\ RelayInv => NoneMissed
    <2>. SUFFICES ASSUME TypeInv, RelayInv, ~reused, from # None, got # <<>>,
                         NEW n \in Seqs(rows), from < n, n <= Last(got)
                  PROVE  \E i \in 1..Len(got) : got[i] = n
        BY DEF NoneMissed
    <2>1. Complete(Place) /\ Place = Last(got)
        BY DEF RelayInv, InStep, Place
    <2>. QED BY <2>1 DEF Complete, In
<1>. QED BY TypeInit, TypeStep, CoverInit, CoverStep, RelayInit, ConnInvStep, RelayStep, <1>1, PTL DEF Spec

=============================================================================
