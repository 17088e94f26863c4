------------------------------ MODULE EventLog ------------------------------
(***************************************************************************)
(* The event log (server/persist.go) and the firehose that is read from it *)
(* (server/handle_sync_subscribe_repos.go).                                *)
(*                                                                         *)
(* Every event gets the next sequence number, is stored as a row and then  *)
(* broadcast to the subscribers, all under DbPersister.Lk.  A relay that   *)
(* connects with a cursor is first played the stored events above it, page *)
(* by page, and then follows the broadcast.  Rows older than the retention *)
(* time are deleted, and a restart resumes from the highest row, or from   *)
(* the clock when there is none.                                           *)
(*                                                                         *)
(* The subscriber table is that of the event manager of the indigo library *)
(* (external): a bounded buffer per subscriber, and a subscription with a  *)
(* cursor that plays back, registers, waits for a first live event, plays  *)
(* back what came in between and only then follows its buffer.             *)
(*                                                                         *)
(* An event is its sequence number: what it says does not matter here.     *)
(* There is one relay; Conns are its successive connections.               *)
(***************************************************************************)
EXTENDS Naturals, Sequences, FiniteSets, SequencesExt

CONSTANTS
    Conns,       \* connections of the relay, each made once
    PageSize,    \* rows per query of Playback (500 in the code)
    BufferSize,  \* capacity of a subscriber's buffer
    Retention,   \* age at which rows are deleted
    MaxSeq,      \* bound: sequence numbers
    MaxClock,    \* bound: readings of the clock
    None         \* no event, no cursor

ASSUME NoneAssumption == None \notin Nat
ASSUME SizesAssumption ==
    /\ PageSize \in Nat \ {0}
    /\ BufferSize \in Nat \ {0}
    /\ Retention \in Nat
ASSUME BoundsAssumption == MaxSeq \in Nat /\ MaxClock \in Nat

VARIABLES
    clock,      \* the wall clock
    seq,        \* DbPersister.Seq
    rows,       \* the event records
    writing,    \* the event that is stored and not yet broadcast, under Lk
    st,         \* where the subscription of a connection is
    up,         \* whether the relay still holds the connection
    at,         \* the cursor of the playback of a connection
    page,       \* rows a playback has queried and not delivered
    more,       \* whether a playback queries again after this page
    first,      \* the first live event of a subscription with a cursor
    buf,        \* the subscriber's buffer
    slow,       \* subscribers that were dropped for being slow
    got,        \* history: the events the relay received, in order
    from,       \* history: the relay is owed the events after this one
    reused      \* history: a restart went below a number already given out

logVars == <<seq, rows, writing>>
connVars == <<st, up, at, page, more, first, buf, slow>>
relayVars == <<got, from, reused>>
vars == <<clock, logVars, connVars, relayVars>>

Row == [seq : Nat, at : Nat]

\* "play", "replay": first and second playback; "wait": registered and waiting
\* for a first live event; "live": following the buffer; "closed": the handler
\* has returned.
States == {"off", "play", "wait", "replay", "live", "closed"}
Registered(c) == st[c] \in {"wait", "replay", "live"}

Seqs(R) == {r.seq : r \in R}
Highest(R) == CHOOSE n \in Seqs(R) : \A m \in Seqs(R) : m <= n

Init ==
    /\ clock = 1
    /\ seq = clock
    /\ rows = {}
    /\ writing = None
    /\ st = [c \in Conns |-> "off"]
    /\ up = [c \in Conns |-> FALSE]
    /\ at = [c \in Conns |-> 0]
    /\ page = [c \in Conns |-> {}]
    /\ more = [c \in Conns |-> FALSE]
    /\ first = [c \in Conns |-> None]
    /\ buf = [c \in Conns |-> <<>>]
    /\ slow = {}
    /\ got = <<>>
    /\ from = None
    /\ reused = FALSE

-----------------------------------------------------------------------------
(* The persister.                                                          *)

\* Persist: the number is taken and the row inserted; Lk stays held.
Insert ==
    /\ writing = None
    /\ seq < MaxSeq
    /\ seq' = seq + 1
    /\ rows' = rows \cup {[seq |-> seq + 1, at |-> clock]}
    /\ writing' = seq + 1
    /\ UNCHANGED <<clock, connVars, relayVars>>

\* Mutant: the event is broadcast although its insert failed.
InsertFailsButSends ==
    /\ writing = None
    /\ seq < MaxSeq
    /\ seq' = seq + 1
    /\ writing' = seq + 1
    /\ UNCHANGED <<clock, rows, connVars, relayVars>>

\* The insert fails: the number is spent and nothing is broadcast.
InsertFails ==
    /\ writing = None
    /\ seq < MaxSeq
    /\ seq' = seq + 1
    /\ UNCHANGED <<clock, rows, writing, connVars, relayVars>>

\* Mutant: a full buffer is not noticed.
BroadcastAnyway ==
    /\ writing # None
    /\ buf' = [c \in Conns |-> IF Registered(c) THEN Append(buf[c], writing) ELSE buf[c]]
    /\ writing' = None
    /\ UNCHANGED <<clock, seq, rows, st, up, at, page, more, first, slow, relayVars>>

\* The event manager hands the event to every subscriber.  One whose buffer is
\* full gets nothing any more and is closed once its buffer is drained.
Broadcast ==
    /\ writing # None
    /\ LET Open == {c \in Conns : Registered(c) /\ c \notin slow}
           Full == {c \in Open : Len(buf[c]) = BufferSize}
       IN  /\ buf' = [c \in Conns |-> IF c \in Open \ Full
                                      THEN Append(buf[c], writing) ELSE buf[c]]
           /\ slow' = slow \cup Full
    /\ writing' = None
    /\ UNCHANGED <<clock, seq, rows, st, up, at, page, more, first, relayVars>>

\* The hourly clean-up.
Cleanup ==
    /\ \E r \in rows : r.at + Retention < clock
    /\ rows' = {r \in rows : r.at + Retention >= clock}
    /\ UNCHANGED <<clock, seq, writing, connVars, relayVars>>

\* Where NewDbPersister resumes.  Mutant: always from the clock.
ResumeFromClock == clock
Resume == IF rows = {} THEN clock ELSE Highest(rows)

\* The server restarts: NewDbPersister resumes from the last row, or from the
\* clock when there is none.  Connections and a broadcast under way are lost.
Restart ==
    /\ seq' = Resume
    /\ reused' = (reused \/ (rows = {} /\ clock < seq))
    /\ writing' = None
    /\ st' = [c \in Conns |-> IF st[c] = "off" THEN "off" ELSE "closed"]
    /\ up' = [c \in Conns |-> FALSE]
    /\ at' = [c \in Conns |-> 0]
    /\ page' = [c \in Conns |-> {}]
    /\ more' = [c \in Conns |-> FALSE]
    /\ first' = [c \in Conns |-> None]
    /\ buf' = [c \in Conns |-> <<>>]
    /\ slow' = {}
    /\ UNCHANGED <<clock, rows, got, from>>

Tick ==
    /\ clock < MaxClock
    /\ clock' = clock + 1
    /\ UNCHANGED <<logVars, connVars, relayVars>>

-----------------------------------------------------------------------------
(* A connection of the relay.                                              *)

\* handleSyncSubscribeRepos without a cursor: the relay follows from now on.
SubscribeLive(c) ==
    /\ st[c] = "off" /\ ~\E d \in Conns : up[d]
    /\ from = None
    /\ st' = [st EXCEPT ![c] = "live"]
    /\ up' = [up EXCEPT ![c] = TRUE]
    /\ from' = IF writing = None THEN seq ELSE seq - 1
    /\ UNCHANGED <<clock, logVars, at, page, more, first, buf, slow, got, reused>>

\* With a cursor: any number when the relay is new, afterwards the last event
\* it received.
SubscribeFrom(c, cursor) ==
    /\ st[c] = "off" /\ ~\E d \in Conns : up[d]
    /\ IF got # <<>> THEN cursor = Last(got)
       ELSE from # None => cursor = from
    /\ st' = [st EXCEPT ![c] = "play"]
    /\ up' = [up EXCEPT ![c] = TRUE]
    /\ at' = [at EXCEPT ![c] = cursor]
    /\ more' = [more EXCEPT ![c] = TRUE]
    /\ from' = IF from = None THEN cursor ELSE from
    /\ UNCHANGED <<clock, logVars, page, first, buf, slow, got, reused>>

\* The relay goes away; the server's handler may not notice.
Disconnect(c) ==
    /\ up[c]
    /\ up' = [up EXCEPT ![c] = FALSE]
    /\ UNCHANGED <<clock, logVars, st, at, page, more, first, buf, slow, relayVars>>

\* The locals of a playback go out of scope with it.
EndPlayback(c, next) ==
    /\ st' = [st EXCEPT ![c] = next]
    /\ at' = [at EXCEPT ![c] = 0]
    /\ page' = [page EXCEPT ![c] = {}]
    /\ more' = [more EXCEPT ![c] = FALSE]
    /\ first' = [first EXCEPT ![c] = None]

\* One query of Playback: of the rows above the cursor, in order, as many as a
\* page takes.  Mutant: the row at the cursor is among them.
AboveOrAt(n) == {m \in Seqs(rows) : m >= n}
Above(n) == {m \in Seqs(rows) : m > n}
PageOf(found) == {m \in found : Cardinality({k \in found : k < m}) < PageSize}

\* Mutant: a playback ends with its first page, full or not.
QueryOnePage(c) ==
    /\ st[c] \in {"play", "replay"} /\ page[c] = {} /\ more[c]
    /\ page' = [page EXCEPT ![c] = PageOf(Above(at[c]))]
    /\ more' = [more EXCEPT ![c] = FALSE]
    /\ UNCHANGED <<clock, logVars, st, up, at, first, buf, slow, relayVars>>

\* A page that is full is followed by another query.
QueryPage(c) ==
    /\ st[c] \in {"play", "replay"} /\ page[c] = {} /\ more[c]
    /\ page' = [page EXCEPT ![c] = PageOf(Above(at[c]))]
    /\ more' = [more EXCEPT ![c] = Cardinality(Above(at[c])) >= PageSize]
    /\ UNCHANGED <<clock, logVars, st, up, at, first, buf, slow, relayVars>>

\* The query fails, or the context of a connection that went away ends it: the
\* channel is closed and the handler returns.
QueryFails(c) ==
    /\ st[c] \in {"play", "replay"} /\ page[c] = {} /\ more[c]
    /\ EndPlayback(c, "closed")
    /\ up' = [up EXCEPT ![c] = FALSE]
    /\ buf' = [buf EXCEPT ![c] = <<>>]
    /\ slow' = slow \ {c}
    /\ UNCHANGED <<clock, logVars, relayVars>>

\* A frame to the socket; a write to a connection that went away is logged and
\* the loop goes on.
Receive(c, e) == got' = IF up[c] THEN Append(got, e) ELSE got

\* An event of a page is written to the socket, unless the second playback has
\* passed the first live event.
SendStored(c) ==
    /\ st[c] \in {"play", "replay"}
    /\ \E e \in page[c] :
          /\ \A m \in page[c] : e <= m
          /\ IF st[c] = "replay" /\ e > first[c]
             THEN /\ EndPlayback(c, "live")
                  /\ UNCHANGED got
             ELSE /\ Receive(c, e)
                  /\ at' = [at EXCEPT ![c] = e]
                  /\ page' = [page EXCEPT ![c] = @ \ {e}]
                  /\ UNCHANGED <<st, more, first>>
    /\ UNCHANGED <<clock, logVars, up, buf, slow, from, reused>>

\* The first playback has come to its end: the subscriber is registered.
RegisterSub(c) ==
    /\ st[c] = "play" /\ page[c] = {} /\ ~more[c]
    /\ st' = [st EXCEPT ![c] = "wait"]
    /\ UNCHANGED <<clock, logVars, up, at, page, more, first, buf, slow, relayVars>>

\* A first live event has come: a second playback runs up to it.
TakeFirst(c) ==
    /\ st[c] = "wait" /\ buf[c] # <<>>
    /\ first' = [first EXCEPT ![c] = Head(buf[c])]
    /\ buf' = [buf EXCEPT ![c] = Tail(buf[c])]
    /\ st' = [st EXCEPT ![c] = "replay"]
    /\ more' = [more EXCEPT ![c] = TRUE]
    /\ UNCHANGED <<clock, logVars, up, at, page, slow, relayVars>>

\* The second playback has come to its end.
CaughtUp(c) ==
    /\ st[c] = "replay" /\ page[c] = {} /\ ~more[c]
    /\ EndPlayback(c, "live")
    /\ UNCHANGED <<clock, logVars, up, buf, slow, relayVars>>

\* The handler's loop writes the next event of the buffer.
SendLive(c) ==
    /\ st[c] = "live" /\ buf[c] # <<>>
    /\ Receive(c, Head(buf[c]))
    /\ buf' = [buf EXCEPT ![c] = Tail(buf[c])]
    /\ UNCHANGED <<clock, logVars, st, up, at, page, more, first, slow, from, reused>>

\* The channel of a slow subscriber is closed and drained: the handler returns
\* and the relay has to connect again.
DropSlow(c) ==
    /\ c \in slow /\ buf[c] = <<>> /\ st[c] \in {"wait", "live"}
    /\ EndPlayback(c, "closed")
    /\ up' = [up EXCEPT ![c] = FALSE]
    /\ slow' = slow \ {c}
    /\ UNCHANGED <<clock, logVars, buf, relayVars>>

Next ==
    \/ Insert \/ InsertFails \/ Broadcast \/ Cleanup \/ Restart \/ Tick
    \/ \E c \in Conns :
          \/ SubscribeLive(c)
          \/ \E cursor \in 0..MaxSeq : SubscribeFrom(c, cursor)
          \/ Disconnect(c)
          \/ QueryPage(c) \/ QueryFails(c) \/ SendStored(c)
          \/ RegisterSub(c) \/ TakeFirst(c) \/ CaughtUp(c)
          \/ SendLive(c) \/ DropSlow(c)

Spec == Init /\ [][Next]_vars

-----------------------------------------------------------------------------
(* Properties.                                                             *)

TypeOK ==
    /\ clock \in Nat
    /\ seq \in Nat
    /\ rows \subseteq Row
    /\ writing \in Nat \cup {None}
    /\ st \in [Conns -> States]
    /\ up \in [Conns -> BOOLEAN]
    /\ at \in [Conns -> Nat]
    /\ page \in [Conns -> SUBSET Nat]
    /\ more \in [Conns -> BOOLEAN]
    /\ first \in [Conns -> Nat \cup {None}]
    /\ buf \in [Conns -> Seq(Nat)]
    /\ \A c \in Conns : Len(buf[c]) <= BufferSize
    /\ slow \subseteq Conns
    /\ got \in Seq(Nat)
    /\ from \in Nat \cup {None}
    /\ reused \in BOOLEAN

\* persist.go:72-125: the counter is never behind the log, across failed
\* inserts, retention and restarts: the next event sorts after all stored ones.
SeqCoversLog == \A r \in rows : r.seq <= seq

\* A relay that comes back with its cursor receives every event at most once
\* and in order, over all its connections, whatever is stored and broadcast
\* while it is played back, unless numbers were used again (see reused).
EachOnceInOrder ==
    reused \/ \A i \in 1..Len(got)-1 : got[i] < got[i + 1]

\* It misses nothing: an event still stored, between the place where it
\* started and the last event it received, was received.
NoneMissed ==
    reused \/ from = None \/ got = <<>> \/
        \A n \in Seqs(rows) :
            from < n /\ n <= Last(got) => \E i \in 1..Len(got) : got[i] = n

\* What a subscriber is going to be sent is stored or was: an event is never
\* shown before it is durable, so a restart cannot give its number to another.
SentIsCovered ==
    reused \/ \A i \in 1..Len(got) : got[i] <= seq
=============================================================================
