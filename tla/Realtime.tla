------------------------------ MODULE Realtime ------------------------------
(***************************************************************************)
(* Transactions and live updates: src/src/database.js,                     *)
(* realtime-transport.js, the event hub of notifications.js and the stream *)
(* route of server.js.                                                     *)
(*                                                                         *)
(* API replicas change the domain under one advisory lock.  save() issues  *)
(* NOTIFY in the transaction, so PostgreSQL hands it to the listening      *)
(* replicas when the transaction commits, and the replica itself tells its *)
(* own streams from the callbacks it runs after the commit.  A replica     *)
(* that lost its listener asks its streams to refetch once it has a new    *)
(* one: all but the calls, whose pointers are private.  Change n of the    *)
(* domain raises the version every read sees to n and writes inbox row n   *)
(* of one user, who has one event stream: a banner shows a row, a hint     *)
(* makes the client read the resource it names again.                      *)
(***************************************************************************)
EXTENDS Integers, Sequences, FiniteSets, SequencesExt

CONSTANTS
    Replicas,   \* API processes
    MaxVersion, \* bound: changes of the domain that commit
    CallChanges,\* those of a private order call; the rest are of the screens
    MaxFaults,  \* bound: faults of the kinds below
    Kinds       \* the faults that may happen, a subset of FaultKinds

FaultKinds ==
    {"rollback",  \* a request fails, or marks its transaction for rollback
     "answer",    \* COMMIT works but its answer is lost
     "boot",      \* the first LISTEN of a process fails
     "listener",  \* a listening connection is lost
     "read",      \* reading the state for a delivery or a refresh fails
     "stream",    \* the client's stream ends and it reconnects
     "crash"}     \* a process dies and boots again

ASSUME RealtimeAssumption ==
    /\ IsFiniteSet(Replicas)
    /\ MaxVersion \in Nat /\ MaxFaults \in Nat
    /\ CallChanges \subseteq 1..MaxVersion
    /\ Kinds \subseteq FaultKinds

VARIABLES
    version,    \* changes of the domain that are committed
    txn,        \* the transaction of a replica, and what it wrote
    publishing, \* callbacks of a replica's commits that still have to run
    listener,   \* of a replica: down, retrying its first, listening or up
    before,     \* connectedBefore of a replica
    chain,      \* pointers a replica received and still has to deliver
    stream,     \* the client's event stream
    client,     \* the changes it has read, the banners it shows, and the
                \* resources it is told to read
    deaf,       \* history: processes that lost the answer of a commit, or
                \* whose first LISTEN failed
    faults      \* history: faults so far

history == <<deaf, faults>>
rtVars == <<version, txn, publishing, listener, before, chain, stream, client,
          history>>
transport == <<listener, before, chain>>

Phases == {"off", "loading", "open"}

\* The resources a hint names, as far as recovery tells them apart.
Resources == {"calls", "screens"}
Resource(n) == IF n \in CallChanges THEN "calls" ELSE "screens"

\* No stream.  missed is a history: the changes of a call whose pointer the
\* replica of the stream did not get, or lost.
Closed == [phase |-> "off", at |-> {}, loaded |-> 0, missed |-> {}]

RTInit ==
    /\ version = 0
    /\ txn = [p \in Replicas |-> [phase |-> "idle", wrote |-> FALSE]]
    /\ publishing = [p \in Replicas |-> << >>]
    /\ listener = [p \in Replicas |-> "down"]
    /\ before = [p \in Replicas |-> FALSE]
    /\ chain = [p \in Replicas |-> << >>]
    /\ stream = Closed
    /\ client = [read |-> {}, told |-> {}, shown |-> {}, cursor |-> 0]
    /\ deaf = {} /\ faults = 0

Fault(kind) ==
    /\ kind \in Kinds
    /\ faults < MaxFaults
    /\ faults' = faults + 1

\* A fault that leaves no process deaf.
PlainFault(kind) == Fault(kind) /\ UNCHANGED deaf

----------------------------------------------------------------------------
(* What a replica tells its stream                                          *)

Open(p) == stream.phase = "open" /\ p \in stream.at

Shown(c, n) == [c EXCEPT !.shown = @ \cup {n}, !.cursor = n]
Told(c, resources) == [c EXCEPT !.told = @ \cup resources]

\* events.publish and publishInvalidate for change n.
Publish(p, n) ==
    client' = IF Open(p) THEN Told(Shown(client, n), {Resource(n)}) ELSE client

----------------------------------------------------------------------------
(* Transactions of the domain                                               *)

Unlocked == \A p \in Replicas : txn[p].phase # "working"

\* The outermost transaction() waits for the lock; inner ones join it.
Begin(p) ==
    /\ version < MaxVersion
    /\ Unlocked
    /\ txn' = [txn EXCEPT ![p] = [phase |-> "working", wrote |-> FALSE]]
    /\ UNCHANGED <<version, publishing, transport, stream, client, history>>

\* A save tells the streams of its process at once (a mutant).
SaveAndPublish(p) ==
    /\ txn[p].phase = "working" /\ ~txn[p].wrote
    /\ txn' = [txn EXCEPT ![p].wrote = TRUE]
    /\ Publish(p, version + 1)
    /\ UNCHANGED <<version, publishing, transport, stream, history>>

\* save(): the writes, the NOTIFY of each pointer and the callback for the
\* process's own streams all wait for the commit.
Save(p) ==
    /\ txn[p].phase = "working" /\ ~txn[p].wrote
    /\ txn' = [txn EXCEPT ![p].wrote = TRUE]
    /\ UNCHANGED <<version, publishing, transport, stream, client, history>>

Idle == [phase |-> "idle", wrote |-> FALSE]

Listening(p) == listener[p] \in {"listening", "up"}

Missing(changes) ==
    [stream EXCEPT !.missed = @ \cup (changes \cap CallChanges)]

\* What PostgreSQL does at COMMIT: the change, its notifications, the lock.
Committed(p) ==
    /\ txn[p].phase = "working" /\ txn[p].wrote
    /\ version' = version + 1
    /\ chain' = [q \in Replicas |->
         IF q # p /\ Listening(q)
         THEN Append(chain[q], version + 1) ELSE chain[q]]
    /\ stream' = IF \A q \in stream.at : q = p \/ Listening(q)
                 THEN stream ELSE Missing({version + 1})
    /\ txn' = [txn EXCEPT ![p] = Idle]

Commit(p) ==
    /\ Committed(p)
    /\ publishing' = [publishing EXCEPT ![p] = Append(@, version + 1)]
    /\ UNCHANGED <<listener, before, client, history>>

\* The request is answered with an error and no callback runs.
CommitUnanswered(p) ==
    /\ Committed(p)
    /\ Fault("answer")
    /\ deaf' = deaf \cup {p}
    /\ UNCHANGED <<publishing, listener, before, client>>

Rollback(p) ==
    /\ txn[p].phase = "working"
    /\ PlainFault("rollback")
    /\ txn' = [txn EXCEPT ![p] = Idle]
    /\ UNCHANGED <<version, publishing, transport, stream, client>>

\* A request that changes nothing.
CommitNothing(p) ==
    /\ txn[p].phase = "working" /\ ~txn[p].wrote
    /\ txn' = [txn EXCEPT ![p] = Idle]
    /\ UNCHANGED <<version, publishing, transport, stream, client, history>>

\* The callbacks of a commit.  The lock is free by then, so another replica
\* may commit and deliver first.
AfterCommit(p) ==
    /\ publishing[p] # << >>
    /\ Publish(p, Head(publishing[p]))
    /\ publishing' = [publishing EXCEPT ![p] = Tail(@)]
    /\ UNCHANGED <<version, txn, transport, stream, history>>

----------------------------------------------------------------------------
(* The listener of a replica                                                *)

\* start() up to LISTEN, which works.
Listen(p) ==
    /\ listener[p] = "down"
    /\ listener' = [listener EXCEPT ![p] = "listening"]
    /\ UNCHANGED <<version, txn, publishing, before, chain, stream, client,
                   history>>

\* A boot whose LISTEN is held up goes on without: the server takes streams,
\* and the timer of reconnect() tries again.
ListenFails(p) ==
    /\ listener[p] = "down" /\ ~before[p]
    /\ Fault("boot")
    /\ deaf' = deaf \cup {p}
    /\ listener' = [listener EXCEPT ![p] = "retrying"]
    /\ UNCHANGED <<version, txn, publishing, before, chain, stream, client>>

\* The process serves no stream before its first start() returned.
Serving(p) == before[p] \/ listener[p] = "retrying"

\* A process that retries hears of nothing until LISTEN works.
ListenAgain(p) ==
    /\ listener[p] = "retrying"
    /\ listener' = [listener EXCEPT ![p] = "listening"]
    /\ UNCHANGED <<version, txn, publishing, before, chain, stream, client,
                   history>>

\* The rest of start(): after an outage every resource is refreshed but the
\* calls, of which a hint without its order would tell who has one.
Refresh(p) ==
    /\ listener[p] = "listening"
    /\ listener' = [listener EXCEPT ![p] = "up"]
    /\ client' = IF before[p] /\ Open(p)
                 THEN Told(client, Resources \ {"calls"}) ELSE client
    /\ before' = [before EXCEPT ![p] = TRUE]
    /\ UNCHANGED <<version, txn, publishing, chain, stream, history>>

RefreshFails(p) ==
    /\ listener[p] = "listening" /\ before[p]
    /\ PlainFault("read")
    /\ listener' = [listener EXCEPT ![p] = "down"]
    /\ UNCHANGED <<version, txn, publishing, before, chain, stream, client>>

\* The connection ends; pointers that had not arrived yet are gone.
LoseListener(p) ==
    /\ Listening(p) /\ before[p]
    /\ PlainFault("listener")
    /\ listener' = [listener EXCEPT ![p] = "down"]
    /\ \E k \in 0..Len(chain[p]) :
          /\ chain' = [chain EXCEPT ![p] = SubSeq(@, 1, k)]
          /\ stream' = IF p \notin stream.at THEN stream
                       ELSE Missing({chain[p][i] : i \in (k+1)..Len(chain[p])})
    /\ UNCHANGED <<version, txn, publishing, before, client>>

\* receive(): the pointer is read against the committed state.
Deliver(p) ==
    /\ chain[p] # << >>
    /\ Publish(p, Head(chain[p]))
    /\ chain' = [chain EXCEPT ![p] = Tail(@)]
    /\ UNCHANGED <<version, txn, publishing, listener, before, stream,
                   history>>

\* A pointer that cannot be read is skipped (a mutant).
DeliverSkips(p) ==
    /\ chain[p] # << >> /\ Open(p)
    /\ PlainFault("read")
    /\ chain' = [chain EXCEPT ![p] = Tail(@)]
    /\ UNCHANGED <<version, txn, publishing, listener, before, stream, client>>

\* A pointer that cannot be read is never replayed: the listener is dropped,
\* so that its recovery refreshes what may be refreshed.
DeliverFails(p) ==
    /\ chain[p] # << >> /\ Open(p)
    /\ PlainFault("read")
    /\ chain' = [chain EXCEPT ![p] = Tail(@)]
    /\ stream' = Missing({Head(chain[p])})
    /\ listener' = [listener EXCEPT ![p] = "down"]
    /\ UNCHANGED <<version, txn, publishing, before, client>>

----------------------------------------------------------------------------
(* The client's stream                                                      *)

\* GET /notifications/stream reads the inbox in a snapshot of its own, without
\* the domain lock ...
OpenStream(p) ==
    /\ stream.phase = "off"
    /\ Serving(p)
    /\ stream' = [phase |-> "loading", at |-> {p}, loaded |-> version,
                 missed |-> {}]
    /\ UNCHANGED <<version, txn, publishing, transport, client, history>>

\* ... subscribes, and replays the rows it read after the client's cursor.
\* The client reads everything again once the stream is there.
Subscribe ==
    /\ stream.phase = "loading"
    /\ stream' = [stream EXCEPT !.phase = "open", !.missed = {}]
    /\ client' = Told([client EXCEPT
         !.shown = @ \cup ((client.cursor + 1)..stream.loaded),
         !.cursor = IF stream.loaded > @ THEN stream.loaded ELSE @],
         Resources)
    /\ UNCHANGED <<version, txn, publishing, transport, history>>

CloseStream ==
    /\ stream.phase # "off"
    /\ PlainFault("stream")
    /\ stream' = Closed
    /\ UNCHANGED <<version, txn, publishing, transport, client>>

\* The client reads the current state of a resource.
Refetch(r) ==
    /\ r \in client.told
    /\ client' = [client EXCEPT
         !.read = @ \cup {n \in 1..version : Resource(n) = r},
         !.told = @ \ {r}]
    /\ UNCHANGED <<version, txn, publishing, transport, stream, history>>

\* A process dies with its transaction, callbacks, pointers and streams.
Crash(p) ==
    /\ Fault("crash")
    /\ deaf' = deaf \ {p}
    /\ txn' = [txn EXCEPT ![p] = Idle]
    /\ publishing' = [publishing EXCEPT ![p] = << >>]
    /\ listener' = [listener EXCEPT ![p] = "down"]
    /\ before' = [before EXCEPT ![p] = FALSE]
    /\ chain' = [chain EXCEPT ![p] = << >>]
    /\ stream' = IF p \in stream.at THEN Closed ELSE stream
    /\ UNCHANGED <<version, client>>

\* What a process does by itself, or the client without a choice.
Progress(p) ==
    \/ CommitNothing(p)
    \/ Commit(p)
    \/ AfterCommit(p)
    \/ Listen(p)
    \/ ListenAgain(p)
    \/ Refresh(p)
    \/ Deliver(p)
    \/ OpenStream(p)

RTNext ==
    \/ \E p \in Replicas :
          \/ Progress(p)
          \/ Begin(p)
          \/ Save(p)
          \/ CommitUnanswered(p)
          \/ Rollback(p)
          \/ ListenFails(p)
          \/ RefreshFails(p)
          \/ LoseListener(p)
          \/ DeliverFails(p)
          \/ Crash(p)
    \/ Subscribe
    \/ \E r \in Resources : Refetch(r)
    \/ CloseStream

RTSpec == RTInit /\ [][RTNext]_rtVars

\* Callbacks run, listeners retry every second, pointers are delivered, the
\* client's reads and reconnections are answered.
RTFairSpec ==
    /\ RTSpec
    /\ \A p \in Replicas :
         /\ WF_rtVars(AfterCommit(p))
         /\ WF_rtVars(Listen(p))
         /\ WF_rtVars(ListenAgain(p))
         /\ WF_rtVars(Refresh(p))
         /\ WF_rtVars(Deliver(p))
         /\ WF_rtVars(OpenStream(p))
    /\ WF_rtVars(Subscribe)
    /\ \A r \in Resources : WF_rtVars(Refetch(r))

----------------------------------------------------------------------------
(* Properties                                                               *)

Txn == [phase : {"idle", "working"}, wrote : BOOLEAN]

\* Every variable keeps its type; a stream is somewhere unless it is off.
RTTypeOK ==
    /\ version \in 0..MaxVersion /\ faults \in 0..MaxFaults
    /\ deaf \subseteq Replicas
    /\ txn \in [Replicas -> Txn]
    /\ publishing \in [Replicas -> Seq(1..MaxVersion)]
    /\ chain \in [Replicas -> Seq(1..MaxVersion)]
    /\ listener \in [Replicas -> {"down", "retrying", "listening", "up"}]
    /\ before \in [Replicas -> BOOLEAN]
    /\ stream \in [phase : Phases, at : SUBSET Replicas,
                   loaded : 0..MaxVersion, missed : SUBSET CallChanges]
    /\ Cardinality(stream.at) = IF stream.phase = "off" THEN 0 ELSE 1
    /\ client \in [read : SUBSET (1..MaxVersion), told : SUBSET Resources,
                   shown : SUBSET (1..MaxVersion), cursor : 0..MaxVersion]

\* "NOTIFY is commit-only": no stream shows a change that is not committed,
\* and may then never be.
OnlyCommittedIsShown ==
    /\ client.shown \subseteq 1..version
    /\ client.cursor <= version

\* A client whose stream stays open comes to see every change that commits,
\* whichever replica made it, whatever listener was lost and whatever read
\* failed on the way - unless its replica never had a listener to recover, or
\* lost the answer of a commit of its own, or the change is of a call and its
\* pointer was lost: that one the recovered listener does not make up for, and
\* the app's polling has to.
ServedStreamsCatchUp ==
    \A n \in 1..MaxVersion :
        LET Excused == \/ stream.phase # "open"
                       \/ stream.at \cap deaf # {}
                       \/ n \in stream.missed IN
        version >= n /\ ~Excused ~> n \in client.read \/ Excused

=============================================================================
