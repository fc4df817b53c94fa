---------------------------- MODULE UsageEvents ----------------------------
(***************************************************************************)
(* Usage events and the Postgres pool: the bounded UsageEventQueue the      *)
(* middleware fills, the drain loop that flushes it in batches, the watcher *)
(* that replaces a dead pool and the drain loop with it, and the shutdown   *)
(* of lifespan, which cancels both.  One process life; all of it runs on    *)
(* one event loop, so a stretch between two awaits is one action.           *)
(*                                                                          *)
(* The pools of a process life are numbered in the order of their making;   *)
(* a drain loop is known by the pool it was started with.                   *)
(***************************************************************************)
EXTENDS Integers, Sequences, FiniteSets

CONSTANTS Events,       \* the usage events of a process life
          Cap,          \* UsageEventQueue._MAX
          BatchMax,     \* BATCH_MAX
          MaxPools,     \* bound: pools made in a process life
          MaxOutages    \* bound: outages of Postgres

ASSUME UsageAssumption ==
    /\ Cap \in Nat \ {0} /\ BatchMax \in Nat \ {0}
    /\ MaxPools \in Nat /\ MaxOutages \in Nat /\ MaxOutages < MaxPools

VARIABLES
    postgres,   \* "up" or "down"
    outages,
    pools,      \* what each pool is; "closed" is seen by the next acquire
    poolGlobal, \* db._pool, 0 for None
    appPool,    \* app.state.db_pool, 0 for None
    appDrainer, \* app.state.usage_drainer, 0 for None
    watcher,    \* the await db_watcher_loop stands at
    drainer,    \* the await each drain loop stands at
    batch,      \* its batch
    queue,      \* UsageEventQueue._q
    offered,    \* events the middleware has offered
    rows,       \* wispralt.usage_events: how often each event is there
    phase       \* the stage lifespan's shutdown has reached

poolVars  == <<postgres, outages, pools, poolGlobal, appPool>>
drainVars == <<drainer, batch, queue, offered, rows>>
vars == <<poolVars, appDrainer, watcher, drainVars, phase>>

-----------------------------------------------------------------------------
Pools == 1..MaxPools

\* Where a drain loop that is not over can stand: in wait_for, in wait_for with
\* the event already handed to it, in a flush, in the flushes after a cancel.
Running == {"waiting", "handed", "flushing", "final"}

TypeOK ==
    /\ postgres \in {"up", "down"} /\ outages \in 0..MaxOutages
    /\ pools \in [Pools -> {"unmade", "open", "broken", "closed"}]
    /\ poolGlobal \in 0..MaxPools /\ appPool \in 0..MaxPools
    /\ appDrainer \in 0..MaxPools
    /\ watcher \in {"asleep", "closing", "creating", "awaiting", "over"}
    /\ drainer \in [Pools -> {"none", "over"} \cup Running]
    /\ batch \in [Pools -> Seq(Events)]
    /\ \A p \in Pools : Len(batch[p]) <= BatchMax
    /\ queue \in Seq(Events) /\ Len(queue) <= Cap
    /\ offered \subseteq Events
    /\ rows \in [Events -> Nat]
    /\ phase \in {"live", "watcher", "drainer", "pool", "stopped", "killed"}

\* Startup with Postgres unavailable; with a pool and a drain loop; or with the
\* pool made and published when seeding the admin row fails, before the loop
\* is started.
Init ==
    /\ outages = 0
    /\ \/ /\ postgres = "down" /\ poolGlobal = 0 /\ appDrainer = 0
       \/ /\ postgres = "up" /\ poolGlobal = 1 /\ appDrainer \in {0, 1}
    /\ appPool = poolGlobal
    /\ pools = [p \in Pools |-> IF p = poolGlobal THEN "open" ELSE "unmade"]
    /\ drainer = [p \in Pools |-> IF p = appDrainer THEN "waiting" ELSE "none"]
    /\ watcher = "asleep"
    /\ batch = [p \in Pools |-> <<>>]
    /\ queue = <<>> /\ offered = {}
    /\ rows = [e \in Events |-> 0]
    /\ phase = "live"

-----------------------------------------------------------------------------
\* Postgres goes away; connections of the pool may or may not survive it.
PostgresFails ==
    /\ outages < MaxOutages
    /\ postgres = "up"
    /\ postgres' = "down"
    /\ outages' = outages + 1
    /\ \E hit \in BOOLEAN :
          pools' = [p \in Pools |-> IF hit /\ pools[p] = "open" THEN "broken"
                                    ELSE pools[p]]
    /\ UNCHANGED <<poolGlobal, appPool, appDrainer, watcher, drainVars, phase>>

PostgresReturns ==
    /\ postgres = "down"
    /\ postgres' = "up"
    /\ UNCHANGED <<outages, pools, poolGlobal, appPool, appDrainer, watcher,
                   drainVars, phase>>

\* A full queue drops its oldest.
Room == IF Len(queue) = Cap THEN Tail(queue) ELSE queue

\* The middleware offers the event of a tracked request.  Requests are
\* over when lifespan's shutdown begins.
Offer(e) ==
    /\ phase = "live"
    /\ e \notin offered
    /\ offered' = offered \cup {e}
    /\ queue' = Append(Room, e)
    /\ UNCHANGED <<poolVars, appDrainer, watcher, drainer, batch, rows, phase>>

-----------------------------------------------------------------------------
\* drain_one hands the oldest event to wait_for; the loop wakes a turn later.
Take(p) ==
    /\ drainer[p] = "waiting"
    /\ queue # <<>> /\ Len(batch[p]) < BatchMax
    /\ batch' = [batch EXCEPT ![p] = Append(@, Head(queue))]
    /\ queue' = Tail(queue)
    /\ drainer' = [drainer EXCEPT ![p] = "handed"]
    /\ UNCHANGED <<poolVars, appDrainer, watcher, offered, rows, phase>>

Wake(p) ==
    /\ drainer[p] = "handed"
    /\ drainer' = [drainer EXCEPT ![p] = "waiting"]
    /\ UNCHANGED <<poolVars, appDrainer, watcher, batch, queue, offered, rows, phase>>

\* The batch is full or the second is over: _flush.  A closed pool raises at
\* once and the batch is dropped.
BeginFlush(p) ==
    /\ drainer[p] = "waiting" /\ batch[p] # <<>>
    /\ IF pools[p] = "closed"
       THEN /\ batch' = [batch EXCEPT ![p] = <<>>]
            /\ UNCHANGED drainer
       ELSE /\ drainer' = [drainer EXCEPT ![p] = "flushing"]
            /\ UNCHANGED batch
    /\ UNCHANGED <<poolVars, appDrainer, watcher, queue, offered, rows, phase>>

\* The transaction commits, or it does not.
Inserts(b) ==
    \/ rows' = [e \in Events |-> rows[e] + Cardinality({k \in DOMAIN b : b[k] = e})]
    \/ UNCHANGED rows

\* A slip for a mutant: a batch whose flush raised is kept for the next.
KeptFor(b, committed) == IF committed THEN <<>> ELSE b

\* What remains of a batch after its flush, committed or raised.
Remains(b, committed) == <<>>

\* A slip for a mutant: an error of the flush leaves the loop.
AfterFlushUncaught(committed) == IF committed THEN "waiting" ELSE "over"

\* Where the loop stands after a flush, committed or raised.
AfterFlush(committed) == "waiting"

\* The flush ends.  An error may come after the commit.
EndFlush(p) ==
    /\ drainer[p] = "flushing"
    /\ Inserts(batch[p])
    /\ \E heard \in BOOLEAN :
          /\ heard => rows' # rows
          /\ batch' = [batch EXCEPT ![p] = Remains(@, heard)]
          /\ drainer' = [drainer EXCEPT ![p] = AfterFlush(heard)]
    /\ UNCHANGED <<poolVars, appDrainer, watcher, queue, offered, phase>>

\* get_nowait until the batch is full or the queue is empty.
Gathers(b) ==
    LET n == IF Len(queue) < BatchMax - Len(b) THEN Len(queue) ELSE BatchMax - Len(b)
    IN  <<b \o SubSeq(queue, 1, n), SubSeq(queue, n + 1, Len(queue))>>

\* The except branch for a cancellation: batch after batch, then it is raised.
FinalFlush(p) ==
    /\ drainer[p] = "final"
    /\ LET got == Gathers(batch[p]) IN
          /\ Inserts(got[1])
          /\ queue' = got[2]
          /\ drainer' = [drainer EXCEPT ![p] = IF Len(got[1]) = BatchMax THEN "final"
                                               ELSE "over"]
    /\ pools[p] = "closed" => rows' = rows
    /\ batch' = [batch EXCEPT ![p] = <<>>]
    /\ UNCHANGED <<poolVars, appDrainer, watcher, offered, phase>>

\* Task.cancel on a drain loop: in wait_for it is raised; with the event in
\* hand, wait_for of Python 3.11 returns the event instead.  In a flush the
\* cancellation unwinds the transaction, if it is not committed yet, and ends the
\* loop, its batch gone and the queue left as it is; when the rollback raises, that error takes the
\* cancellation's place, is logged, and the loop goes on.
CancelDrainer(p) ==
    \/ /\ drainer[p] = "waiting"
       /\ drainer' = [drainer EXCEPT ![p] = "final"]
       /\ UNCHANGED <<batch, rows>>
    \/ /\ drainer[p] \in {"handed", "final", "over"}
       /\ UNCHANGED <<drainer, batch, rows>>
    \/ /\ drainer[p] = "flushing"
       /\ \E raised \in BOOLEAN :
             /\ raised => postgres = "down" \/ pools[p] # "open"
             /\ drainer' = [drainer EXCEPT ![p] = IF raised THEN "waiting" ELSE "over"]
       /\ batch' = [batch EXCEPT ![p] = <<>>]
       /\ Inserts(batch[p])

-----------------------------------------------------------------------------
Serving == appPool # 0 /\ pools[appPool] = "open"

\* A slip for a mutant: the probe takes "pool is closed" for an error of its own.
UnhealthyNarrowly == IF appPool = 0 THEN TRUE
                     ELSE pools[appPool] = "open" /\ postgres = "down"

Unhealthy == postgres = "down" \/ ~Serving

\* The ten seconds are over and SELECT 1 fails: recreate_pool closes what
\* there is.  From here on acquire raises.
ProbeFails ==
    /\ watcher = "asleep"
    /\ Unhealthy
    /\ watcher' = IF poolGlobal = 0 THEN "creating" ELSE "closing"
    /\ pools' = [p \in Pools |-> IF p = poolGlobal THEN "closed" ELSE pools[p]]
    /\ UNCHANGED <<postgres, outages, poolGlobal, appPool, appDrainer,
                   drainVars, phase>>

\* close returns when every connection has been given back.
OldClosed ==
    /\ watcher = "closing"
    /\ drainer[poolGlobal] # "flushing"
    /\ poolGlobal' = 0
    /\ watcher' = "creating"
    /\ UNCHANGED <<postgres, outages, pools, appPool, appDrainer, drainVars, phase>>

\* create_pool raises: app.state keeps what it had, until the next probe.
CreateFails ==
    /\ watcher = "creating" /\ postgres = "down"
    /\ watcher' = "asleep"
    /\ UNCHANGED <<poolVars, appDrainer, drainVars, phase>>

\* A drain loop starts with pool p.
StartDrainer(p) ==
    /\ drainer' = [drainer EXCEPT ![p] = "waiting"]
    /\ appDrainer' = p

\* There is an old loop to be cancelled and awaited.
Replaces == appDrainer # 0 /\ drainer[appDrainer] # "over"

\* create_pool returns: the pool is published and the old drain loop, if there
\* is one that is not over, cancelled and awaited.
Created(p) ==
    /\ watcher = "creating" /\ postgres = "up"
    /\ pools[p] = "unmade" /\ \A q \in 1..(p - 1) : pools[q] # "unmade"
    /\ pools' = [pools EXCEPT ![p] = "open"]
    /\ poolGlobal' = p
    /\ appPool' = p
    /\ IF Replaces
       THEN /\ CancelDrainer(appDrainer)
            /\ watcher' = "awaiting"
            /\ UNCHANGED appDrainer
       ELSE /\ StartDrainer(p)
            /\ watcher' = "asleep"
            /\ UNCHANGED <<batch, rows>>
    /\ UNCHANGED <<postgres, outages, queue, offered, phase>>

\* The old loop is over: the new one starts.
Awaited ==
    /\ watcher = "awaiting"
    /\ drainer[appDrainer] = "over"
    /\ StartDrainer(poolGlobal)
    /\ watcher' = IF phase = "live" THEN "asleep" ELSE "over"
    /\ UNCHANGED <<poolVars, batch, queue, offered, rows, phase>>

-----------------------------------------------------------------------------
\* SIGTERM; lifespan cancels the watcher.  Awaiting the old loop it passes the
\* cancellation on, suppresses it, and ends at the head of its loop.
BeginShutdown ==
    /\ phase = "live"
    /\ phase' = "watcher"
    /\ IF watcher = "awaiting"
       THEN /\ CancelDrainer(appDrainer)
            /\ UNCHANGED watcher
       ELSE /\ watcher' = "over"
            /\ UNCHANGED <<drainer, batch, rows>>
    /\ UNCHANGED <<poolVars, appDrainer, queue, offered>>

\* The watcher is over; lifespan cancels the drain loop.
ShutDrainer ==
    /\ phase = "watcher" /\ watcher = "over"
    /\ phase' = "drainer"
    /\ IF appDrainer # 0 THEN CancelDrainer(appDrainer)
       ELSE UNCHANGED <<drainer, batch, rows>>
    /\ UNCHANGED <<poolVars, appDrainer, watcher, queue, offered>>

\* The drain loop is over; close_pool ends the shutdown.
ShutPool ==
    /\ phase = "drainer"
    /\ appDrainer # 0 => drainer[appDrainer] = "over"
    /\ phase' = "stopped"
    /\ pools' = [p \in Pools |-> IF p = poolGlobal THEN "closed" ELSE pools[p]]
    /\ poolGlobal' = 0
    /\ UNCHANGED <<postgres, outages, appPool, appDrainer, watcher, drainVars>>

\* launchd's ExitTimeOut: SIGKILL fifteen seconds after SIGTERM.
Kill ==
    /\ phase \in {"watcher", "drainer"}
    /\ phase' = "killed"
    /\ UNCHANGED <<poolVars, appDrainer, watcher, drainVars>>

-----------------------------------------------------------------------------
Alive == phase \notin {"stopped", "killed"}

Drain(p) == Take(p) \/ Wake(p) \/ BeginFlush(p) \/ EndFlush(p) \/ FinalFlush(p)

Rebuild == OldClosed \/ CreateFails \/ (\E p \in Pools : Created(p)) \/ Awaited

Next ==
    /\ Alive
    /\ \/ PostgresFails \/ PostgresReturns
       \/ \E e \in Events : Offer(e)
       \/ \E p \in Pools : Drain(p)
       \/ ProbeFails \/ Rebuild
       \/ BeginShutdown \/ ShutDrainer \/ ShutPool \/ Kill

\* Outages end, the loop runs what is ready, flushes end (command_timeout), and
\* the ten seconds between two probes pass.
Fairness ==
    /\ WF_vars(Alive /\ PostgresReturns)
    /\ WF_vars(Alive /\ ProbeFails)
    /\ WF_vars(Alive /\ Rebuild)
    /\ \A p \in Pools : WF_vars(Alive /\ Drain(p))

Spec == Init /\ [][Next]_vars
FairSpec == Spec /\ Fairness

-----------------------------------------------------------------------------
\* No event is stored twice, also when a flush raises after its commit, the
\* drain loop is cancelled in a flush, or replaced with events in its hands.
SavedOnce == \A e \in Events : rows[e] <= 1

\* At most one drain loop runs: it has the queue to itself.
OneDrainer == Cardinality({p \in Pools : drainer[p] \in Running}) <= 1

\* The docstring of drain_loop: a shutdown that is not cut off leaves no event
\* behind, the cancellation flushes what is queued.
FlushedAtStop ==
    [][phase = "drainer" /\ phase' = "stopped" /\ appDrainer # 0
          => queue = <<>>]_vars

\* When the watcher is not held up by the loop it replaces, a pool that does not
\* serve is replaced once Postgres is back (without the watcher an outage at
\* startup, or one that breaks the pool, answers 503 for ever).
PoolReturns ==
    []<>(watcher # "awaiting") => (~Serving ~> Serving \/ phase # "live")

\* The docstring of db_watcher_loop: it probes the pool every interval_s.
WatcherGoesOn == watcher = "awaiting" ~> watcher # "awaiting"

\* Once a drain loop has been started an event leaves the queue, whatever
\* becomes of pools, loops and Postgres.
QueueMoves ==
    \A e \in Events :
       appDrainer # 0 /\ (\E k \in DOMAIN queue : queue[k] = e)
          ~> (\A k \in DOMAIN queue : queue[k] # e) \/ phase # "live"
=============================================================================
