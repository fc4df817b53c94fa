--------------------------- MODULE WeeklyInsights ---------------------------
(***************************************************************************)
(* The weekly insights: run_weekly_insights with its lock, its budget and   *)
(* its two passes, the cron task of the server with its catch-up at startup,*)
(* the admin's "run now", and `python -m wispralt_server.insights.cron`     *)
(* while the server is off (it takes no lock and counts on being alone).    *)
(*                                                                          *)
(* Time is the ISO week in progress and the part of it: "early" is its      *)
(* first 72 hours, "late" the days up to Sunday 23:00, "over" the last hour.*)
(* Transcripts, prompts and digests are left out: whether a Quiet person has *)
(* enough of them, and what the model answers, is left to chance.           *)
(***************************************************************************)
EXTENDS Integers, Sequences, FiniteSets, Functions

CONSTANTS Users,        \* wispralt.users without a revocation
          Quiet,        \* of them, those who may dictate too little in a week
          NoUser,
          Budget,       \* insights_max_30d_cost_usd
          Costs,        \* what an answer can cost
          Window,       \* the 30 days of the budget, in weeks
          Catchup,      \* insights_catchup_enabled
          MaxWeek,      \* bound: weeks
          MaxBoots,     \* bound: restarts of the server
          MaxByHand     \* bound: clicks on "Run insights now" and scripts

ASSUME InsightsAssumption ==
    /\ NoUser \notin Users /\ IsFiniteSet(Users) /\ Quiet \subseteq Users
    /\ Budget \in Nat
    /\ Costs \subseteq Nat /\ \E c \in Costs \ {0} : \A d \in Costs : d <= c
    /\ Window \in Nat \ {0}
    /\ Catchup \in BOOLEAN
    /\ MaxWeek \in Nat \ {0} /\ MaxBoots \in Nat /\ MaxByHand \in Nat

VARIABLES
    now, day,    \* the clock
    srv,         \* "up" or "off"
    boots,
    bootAt,      \* when the server last started
    cron,        \* where _weekly_insights_cron stands
    nextFire,    \* the week whose Sunday it sleeps to
    spawned,     \* tasks of the admin's clicks that have not run yet
    byHand,      \* clicks and runs of the script so far
    run,         \* the run of the cron task (or of the script), of a click
    runs,        \* how many runs there have been
    tried,       \* weeks a run was made for
    person,      \* weekly_insights, scope 'person': one row per key
    team         \* scope 'team': the rows of a week, oldest first

clock == <<now, day>>
table == <<person, team>>
life  == <<srv, boots, bootAt>>
vars == <<clock, life, cron, nextFire, spawned, byHand, run, runs, tried,
          table>>

-----------------------------------------------------------------------------
Weeks  == 0..MaxWeek
Slots  == {"cron", "admin"}
Free   == [pc |-> "none"]
NoRun  == [s \in Slots |-> Free]
NoRow  == [cost |-> 0, at |-> 0, run |-> 0]
Row    == [cost : Costs, at : Weeks, run : Nat \ {0}]

Run == [pc : {"fetch", "next", "asking", "team", "retry"},
        by : {"cron", "admin", "script"}, force : BOOLEAN, week : Weeks,
        id : Nat \ {0}, todo : SUBSET Users, user : Users \cup {NoUser},
        base : Nat, acc : Nat, digests : BOOLEAN]

TypeOK ==
    /\ now \in 1..MaxWeek /\ day \in {"early", "late", "over"}
    /\ srv \in {"up", "off"} /\ boots \in 0..MaxBoots
    /\ bootAt \in (1..MaxWeek) \X {"early", "late", "over"}
    /\ cron \in {"starting", "asleep", "running", "none"}
    /\ nextFire \in 1..MaxWeek + 1
    /\ spawned \in Seq(Weeks)
    /\ byHand \in 0..MaxByHand
    /\ run \in [Slots -> Run \cup {Free}]
    /\ runs \in Nat /\ tried \subseteq Weeks
    /\ person \in [Weeks -> [Users -> Row \cup {NoRow}]]
    /\ team \in [Weeks -> Seq(Row)]

Init ==
    /\ now = 1 /\ day = "early"
    /\ srv = "up" /\ boots = 0 /\ bootAt = <<1, "early">>
    /\ cron = "starting" /\ nextFire = 1
    /\ spawned = <<>> /\ byHand = 0
    /\ run = NoRun
    /\ runs = 0 /\ tried = {}
    /\ person = [w \in Weeks |-> [u \in Users |-> NoRow]]
    /\ team = [w \in Weeks |-> <<>>]

-----------------------------------------------------------------------------
\* last_full_iso_week.
LastFullWeek == now - 1

\* _seconds_until_next_fire, as the week whose Sunday 23:00 it ends in.
UpcomingFire == IF day = "over" THEN now + 1 ELSE now

\* rolling_insights_cost_usd: what the rows of the window say they cost.
Recent(row) == IF row.at > now - Window THEN row.cost ELSE 0
PersonCosts == [k \in Weeks \X Users |-> Recent(person[k[1]][k[2]])]
TeamCosts == [k \in UNION {{w} \X DOMAIN team[w] : w \in Weeks} |->
                Recent(team[k[1]][k[2]])]
Spent == SumFunction(PersonCosts) + SumFunction(TeamCosts)

\* get_weekly_insight_person and has_any_insight_for_week.
HasRow(w, u) == person[w][u] # NoRow
HasAny(w) == team[w] # <<>> \/ \E u \in Users : HasRow(w, u)

\* A slip for a mutant: the cost is not written.
PersonWithoutCost(w, u, row) ==
    person' = [person EXCEPT ![w][u] = [row EXCEPT !.cost = 0]]

\* upsert_weekly_insight: the key of a team row holds a NULL, which is never
\* in conflict, so a team row is always a new one.
PersonUpserted(w, u, row) == person' = [person EXCEPT ![w][u] = row]

TeamUpserted(w, row) == team' = [team EXCEPT ![w] = Append(@, row)]

-----------------------------------------------------------------------------
\* lock.locked() is FALSE; the lock is taken before anything else runs.
LockFree == run = NoRun

\* A run may go on into the next week; it does not last for days, nor does the
\* start of the server.
Tick ==
    \/ /\ day # "over"
       /\ LockFree /\ cron # "starting"
       /\ day' = IF day = "early" THEN "late" ELSE "over"
       /\ UNCHANGED now
    \/ /\ day = "over" /\ now < MaxWeek
       /\ now' = now + 1 /\ day' = "early"

ClockTicks ==
    /\ Tick
    /\ UNCHANGED <<life, cron, nextFire, spawned, byHand, run, runs, tried,
                   table>>

\* The process ends, by a crash or by a shutdown: the cron task is cancelled
\* and tasks of the admin's clicks go with the loop.
Stop ==
    /\ srv = "up"
    /\ srv' = "off" /\ cron' = "none" /\ spawned' = <<>>
    /\ run' = NoRun
    /\ UNCHANGED <<clock, boots, bootAt, nextFire, byHand, runs, tried,
                   table>>

Boot ==
    /\ srv = "off" /\ LockFree /\ boots < MaxBoots
    /\ srv' = "up" /\ boots' = boots + 1 /\ bootAt' = <<now, day>>
    /\ cron' = "starting"
    /\ UNCHANGED <<clock, nextFire, spawned, byHand, run, runs, tried,
                   table>>

-----------------------------------------------------------------------------
\* The budget gate of a run.
OverBudget == Spent > Budget

\* The caller of a run of the server goes on: the cron task computes its next
\* fire and sleeps; a click's task is over.
Returns(by) ==
    IF by = "cron"
    THEN cron' = "asleep" /\ nextFire' = UpcomingFire
    ELSE UNCHANGED <<cron, nextFire>>

\* _run_weekly_insights_inner up to its first await.  It may also find that
\* there is no pool.
Begins(by, week, force) ==
    \/ /\ ~OverBudget
       /\ run' = [run EXCEPT ![IF by = "admin" THEN by ELSE "cron"] =
             [pc |-> "fetch", by |-> by, force |-> force, week |-> week,
              id |-> runs + 1, todo |-> {}, user |-> NoUser, base |-> 0,
              acc |-> 0, digests |-> FALSE]]
       /\ runs' = runs + 1
       /\ tried' = tried \cup {week}
       /\ IF by = "cron" THEN cron' = "running" /\ UNCHANGED nextFire
                         ELSE UNCHANGED <<cron, nextFire>>
    \/ /\ Returns(by)
       /\ UNCHANGED <<run, runs, tried>>

\* run_weekly_insights of the server.
RunUnderLock(by, week, force) ==
    \/ /\ LockFree
       /\ Begins(by, week, force)
    \/ /\ ~LockFree
       /\ Returns(by)
       /\ UNCHANGED <<run, runs, tried>>

\* _maybe_catchup at startup.
MissedLastWeek == Catchup /\ day = "early" /\ ~HasAny(LastFullWeek)

CatchUp ==
    /\ srv = "up" /\ cron = "starting"
    /\ \/ /\ MissedLastWeek
          /\ RunUnderLock("cron", LastFullWeek, FALSE)
       \/ /\ ~MissedLastWeek
          /\ Returns("cron")
          /\ UNCHANGED <<run, runs, tried>>
    /\ UNCHANGED <<clock, life, spawned, byHand, table>>

\* Sunday 23:00.
Fire ==
    /\ srv = "up" /\ cron = "asleep"
    /\ UpcomingFire > nextFire
    /\ RunUnderLock("cron", LastFullWeek, FALSE)
    /\ UNCHANGED <<clock, life, spawned, byHand, table>>

\* POST /admin/data/insights/run-now: the week is fixed here, the task runs
\* later.
Click ==
    /\ srv = "up" /\ byHand < MaxByHand
    /\ ~OverBudget /\ LockFree
    /\ spawned' = Append(spawned, LastFullWeek)
    /\ byHand' = byHand + 1
    /\ UNCHANGED <<clock, life, cron, nextFire, run, runs, tried,
                   table>>

ClickRuns ==
    /\ spawned # <<>>
    /\ RunUnderLock("admin", Head(spawned), TRUE)
    /\ spawned' = Tail(spawned)
    /\ UNCHANGED <<clock, life, byHand, table>>

\* `--manual`, with or without `--week`.
Script ==
    /\ srv = "off" /\ LockFree
    /\ byHand < MaxByHand
    /\ byHand' = byHand + 1
    /\ \E w \in 0..LastFullWeek : Begins("script", w, FALSE)
    /\ UNCHANGED <<clock, life, spawned, table>>

-----------------------------------------------------------------------------
Runs(s, pc) == run[s].pc = pc

\* A slip for a mutant: an exception of a run ends the cron task.
FailsForGood(s) ==
    /\ run' = [run EXCEPT ![s] = Free]
    /\ IF run[s].by = "cron" THEN cron' = "running" /\ UNCHANGED nextFire
                             ELSE UNCHANGED <<cron, nextFire>>

\* An exception leaves run_weekly_insights, and the lock: the cron task logs
\* it and goes on.
Fails(s) ==
    /\ run' = [run EXCEPT ![s] = Free]
    /\ Returns(run[s].by)

Ends(s) ==
    /\ run' = [run EXCEPT ![s] = Free]
    /\ Returns(run[s].by)

\* The users, and the spending the loop starts from.
Fetch(s) ==
    /\ Runs(s, "fetch")
    /\ \/ /\ run' = [run EXCEPT ![s].pc = "next", ![s].todo = Users,
                                ![s].base = Spent]
          /\ UNCHANGED <<cron, nextFire>>
       \/ Fails(s)
    /\ UNCHANGED <<clock, life, spawned, byHand, runs, tried, table>>

\* A slip for a mutant: the money spent in this run is not looked at.
CapHitAtStart(r) == r.base >= Budget

\* The check between users: what was spent before the run and in it.
CapHit(r) == r.base + r.acc >= Budget

\* A slip for a mutant: a person with a row is summarised again.
SkipsNobody(r, u) == FALSE

\* A person with a row of the week is skipped, unless the run is forced.
Skips(r, u) == ~r.force /\ HasRow(r.week, u)

\* One user of the loop, up to the call of the model; or without it, when the
\* person is skipped or has too few transcripts.
Visit(s, u) ==
    /\ Runs(s, "next") /\ u \in run[s].todo
    /\ ~CapHit(run[s])
    /\ \/ /\ Skips(run[s], u) \/ u \in Quiet
          /\ run' = [run EXCEPT ![s].todo = @ \ {u}]
       \/ /\ ~Skips(run[s], u)
          /\ run' = [run EXCEPT ![s].todo = @ \ {u}, ![s].user = u,
                                ![s].pc = "asking"]
    /\ UNCHANGED <<clock, life, cron, nextFire, spawned, byHand, runs, tried,
                   table>>

\* The digest is stored and its cost counted.
Stored(s, c) ==
    LET r == run[s] IN
    /\ PersonUpserted(r.week, r.user, [cost |-> c, at |-> now, run |-> r.id])
    /\ run' = [run EXCEPT ![s].pc = "next", ![s].user = NoUser,
                          ![s].digests = TRUE, ![s].acc = @ + c]

\* The answer for one person: a digest; text that is no JSON, or an error, and
\* the next user's turn; a 429, which ends the run; another exception.
Answer(s) ==
    /\ Runs(s, "asking")
    /\ \/ /\ \E c \in Costs : Stored(s, c)
          /\ UNCHANGED <<cron, nextFire>>
       \/ /\ run' = [run EXCEPT ![s].pc = "next", ![s].user = NoUser]
          /\ UNCHANGED <<cron, nextFire, person>>
       \/ Ends(s) /\ UNCHANGED person
       \/ Fails(s) /\ UNCHANGED person
    /\ UNCHANGED <<clock, life, spawned, byHand, runs, tried, team>>

\* The loop is over, or stopped by the budget: the team's turn if this run has
\* a digest.
CloseLoop(s) ==
    /\ Runs(s, "next")
    /\ run[s].todo = {} \/ CapHit(run[s])
    /\ IF run[s].digests
       THEN /\ run' = [run EXCEPT ![s].pc = "team"]
            /\ UNCHANGED <<cron, nextFire>>
       ELSE Ends(s)
    /\ UNCHANGED <<clock, life, spawned, byHand, runs, tried, table>>

\* The team's answer: a digest; the first one that is no JSON is asked for
\* once more; an error.
TeamAnswer(s) ==
    /\ run[s].pc \in {"team", "retry"}
    /\ \/ /\ \E c \in Costs :
                TeamUpserted(run[s].week, [cost |-> c, at |-> now, run |-> run[s].id])
          /\ Ends(s)
       \/ /\ Runs(s, "team")
          /\ run' = [run EXCEPT ![s].pc = "retry"]
          /\ UNCHANGED <<cron, nextFire, team>>
       \/ Ends(s) /\ UNCHANGED team
    /\ UNCHANGED <<clock, life, spawned, byHand, runs, tried, person>>

\* The operator ends the script.
Interrupt ==
    /\ srv = "off" /\ ~LockFree
    /\ run' = NoRun
    /\ UNCHANGED <<clock, life, cron, nextFire, spawned, byHand, runs, tried,
                   table>>

-----------------------------------------------------------------------------
Step(s) == Fetch(s) \/ (\E u \in Users : Visit(s, u)) \/ Answer(s)
              \/ CloseLoop(s) \/ TeamAnswer(s)

Next ==
    \/ ClockTicks \/ Stop \/ Boot
    \/ CatchUp \/ Fire \/ Click \/ ClickRuns \/ Script \/ Interrupt
    \/ \E s \in Slots : Step(s)

Spec == Init /\ [][Next]_vars

\* Every await of a run ends: the pool and the model's client have timeouts.
\* The loop runs what is ready.
FairSpec ==
    /\ Spec
    /\ WF_vars(CatchUp) /\ WF_vars(Fire) /\ WF_vars(ClickRuns)
    /\ \A s \in Slots : WF_vars(Step(s))

-----------------------------------------------------------------------------
MaxCost == CHOOSE c \in Costs : \A d \in Costs : d <= c

\* The rows of the last 30 days never tell of as much as the cap and one
\* person's and one team's answer, whoever starts runs and whenever: each run
\* counts from what the table says, adds what it spends itself and stops
\* before the next person; only the last answer before that, and the team's,
\* can go beyond.
SpendNearCap == Spent < Budget + 2 * MaxCost

\* A digest of a person, once stored, is replaced only by a forced run: the
\* schedule, the catch-up after a restart and the script, when it runs alone, do
\* not pay for it a second time, although they look for the row long before they
\* write it.  This is what cron.py:14-15 says of itself; five other places say
\* that such a run replaces the row (see RerunReplaces).
KeepsRows ==
    [][\A w \in Weeks, u \in Users :
          person'[w][u] # person[w][u] /\ HasRow(w, u)
             => \E s \in Slots : run[s] # Free /\ run[s].force
                                   /\ person'[w][u].run = run[s].id]_vars

\* The cron task comes back to its schedule, whatever a run of it meets.
CronReturns == cron \in {"starting", "running"} ~> cron \in {"asleep", "none"}

\* docs/API.md:720 (and docs/ADMIN.md:155-157, admin_data.py:325-326): "The
\* Sunday 23:00 cron will UPSERT-replace these rows on its next fire";
\* docs/ARCHITECTURE.md:821-825 and cron.py:62-63: a re-run for the same week,
\* the script's too, overwrites the previous row.  So a run that is done with a
\* person, and has not failed, has asked for their digest again.
RerunReplaces ==
    [][\A s \in Slots, u \in Users :
          Runs(s, "next") /\ u \in run[s].todo /\ HasRow(run[s].week, u)
             /\ run'[s].pc = "next"
             => u \in run'[s].todo]_vars

\* upsert_weekly_insight: "a Sunday-night re-run for the same week overwrites
\* in place".  One row for the team and the week.
OneTeamRow == \A w \in Weeks : Len(team[w]) <= 1

\* _maybe_catchup: "Covers Sunday-22:59 reboots and any 1-2-day server outage
\* that crossed Sunday 23:00".  When the server is back within 72 hours and its
\* catch-up is done, a run has been made for the week that Sunday's fire was for.
CatchupCoversTheFire ==
    cron = "asleep" /\ bootAt = <<now, "early">> /\ now >= 2 /\ Catchup
       => now - 2 \in tried
=============================================================================
