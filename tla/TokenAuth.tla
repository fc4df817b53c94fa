----------------------------- MODULE TokenAuth -----------------------------
(***************************************************************************)
(* Bearer tokens: the rows of wispralt.users, the TokenCache in front of    *)
(* them, the doors a token is shown at (require_api_key, /admin/login and   *)
(* /me/login), the admin's mint, rotate and revoke, and the rotation of the     *)
(* break-glass key with its four copies.                                    *)
(*                                                                          *)
(* A token stands for its plaintext and its hash.  Handlers run on one      *)
(* event loop; a stretch between two awaits is one action.  Time goes by in *)
(* ticks.                                                                   *)
(***************************************************************************)
EXTENDS Integers, Sequences, FiniteSets, SequencesExt

CONSTANTS Users,        \* ids of wispralt.users
          Admin,        \* the user lifespan seeds with the break-glass key
          Tokens,       \* tokens ever made, the first of them:
          First,        \* WISPRALT_API_KEY at installation
          NoToken,
          Requests,     \* requests that may be in progress together
          Desks,        \* admin pages that may be in progress together
          Rotators,     \* calls of /admin/rotate-key
          Ttl,          \* TokenCache._TTL_S
          Transit,      \* bound: ticks an answer of Postgres is on its way
          MaxItems,     \* TokenCache._MAX
          MaxRestarts   \* bound: restarts of the server

ASSUME AuthAssumption ==
    /\ Admin \in Users /\ First \in Tokens /\ NoToken \notin Tokens
    /\ Ttl \in Nat /\ Transit \in Nat /\ MaxItems \in Nat \ {0} /\ MaxRestarts \in Nat

VARIABLES
    users,      \* wispralt.users
    made,       \* tokens that have been in a row
    known,      \* tokens somebody outside has been shown
    gone,       \* ticks since a token ceased to be that of a live row
    items,      \* TokenCache._items, least recently used first
    at,         \* where a request stands
    token,      \* the token it shows
    got,        \* the row Postgres has answered with
    wait,       \* ticks since Postgres read that row
    desk,       \* what an admin page has still to do
    env,        \* WISPRALT_API_KEY in .env
    glass,      \* app.state.break_glass_token_hash
    rot,        \* where a rotation stands, and its two tokens
    blocked,    \* the loop's thread waits for _rotate_lock
    restarts

requestVars == <<at, token, got, wait>>
rowVars == <<users, made, known>>
rotVars == <<env, glass, rot, blocked>>
vars == <<rowVars, gone, items, requestVars, desk, rotVars, restarts>>

-----------------------------------------------------------------------------
Kinds == {"employee", "integration"}
Row   == [hash : Tokens \cup {NoToken}, live : BOOLEAN, kind : Kinds]

\* Longest time a token that is gone may still be taken for a user's.
Bound == Ttl + Transit

\* How a request ends: as a user, as the break-glass admin, refused by a door
\* that does not try the break-glass key, refused by one that did ("barred" by the
\* admin form, "degraded", 503, by the API), or with a 500.
Ended == {"idle", "served", "glass", "refused", "barred", "degraded", "failed"}

TypeOK ==
    /\ users \in [Users -> Row]
    /\ made \subseteq Tokens /\ known \subseteq Tokens
    /\ gone \in [Tokens -> 0..(Bound + 1)]
    /\ items \in Seq([token : Tokens, kind : Kinds, age : 0..(Ttl + 1)])
    /\ Len(items) <= MaxItems
    /\ at \in [Requests -> Ended \cup {"looking", "read"}]
    /\ token \in [Requests -> Tokens]
    /\ got \in [Requests -> Kinds \cup {"none"}]
    /\ wait \in [Requests -> 0..Transit]
    /\ desk \in [Desks -> [do : {"nothing", "invalidate", "setKind"},
                           old : Tokens \cup {NoToken}, new : Tokens \cup {NoToken}]]
    /\ env \in Tokens /\ glass \in Tokens
    /\ rot \in [Rotators -> [at : {"idle", "updating", "updated"},
                             old : Tokens, new : Tokens]]
    /\ blocked \in BOOLEAN
    /\ restarts \in 0..MaxRestarts

IdleDesk == [do |-> "nothing", old |-> NoToken, new |-> NoToken]
IdleRotation == [at |-> "idle", old |-> First, new |-> First]

Init ==
    /\ users = [u \in Users |->
                  [hash |-> IF u = Admin THEN First ELSE NoToken,
                   live |-> u = Admin, kind |-> "employee"]]
    /\ made = {First} /\ known = {First}
    /\ gone = [t \in Tokens |-> 0]
    /\ items = <<>>
    /\ at = [r \in Requests |-> "idle"] /\ token = [r \in Requests |-> First]
    /\ got = [r \in Requests |-> "none"]
    /\ wait = [r \in Requests |-> 0]
    /\ desk = [d \in Desks |-> IdleDesk]
    /\ env = First /\ glass = First
    /\ rot = [a \in Rotators |-> IdleRotation] /\ blocked = FALSE
    /\ restarts = 0

-----------------------------------------------------------------------------
\* The cache.
Entries(t) == {k \in DOMAIN items : items[k].token = t}

\* A token has one entry at most.
Place(t) == CHOOSE k \in Entries(t) : TRUE

Without(t) == IF Entries(t) = {} THEN items ELSE RemoveAt(items, Place(t))

\* A slip for a mutant: reading an entry makes it young again.
TouchedAnew(i) == [i EXCEPT !.age = 0]

\* move_to_end keeps the time of the entry.
Touched(i) == i

Hit(t) == \E k \in Entries(t) : items[k].age <= Ttl

\* A hit moves the entry to the end, an expired one is deleted.
AfterGet(t) ==
    IF Hit(t) THEN Append(Without(t), Touched(items[Place(t)])) ELSE Without(t)

\* A slip for a mutant: the cache grows past its capacity by one.
TrimmedLate(s) == IF Len(s) > MaxItems + 1 THEN Tail(s) ELSE s

\* The least recently used goes.
Trimmed(s) == IF Len(s) > MaxItems THEN Tail(s) ELSE s

AfterPut(t, kind) ==
    Trimmed(Append(Without(t), [token |-> t, kind |-> kind, age |-> 0]))

-----------------------------------------------------------------------------
Valid(t) == \E u \in Users : users[u].hash = t /\ users[u].live

\* lookup: the live row of this hash.
Lookup(t) == IF Valid(t) THEN (CHOOSE u \in Users : users[u].hash = t /\ users[u].live)
             ELSE Admin

\* A token is shown: the cache first.
Show(r, t) ==
    /\ at[r] \in Ended /\ t \in known
    /\ token' = [token EXCEPT ![r] = t]
    /\ at' = [at EXCEPT ![r] = IF Hit(t) THEN "served" ELSE "looking"]
    /\ items' = AfterGet(t)
    /\ got' = [got EXCEPT ![r] = "none"] /\ wait' = [wait EXCEPT ![r] = 0]
    /\ UNCHANGED <<rowVars, gone, desk, rotVars, restarts>>

\* Postgres reads the row; the answer is on its way.
Read(r) ==
    /\ at[r] = "looking"
    /\ at' = [at EXCEPT ![r] = "read"]
    /\ got' = [got EXCEPT ![r] = IF Valid(token[r]) THEN users[Lookup(token[r])].kind
                                 ELSE "none"]
    /\ UNCHANGED <<rowVars, gone, items, token, wait, desk, rotVars, restarts>>

\* The answer is a row: it is cached and the request served.
Resolve(r) ==
    /\ at[r] = "read" /\ got[r] # "none"
    /\ items' = AfterPut(token[r], got[r])
    /\ at' = [at EXCEPT ![r] = "served"]
    /\ UNCHANGED <<rowVars, gone, token, got, wait, desk, rotVars, restarts>>

Doors == {"api", "admin", "me"}

\* The break-glass key is tried.
TryGlass(r, otherwise) == IF token[r] = glass THEN "glass" ELSE otherwise

\* No row: require_api_key and /me/login refuse, /admin/login tries the
\* break-glass key.
Miss(r, door) ==
    /\ at[r] = "read" /\ got[r] = "none"
    /\ at' = [at EXCEPT ![r] = IF door = "admin" THEN TryGlass(r, "barred")
                               ELSE "refused"]
    /\ UNCHANGED <<rowVars, gone, items, token, got, wait, desk, rotVars, restarts>>

\* There is no pool, or the query raises a PostgresError or an InterfaceError:
\* the API and the admin form try the break-glass key, /me/login does not.
Degraded(r, door) ==
    /\ at[r] \in {"looking", "read"}
    /\ at' = [at EXCEPT ![r] = CASE door = "api"   -> TryGlass(r, "degraded")
                                 [] door = "admin" -> TryGlass(r, "barred")
                                 [] door = "me"    -> "refused"]
    /\ UNCHANGED <<rowVars, gone, items, token, got, wait, desk, rotVars, restarts>>

\* The query raises anything else: the TimeoutError of command_timeout, an
\* OSError of the connection.  No door catches it: a 500, whatever the token.
Unanswered(r) ==
    /\ at[r] \in {"looking", "read"}
    /\ at' = [at EXCEPT ![r] = "failed"]
    /\ UNCHANGED <<rowVars, gone, items, token, got, wait, desk, rotVars, restarts>>

-----------------------------------------------------------------------------
\* The statements of users/store.py.
Minted(u, t)  == [users EXCEPT ![u] = [hash |-> t, live |-> TRUE, kind |-> "employee"]]
Revoked(u)    == [users EXCEPT ![u].live = FALSE]
Rotated(u, t) == [users EXCEPT ![u].hash = t, ![u].live = TRUE]
OfKind(u, k)  == [users EXCEPT ![u].kind = k]

\* secrets.token_hex.
Fresh(t) == t \in Tokens \ (made \cup known)

\* A slip for a mutant: an integration key is shown before its kind is set.
ShownAtOnce(t, kind) == known \cup {t}

\* What the page of a new token shows before set_kind.
ShownFirst(t, kind) == IF kind = "employee" THEN known \cup {t} ELSE known

\* users_add_submit shows the token at once; keys_add_submit sets the kind first.
Mint(d, u, t, kind) ==
    /\ desk[d] = IdleDesk /\ users[u].hash = NoToken /\ Fresh(t)
    /\ users' = Minted(u, t)
    /\ made' = made \cup {t}
    /\ known' = ShownFirst(t, kind)
    /\ desk' = IF kind = "employee" THEN desk
               ELSE [desk EXCEPT ![d] = [do |-> "setKind", old |-> NoToken, new |-> t]]
    /\ UNCHANGED <<gone, items, requestVars, rotVars, restarts>>

\* set_kind, and the page with the plaintext.  When it raises, the row stays an
\* employee's and nobody has seen the token.
SetKind(d) ==
    /\ desk[d].do = "setKind"
    /\ \/ /\ \E u \in Users : users[u].hash = desk[d].new
                /\ users' = OfKind(u, "integration")
          /\ known' = known \cup {desk[d].new}
       \/ UNCHANGED <<users, known>>
    /\ desk' = [desk EXCEPT ![d] = IdleDesk]
    /\ UNCHANGED <<made, gone, items, requestVars, rotVars, restarts>>

\* The UPDATE of users_revoke and keys_revoke.
Revoke(d, u) ==
    /\ desk[d] = IdleDesk /\ users[u].live
    /\ users' = Revoked(u)
    /\ desk' = [desk EXCEPT ![d] =
                  [do |-> "invalidate", old |-> users[u].hash, new |-> NoToken]]
    /\ UNCHANGED <<made, known, gone, items, requestVars, rotVars, restarts>>

\* The UPDATE of users_mint and keys_rotate: a new hash, and no longer revoked.
Rotate(d, u, t) ==
    /\ desk[d] = IdleDesk /\ users[u].hash # NoToken /\ Fresh(t)
    /\ users' = Rotated(u, t)
    /\ made' = made \cup {t}
    /\ desk' = [desk EXCEPT ![d] =
                  [do |-> "invalidate", old |-> users[u].hash, new |-> t]]
    /\ UNCHANGED <<known, gone, items, requestVars, rotVars, restarts>>

\* The page hears of the commit: invalidate, and show the new token.
Invalidate(d) ==
    /\ desk[d].do = "invalidate"
    /\ items' = Without(desk[d].old)
    /\ known' = IF desk[d].new = NoToken THEN known ELSE known \cup {desk[d].new}
    /\ desk' = [desk EXCEPT ![d] = IdleDesk]
    /\ UNCHANGED <<users, made, gone, requestVars, rotVars, restarts>>

-----------------------------------------------------------------------------
Locked == \E a \in Rotators : rot[a].at # "idle"

\* rewrite_env_var replaces the whole file or leaves it.
RewriteEnv(t) == env' = t

\* rotate_key up to its UPDATE: the old hash is read, the lock taken, .env and
\* the retrieval file written.  A failure to write .env ends it unchanged.
BeginRotation(a, t) ==
    /\ ~Locked /\ Fresh(t)
    /\ RewriteEnv(t)
    /\ known' = known \cup {t}
    /\ rot' = [rot EXCEPT ![a] = [at |-> "updating", old |-> glass, new |-> t]]
    /\ UNCHANGED <<users, made, gone, items, requestVars, desk, glass, blocked, restarts>>

\* A second rotation while the first awaits Postgres: `with _rotate_lock` stops
\* the thread the first needs to go on.
BlockLoop(a) ==
    /\ Locked /\ rot[a].at = "idle"
    /\ blocked' = TRUE
    /\ UNCHANGED <<rowVars, gone, items, requestVars, desk, env, glass, rot, restarts>>

\* The row of the old hash gets the new one.  Or there is no pool, or the
\* UPDATE raises, which is logged.
UpdateRow(a) ==
    /\ rot[a].at = "updating"
    /\ \/ /\ users' = [u \in Users |->
                      IF users[u].hash = rot[a].old
                      THEN [users[u] EXCEPT !.hash = rot[a].new, !.live = TRUE]
                      ELSE users[u]]
          /\ made' = IF \E u \in Users : users[u].hash = rot[a].old
                     THEN made \cup {rot[a].new} ELSE made
       \/ UNCHANGED <<users, made>>
    /\ rot' = [rot EXCEPT ![a].at = "updated"]
    /\ UNCHANGED <<known, gone, items, requestVars, desk, env, glass, blocked, restarts>>

\* A slip for a mutant: a rotation whose UPDATE has failed stops there.
NewGlassIfRow(a) == IF Valid(rot[a].new) THEN rot[a].new ELSE glass

NewGlass(a) == rot[a].new

EndRotation(a) ==
    /\ rot[a].at = "updated"
    /\ glass' = NewGlass(a)
    /\ items' = Without(rot[a].old)
    /\ rot' = [rot EXCEPT ![a] = IdleRotation]
    /\ UNCHANGED <<rowVars, gone, requestVars, desk, env, blocked, restarts>>

-----------------------------------------------------------------------------
\* An answer that is older than this has met command_timeout.
Tick ==
    /\ \A r \in Requests : at[r] = "read" => wait[r] < Transit
    /\ wait' = [r \in Requests |-> IF at[r] = "read" THEN wait[r] + 1 ELSE wait[r]]
    /\ gone' = [t \in Tokens |->
                  IF t \notin made \/ Valid(t) THEN 0
                  ELSE IF gone[t] > Bound THEN gone[t] ELSE gone[t] + 1]
    /\ items' = [k \in DOMAIN items |->
                   [items[k] EXCEPT !.age = IF @ > Ttl THEN @ ELSE @ + 1]]
    /\ UNCHANGED <<rowVars, at, token, got, desk, rotVars, restarts>>

\* The process dies at any point, also a blocked one, and starts again.
Restart ==
    /\ restarts < MaxRestarts
    /\ restarts' = restarts + 1
    /\ items' = <<>>
    /\ at' = [r \in Requests |-> "idle"]
    /\ got' = [r \in Requests |-> "none"] /\ wait' = [r \in Requests |-> 0]
    /\ desk' = [d \in Desks |-> IdleDesk]
    /\ glass' = env
    /\ rot' = [a \in Rotators |-> IdleRotation] /\ blocked' = FALSE
    /\ UNCHANGED <<rowVars, gone, token, env>>

-----------------------------------------------------------------------------
Serve(r) ==
    \/ Read(r) \/ Resolve(r) \/ Unanswered(r)
    \/ \E door \in Doors : Miss(r, door) \/ Degraded(r, door)

Page(d) ==
    \/ \E u \in Users :
          \/ Revoke(d, u)
          \/ \E t \in Tokens :
                Rotate(d, u, t) \/ \E kind \in Kinds : Mint(d, u, t, kind)
    \/ SetKind(d) \/ Invalidate(d)

Rotation(a) ==
    \/ \E t \in Tokens : BeginRotation(a, t)
    \/ BlockLoop(a) \/ UpdateRow(a) \/ EndRotation(a)

Next ==
    \/ /\ ~blocked
       /\ \/ \E r \in Requests, t \in Tokens : Show(r, t)
          \/ \E r \in Requests : Serve(r)
          \/ \E d \in Desks : Page(d)
          \/ \E a \in Rotators : Rotation(a)
          \/ Tick
    \/ Restart

\* The loop runs what is ready; Postgres answers, or the call times out.
Fairness ==
    /\ \A a \in Rotators :
          WF_vars(~blocked /\ (UpdateRow(a) \/ EndRotation(a)))
    /\ \A r \in Requests : WF_vars(~blocked /\ Serve(r))

Spec == Init /\ [][Next]_vars
FairSpec == Spec /\ Fairness

-----------------------------------------------------------------------------
\* A token that has been revoked, rotated or replaced is taken for its user's no
\* longer than the cache keeps an entry after the last answer that was already
\* on its way: also when that answer is put after the page has invalidated, the
\* entry is read again and again, or the process restarts.  The break-glass
\* key, when Postgres does not answer, is another matter.
GoneTokensFade ==
    [][\A r \in Requests :
          at[r] # "served" /\ at'[r] = "served" => gone[token'[r]] <= Bound]_vars

\* An integration key is never taken for an employee's, whatever the cache
\* holds: the kind is set after the row is there (forbid_integration_kind).
KeysKeepKind ==
    \A k \in DOMAIN items, u \in Users :
       users[u].hash = items[k].token => items[k].kind = users[u].kind

\* Outside a rotation, a door that tries the break-glass key opens to the key in
\* .env: the API when there is no pool or the lookup raises what it catches, the
\* admin form then and when Postgres knows no such row.  Rotations whose UPDATE
\* has failed and crashes between their steps do not part .env from the hash in
\* memory.
BreakGlassOpens ==
    [][\A r \in Requests :
          at'[r] \in {"degraded", "barred"} /\ at'[r] # at[r] /\ ~Locked =>
             token[r] # env]_vars

\* auth.py, "so the operator never locks themselves out": the same whatever
\* keeps Postgres from answering.
OperatorGetsIn ==
    [][\A r \in Requests :
          at'[r] \in {"degraded", "barred", "failed"} /\ at'[r] # at[r] /\ ~Locked =>
             token[r] # env]_vars

\* The docstring of revoke: invalidating after the commit closes the race.
RevokedIsRefused ==
    \A k \in DOMAIN items :
       \/ Valid(items[k].token) \/ items[k].age > Ttl
       \/ \E d \in Desks : desk[d].old = items[k].token
       \/ \E a \in Rotators : rot[a].at = "updated" /\ rot[a].old = items[k].token

\* Comment C10: the lock keeps concurrent rotations apart, and each ends.
RotationEnds ==
    \A a \in Rotators : rot[a].at # "idle" ~> rot[a].at = "idle"
=============================================================================
