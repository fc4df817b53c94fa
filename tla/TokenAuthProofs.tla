-------------------------- MODULE TokenAuthProofs --------------------------
(* Theorems about TokenAuth, for any users, tokens, requests and rotations. *)
EXTENDS TokenAuth, TLAPS

(***************************************************************************)
(* A rotation in progress has put its new token into .env, and it is the    *)
(* only one; outside a rotation the hash in memory is that of .env, also    *)
(* after a crash between the two, because the start reads .env again.       *)
(***************************************************************************)
Rotations == [at : {"idle", "updating", "updated"}, old : Tokens, new : Tokens]

GlassInv ==
    /\ rot \in [Rotators -> Rotations]
    /\ env \in Tokens /\ glass \in Tokens
    /\ \A a \in Rotators : rot[a].at # "idle" => rot[a].new = env
    /\ \A a, b \in Rotators : rot[a].at # "idle" /\ rot[b].at # "idle" => a = b
    /\ ~Locked => glass = env

LEMMA GlassInit == Init => GlassInv
  BY AuthAssumption DEF Init, GlassInv, Rotations, IdleRotation, Locked

\* The steps that leave .env, the hash and the rotations alone.
LEMMA GlassUntouched ==
    ASSUME GlassInv, UNCHANGED <<rot, env, glass>>
    PROVE  GlassInv'
  BY DEF GlassInv, Locked

LEMMA RotationKeeps ==
    ASSUME GlassInv, NEW a \in Rotators, Rotation(a)
    PROVE  GlassInv'
<1>1. ASSUME NEW t \in Tokens, BeginRotation(a, t) PROVE GlassInv'
  <2>1. /\ \A b \in Rotators : rot[b].at = "idle"
        /\ rot' = [rot EXCEPT ![a] = [at |-> "updating", old |-> glass, new |-> t]]
        /\ env' = t /\ glass' = glass
    BY <1>1 DEF BeginRotation, RewriteEnv, Locked
  <2>2. rot' \in [Rotators -> Rotations] /\ rot'[a].new = t /\ rot'[a].at = "updating"
        /\ \A b \in Rotators : b # a => rot'[b] = rot[b]
    BY <2>1 DEF GlassInv, Rotations
  <2>3. QED
    BY <2>1, <2>2 DEF GlassInv, Locked
<1>2. CASE BlockLoop(a)
  BY <1>2, GlassUntouched DEF BlockLoop
<1>3. CASE UpdateRow(a)
  <2>1. /\ rot[a].at = "updating" /\ rot' = [rot EXCEPT ![a].at = "updated"]
        /\ UNCHANGED <<env, glass>>
    BY <1>3 DEF UpdateRow
  <2>2. /\ rot' \in [Rotators -> Rotations]
        /\ rot'[a].at = "updated" /\ rot'[a].new = rot[a].new
        /\ \A b \in Rotators : b # a => rot'[b] = rot[b]
    BY <2>1 DEF GlassInv, Rotations
  <2>3. QED
    BY <2>1, <2>2 DEF GlassInv, Locked
<1>4. CASE EndRotation(a)
  <2>1. /\ rot[a].at = "updated" /\ rot' = [rot EXCEPT ![a] = IdleRotation]
        /\ glass' = rot[a].new /\ env' = env
    BY <1>4 DEF EndRotation, NewGlass
  <2>2. rot' \in [Rotators -> Rotations] /\ \A b \in Rotators : rot'[b].at = "idle"
    BY <2>1, AuthAssumption DEF GlassInv, Rotations, IdleRotation
  <2>3. QED
    BY <2>1, <2>2 DEF GlassInv, Rotations, Locked
<1>5. QED
  BY <1>1, <1>2, <1>3, <1>4 DEF Rotation

LEMMA GlassStep ==
    ASSUME GlassInv, [Next]_vars
    PROVE  GlassInv'
<1>1. ASSUME NEW r \in Requests, NEW t \in Tokens, Show(r, t) PROVE GlassInv'
  BY <1>1, GlassUntouched DEF Show, rotVars
<1>2. ASSUME NEW r \in Requests, Serve(r) PROVE GlassInv'
  BY <1>2, GlassUntouched DEF Serve, Read, Resolve, Miss, Degraded, Unanswered, rotVars
<1>3. ASSUME NEW d \in Desks, Page(d) PROVE GlassInv'
  BY <1>3, GlassUntouched DEF Page, Revoke, Rotate, Mint, SetKind, Invalidate, rotVars
<1>4. ASSUME NEW a \in Rotators, Rotation(a) PROVE GlassInv'
  BY <1>4, RotationKeeps
<1>5. CASE Tick
  BY <1>5, GlassUntouched DEF Tick, rotVars
<1>6. CASE Restart
  BY <1>6, AuthAssumption
     DEF Restart, GlassInv, Rotations, IdleRotation, Locked
<1>7. CASE UNCHANGED vars
  BY <1>7, GlassUntouched DEF vars, rotVars
<1>8. QED
  BY <1>1, <1>2, <1>3, <1>4, <1>5, <1>6, <1>7 DEF Next

AtOK == at \in [Requests -> Ended \cup {"looking", "read"}]

LEMMA AtStep ==
    ASSUME AtOK, [Next]_vars
    PROVE  AtOK'
<1> USE DEF AtOK, Ended
<1>1. ASSUME NEW r \in Requests, NEW t \in Tokens, Show(r, t) PROVE AtOK'
  BY <1>1 DEF Show
<1>2. ASSUME NEW r \in Requests, Serve(r) PROVE AtOK'
  BY <1>2 DEF Serve, Read, Resolve, Miss, Degraded, Unanswered, TryGlass, Doors
<1>3. ASSUME NEW d \in Desks, Page(d) PROVE AtOK'
  BY <1>3 DEF Page, Revoke, Rotate, Mint, SetKind, Invalidate, requestVars
<1>4. ASSUME NEW a \in Rotators, Rotation(a) PROVE AtOK'
  BY <1>4 DEF Rotation, BeginRotation, BlockLoop, UpdateRow, EndRotation, requestVars
<1>5. CASE Tick \/ Restart \/ UNCHANGED vars
  BY <1>5 DEF Tick, Restart, vars, requestVars
<1>6. QED
  BY <1>1, <1>2, <1>3, <1>4, <1>5 DEF Next

\* The steps after which a request has been turned away although the break-glass
\* key was tried.
LEMMA TurnedAwayByServe ==
    ASSUME AtOK, [Next]_vars, NEW r \in Requests,
           at'[r] \in {"degraded", "barred"}, at'[r] # at[r]
    PROVE  token[r] # glass
<1>1. ~UNCHANGED at
  OBVIOUS
<1>2. ~Tick /\ ~Restart
  BY DEF Tick, Restart
<1>3. ASSUME NEW d \in Desks, Page(d) PROVE FALSE
  BY <1>1, <1>3 DEF Page, Revoke, Rotate, Mint, SetKind, Invalidate, requestVars
<1>4. ASSUME NEW a \in Rotators, Rotation(a) PROVE FALSE
  BY <1>1, <1>4 DEF Rotation, BeginRotation, BlockLoop, UpdateRow, EndRotation,
                    requestVars
<1>5. ASSUME NEW q \in Requests, NEW t \in Tokens, Show(q, t) PROVE FALSE
  BY <1>5 DEF Show, AtOK, Ended
<1>6. PICK q \in Requests : Serve(q)
  BY <1>1, <1>2, <1>3, <1>4, <1>5 DEF Next, vars, requestVars
<1>7. ~Read(q) /\ ~Resolve(q) /\ ~Unanswered(q)
  BY DEF Read, Resolve, Unanswered, AtOK, Ended
<1>8. PICK door \in Doors : Miss(q, door) \/ Degraded(q, door)
  BY <1>6, <1>7 DEF Serve
<1>9. q = r
  BY <1>8 DEF Miss, Degraded, AtOK, Ended
<1>10. CASE Miss(q, door)
  BY <1>9, <1>10 DEF Miss, TryGlass, AtOK, Ended
<1>11. CASE Degraded(q, door)
  BY <1>9, <1>11 DEF Degraded, TryGlass, AtOK, Ended, Doors
<1>12. QED
  BY <1>8, <1>10, <1>11

\* Outside a rotation, a door that tries the break-glass key opens to the key in
\* .env, whatever rotations failed or were cut off by a crash before.
THEOREM GlassIsEnv == Spec => BreakGlassOpens
<1>1. Init => GlassInv /\ AtOK
  BY GlassInit DEF Init, AtOK, Ended
<1>2. GlassInv /\ AtOK /\ [Next]_vars => (GlassInv /\ AtOK)'
  BY GlassStep, AtStep
<1>3. GlassInv /\ AtOK /\ [Next]_vars =>
        [\A r \in Requests :
            at'[r] \in {"degraded", "barred"} /\ at'[r] # at[r] /\ ~Locked =>
               token[r] # env]_vars
  BY TurnedAwayByServe DEF GlassInv
<1>4. QED
  BY <1>1, <1>2, <1>3, PTL DEF Spec, BreakGlassOpens


-----------------------------------------------------------------------------
(***************************************************************************)
(* The cache as a sequence: what a hit, a put and an invalidation leave in  *)
(* it was there before, or is the entry that was put.                       *)
(***************************************************************************)
Entry == [token : Tokens, kind : Kinds, age : 0..(Ttl + 1)]

LEMMA RemovedAt ==
    ASSUME NEW S, NEW s \in Seq(S), NEW k \in DOMAIN s
    PROVE  /\ RemoveAt(s, k) \in Seq(S)
           /\ Len(RemoveAt(s, k)) = Len(s) - 1
           /\ \A i \in DOMAIN RemoveAt(s, k) :
                 \E j \in DOMAIN s : RemoveAt(s, k)[i] = s[j]
<1> DEFINE a == SubSeq(s, 1, k - 1)
           b == SubSeq(s, k + 1, Len(s))
<1>1. k \in 1..Len(s) /\ Len(s) \in Nat
  OBVIOUS
<1>2. a \in Seq(S) /\ Len(a) = k - 1 /\ \A i \in 1..(k - 1) : a[i] = s[i]
  BY <1>1
<1>3. b \in Seq(S) /\ Len(b) = Len(s) - k /\ \A i \in 1..(Len(s) - k) : b[i] = s[i + k]
  BY <1>1
<1> HIDE DEF a, b
<1>4. a \o b \in Seq(S) /\ Len(a \o b) = Len(s) - 1
  BY <1>1, <1>2, <1>3
<1>5. ASSUME NEW i \in 1..(Len(s) - 1)
      PROVE  \E j \in DOMAIN s : (a \o b)[i] = s[j]
  <2>1. CASE i < k
    BY <1>1, <1>2, <1>3, <2>1
  <2>2. CASE i >= k
    <3>1. (a \o b)[i] = b[i - (k - 1)] /\ i - (k - 1) \in 1..(Len(s) - k)
      BY <1>1, <1>2, <1>3, <2>2
    <3>2. (a \o b)[i] = s[i + 1] /\ i + 1 \in DOMAIN s
      BY <1>1, <1>3, <3>1
    <3>3. QED
      BY <3>2
  <2>3. i < k \/ i >= k
    BY <1>1
  <2>4. QED
    BY <2>1, <2>2, <2>3
<1>6. RemoveAt(s, k) = a \o b
  BY DEF RemoveAt, a, b
<1>7. DOMAIN (a \o b) = 1..(Len(s) - 1)
  BY <1>4
<1>8. QED
  BY <1>4, <1>5, <1>6, <1>7

\* A cache s that has nothing but entries of the present one.
Among(s) == \A i \in DOMAIN s : \E j \in DOMAIN items : s[i] = items[j]

LEMMA WithoutIsAmong ==
    ASSUME items \in Seq(Entry), NEW t
    PROVE  /\ Without(t) \in Seq(Entry) /\ Among(Without(t))
           /\ Len(Without(t)) <= Len(items)
           /\ Entries(t) # {} => Len(Without(t)) = Len(items) - 1
<1>1. CASE Entries(t) = {}
  BY <1>1 DEF Without, Among
<1>2. CASE Entries(t) # {}
  <2>1. Place(t) \in DOMAIN items
    BY <1>2 DEF Place, Entries
  <2>2. QED
    BY <1>2, <2>1, RemovedAt DEF Without, Among
<1>3. QED
  BY <1>1, <1>2

LEMMA GetIsAmong ==
    ASSUME items \in Seq(Entry), NEW t
    PROVE  /\ AfterGet(t) \in Seq(Entry) /\ Among(AfterGet(t))
           /\ Len(AfterGet(t)) <= Len(items)
<1> DEFINE w == Without(t)
<1>1. /\ w \in Seq(Entry) /\ Among(w) /\ Len(w) <= Len(items)
      /\ Entries(t) # {} => Len(w) = Len(items) - 1
  BY WithoutIsAmong
<1>2. CASE ~Hit(t)
  BY <1>1, <1>2 DEF AfterGet
<1>3. CASE Hit(t)
  <2>1. Entries(t) # {} /\ Place(t) \in DOMAIN items
    BY <1>3 DEF Hit, Place, Entries
  <2> DEFINE e == items[Place(t)]
  <2>2. e \in Entry /\ AfterGet(t) = Append(w, e)
    BY <1>3, <2>1 DEF AfterGet, Touched
  <2> HIDE DEF w, e
  <2>3. Append(w, e) \in Seq(Entry) /\ Len(Append(w, e)) = Len(w) + 1
    BY <1>1, <2>2
  <2>4. Among(Append(w, e))
    <3> SUFFICES ASSUME NEW i \in 1..(Len(w) + 1)
                 PROVE  \E j \in DOMAIN items : Append(w, e)[i] = items[j]
      BY <2>3 DEF Among
    <3>1. CASE i = Len(w) + 1
      BY <1>1, <2>1, <3>1 DEF e
    <3>2. CASE i # Len(w) + 1
      <4>1. i \in DOMAIN w /\ Append(w, e)[i] = w[i]
        BY <1>1, <3>2
      <4>2. QED
        BY <1>1, <4>1 DEF Among
    <3>3. QED
      BY <3>1, <3>2
  <2>5. QED
    BY <1>1, <2>1, <2>2, <2>3, <2>4
<1>4. QED
  BY <1>2, <1>3

LEMMA PutIsAmong ==
    ASSUME items \in Seq(Entry), Len(items) <= MaxItems,
           NEW t \in Tokens, NEW kind \in Kinds, NEW e,
           e = [token |-> t, kind |-> kind, age |-> 0]
    PROVE  /\ AfterPut(t, kind) \in Seq(Entry) /\ Len(AfterPut(t, kind)) <= MaxItems
           /\ \A i \in DOMAIN AfterPut(t, kind) :
                 \/ AfterPut(t, kind)[i] = e
                 \/ \E j \in DOMAIN items : AfterPut(t, kind)[i] = items[j]
<1> DEFINE w == Without(t)
           x == Append(w, e)
<1>1. w \in Seq(Entry) /\ Among(w) /\ Len(w) <= MaxItems /\ MaxItems \in Nat
  BY WithoutIsAmong, AuthAssumption
<1>2. e \in Entry
  BY AuthAssumption DEF Entry
<1>3. AfterPut(t, kind) = IF Len(x) > MaxItems THEN Tail(x) ELSE x
  BY DEF AfterPut, Trimmed
<1> HIDE DEF w
<1>4. x \in Seq(Entry) /\ Len(x) = Len(w) + 1 /\ x # <<>>
  BY <1>1, <1>2
<1>5. ASSUME NEW i \in DOMAIN x
      PROVE  x[i] = e \/ \E j \in DOMAIN items : x[i] = items[j]
  <2>1. CASE i = Len(w) + 1
    BY <1>1, <2>1
  <2>2. CASE i # Len(w) + 1
    <3>1. i \in DOMAIN w /\ x[i] = w[i]
      BY <1>1, <1>4, <2>2
    <3>2. QED
      BY <1>1, <3>1 DEF Among
  <2>3. QED
    BY <2>1, <2>2
<1> HIDE DEF x
<1>6. CASE Len(x) > MaxItems
  <2>1. Tail(x) \in Seq(Entry) /\ Len(Tail(x)) = Len(x) - 1
        /\ \A i \in 1..(Len(x) - 1) : Tail(x)[i] = x[i + 1]
    BY <1>4
  <2>2. \A i \in DOMAIN Tail(x) : i + 1 \in DOMAIN x /\ Tail(x)[i] = x[i + 1]
    BY <1>4, <2>1
  <2>3. AfterPut(t, kind) = Tail(x) /\ Len(Tail(x)) <= MaxItems
    BY <1>1, <1>3, <1>4, <1>6, <2>1
  <2>4. ASSUME NEW i \in DOMAIN Tail(x)
        PROVE  Tail(x)[i] = e \/ \E j \in DOMAIN items : Tail(x)[i] = items[j]
    BY <1>5, <2>2
  <2>5. QED
    BY <2>1, <2>3, <2>4
<1>7. CASE ~(Len(x) > MaxItems)
  BY <1>1, <1>3, <1>4, <1>5, <1>7
<1>8. QED
  BY <1>6, <1>7


-----------------------------------------------------------------------------
LEMMA TypeInit == Init => TypeOK
<1> SUFFICES ASSUME Init PROVE TypeOK
  OBVIOUS
<1>1. users \in [Users -> Row]
  BY AuthAssumption DEF Init, Row, Kinds
<1>2. gone \in [Tokens -> 0..(Bound + 1)] /\ wait \in [Requests -> 0..Transit]
  BY AuthAssumption DEF Init, Bound
<1>3. \A S : items \in Seq(S) /\ Len(items) = 0
  BY DEF Init
<1>4. /\ at \in [Requests -> Ended \cup {"looking", "read"}]
      /\ got \in [Requests -> Kinds \cup {"none"}]
  BY DEF Init, Ended
<1>5. restarts \in 0..MaxRestarts /\ 0 <= MaxItems
  BY AuthAssumption DEF Init
<1>6. QED
  BY <1>1, <1>2, <1>3, <1>4, <1>5, AuthAssumption
     DEF Init, TypeOK, IdleDesk, IdleRotation

\* The cache is a sequence of entries, and within its capacity.
CacheOK == items \in Seq(Entry) /\ Len(items) <= MaxItems

LEMMA TypeOfCache == TypeOK => CacheOK
BY DEF TypeOK, CacheOK, Entry

\* A page that is about to show a key has one (keys_add_submit).
TokenToShow == \A d \in Desks : desk[d].do = "setKind" => desk[d].new \in Tokens

LEMMA ServeType == ASSUME TypeOK, NEW r \in Requests, Serve(r) PROVE TypeOK'
<1> USE DEF Kinds, Ended
<1>1. CASE Read(r)
  <2>1. users[Lookup(token[r])].kind \in Kinds
    BY AuthAssumption DEF TypeOK, Lookup, Valid, Row
  <2>2. QED
    BY <1>1, <2>1 DEF Read, TypeOK, rowVars, rotVars
<1>2. CASE Resolve(r)
  <2>1. token[r] \in Tokens /\ got[r] \in Kinds
    BY <1>2 DEF Resolve, TypeOK
  <2>2. (CacheOK)'
    BY <1>2, <2>1, PutIsAmong, TypeOfCache DEF Resolve, CacheOK, Entry
  <2>3. QED
    BY <1>2, <2>2 DEF Resolve, TypeOK, CacheOK, Entry, rowVars, rotVars
<1>3. ASSUME NEW door \in Doors, Miss(r, door) PROVE TypeOK'
  BY <1>3 DEF Miss, TryGlass, TypeOK, rowVars, rotVars
<1>4. ASSUME NEW door \in Doors, Degraded(r, door) PROVE TypeOK'
  BY <1>4 DEF Doors, Degraded, TryGlass, TypeOK, rowVars, rotVars
<1>5. CASE Unanswered(r)
  BY <1>5 DEF Unanswered, TypeOK, rowVars, rotVars
<1>6. QED
  BY <1>1, <1>2, <1>3, <1>4, <1>5 DEF Serve

LEMMA ShowType ==
    ASSUME TypeOK, NEW r \in Requests, NEW t \in Tokens, Show(r, t) PROVE TypeOK'
<1>1. (CacheOK)'
  <2>1. items \in Seq(Entry) /\ Len(items) <= MaxItems
    BY TypeOfCache DEF CacheOK
  <2>2. AfterGet(t) \in Seq(Entry) /\ Len(AfterGet(t)) <= MaxItems
    BY <2>1, GetIsAmong, AuthAssumption
  <2>3. QED
    BY <2>2 DEF Show, CacheOK, Entry
<1>2. QED
  BY <1>1, AuthAssumption
     DEF Show, TypeOK, CacheOK, Entry, Ended, rowVars, rotVars

LEMMA RowChanged ==
    \A row \in Row :
       /\ \A t \in Tokens : [row EXCEPT !.hash = t, !.live = TRUE] \in Row
       /\ [row EXCEPT !.kind = "integration"] \in Row
       /\ [row EXCEPT !.live = FALSE] \in Row
       /\ row.hash \in Tokens \cup {NoToken}
BY DEF Row, Kinds

LEMMA PageType == ASSUME TypeOK, TokenToShow, NEW d \in Desks, Page(d) PROVE TypeOK'
<1> USE DEF Kinds
<1>1. ASSUME NEW u \in Users, Revoke(d, u) PROVE TypeOK'
  <2>1. Revoked(u) \in [Users -> Row] /\ users[u].hash \in Tokens \cup {NoToken}
    <3>1. users \in [Users -> Row]
      BY DEF TypeOK
    <3>2. [users[u] EXCEPT !.live = FALSE] \in Row
      BY <3>1, RowChanged
    <3>3. Revoked(u) \in [Users -> Row]
      BY <3>1, <3>2 DEF Revoked
    <3>4. QED
      BY <3>1, <3>3, RowChanged
  <2>2. QED
    BY <1>1, <2>1 DEF Revoke, TypeOK, requestVars, rotVars
<1>2. ASSUME NEW u \in Users, NEW t \in Tokens, Rotate(d, u, t) PROVE TypeOK'
  <2> DEFINE row == [users[u] EXCEPT !.hash = t, !.live = TRUE]
  <2>1. row \in Row /\ users[u].hash \in Tokens \cup {NoToken}
    <3>1. users[u] \in Row
      BY DEF TypeOK
    <3>2. users[u].hash \in Tokens \cup {NoToken}
      BY <3>1 DEF Row
    <3>3. QED
      BY <3>1, <3>2, RowChanged
  <2>2. Rotated(u, t) = [users EXCEPT ![u] = row]
    BY DEF Rotated, TypeOK
  <2> HIDE DEF row
  <2>3. Rotated(u, t) \in [Users -> Row]
    BY <2>1, <2>2 DEF TypeOK
  <2>4. QED
    BY <1>2, <2>1, <2>3 DEF Rotate, TypeOK, requestVars, rotVars
<1>3. ASSUME NEW u \in Users, NEW t \in Tokens, NEW kind \in Kinds, Mint(d, u, t, kind)
      PROVE  TypeOK'
  BY <1>3 DEF Mint, Minted, ShownFirst, TypeOK, Row, requestVars, rotVars
<1>4. CASE SetKind(d)
  <2>1. users' = users \/ \E u \in Users : users' = OfKind(u, "integration")
    BY <1>4 DEF SetKind
  <2>2. ASSUME NEW u \in Users PROVE OfKind(u, "integration") \in [Users -> Row]
    <3>1. [users[u] EXCEPT !.kind = "integration"] \in Row
      BY RowChanged DEF TypeOK
    <3>2. OfKind(u, "integration")
             = [users EXCEPT ![u] = [users[u] EXCEPT !.kind = "integration"]]
      BY DEF OfKind, TypeOK
    <3>3. QED
      BY <3>1, <3>2 DEF TypeOK
  <2>3. users' \in [Users -> Row]
    BY <2>1, <2>2 DEF TypeOK
  <2>4. desk[d].new \in Tokens
    BY <1>4 DEF SetKind, TokenToShow
  <2>5. known' \subseteq Tokens
    BY <1>4, <2>4 DEF SetKind, TypeOK
  <2>6. QED
    BY <1>4, <2>3, <2>5 DEF SetKind, IdleDesk, TypeOK, requestVars, rotVars
<1>5. CASE Invalidate(d)
  <2>1. (CacheOK)'
    BY <1>5, WithoutIsAmong, TypeOfCache, AuthAssumption DEF Invalidate, CacheOK, Entry
  <2>2. known' \subseteq Tokens
    BY <1>5 DEF Invalidate, TypeOK
  <2>3. QED
    BY <1>5, <2>1, <2>2 DEF Invalidate, IdleDesk, TypeOK, CacheOK, Entry, requestVars, rotVars
<1>6. QED
  BY <1>1, <1>2, <1>3, <1>4, <1>5 DEF Page

LEMMA RotationType == ASSUME TypeOK, NEW a \in Rotators, Rotation(a) PROVE TypeOK'
<1>1. ASSUME NEW t \in Tokens, BeginRotation(a, t) PROVE TypeOK'
  BY <1>1 DEF BeginRotation, RewriteEnv, TypeOK, requestVars
<1>2. CASE BlockLoop(a)
  BY <1>2 DEF BlockLoop, TypeOK, rowVars, requestVars
<1>3. CASE UpdateRow(a)
  <2>1. users' \in [Users -> Row] /\ made' \subseteq Tokens
    <3>1. \A u \in Users : [users[u] EXCEPT !.hash = rot[a].new, !.live = TRUE] \in Row
                           /\ users[u] \in Row
      BY DEF TypeOK, Row
    <3>2. rot[a].new \in Tokens
      BY DEF TypeOK
    <3>3. QED
      BY <1>3, <3>1, <3>2 DEF UpdateRow, TypeOK
  <2>2. QED
    BY <1>3, <2>1 DEF UpdateRow, TypeOK, requestVars
<1>4. CASE EndRotation(a)
  <2>1. (CacheOK)'
    BY <1>4, WithoutIsAmong, TypeOfCache, AuthAssumption DEF EndRotation, CacheOK, Entry
  <2>2. QED
    BY <1>4, <2>1, AuthAssumption
       DEF EndRotation, NewGlass, IdleRotation, TypeOK, CacheOK, Entry, rowVars, requestVars
<1>5. QED
  BY <1>1, <1>2, <1>3, <1>4 DEF Rotation

\* An entry a tick later.
Aged(i) == [i EXCEPT !.age = IF @ > Ttl THEN @ ELSE @ + 1]

LEMMA TickType == ASSUME TypeOK, Tick PROVE TypeOK'
<1>1. items \in Seq(Entry) /\ Len(items) <= MaxItems
  BY TypeOfCache DEF CacheOK
<1>2. items' = [k \in 1..Len(items) |-> Aged(items[k])]
  BY <1>1 DEF Tick, Aged
<1>3. \A e \in Entry : Aged(e) \in Entry
  BY AuthAssumption DEF Entry, Aged
<1>4. items' \in Seq(Entry) /\ Len(items') = Len(items)
  BY <1>1, <1>2, <1>3
<1>5. gone' \in [Tokens -> 0..(Bound + 1)]
  BY AuthAssumption DEF Tick, TypeOK, Bound
<1>6. wait' \in [Requests -> 0..Transit]
  BY AuthAssumption DEF Tick, TypeOK
<1>7. QED
  BY <1>1, <1>4, <1>5, <1>6 DEF Tick, TypeOK, Entry, rowVars, rotVars

LEMMA RestartType == ASSUME TypeOK, Restart PROVE TypeOK'
<1>1. \A S : items' \in Seq(S) /\ Len(items') = 0
  BY DEF Restart
<1>2. restarts' \in 0..MaxRestarts /\ 0 <= MaxItems /\ 0 \in 0..Transit
  BY AuthAssumption DEF Restart, TypeOK
<1>3. QED
  BY <1>1, <1>2, AuthAssumption
     DEF Restart, TypeOK, Ended, IdleDesk, IdleRotation, rowVars

LEMMA TypeStep == TypeOK /\ TokenToShow /\ [Next]_vars => (TypeOK /\ TokenToShow)'
<1> SUFFICES ASSUME TypeOK, TokenToShow, [Next]_vars PROVE (TypeOK /\ TokenToShow)'
  OBVIOUS
<1>1. CASE Next
  <2>1. TypeOK'
    BY <1>1, ShowType, ServeType, PageType, RotationType, TickType, RestartType DEF Next
  <2>2. ASSUME NEW d \in Desks, Page(d) PROVE TokenToShow'
    <3>1. \/ desk' = desk
          \/ \E entry : /\ desk' = [desk EXCEPT ![d] = entry]
                        /\ entry.do = "setKind" => entry.new \in Tokens
      BY <2>2 DEF Page, Revoke, Rotate, Mint, SetKind, Invalidate, IdleDesk
    <3>2. QED
      BY <3>1 DEF TokenToShow, TypeOK
  <2>3. ASSUME Restart PROVE TokenToShow'
    BY <2>3 DEF Restart, IdleDesk, TokenToShow
  <2>4. ASSUME UNCHANGED desk PROVE TokenToShow'
    BY <2>4 DEF TokenToShow
  <2>5. UNCHANGED desk \/ Restart \/ \E d \in Desks : Page(d)
    BY <1>1 DEF Next, Show, Serve, Read, Resolve, Miss, Degraded, Unanswered, Rotation,
       BeginRotation, BlockLoop, UpdateRow, EndRotation, Tick
  <2>6. QED
    BY <2>1, <2>2, <2>3, <2>4, <2>5
<1>2. CASE UNCHANGED vars
  BY <1>2 DEF vars, rowVars, requestVars, rotVars, TypeOK, TokenToShow
<1>3. QED
  BY <1>1, <1>2

\* Every variable has its type; in particular the cache never holds more than
\* its capacity (TokenCache._MAX), whatever hits, puts and invalidations.
THEOREM TypeCorrect == Spec => []TypeOK
<1>1. Init => TypeOK /\ TokenToShow
  BY TypeInit DEF Init, IdleDesk, TokenToShow
<1>2. QED
  BY <1>1, TypeStep, PTL DEF Spec


-----------------------------------------------------------------------------
(***************************************************************************)
(* Why the cache agrees with the rows about the kind of a key.  A hash is   *)
(* of one row at most and never comes back: every token that has been in a  *)
(* row is in made, and a new one is not.  The kind of a row changes once,   *)
(* while nobody has seen its token, so nobody has asked for it and nothing  *)
(* about it is cached.  A rotation of the break-glass key shows its token   *)
(* before it is in a row: what is asked for it until then has no answer.    *)
(***************************************************************************)
HashInv ==
    /\ \A u \in Users : users[u].hash # NoToken => users[u].hash \in made
    /\ \A u, v \in Users :
          users[u].hash = users[v].hash /\ users[u].hash # NoToken => u = v

FreshInv ==
    \A a \in Rotators :
       /\ rot[a].at # "idle" => rot[a].new \in known
       /\ rot[a].at = "updating" => rot[a].new \notin made

PageInv ==
    /\ \A d \in Desks : desk[d].do = "setKind" => desk[d].new \in Tokens \ known
    /\ \A d \in Desks : desk[d].new # NoToken => desk[d].new \in made
    /\ \A d, e \in Desks :
          desk[d].new = desk[e].new /\ desk[d].new # NoToken => d = e

RowInv == TypeOK /\ GlassInv /\ HashInv /\ FreshInv /\ PageInv

LEMMA RowInvInit == Init => RowInv
<1> SUFFICES ASSUME Init PROVE RowInv
  OBVIOUS
<1>1. HashInv
  BY AuthAssumption DEF Init, HashInv
<1>2. FreshInv /\ PageInv
  BY DEF Init, IdleRotation, IdleDesk, FreshInv, PageInv
<1>3. QED
  BY <1>1, <1>2, TypeInit, GlassInit DEF RowInv

\* The steps that leave the rows and the pages alone.
LEMMA RowsUntouched ==
    ASSUME RowInv, TypeOK', GlassInv', UNCHANGED <<users, made, known, desk, rot>>
    PROVE  RowInv'
BY DEF RowInv, HashInv, FreshInv, PageInv

\* A new token comes into one row, and perhaps to a page.
LEMMA NewTokenInRow ==
    ASSUME RowInv, TypeOK', GlassInv', NEW u \in Users, NEW t \in Tokens, Fresh(t),
           users'[u].hash = t, \A v \in Users : v # u => users'[v] = users[v],
           made' = made \cup {t}, known \subseteq known', UNCHANGED rot,
           known' \subseteq known \cup {t}
    PROVE  HashInv' /\ FreshInv'
<1>1. HashInv'
  BY DEF RowInv, HashInv, Fresh
<1>2. FreshInv'
  BY DEF RowInv, FreshInv, GlassInv, Rotations, Fresh
<1>3. QED
  BY <1>1, <1>2

LEMMA PageRows ==
    ASSUME RowInv, TypeOK', GlassInv', NEW d \in Desks, Page(d) PROVE RowInv'
<1>0. TypeOK
  BY DEF RowInv
<1>1. ASSUME NEW u \in Users, Revoke(d, u) PROVE RowInv'
  <2>1. \A v \in Users : users'[v].hash = users[v].hash
    BY <1>0, <1>1 DEF Revoke, Revoked, TypeOK, Row
  <2>2. HashInv' /\ FreshInv'
    BY <1>1, <2>1 DEF Revoke, RowInv, HashInv, FreshInv, rotVars
  <2>3. PageInv'
    BY <1>0, <1>1 DEF Revoke, RowInv, PageInv, TypeOK, IdleDesk
  <2>4. QED
    BY <2>2, <2>3 DEF RowInv
<1>2. ASSUME NEW u \in Users, NEW t \in Tokens, Rotate(d, u, t) PROVE RowInv'
  <2>1. Fresh(t) /\ t \notin made /\ t \notin known /\ t # NoToken
    BY <1>2, AuthAssumption DEF Rotate, Fresh
  <2>2. users'[u].hash = t /\ \A v \in Users : v # u => users'[v] = users[v]
    BY <1>0, <1>2 DEF Rotate, Rotated, TypeOK, Row
  <2>3. HashInv' /\ FreshInv'
    BY <1>2, <2>1, <2>2, NewTokenInRow DEF Rotate, rotVars
  <2>4. PageInv'
    BY <1>0, <1>2, <2>1 DEF Rotate, RowInv, PageInv, TypeOK, IdleDesk
  <2>5. QED
    BY <2>3, <2>4 DEF RowInv
<1>3. ASSUME NEW u \in Users, NEW t \in Tokens, NEW kind \in Kinds, Mint(d, u, t, kind)
      PROVE  RowInv'
  <2>1. Fresh(t) /\ t \notin made /\ t \notin known /\ t # NoToken
    BY <1>3, AuthAssumption DEF Mint, Fresh
  <2>2. users'[u].hash = t /\ \A v \in Users : v # u => users'[v] = users[v]
    BY <1>0, <1>3 DEF Mint, Minted, TypeOK, Row
  <2>3. known' = IF kind = "employee" THEN known \cup {t} ELSE known
    BY <1>3 DEF Mint, ShownFirst
  <2>4. HashInv' /\ FreshInv'
    BY <1>3, <2>1, <2>2, <2>3, NewTokenInRow DEF Mint, rotVars
  <2>5. PageInv'
    BY <1>0, <1>3, <2>1, <2>3 DEF Mint, RowInv, PageInv, TypeOK, IdleDesk
  <2>6. QED
    BY <2>4, <2>5 DEF RowInv
<1>4. CASE SetKind(d)
  <2>1. \A v \in Users : users'[v].hash = users[v].hash
    <3>1. ASSUME NEW u \in Users, users' = OfKind(u, "integration"), NEW v \in Users
          PROVE  users'[v].hash = users[v].hash
      BY <1>0, <3>1 DEF OfKind, TypeOK, Row
    <3>2. QED
      BY <1>4, <3>1 DEF SetKind
  <2>2. HashInv' /\ FreshInv'
    BY <1>4, <2>1 DEF SetKind, RowInv, HashInv, FreshInv, rotVars
  <2>3. PageInv'
    <3>1. desk[d].new \in Tokens /\ desk[d].new # NoToken /\ desk[d].new \in made
      BY <1>4, AuthAssumption DEF SetKind, RowInv, PageInv
    <3>2. /\ desk' = [desk EXCEPT ![d] = IdleDesk]
          /\ made' = made /\ known' \subseteq known \cup {desk[d].new}
      BY <1>4 DEF SetKind
    <3>3. desk'[d] = IdleDesk /\ \A e \in Desks : e # d => desk'[e] = desk[e]
      BY <1>0, <3>2 DEF TypeOK
    <3>4. QED
      BY <3>1, <3>2, <3>3 DEF RowInv, PageInv, IdleDesk
  <2>4. QED
    BY <2>2, <2>3 DEF RowInv
<1>5. CASE Invalidate(d)
  <2>1. HashInv' /\ FreshInv'
    BY <1>5 DEF Invalidate, RowInv, HashInv, FreshInv, rotVars
  <2>2. PageInv'
    BY <1>0, <1>5 DEF Invalidate, RowInv, PageInv, TypeOK, IdleDesk
  <2>3. QED
    BY <2>1, <2>2 DEF RowInv
<1>6. QED
  BY <1>1, <1>2, <1>3, <1>4, <1>5 DEF Page

LEMMA RotationRows ==
    ASSUME RowInv, TypeOK', GlassInv', NEW a \in Rotators, Rotation(a) PROVE RowInv'
<1>0. TypeOK
  BY DEF RowInv
<1>1. ASSUME NEW t \in Tokens, BeginRotation(a, t) PROVE RowInv'
  <2>1. Fresh(t) /\ t \notin made /\ t \notin known
    BY <1>1 DEF BeginRotation, Fresh
  <2>2. HashInv'
    BY <1>1 DEF BeginRotation, RowInv, HashInv
  <2>3. FreshInv'
    BY <1>0, <1>1, <2>1 DEF BeginRotation, RowInv, FreshInv, TypeOK
  <2>4. PageInv'
    BY <1>1, <2>1, AuthAssumption DEF BeginRotation, RowInv, PageInv
  <2>5. QED
    BY <2>2, <2>3, <2>4 DEF RowInv
<1>2. CASE BlockLoop(a)
  BY <1>2, RowsUntouched DEF BlockLoop, rowVars
<1>3. CASE UpdateRow(a)
  <2>1. /\ rot[a].at = "updating" /\ rot[a].new \in known /\ rot[a].new \notin made
        /\ rot[a].old \in Tokens /\ rot[a].new \in Tokens
    BY <1>0, <1>3 DEF UpdateRow, RowInv, FreshInv, TypeOK
  <2>2. \A b \in Rotators : b # a => rot[b].at = "idle"
    BY <2>1 DEF RowInv, GlassInv
  <2>3. rot'[a].new = rot[a].new /\ rot'[a].at = "updated"
        /\ \A b \in Rotators : b # a => rot'[b] = rot[b]
    BY <1>0, <1>3 DEF UpdateRow, TypeOK
  <2>4. FreshInv'
    <3>1. known' = known
      BY <1>3 DEF UpdateRow
    <3>2. QED
      BY <2>1, <2>2, <2>3, <3>1 DEF FreshInv
  <2>5. PageInv'
    BY <1>3 DEF UpdateRow, RowInv, PageInv
  <2>6. HashInv'
    <3>1. CASE UNCHANGED <<users, made>>
      BY <3>1 DEF RowInv, HashInv
    <3>2. CASE users' # users
      <4>1. \A v \in Users :
               users'[v].hash = IF users[v].hash = rot[a].old THEN rot[a].new
                                ELSE users[v].hash
        <5>1. users' = [u \in Users |->
                           IF users[u].hash = rot[a].old
                           THEN [users[u] EXCEPT !.hash = rot[a].new, !.live = TRUE]
                           ELSE users[u]]
          BY <1>3, <3>2 DEF UpdateRow
        <5>2. \A u \in Users : users[u] \in Row
          BY <1>0 DEF TypeOK
        <5>3. QED
          BY <5>1, <5>2 DEF Row
      <4>2. made' = IF \E u \in Users : users[u].hash = rot[a].old
                    THEN made \cup {rot[a].new} ELSE made
        BY <1>3, <3>2 DEF UpdateRow
      <4>3. rot[a].old # NoToken
        BY <2>1, AuthAssumption
      <4>4. QED
        BY <2>1, <4>1, <4>2, <4>3 DEF RowInv, HashInv
    <3>3. CASE users' = users /\ made' # made
      BY <1>0, <1>3, <2>1, <3>3 DEF UpdateRow, RowInv, HashInv, TypeOK, Row
    <3>4. QED
      BY <3>1, <3>2, <3>3
  <2>7. QED
    BY <2>4, <2>5, <2>6 DEF RowInv
<1>4. CASE EndRotation(a)
  <2>1. HashInv' /\ PageInv'
    BY <1>4 DEF EndRotation, RowInv, HashInv, PageInv, rowVars
  <2>2. FreshInv'
    BY <1>0, <1>4 DEF EndRotation, RowInv, FreshInv, TypeOK, IdleRotation, rowVars
  <2>3. QED
    BY <2>1, <2>2 DEF RowInv
<1>5. QED
  BY <1>1, <1>2, <1>3, <1>4 DEF Rotation

LEMMA RowStep == RowInv /\ [Next]_vars => RowInv'
<1> SUFFICES ASSUME RowInv, [Next]_vars PROVE RowInv'
  OBVIOUS
<1>1. TypeOK' /\ GlassInv'
  BY TypeStep, GlassStep DEF RowInv, PageInv, TokenToShow
<1>2. CASE Restart
  <2>1. HashInv'
    BY <1>2 DEF Restart, RowInv, HashInv, rowVars
  <2>2. FreshInv' /\ PageInv'
    BY <1>2 DEF Restart, FreshInv, PageInv, IdleRotation, IdleDesk
  <2>3. QED
    BY <1>1, <2>1, <2>2 DEF RowInv
<1>3. ASSUME NEW d \in Desks, Page(d) PROVE RowInv'
  BY <1>1, <1>3, PageRows
<1>4. ASSUME NEW a \in Rotators, Rotation(a) PROVE RowInv'
  BY <1>1, <1>4, RotationRows
<1>5. CASE UNCHANGED <<users, made, known, desk, rot>>
  BY <1>1, <1>5, RowsUntouched
<1>6. \/ UNCHANGED <<users, made, known, desk, rot>>
      \/ Restart
      \/ \E d \in Desks : Page(d)
      \/ \E a \in Rotators : Rotation(a)
  <2>1. CASE UNCHANGED vars
    BY <2>1 DEF vars, rowVars, rotVars
  <2>2. ASSUME NEW r \in Requests, Serve(r) PROVE UNCHANGED <<users, made, known, desk, rot>>
    BY <2>2 DEF Serve, Read, Resolve, Miss, Degraded, Unanswered, rowVars, rotVars
  <2>3. ASSUME NEW r \in Requests, NEW t \in Tokens, Show(r, t)
        PROVE  UNCHANGED <<users, made, known, desk, rot>>
    BY <2>3 DEF Show, rowVars, rotVars
  <2>4. CASE Tick
    BY <2>4 DEF Tick, rowVars, rotVars
  <2>5. QED
    BY <2>1, <2>2, <2>3, <2>4 DEF Next
<1>7. QED
  BY <1>2, <1>3, <1>4, <1>5, <1>6


-----------------------------------------------------------------------------
\* What a step may do to the rows, for a token that has been in one.
LEMMA RowsOfToken ==
    ASSUME RowInv, [Next]_vars, NEW t \in Tokens, t \in made, NEW u \in Users,
           users'[u].hash = t
    PROVE  /\ users[u].hash = t
           /\ users'[u].live => users[u].live
           /\ t \in known => users'[u].kind = users[u].kind
<1>0. TypeOK
  BY DEF RowInv
<1>1. ASSUME NEW d \in Desks, Page(d) PROVE
        \/ users' = users
        \/ \E v \in Users : users' = Revoked(v)
        \/ \E v \in Users, n \in Tokens : Fresh(n) /\ users' = Rotated(v, n)
        \/ \E v \in Users, n \in Tokens : Fresh(n) /\ users' = Minted(v, n)
        \/ \E v \in Users : /\ users[v].hash = desk[d].new
                            /\ desk[d].do = "setKind"
                            /\ users' = OfKind(v, "integration")
  BY <1>1 DEF Page, Revoke, Rotate, Mint, SetKind, Invalidate
<1>2. ASSUME NEW v \in Users, users' = Revoked(v) PROVE
        users'[u].hash = users[u].hash /\ users'[u].kind = users[u].kind
          /\ (users'[u].live => users[u].live)
  BY <1>0, <1>2 DEF Revoked, TypeOK, Row
<1>3. ASSUME NEW v \in Users, NEW n \in Tokens, Fresh(n), users' = Rotated(v, n)
      PROVE  users'[u] = users[u]
  BY <1>0, <1>3 DEF Rotated, TypeOK, Row, Fresh
<1>4. ASSUME NEW v \in Users, NEW n \in Tokens, Fresh(n), users' = Minted(v, n)
      PROVE  users'[u] = users[u]
  BY <1>0, <1>4 DEF Minted, TypeOK, Row, Fresh
<1>5. ASSUME NEW d \in Desks, desk[d].do = "setKind",
             NEW v \in Users, users[v].hash = desk[d].new,
             users' = OfKind(v, "integration")
      PROVE  /\ users'[u].hash = users[u].hash /\ users'[u].live = users[u].live
             /\ t \in known => users'[u].kind = users[u].kind
  <2>1. desk[d].new \notin known
    BY <1>5 DEF RowInv, PageInv
  <2>2. QED
    BY <1>0, <1>5, <2>1 DEF OfKind, TypeOK, Row
<1>6. ASSUME NEW a \in Rotators, UpdateRow(a), users' # users
      PROVE  users'[u] = users[u]
  <2>1. users' = [v \in Users |->
                   IF users[v].hash = rot[a].old
                   THEN [users[v] EXCEPT !.hash = rot[a].new, !.live = TRUE]
                   ELSE users[v]]
    BY <1>6 DEF UpdateRow
  <2>2. rot[a].new \notin made /\ users[u] \in Row
    BY <1>0, <1>6 DEF UpdateRow, RowInv, FreshInv, TypeOK
  <2>3. QED
    BY <2>1, <2>2 DEF Row
<1>7. \/ users' = users
      \/ \E d \in Desks : Page(d)
      \/ \E a \in Rotators : UpdateRow(a)
  <2>1. CASE UNCHANGED vars
    BY <2>1 DEF vars, rowVars
  <2>2. ASSUME NEW r \in Requests, Serve(r) PROVE users' = users
    BY <2>2 DEF Serve, Read, Resolve, Miss, Degraded, Unanswered, rowVars
  <2>3. ASSUME NEW a \in Rotators, Rotation(a) PROVE users' = users \/ UpdateRow(a)
    BY <2>3 DEF Rotation, BeginRotation, BlockLoop, EndRotation, rowVars
  <2>4. ASSUME NEW r \in Requests, NEW q \in Tokens, Show(r, q) PROVE users' = users
    BY <2>4 DEF Show, rowVars
  <2>5. Tick \/ Restart => users' = users
    BY DEF Tick, Restart, rowVars
  <2>6. QED
    BY <2>1, <2>2, <2>3, <2>4, <2>5 DEF Next
<1>8. QED
  BY <1>1, <1>2, <1>3, <1>4, <1>5, <1>6, <1>7

\* A token once seen, or once in a row, remains so.
LEMMA SeenGrows ==
    ASSUME [Next]_vars PROVE made \subseteq made' /\ known \subseteq known'
<1>1. CASE UNCHANGED vars
  BY <1>1 DEF vars, rowVars
<1>2. ASSUME NEW r \in Requests, Serve(r) PROVE UNCHANGED <<made, known>>
  BY <1>2 DEF Serve, Read, Resolve, Miss, Degraded, Unanswered, rowVars
<1>3. ASSUME NEW r \in Requests, NEW q \in Tokens, Show(r, q)
      PROVE  UNCHANGED <<made, known>>
  BY <1>3 DEF Show, rowVars
<1>4. ASSUME NEW a \in Rotators, Rotation(a)
      PROVE  made \subseteq made' /\ known \subseteq known'
  BY <1>4 DEF Rotation, BeginRotation, BlockLoop, UpdateRow, EndRotation, rowVars
<1>5. ASSUME NEW d \in Desks, Page(d)
      PROVE  made \subseteq made' /\ known \subseteq known'
  BY <1>5 DEF Page, Revoke, Rotate, Mint, ShownFirst, SetKind, Invalidate
<1>6. Tick \/ Restart => UNCHANGED <<made, known>>
  BY DEF Tick, Restart, rowVars
<1>7. QED
  BY <1>1, <1>2, <1>3, <1>4, <1>5, <1>6 DEF Next

\* Whoever has the token t has the kind k.
KindIs(t, k) == \A u \in Users : users[u].hash = t => users[u].kind = k

LEMMA KindStays ==
    ASSUME RowInv, [Next]_vars, NEW t \in Tokens, t \in made \cap known,
           NEW k, KindIs(t, k)
    PROVE  t \in (made \cap known)' /\ KindIs(t, k)'
BY RowsOfToken, SeenGrows DEF KindIs

LEMMA NeverValidAgain ==
    ASSUME RowInv, [Next]_vars, NEW t \in Tokens, t \in made, ~Valid(t)
    PROVE  t \in made' /\ ~Valid(t)'
BY RowsOfToken, SeenGrows DEF Valid

-----------------------------------------------------------------------------
(***************************************************************************)
(* The rest of the invariant.  What Postgres has answered, and what the     *)
(* cache holds, is the kind of the row; and the token has been gone no      *)
(* longer than the answer has been on its way, or the entry has been there  *)
(* after an answer's longest way.                                           *)
(***************************************************************************)
GoneInv == \A t \in Tokens : gone[t] > 0 => t \in made /\ ~Valid(t)

AnswerInv(r) ==
    /\ token[r] \in known
    /\ at[r] = "read" /\ got[r] # "none" =>
          /\ token[r] \in made /\ KindIs(token[r], got[r])
          /\ gone[token[r]] <= wait[r]

EntryInv(e) ==
    /\ e.token \in made \cap known /\ KindIs(e.token, e.kind)
    /\ e.age <= Ttl => gone[e.token] <= e.age + Transit

AuthInv ==
    /\ RowInv /\ GoneInv
    /\ \A r \in Requests : AnswerInv(r)
    /\ \A k \in DOMAIN items : EntryInv(items[k])

LEMMA AuthInit == Init => AuthInv
<1> SUFFICES ASSUME Init PROVE AuthInv
  OBVIOUS
<1>1. GoneInv /\ \A r \in Requests : AnswerInv(r)
  BY DEF Init, GoneInv, AnswerInv
<1>2. DOMAIN items = {}
  BY DEF Init
<1>3. QED
  BY <1>1, <1>2, RowInvInit DEF AuthInv

LEMMA EntryStays ==
    ASSUME AuthInv, [Next]_vars, UNCHANGED gone, NEW e \in Entry, EntryInv(e)
    PROVE  EntryInv(e)'
<1>1. e.token \in Tokens /\ RowInv
  BY DEF Entry, AuthInv
<1>2. QED
  BY <1>1, KindStays DEF EntryInv

LEMMA AnswerStays ==
    ASSUME AuthInv, [Next]_vars, UNCHANGED gone, NEW r \in Requests,
           token'[r] = token[r], at'[r] = at[r] \/ at'[r] # "read",
           got'[r] = got[r], wait'[r] = wait[r]
    PROVE  AnswerInv(r)'
<1>1. token[r] \in Tokens /\ RowInv /\ AnswerInv(r)
  BY DEF AuthInv, RowInv, TypeOK
<1> PICK t, k : t = token[r] /\ k = got[r]
  OBVIOUS
<1>2. CASE at[r] = "read" /\ k # "none"
  BY <1>1, <1>2, KindStays DEF AnswerInv
<1>3. CASE ~(at[r] = "read" /\ k # "none")
  BY <1>1, <1>3, SeenGrows DEF AnswerInv
<1>4. QED
  BY <1>2, <1>3

LEMMA GoneStays ==
    ASSUME AuthInv, [Next]_vars, UNCHANGED gone
    PROVE  GoneInv'
BY NeverValidAgain DEF AuthInv, GoneInv

\* A step after which the cache has only entries it had.
LEMMA CacheStays ==
    ASSUME AuthInv, [Next]_vars, UNCHANGED gone, Among(items')
    PROVE  (\A k \in DOMAIN items : EntryInv(items[k]))'
<1> SUFFICES ASSUME NEW k \in DOMAIN items' PROVE EntryInv(items[k])'
  OBVIOUS
<1>1. PICK j \in DOMAIN items : items'[k] = items[j]
  BY DEF Among
<1> PICK e : e = items[j]
  OBVIOUS
<1>2. e \in Entry /\ EntryInv(e)
  BY TypeOfCache DEF AuthInv, RowInv, CacheOK
<1>3. EntryInv(e)'
  BY <1>2, EntryStays
<1>4. QED
  BY <1>1, <1>3

\* The steps that leave the requests alone.
LEMMA RequestsUntouched ==
    ASSUME AuthInv, [Next]_vars, UNCHANGED <<gone, at, token, got, wait>>, Among(items')
    PROVE  AuthInv'
BY RowStep, GoneStays, CacheStays, AnswerStays DEF AuthInv

LEMMA SameIsAmong == items' = items => Among(items')
BY DEF Among


LEMMA PageKeeps ==
    ASSUME AuthInv, [Next]_vars, NEW d \in Desks, Page(d) PROVE AuthInv'
<1>1. items' = items \/ items' = Without(desk[d].old)
  BY DEF Page, Revoke, Rotate, Mint, SetKind, Invalidate
<1>2. Among(items')
  BY <1>1, SameIsAmong, WithoutIsAmong, TypeOfCache DEF AuthInv, RowInv, CacheOK
<1>3. UNCHANGED <<gone, at, token, got, wait>>
  BY DEF Page, Revoke, Rotate, Mint, SetKind, Invalidate, requestVars
<1>4. QED
  BY <1>2, <1>3, RequestsUntouched

LEMMA RotationKeepsAuth ==
    ASSUME AuthInv, [Next]_vars, NEW a \in Rotators, Rotation(a) PROVE AuthInv'
<1>1. items' = items \/ items' = Without(rot[a].old)
  BY DEF Rotation, BeginRotation, BlockLoop, UpdateRow, EndRotation
<1>2. Among(items')
  BY <1>1, SameIsAmong, WithoutIsAmong, TypeOfCache DEF AuthInv, RowInv, CacheOK
<1>3. UNCHANGED <<gone, at, token, got, wait>>
  BY DEF Rotation, BeginRotation, BlockLoop, UpdateRow, EndRotation, requestVars
<1>4. QED
  BY <1>2, <1>3, RequestsUntouched

LEMMA ShowKeeps ==
    ASSUME AuthInv, [Next]_vars, NEW r \in Requests, NEW t \in Tokens, Show(r, t)
    PROVE  AuthInv'
<1>1. Among(items') /\ UNCHANGED gone
  BY GetIsAmong, TypeOfCache DEF Show, AuthInv, RowInv, CacheOK
<1>2. /\ token' = [token EXCEPT ![r] = t] /\ t \in known
      /\ \E a : a # "read" /\ at' = [at EXCEPT ![r] = a]
      /\ got' = [got EXCEPT ![r] = "none"] /\ wait' = [wait EXCEPT ![r] = 0]
  <2> PICK a : a = IF Hit(t) THEN "served" ELSE "looking"
    OBVIOUS
  <2>1. a # "read" /\ at' = [at EXCEPT ![r] = a]
    BY DEF Show
  <2>2. QED
    BY <2>1 DEF Show
<1>3. AnswerInv(r)'
  BY <1>2, SeenGrows DEF AnswerInv, AuthInv, RowInv, TypeOK
<1>4. ASSUME NEW q \in Requests, q # r PROVE AnswerInv(q)'
  BY <1>1, <1>2, <1>4, AnswerStays DEF AuthInv, RowInv, TypeOK
<1>5. QED
  BY <1>1, <1>3, <1>4, RowStep, GoneStays, CacheStays DEF AuthInv

\* The row that lookup finds is that of whoever has the token.
LEMMA LookupFinds ==
    ASSUME RowInv, NEW t \in Tokens, Valid(t)
    PROVE  KindIs(t, users[Lookup(t)].kind) /\ t \in made
BY AuthAssumption DEF RowInv, HashInv, Valid, Lookup, KindIs

LEMMA ServeKeeps ==
    ASSUME AuthInv, [Next]_vars, NEW r \in Requests, Serve(r) PROVE AuthInv'
<1>0. RowInv /\ RowInv' /\ TypeOK /\ GoneInv
  BY RowStep DEF AuthInv, RowInv
<1>1. CASE Read(r)
  <2> PICK t, k : t = token[r] /\ k = got'[r]
    OBVIOUS
  <2>1. /\ t \in Tokens /\ t \in known /\ UNCHANGED <<gone, items, users, made, known>>
        /\ token' = token /\ wait' = wait /\ wait[r] \in Nat /\ gone[t] \in Nat
        /\ \A q \in Requests : q # r => at'[q] = at[q] /\ got'[q] = got[q]
        /\ k = IF Valid(t) THEN users[Lookup(t)].kind ELSE "none"
    BY <1>0, <1>1, AuthAssumption
       DEF Read, AuthInv, AnswerInv, TypeOK, Bound, rowVars
  <2>2. k # "none" => t \in made /\ KindIs(t, k) /\ gone[t] = 0
    BY <1>0, <2>1, LookupFinds DEF GoneInv
  <2>3. AnswerInv(r)'
    BY <2>1, <2>2 DEF AnswerInv, KindIs
  <2>4. ASSUME NEW q \in Requests, q # r PROVE AnswerInv(q)'
    BY <2>1, <2>4, AnswerStays
  <2>5. QED
    BY <1>0, <2>1, <2>3, <2>4, SameIsAmong, GoneStays, CacheStays DEF AuthInv
<1>2. CASE Resolve(r)
  <2> PICK t, k : t = token[r] /\ k = got[r]
    OBVIOUS
  <2> PICK e : e = [token |-> t, kind |-> k, age |-> 0]
    OBVIOUS
  <2>1. /\ t \in Tokens /\ k \in Kinds /\ at[r] = "read" /\ items' = AfterPut(t, k)
        /\ UNCHANGED <<gone, token, got, wait>>
        /\ at' = [at EXCEPT ![r] = "served"]
    BY <1>0, <1>2 DEF Resolve, TypeOK
  <2>2. items \in Seq(Entry) /\ Len(items) <= MaxItems
    BY <1>0, TypeOfCache DEF CacheOK
  <2>3. EntryInv(e)
    <3>1. /\ t \in made \cap known /\ KindIs(t, k)
          /\ gone[t] <= wait[r]
      BY <1>2, <2>1 DEF Resolve, AuthInv, AnswerInv
    <3>2. gone[t] \in Nat /\ wait[r] \in 0..Transit /\ Transit \in Nat
      BY <1>0, <2>1, AuthAssumption DEF TypeOK, Bound
    <3>3. QED
      BY <3>1, <3>2 DEF EntryInv
  <2>4. e \in Entry
    BY <2>1, AuthAssumption DEF Entry
  <2>5. EntryInv(e)'
    BY <2>1, <2>3, <2>4, EntryStays
  <2>6. ASSUME NEW i \in DOMAIN items' PROVE EntryInv(items[i])'
    <3>1. items'[i] = e \/ \E j \in DOMAIN items : items'[i] = items[j]
      BY <2>1, <2>2, PutIsAmong
    <3>2. ASSUME NEW j \in DOMAIN items, items'[i] = items[j] PROVE EntryInv(items[i])'
      <4> PICK f : f = items[j]
        OBVIOUS
      <4>1. f \in Entry /\ EntryInv(f)
        BY <2>2 DEF AuthInv
      <4>2. EntryInv(f)'
        BY <2>1, <4>1, EntryStays
      <4>3. QED
        BY <3>2, <4>2
    <3>3. QED
      BY <2>5, <3>1, <3>2
  <2>7. ASSUME NEW q \in Requests PROVE AnswerInv(q)'
    BY <1>0, <2>1, AnswerStays DEF TypeOK
  <2>8. QED
    BY <1>0, <2>1, <2>6, <2>7, GoneStays DEF AuthInv
<1>3. ASSUME \/ \E door \in Doors : Miss(r, door) \/ Degraded(r, door)
             \/ Unanswered(r)
      PROVE  AuthInv'
  <2>1. /\ UNCHANGED <<gone, items, token, got, wait>>
        /\ \E a : a # "read" /\ at' = [at EXCEPT ![r] = a]
    <3>1. ASSUME NEW door \in Doors, Miss(r, door)
          PROVE  \E a : a # "read" /\ at' = [at EXCEPT ![r] = a]
      BY <3>1 DEF Miss, TryGlass
    <3>2. ASSUME NEW door \in Doors, Degraded(r, door)
          PROVE  \E a : a # "read" /\ at' = [at EXCEPT ![r] = a]
      <4>1. door = "api" \/ door = "admin" \/ door = "me"
        BY DEF Doors
      <4>2. QED
        BY <3>2, <4>1 DEF Degraded, TryGlass
    <3>3. ASSUME Unanswered(r)
          PROVE  \E a : a # "read" /\ at' = [at EXCEPT ![r] = a]
      BY <3>3 DEF Unanswered
    <3>4. UNCHANGED <<gone, items, token, got, wait>>
      BY <1>3 DEF Miss, Degraded, Unanswered
    <3>5. QED
      BY <1>3, <3>1, <3>2, <3>3, <3>4
  <2>2. ASSUME NEW q \in Requests PROVE AnswerInv(q)'
    BY <1>0, <2>1, AnswerStays DEF TypeOK
  <2>3. QED
    BY <1>0, <2>1, <2>2, SameIsAmong, GoneStays, CacheStays DEF AuthInv
<1>4. QED
  BY <1>1, <1>2, <1>3 DEF Serve

LEMMA TickKeeps == ASSUME AuthInv, [Next]_vars, Tick PROVE AuthInv'
<1>1. RowInv /\ RowInv' /\ TypeOK /\ UNCHANGED <<users, made, known, at, token, got>>
  BY RowStep DEF Tick, AuthInv, RowInv, rowVars
<1>2. ASSUME NEW t \in Tokens
      PROVE  /\ gone[t] \in Nat /\ gone'[t] \in Nat /\ gone'[t] <= gone[t] + 1
             /\ gone'[t] > 0 => t \in made /\ ~Valid(t)
  BY <1>1, AuthAssumption DEF Tick, TypeOK, Bound
<1>3. GoneInv'
  BY <1>1, <1>2 DEF GoneInv, Valid
<1>4. ASSUME NEW r \in Requests PROVE AnswerInv(r)'
  <2> PICK t : t = token[r]
    OBVIOUS
  <2>1. t \in Tokens /\ wait[r] \in Nat
        /\ (at[r] = "read" => wait'[r] = wait[r] + 1)
    BY <1>1, AuthAssumption DEF Tick, TypeOK
  <2>2. AnswerInv(r)
    BY DEF AuthInv
  <2>3. QED
    BY <1>1, <1>2, <2>1, <2>2 DEF AnswerInv, KindIs
<1>5. ASSUME NEW k \in DOMAIN items' PROVE EntryInv(items[k])'
  <2>1. k \in DOMAIN items /\ items'[k] = Aged(items[k])
    BY <1>1 DEF Tick, Aged, TypeOK
  <2> PICK e : e = items[k]
    OBVIOUS
  <2>2. e \in Entry /\ EntryInv(e)
    BY <1>1, <2>1, TypeOfCache DEF CacheOK, AuthInv
  <2> PICK f : f = items'[k]
    OBVIOUS
  <2>3. /\ f.token = e.token /\ f.kind = e.kind
        /\ f.age <= Ttl => f.age = e.age + 1 /\ e.age <= Ttl
    BY <2>1, <2>2, AuthAssumption DEF Aged, Entry
  <2>4. e.token \in Tokens /\ e.age \in Nat /\ Transit \in Nat
    BY <2>2, AuthAssumption DEF Entry
  <2>5. EntryInv(f)'
    BY <1>1, <1>2, <2>2, <2>3, <2>4 DEF EntryInv, KindIs
  <2>6. QED
    BY <2>5
<1>6. QED
  BY <1>1, <1>3, <1>4, <1>5 DEF AuthInv

LEMMA RestartKeeps == ASSUME AuthInv, [Next]_vars, Restart PROVE AuthInv'
<1>1. UNCHANGED <<gone, token, known>> /\ DOMAIN items' = {}
      /\ at' = [r \in Requests |-> "idle"]
  BY DEF Restart, rowVars
<1>2. \A r \in Requests : AnswerInv(r)'
  BY <1>1 DEF AuthInv, AnswerInv
<1>3. QED
  BY <1>1, <1>2, RowStep, GoneStays DEF AuthInv

LEMMA AuthStep == AuthInv /\ [Next]_vars => AuthInv'
<1> SUFFICES ASSUME AuthInv, [Next]_vars PROVE AuthInv'
  OBVIOUS
<1>1. CASE Next
  BY <1>1, ShowKeeps, ServeKeeps, PageKeeps, RotationKeepsAuth, TickKeeps, RestartKeeps
     DEF Next
<1>2. CASE UNCHANGED vars
  BY <1>2, RequestsUntouched, SameIsAmong DEF vars, requestVars
<1>3. QED
  BY <1>1, <1>2

\* What the cache and the answers under way say of a token was so at most
\* Ttl and Transit ago, and a row's kind never changes under a token in use.
THEOREM AuthInvariant == Spec => []AuthInv
<1> QED
  BY AuthInit, AuthStep, PTL DEF Spec

\* The kind in the cache is that of the row (TokenCache, forbid_integration_kind).
THEOREM KindsAgree == Spec => []KeysKeepKind
<1>1. AuthInv => KeysKeepKind
  BY DEF AuthInv, EntryInv, KindIs, KeysKeepKind
<1>2. QED
  BY <1>1, AuthInvariant, PTL

\* The one way to be taken for the user of a token is a fresh entry of the
\* cache, or an answer of Postgres.
LEMMA ServedBy ==
    ASSUME TypeOK, [Next]_vars, NEW r \in Requests, at[r] # "served", at'[r] = "served"
    PROVE  \/ Resolve(r)
           \/ \E t \in Tokens : Hit(t) /\ token'[r] = t /\ UNCHANGED gone
<1>1. ~UNCHANGED at
  OBVIOUS
<1>2. ~Tick /\ ~Restart
  BY DEF Tick, Restart
<1>3. ASSUME NEW d \in Desks, Page(d) PROVE FALSE
  BY <1>1, <1>3 DEF Page, Revoke, Rotate, Mint, SetKind, Invalidate, requestVars
<1>4. ASSUME NEW a \in Rotators, Rotation(a) PROVE FALSE
  BY <1>1, <1>4 DEF Rotation, BeginRotation, BlockLoop, UpdateRow, EndRotation,
                    requestVars
<1>5. ASSUME NEW q \in Requests, NEW t \in Tokens, Show(q, t)
      PROVE  Hit(t) /\ token'[r] = t /\ UNCHANGED gone
  BY <1>5 DEF Show, TypeOK
<1>6. ASSUME NEW q \in Requests, Serve(q) PROVE Resolve(r)
  <2>1. at \in [Requests -> Ended \cup {"looking", "read"}] /\ at'[r] # at[r]
    BY DEF TypeOK
  <2>2. ~Read(q) /\ ~Unanswered(q)
    BY <2>1 DEF Read, Unanswered, Ended
  <2>3. ASSUME NEW door \in Doors, Miss(q, door) PROVE FALSE
    BY <2>1, <2>3 DEF Miss, TryGlass, Ended
  <2>4. ASSUME NEW door \in Doors, Degraded(q, door) PROVE FALSE
    BY <2>1, <2>4 DEF Degraded, TryGlass, Ended, Doors
  <2>5. Resolve(q)
    BY <1>6, <2>2, <2>3, <2>4 DEF Serve
  <2>6. QED
    BY <2>1, <2>5 DEF Resolve
<1>7. QED
  BY <1>1, <1>2, <1>3, <1>4, <1>5, <1>6 DEF Next, vars, requestVars

\* A token that was revoked, rotated or replaced longer ago than the cache keeps
\* an entry, and an answer can be on its way, is taken for nobody's: whatever
\* invalidations came too early, entries were read over and over, or processes
\* restarted (TokenCache.get and put, require_api_key).
THEOREM GoneTokensAreRefused == Spec => GoneTokensFade
<1>1. ASSUME AuthInv, [Next]_vars, NEW r \in Requests, at[r] # "served", at'[r] = "served"
      PROVE  gone[token'[r]] <= Bound
  <2>1. TypeOK
    BY <1>1 DEF AuthInv, RowInv
  <2>2. CASE Resolve(r)
    <3>1. gone[token[r]] <= wait[r] /\ token'[r] = token[r]
      BY <1>1, <2>2 DEF Resolve, AuthInv, AnswerInv
    <3>2. gone[token[r]] \in Nat /\ wait[r] \in 0..Transit
      BY <2>1, AuthAssumption DEF TypeOK, Bound
    <3>3. QED
      BY <3>1, <3>2, AuthAssumption DEF Bound
  <2>3. ASSUME NEW t \in Tokens, Hit(t), token'[r] = t PROVE gone[token'[r]] <= Bound
    <3>1. PICK k \in DOMAIN items : items[k].token = t /\ items[k].age <= Ttl
      BY <2>3 DEF Hit, Entries
    <3>2. gone[t] <= items[k].age + Transit
      BY <1>1, <3>1 DEF AuthInv, EntryInv
    <3>3. items[k].age \in Nat /\ gone[t] \in Nat
      <4>1. items[k] \in Entry
        BY <2>1, <3>1, TypeOfCache DEF CacheOK
      <4>2. QED
        BY <2>1, <4>1, AuthAssumption DEF Entry, TypeOK, Bound
    <3>4. QED
      BY <2>3, <3>1, <3>2, <3>3, AuthAssumption DEF Bound
  <2>4. QED
    BY <1>1, <2>1, <2>2, <2>3, ServedBy
<1>2. AuthInv /\ [Next]_vars
        => [\A r \in Requests :
               at[r] # "served" /\ at'[r] = "served" => gone[token'[r]] <= Bound]_vars
  BY <1>1
<1>3. QED
  BY <1>2, AuthInvariant, PTL DEF Spec, GoneTokensFade
=============================================================================
