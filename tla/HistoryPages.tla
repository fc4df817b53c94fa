---------------------------- MODULE HistoryPages ----------------------------
(***************************************************************************)
(* The personal history: a person's dictations and meetings, the page       *)
(* /me/history with its "Load more", deletion, restoration and the TTL      *)
(* sweep, while new rows come in.  One person, one browser walking the      *)
(* pages once.  Routes and sweep each make one call of JobStore under its   *)
(* lock, so a request is one action.                                        *)
(*                                                                          *)
(* A row is <<kind, id>>.  Dictations have integer ids that only grow,      *)
(* meetings a UUID, here its rank among them.  Text, search and the owner   *)
(* are left out: every query has the owner in its WHERE.                    *)
(***************************************************************************)
EXTENDS Integers, Sequences, SequencesExt, FiniteSets

CONSTANTS FirstId,      \* the next id of the dictations table at the start
          MaxDictations,\* bound: dictations of the model
          Jobs,         \* ids of the meeting and file jobs
          Limit,        \* history_page_size
          Days,         \* the range tab, in ticks
          MaxTime,      \* bound: ticks of the clock
          MaxPages      \* bound: pages of a walk

ASSUME HistoryAssumption ==
    /\ FirstId \in Nat \ {0} /\ MaxDictations \in Nat
    /\ Jobs \subseteq Nat /\ IsFiniteSet(Jobs)
    /\ FirstId + MaxDictations <= 100
    /\ Limit \in Nat \ {0} /\ Days \in Nat \ {0} /\ MaxTime \in Nat
    /\ MaxPages \in Nat

VARIABLES
    now,
    nextId,     \* AUTOINCREMENT of dictations
    made,       \* created_at of each row there is
    ended,      \* finished_at of each job that has one
    swept,      \* jobs whose transcript is gone
    deleted,    \* rows with deleted_at
    kind,       \* the filter of the walk, "" before it begins
    cursor,     \* dict_cursor and jobs_cursor of the page's "Load more"
    more,       \* there is such a button
    pages,      \* pages loaded
    shown,      \* the rows they appended, in order
    there       \* rows listed at the first page and ever since

table == <<nextId, made, ended, swept, deleted>>
walk  == <<kind, cursor, more, pages, shown>>
pagesVars == <<now, table, walk, there>>

-----------------------------------------------------------------------------
Kinds  == {"dictation", "meeting"}
Ids    == FirstId..(FirstId + MaxDictations - 1)
Rows   == ({"dictation"} \X Ids) \cup ({"meeting"} \X Jobs)
Time   == 0..MaxTime
NoTime == -1
Start  == [at |-> NoTime, id |-> 0]
Cursor == [at : Time, id : Nat] \cup {Start}

PagesTypeOK ==
    /\ now \in Time
    /\ nextId \in FirstId..(FirstId + MaxDictations)
    /\ made \in [Rows -> Time \cup {NoTime}]
    /\ ended \in [Jobs -> Time \cup {NoTime}]
    /\ swept \subseteq Jobs /\ deleted \subseteq Rows
    /\ kind \in Kinds \cup {"", "all"}
    /\ cursor \in [Kinds -> Cursor]
    /\ more \in BOOLEAN
    /\ pages \in Nat
    /\ shown \in Seq(Rows)
    /\ there \subseteq Rows

PagesInit ==
    /\ now = 0 /\ nextId = FirstId
    /\ made = [r \in Rows |-> NoTime]
    /\ ended = [j \in Jobs |-> NoTime]
    /\ swept = {} /\ deleted = {}
    /\ kind = "" /\ cursor = [k \in Kinds |-> Start]
    /\ more = FALSE /\ pages = 0 /\ shown = <<>> /\ there = {}

-----------------------------------------------------------------------------
\* A dictation is stored with its text, a job gets it when it is done.
HasText(r) ==
    IF r[1] = "dictation" THEN made[r] # NoTime
    ELSE ended[r[2]] # NoTime /\ r[2] \notin swept

\* The WHERE of a leg without its cursor: from epoch_for_range to now.
Listed(r) ==
    /\ made[r] # NoTime /\ made[r] >= now - Days /\ made[r] < now
    /\ HasText(r) /\ r \notin deleted

\* Ids of at most two digits, written in decimal, in the order of texts.
TextBefore(m, n) ==
    LET Lead(i) == IF i >= 10 THEN i \div 10 ELSE i
    IN Lead(m) < Lead(n) \/ (Lead(m) = Lead(n) /\ m < n)

\* A slip for a mutant: the cursor's own row comes again.
BelowOrAt(r, c) ==
    c = Start \/ made[r] < c.at \/ (made[r] = c.at /\ r[2] <= c.id)

\* A slip for a mutant: ids compared as text.
BelowByText(r, c) ==
    c = Start \/ made[r] < c.at \/ (made[r] = c.at /\ TextBefore(r[2], c.id))

\* (created_at, id) < cursor, when there is one.
Below(r, c) ==
    c = Start \/ made[r] < c.at \/ (made[r] = c.at /\ r[2] < c.id)

Newer(r, s) == made[r] > made[s] \/ (made[r] = made[s] /\ r[2] > s[2])

\* The elements of S in the order of Before, which is strict and total on them.
Sorted(S, Before(_, _)) ==
    CHOOSE seq \in [1..Cardinality(S) -> S] :
        \A i, j \in DOMAIN seq : i < j => Before(seq[i], seq[j])

FirstOf(seq, n) == SubSeq(seq, 1, IF Len(seq) < n THEN Len(seq) ELSE n)

\* One leg of transcripts_in_range_filtered: ORDER BY created_at DESC, id DESC
\* LIMIT, unless the filter is for the other kind.
Leg(k, filter, c) ==
    IF filter \notin {k, "all"} THEN <<>>
    ELSE FirstOf(Sorted({r \in Rows : r[1] = k /\ Listed(r) /\ Below(r, c)}, Newer),
                 Limit)

\* A slip for a mutant: dictations first.
LegsInTurn(a, b) == FirstOf(a \o b, Limit)

\* row_id is a text in both legs.  The UUIDs here begin with a letter.
RowIdBefore(r, s) ==
    IF r[1] = s[1]
    THEN IF r[1] = "dictation" THEN TextBefore(r[2], s[2]) ELSE r[2] < s[2]
    ELSE r[1] = "dictation"

\* The legs sorted by created_at, newest first, and then by row_id upwards.
OnPageBefore(r, s) ==
    made[r] > made[s] \/ (made[r] = made[s] /\ RowIdBefore(r, s))

Merged(a, b) == FirstOf(Sorted(ToSet(a) \cup ToSet(b), OnPageBefore), Limit)

\* A slip for a mutant: the moment before the last row.
NextCursorEarly(leg) ==
    IF Len(leg) = Limit THEN [at |-> made[Last(leg)] - 1, id |-> Last(leg)[2]] ELSE Start

\* The leg's next cursor: its last row if the leg is full, whether the page
\* shows that row or not; none otherwise.
NextCursor(leg) ==
    IF Len(leg) = Limit THEN [at |-> made[Last(leg)], id |-> Last(leg)[2]] ELSE Start

-----------------------------------------------------------------------------
\* Rows of the walk's filter that are listed now.
InView == {r \in Rows : Listed(r) /\ kind \in {r[1], "all"}}

Still == there' = there \cap InView'

Tick ==
    /\ now < MaxTime
    /\ now' = now + 1
    /\ UNCHANGED <<table, walk>>
    /\ Still

\* A dictation is stored: the time is the server's, or the client's when it
\* comes from a stream or from the offline queue, days late perhaps.
Dictate ==
    /\ nextId < FirstId + MaxDictations
    /\ nextId' = nextId + 1
    /\ \E at \in 0..now : made' = [made EXCEPT ![<<"dictation", nextId>>] = at]
    /\ UNCHANGED <<now, ended, swept, deleted, walk>>
    /\ Still

\* A job's row is made at submission, and listed when its transcript is there.
Submit(j) ==
    /\ made[<<"meeting", j>>] = NoTime
    /\ made' = [made EXCEPT ![<<"meeting", j>>] = now]
    /\ UNCHANGED <<now, nextId, ended, swept, deleted, walk, there>>

Transcribed(j) ==
    /\ made[<<"meeting", j>>] # NoTime /\ ended[j] = NoTime
    /\ ended' = [ended EXCEPT ![j] = now]
    /\ UNCHANGED <<now, nextId, made, swept, deleted, walk>>
    /\ Still

\* DELETE /me/history/{kind}/{row_id}: soft_delete_history_row.
Delete(r) ==
    /\ made[r] # NoTime /\ r \notin deleted
    /\ deleted' = deleted \cup {r}
    /\ UNCHANGED <<now, nextId, made, ended, swept, walk>>
    /\ Still

\* POST .../restore: restore_history_row.
Restore(r) ==
    /\ r \in deleted
    /\ deleted' = deleted \ {r}
    /\ UNCHANGED <<now, nextId, made, ended, swept, walk>>
    /\ Still

\* sweep_transcripts: the text of old meetings goes, by the time they ended,
\* and old dictations do.
Sweep(cutoff) ==
    LET old  == {j \in Jobs : HasText(<<"meeting", j>>) /\ ended[j] < cutoff}
        gone == {r \in Rows : r[1] = "dictation" /\ made[r] \in 0..(cutoff - 1)}
    IN /\ old # {} \/ gone # {}
       /\ swept' = swept \cup old
       /\ made' = [r \in Rows |-> IF r \in gone THEN NoTime ELSE made[r]]
       /\ deleted' = deleted \ gone
       /\ UNCHANGED <<now, nextId, ended, walk>>
       /\ Still

-----------------------------------------------------------------------------
\* A page for filter k: its rows are appended, and the button carries what
\* both legs want next.  A leg without a cursor begins at its top.
Page(k) ==
    LET d == Leg("dictation", k, cursor["dictation"])
        j == Leg("meeting", k, cursor["meeting"])
        next == [dictation |-> NextCursor(d), meeting |-> NextCursor(j)]
    IN /\ shown' = shown \o Merged(d, j)
       /\ cursor' = next
       /\ more' = (next["dictation"] # Start \/ next["meeting"] # Start)
       /\ pages' = pages + 1

Open(k) ==
    /\ kind = "" /\ now > 0
    /\ kind' = k
    /\ Page(k)
    /\ there' = {r \in Rows : Listed(r) /\ k \in {r[1], "all"}}
    /\ UNCHANGED <<now, table>>

LoadMore ==
    /\ more /\ pages < MaxPages
    /\ Page(kind)
    /\ UNCHANGED <<now, table, kind, there>>

PagesNext ==
    \/ Tick \/ Dictate
    \/ \E j \in Jobs : Submit(j) \/ Transcribed(j)
    \/ \E r \in Rows : Delete(r) \/ Restore(r)
    \/ \E c \in 1..now : Sweep(c)
    \/ \E k \in Kinds \cup {"all"} : Open(k)
    \/ LoadMore

PagesSpec == PagesInit /\ [][PagesNext]_pagesVars

-----------------------------------------------------------------------------
OneLeg == kind \in Kinds
Done   == pages > 0 /\ ~more

\* A walk through one kind of row shows no row a second time, whatever is
\* stored, deleted, restored or swept between two of its pages.
NoRowTwice == OneLeg => IsInjective(shown)

\* At its end it has shown every row that was listed all the while: rows with
\* one created_at are not lost at the edge of a page, nor are those next to
\* rows that went away.
NoRowSkipped == OneLeg /\ Done => there \subseteq ToSet(shown)

\* Of dictations and meetings together, the first page has the newest ones.
FirstPageIsNewest ==
    pages = 1 =>
        \A r \in there \ ToSet(shown) :
            /\ Len(shown) = Limit
            /\ \A s \in ToSet(shown) \cap there : made[s] >= made[r]

\* API.md: "the calling user's own dictations + meetings + custom file
\* transcriptions in one chronological list"; ARCHITECTURE.md: "Load more ...
\* the server appends the next 50 rows".  A walk through both kinds shows
\* every row that was there.
MixedWalkShowsAll == kind = "all" /\ Done => there \subseteq ToSet(shown)
=============================================================================
