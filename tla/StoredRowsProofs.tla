------------------------- MODULE StoredRowsProofs -------------------------
(***************************************************************************)
(* Theorems about the rows the server stores and reads back: the events     *)
(* UsageEvents saves once, and the rows HistoryPages shows once.  Each part  *)
(* is about one specification: Spec and its invariants are those of         *)
(* UsageEvents, PagesSpec is that of HistoryPages.                          *)
(***************************************************************************)
EXTENDS UsageEvents, HistoryPages, FiniteSetTheorems, SequenceTheorems,
        WellFoundedInduction, TLAPS

-----------------------------------------------------------------------------
(* Part 1: UsageEvents, for any events, bounds, pools and outages.          *)

(* Facts about the sequences the model is built from.                       *)

Distinct(s) == \A i, j \in DOMAIN s : s[i] = s[j] => i = j
Has(s, e) == \E k \in DOMAIN s : s[k] = e

LEMMA RoomType ==
    ASSUME queue \in Seq(Events), Len(queue) <= Cap
    PROVE  /\ Room \in Seq(Events) /\ Len(Room) < Cap
           /\ \A k \in DOMAIN Room : Has(queue, Room[k])
           /\ Distinct(queue) => Distinct(Room)
<1>1. CASE Len(queue) = Cap
  <2>1. queue # <<>> /\ Room = Tail(queue)
    BY <1>1, UsageAssumption DEF Room
  <2>2. /\ Room \in Seq(Events) /\ Len(Room) = Len(queue) - 1
        /\ \A k \in DOMAIN Room : Room[k] = queue[k + 1] /\ k + 1 \in DOMAIN queue
    BY <2>1
  <2>3. QED
    BY <1>1, <2>2, UsageAssumption DEF Has, Distinct
<1>2. CASE Len(queue) # Cap
  BY <1>2, UsageAssumption DEF Room, Has, Distinct
<1>3. QED
  BY <1>1, <1>2

\* What get_nowait takes for one more batch, and what it leaves.
LEMMA Gathered ==
    ASSUME NEW b \in Seq(Events), Len(b) <= BatchMax, queue \in Seq(Events)
    PROVE  /\ Gathers(b)[1] \in Seq(Events) /\ Len(Gathers(b)[1]) <= BatchMax
           /\ Gathers(b)[2] \in Seq(Events) /\ Len(Gathers(b)[2]) <= Len(queue)
           /\ \E n \in 0..Len(queue) :
                 /\ Len(Gathers(b)[1]) = Len(b) + n
                 /\ Len(Gathers(b)[2]) = Len(queue) - n
                 /\ \A k \in DOMAIN Gathers(b)[1] :
                       Gathers(b)[1][k] = IF k <= Len(b) THEN b[k] ELSE queue[k - Len(b)]
                 /\ \A k \in DOMAIN Gathers(b)[2] : Gathers(b)[2][k] = queue[n + k]
<1> DEFINE n == IF Len(queue) < BatchMax - Len(b) THEN Len(queue)
                ELSE BatchMax - Len(b)
           got == SubSeq(queue, 1, n)
           left == SubSeq(queue, n + 1, Len(queue))
<1>1. n \in 0..Len(queue) /\ Len(b) + n <= BatchMax
  BY UsageAssumption
<1>2. Gathers(b) = <<b \o got, left>>
  BY DEF Gathers
<1> HIDE DEF n
<1>3. /\ got \in Seq(Events) /\ Len(got) = n
      /\ \A k \in 1..n : got[k] = queue[k]
  BY <1>1
<1>4. /\ left \in Seq(Events) /\ Len(left) = Len(queue) - n
      /\ \A k \in 1..(Len(queue) - n) : left[k] = queue[n + k]
  BY <1>1
<1> HIDE DEF got, left
<1>5. /\ b \o got \in Seq(Events) /\ Len(b \o got) = Len(b) + n
      /\ \A k \in 1..(Len(b) + n) :
            (b \o got)[k] = IF k <= Len(b) THEN b[k] ELSE got[k - Len(b)]
  BY <1>3, ConcatProperties
<1>6. Gathers(b)[1] = b \o got /\ Gathers(b)[2] = left
  BY <1>2
<1>7. \A k \in DOMAIN (b \o got) :
         (b \o got)[k] = IF k <= Len(b) THEN b[k] ELSE queue[k - Len(b)]
  BY <1>1, <1>3, <1>5
<1>8. \A k \in DOMAIN left : left[k] = queue[n + k]
  <2>1. DOMAIN left = 1..(Len(queue) - n)
    BY <1>4
  <2>2. QED
    BY <1>4, <2>1
<1>9. Len(b \o got) <= BatchMax /\ Len(left) <= Len(queue)
  BY <1>1, <1>4, <1>5
<1>10. \E m \in 0..Len(queue) :
          /\ Len(b \o got) = Len(b) + m /\ Len(left) = Len(queue) - m
          /\ \A k \in DOMAIN (b \o got) :
                (b \o got)[k] = IF k <= Len(b) THEN b[k] ELSE queue[k - Len(b)]
          /\ \A k \in DOMAIN left : left[k] = queue[m + k]
  BY <1>1, <1>4, <1>5, <1>7, <1>8
<1> DEFINE one == b \o got
<1>11. one \in Seq(Events) /\ left \in Seq(Events)
  BY <1>4, <1>5
<1> HIDE DEF one
<1>12. Gathers(b)[1] = one /\ Gathers(b)[2] = left
  BY <1>6 DEF one
<1>13. QED
  BY <1>9, <1>10, <1>11, <1>12 DEF one

-----------------------------------------------------------------------------
\* An INSERT of a batch without repetitions stores each of its events once.
LEMMA CountedOnce ==
    ASSUME NEW b \in Seq(Events), Distinct(b), NEW e
    PROVE  /\ Has(b, e) => Cardinality({k \in DOMAIN b : b[k] = e}) = 1
           /\ ~Has(b, e) => Cardinality({k \in DOMAIN b : b[k] = e}) = 0
<1>1. CASE Has(b, e)
  <2>1. PICK j \in DOMAIN b : b[j] = e
    BY <1>1 DEF Has
  <2>2. {k \in DOMAIN b : b[k] = e} = {j}
    BY <2>1 DEF Distinct
  <2>3. QED
    BY <1>1, <2>2, FS_Singleton
<1>2. CASE ~Has(b, e)
  <2>1. {k \in DOMAIN b : b[k] = e} = {}
    BY <1>2 DEF Has
  <2>2. QED
    BY <1>2, <2>1, FS_EmptySet
<1>3. QED
  BY <1>1, <1>2

LEMMA InsertsOnce ==
    ASSUME NEW b \in Seq(Events), Distinct(b), rows \in [Events -> Nat], Inserts(b)
    PROVE  /\ rows' \in [Events -> Nat]
           /\ \A e \in Events :
                \/ rows'[e] = rows[e]
                \/ Has(b, e) /\ rows'[e] = rows[e] + 1
<1>1. CASE UNCHANGED rows
  BY <1>1
<1>2. CASE rows' = [e \in Events |-> rows[e] + Cardinality({k \in DOMAIN b : b[k] = e})]
  <2>1. ASSUME NEW e \in Events
        PROVE  /\ rows'[e] \in Nat
               /\ \/ rows'[e] = rows[e]
                  \/ Has(b, e) /\ rows'[e] = rows[e] + 1
    <3>1. rows'[e] = rows[e] + Cardinality({k \in DOMAIN b : b[k] = e})
      BY <1>2
    <3>2. CASE Has(b, e)
      BY <3>1, <3>2, CountedOnce
    <3>3. CASE ~Has(b, e)
      BY <3>1, <3>3, CountedOnce
    <3>4. QED
      BY <3>2, <3>3
  <2>2. QED
    BY <1>2, <2>1
<1>3. QED
  BY <1>1, <1>2 DEF Inserts

-----------------------------------------------------------------------------
(***************************************************************************)
(* The inductive invariant.  Only the loop app.state knows of runs, and a   *)
(* loop that does not run holds nothing; so an event is in one place: in    *)
(* the queue, in the batch of that loop, or in the table.                   *)
(***************************************************************************)
LoopInv ==
    /\ \A p \in Pools : drainer[p] \in Running => p = appDrainer
    /\ \A p \in Pools : drainer[p] \notin Running => batch[p] = <<>>
    /\ watcher = "awaiting" => appDrainer # 0 /\ poolGlobal # 0
    /\ phase \in {"drainer", "stopped"} => watcher = "over"

EventInv ==
    /\ Distinct(queue) /\ \A p \in Pools : Distinct(batch[p])
    /\ \A e \in Events : rows[e] <= 1
    /\ \A e \in Events : rows[e] > 0 => e \in offered
    /\ \A e \in Events : Has(queue, e) => rows[e] = 0 /\ e \in offered
    /\ \A p \in Pools, e \in Events :
          Has(batch[p], e) => rows[e] = 0 /\ e \in offered /\ ~Has(queue, e)

UsageInv == TypeOK /\ LoopInv /\ EventInv

LEMMA UsageInit == Init => UsageInv
<1> SUFFICES ASSUME Init PROVE UsageInv
  OBVIOUS
<1>1. poolGlobal \in {0, 1} /\ appDrainer \in {0, 1} /\ 1 \in Pools
      /\ {0, 1} \subseteq 0..MaxPools
  BY UsageAssumption DEF Init, Pools
<1>2. TypeOK
  BY <1>1, UsageAssumption DEF Init, TypeOK, Running, Pools
<1>3. LoopInv
  BY <1>1 DEF Init, LoopInv, Running, Pools
<1>4. EventInv
  BY DEF Init, EventInv, Distinct, Has
<1>5. QED
  BY <1>2, <1>3, <1>4 DEF UsageInv

\* Two loops never hold events at once.
LEMMA OneHolder ==
    ASSUME UsageInv, NEW p \in Pools, NEW q \in Pools,
           batch[p] # <<>>, batch[q] # <<>>
    PROVE  p = q
  BY DEF UsageInv, LoopInv

LEMMA NothingHeld == \A e : ~Has(<<>>, e)
  BY DEF Has

\* A batch is let go of, stored or not.
LEMMA BatchGone ==
    ASSUME UsageInv, NEW p \in Pools, batch' = [batch EXCEPT ![p] = <<>>],
           Inserts(batch[p]), UNCHANGED <<queue, offered>>
    PROVE  EventInv' /\ rows' \in [Events -> Nat]
           /\ batch' \in [Pools -> Seq(Events)]
           /\ \A q \in Pools : Len(batch'[q]) <= BatchMax
<1>1. batch[p] \in Seq(Events) /\ Distinct(batch[p]) /\ rows \in [Events -> Nat]
  BY DEF UsageInv, TypeOK, EventInv
<1>2. /\ rows' \in [Events -> Nat]
      /\ \A e \in Events :
            \/ rows'[e] = rows[e]
            \/ Has(batch[p], e) /\ rows'[e] = rows[e] + 1
  <2>1. PICK b \in Seq(Events) : b = batch[p]
    BY <1>1
  <2>2. Distinct(b) /\ Inserts(b)
    BY <1>1, <2>1 DEF Inserts
  <2>3. QED
    <3>1. /\ rows' \in [Events -> Nat]
          /\ \A e \in Events :
                \/ rows'[e] = rows[e]
                \/ Has(b, e) /\ rows'[e] = rows[e] + 1
      BY <1>1, <2>2, InsertsOnce
    <3>2. QED
      BY <2>1, <3>1 DEF Has
<1>3. \A q \in Pools : batch'[q] = IF q = p THEN <<>> ELSE batch[q]
  BY DEF UsageInv, TypeOK
<1>4. ASSUME NEW q \in Pools, NEW e \in Events, Has(batch'[q], e)
      PROVE  rows'[e] = 0 /\ e \in offered /\ ~Has(queue, e)
  <2>1. q # p /\ batch'[q] = batch[q]
    BY <1>3, <1>4, NothingHeld
  <2>2. ~Has(batch[p], e)
    BY <1>4, <2>1, OneHolder, NothingHeld
  <2>3. QED
    BY <1>2, <1>4, <2>1, <2>2 DEF UsageInv, EventInv
<1>5. \A q \in Pools : Distinct(batch'[q])
  BY <1>3 DEF UsageInv, EventInv, Distinct
<1>6. \A e \in Events :
         /\ rows'[e] <= 1
         /\ rows'[e] > 0 => e \in offered
         /\ Has(queue, e) => rows'[e] = 0 /\ e \in offered
  BY <1>1, <1>2 DEF UsageInv, EventInv
<1>7. EventInv'
  BY <1>4, <1>5, <1>6 DEF UsageInv, EventInv, Distinct, Has
<1>8. QED
  BY <1>2, <1>3, <1>7, UsageAssumption DEF UsageInv, TypeOK

\* Nothing moves.
LEMMA NothingMoves ==
    ASSUME EventInv, UNCHANGED <<batch, queue, offered, rows>>
    PROVE  EventInv'
  BY DEF EventInv, Distinct, Has

\* What a cancellation does to the loop it is for.
LEMMA Cancelled ==
    ASSUME UsageInv, NEW p \in Pools, CancelDrainer(p), UNCHANGED <<queue, offered>>
    PROVE  /\ EventInv' /\ rows' \in [Events -> Nat]
           /\ drainer' \in [Pools -> {"none", "over"} \cup Running]
           /\ batch' \in [Pools -> Seq(Events)]
           /\ \A q \in Pools : Len(batch'[q]) <= BatchMax
           /\ \A q \in Pools :
                 /\ drainer'[q] \in Running => drainer[q] \in Running
                 /\ drainer'[q] \notin Running => batch'[q] = <<>>
<1> USE DEF UsageInv, TypeOK
<1>1. CASE drainer[p] = "waiting" /\ drainer' = [drainer EXCEPT ![p] = "final"]
           /\ UNCHANGED <<batch, rows>>
  BY <1>1, NothingMoves DEF LoopInv, Running
<1>2. CASE UNCHANGED <<drainer, batch, rows>>
  BY <1>2, NothingMoves DEF LoopInv, Running
<1>3. CASE /\ drainer[p] = "flushing"
           /\ \E raised \in BOOLEAN :
                 drainer' = [drainer EXCEPT ![p] = IF raised THEN "waiting" ELSE "over"]
           /\ batch' = [batch EXCEPT ![p] = <<>>]
           /\ Inserts(batch[p])
  <2>1. /\ EventInv' /\ rows' \in [Events -> Nat]
        /\ batch' \in [Pools -> Seq(Events)]
        /\ \A q \in Pools : Len(batch'[q]) <= BatchMax
    BY <1>3, BatchGone
  <2>2. /\ drainer' \in [Pools -> {"none", "over"} \cup Running]
        /\ \A q \in Pools : q # p => drainer'[q] = drainer[q] /\ batch'[q] = batch[q]
        /\ batch'[p] = <<>>
    BY <1>3 DEF Running
  <2>3. \A q \in Pools :
           /\ drainer'[q] \in Running => drainer[q] \in Running
           /\ drainer'[q] \notin Running => batch'[q] = <<>>
    BY <1>3, <2>2 DEF LoopInv, Running
  <2>4. QED
    BY <2>1, <2>2, <2>3
<1>4. QED
  BY <1>1, <1>2, <1>3 DEF CancelDrainer

-----------------------------------------------------------------------------
\* The loop and EventInv: the events' way from the middleware to the table.
LEMMA OfferStep ==
    ASSUME UsageInv, NEW e \in Events, Offer(e)
    PROVE  UsageInv'
<1> DEFINE kept == Room
<1>1. /\ kept \in Seq(Events) /\ Len(kept) < Cap
      /\ \A k \in DOMAIN kept : Has(queue, kept[k])
      /\ Distinct(kept)
  BY RoomType DEF UsageInv, TypeOK, EventInv
<1>2. queue' = Append(kept, e)
  BY DEF Offer
<1> HIDE DEF kept
<1>3. /\ queue' \in Seq(Events) /\ Len(queue') <= Cap
      /\ Len(queue') = Len(kept) + 1
      /\ \A k \in 1..Len(kept) : queue'[k] = kept[k]
      /\ queue'[Len(kept) + 1] = e
  BY <1>1, <1>2, UsageAssumption
<1>4. \A f \in Events : Has(queue', f) => f = e \/ Has(queue, f)
  BY <1>1, <1>3 DEF Has
<1>5. ~Has(queue, e) /\ rows[e] = 0 /\ \A p \in Pools : ~Has(batch[p], e)
  BY DEF Offer, UsageInv, EventInv, TypeOK
<1>6. Distinct(queue')
  <2>1. \A k \in 1..Len(kept) : queue'[k] # e
    BY <1>1, <1>3, <1>5
  <2>2. QED
    BY <1>1, <1>3, <2>1 DEF Distinct
<1>7. EventInv'
  <2>1. UNCHANGED <<batch, rows>> /\ offered' = offered \cup {e}
    BY DEF Offer
  <2>2. \A f \in Events : Has(queue', f) => rows[f] = 0 /\ f \in offered'
    BY <1>4, <1>5, <2>1 DEF UsageInv, EventInv
  <2>3. \A p \in Pools, f \in Events :
           Has(batch[p], f) => rows[f] = 0 /\ f \in offered' /\ ~Has(queue', f)
    BY <1>4, <1>5, <2>1 DEF UsageInv, EventInv
  <2>4. /\ \A p \in Pools : Distinct(batch[p])
        /\ \A f \in Events : rows[f] <= 1 /\ (rows[f] > 0 => f \in offered')
    BY <2>1 DEF UsageInv, EventInv
  <2>5. QED
    BY <1>6, <2>1, <2>2, <2>3, <2>4 DEF EventInv, Distinct, Has
<1>8. TypeOK' /\ LoopInv'
  BY <1>3 DEF Offer, UsageInv, TypeOK, LoopInv, poolVars
<1>9. QED
  BY <1>7, <1>8 DEF UsageInv

LEMMA TakeStep ==
    ASSUME UsageInv, NEW p \in Pools, Take(p)
    PROVE  UsageInv'
<1> DEFINE e == Head(queue)
<1>1. /\ queue \in Seq(Events) /\ queue # <<>> /\ batch[p] \in Seq(Events)
      /\ Len(batch[p]) < BatchMax /\ BatchMax \in Nat
  BY UsageAssumption DEF Take, UsageInv, TypeOK
<1>2. /\ e \in Events /\ Has(queue, e)
      /\ queue' \in Seq(Events) /\ Len(queue') = Len(queue) - 1
      /\ \A k \in DOMAIN queue' : queue'[k] = queue[k + 1] /\ k + 1 \in DOMAIN queue
      /\ e = queue[1] /\ 1 \in DOMAIN queue
  BY <1>1 DEF Take, Has
<1> HIDE DEF e
<1>3. /\ batch' = [batch EXCEPT ![p] = Append(batch[p], e)]
      /\ batch'[p] = Append(batch[p], e)
      /\ \A q \in Pools : q # p => batch'[q] = batch[q]
  BY DEF Take, UsageInv, TypeOK, e
<1>4. /\ batch'[p] \in Seq(Events) /\ Len(batch'[p]) <= BatchMax
      /\ Len(batch'[p]) = Len(batch[p]) + 1
      /\ \A k \in 1..Len(batch[p]) : batch'[p][k] = batch[p][k]
      /\ batch'[p][Len(batch[p]) + 1] = e
      /\ DOMAIN batch'[p] = 1..(Len(batch[p]) + 1)
      /\ DOMAIN batch[p] = 1..Len(batch[p]) /\ Len(batch[p]) \in Nat
  BY <1>1, <1>2, <1>3
<1>5. ~Has(queue', e) /\ Distinct(queue')
      /\ \A f \in Events : Has(queue', f) => Has(queue, f)
  BY <1>1, <1>2 DEF UsageInv, EventInv, Distinct, Has
<1>6. rows[e] = 0 /\ e \in offered /\ ~Has(batch[p], e)
  BY <1>2 DEF UsageInv, EventInv
<1>7. \A f \in Events : Has(batch'[p], f) => f = e \/ Has(batch[p], f)
  BY <1>4 DEF Has
<1>8. Distinct(batch'[p])
  <2>1. \A k \in 1..Len(batch[p]) : batch'[p][k] # e
    BY <1>1, <1>4, <1>6 DEF Has
  <2>2. Distinct(batch[p])
    BY DEF UsageInv, EventInv
  <2>3. QED
    BY <1>4, <2>1, <2>2 DEF Distinct
<1>9. ASSUME NEW q \in Pools, NEW f \in Events, Has(batch'[q], f)
      PROVE  rows[f] = 0 /\ f \in offered /\ ~Has(queue', f)
  <2>1. CASE q = p
    BY <1>5, <1>6, <1>7, <1>9, <2>1 DEF UsageInv, EventInv
  <2>2. CASE q # p
    BY <1>3, <1>5, <1>9, <2>2 DEF UsageInv, EventInv
  <2>3. QED
    BY <2>1, <2>2
<1>10. \A q \in Pools : Distinct(batch'[q])
  BY <1>3, <1>8 DEF UsageInv, EventInv
<1>11. UNCHANGED <<rows, offered>>
  BY DEF Take
<1>12. EventInv'
  BY <1>5, <1>9, <1>10, <1>11 DEF UsageInv, EventInv, Distinct, Has
<1>13. TypeOK'
  <2>1. /\ batch' \in [Pools -> Seq(Events)]
        /\ \A q \in Pools : Len(batch'[q]) <= BatchMax
    BY <1>3, <1>4 DEF UsageInv, TypeOK
  <2>2. queue' \in Seq(Events) /\ Len(queue') <= Cap
    BY <1>1, <1>2, UsageAssumption DEF UsageInv, TypeOK
  <2>3. drainer' \in [Pools -> {"none", "over"} \cup Running]
    BY DEF Take, UsageInv, TypeOK, Running
  <2>4. QED
    BY <2>1, <2>2, <2>3 DEF Take, UsageInv, TypeOK, poolVars
<1>14. LoopInv'
  BY <1>3 DEF Take, UsageInv, TypeOK, LoopInv, Running, poolVars
<1>15. QED
  BY <1>12, <1>13, <1>14 DEF UsageInv

LEMMA FinalFlushStep ==
    ASSUME UsageInv, NEW p \in Pools, FinalFlush(p)
    PROVE  UsageInv'
<1>1. PICK b \in Seq(Events) : b = batch[p]
  BY DEF UsageInv, TypeOK
<1>2. Len(b) <= BatchMax /\ queue \in Seq(Events) /\ drainer[p] = "final"
  BY <1>1 DEF UsageInv, TypeOK, FinalFlush
<1> DEFINE got == Gathers(b)
<1>3. /\ got[1] \in Seq(Events) /\ got[2] \in Seq(Events)
      /\ Len(got[1]) <= BatchMax /\ Len(got[2]) <= Len(queue)
  BY <1>2, Gathered
<1>4. PICK n \in 0..Len(queue) :
         /\ Len(got[1]) = Len(b) + n /\ Len(got[2]) = Len(queue) - n
         /\ \A k \in DOMAIN got[1] :
               got[1][k] = IF k <= Len(b) THEN b[k] ELSE queue[k - Len(b)]
         /\ \A k \in DOMAIN got[2] : got[2][k] = queue[n + k]
  BY <1>2, Gathered
<1>5. /\ Inserts(got[1])
      /\ queue' = got[2]
      /\ drainer' = [drainer EXCEPT ![p] = IF Len(got[1]) = BatchMax THEN "final"
                                           ELSE "over"]
      /\ batch' = [batch EXCEPT ![p] = <<>>]
      /\ UNCHANGED <<poolVars, appDrainer, watcher, offered, phase>>
  BY <1>1 DEF FinalFlush, Inserts
<1>6. PICK s \in Seq(Events), r \in Seq(Events) : s = got[1] /\ r = got[2]
  BY <1>3
<1> HIDE DEF got
<1>7. /\ \A k \in DOMAIN s : \/ k \in DOMAIN b /\ s[k] = b[k]
                            \/ /\ k - Len(b) \in 1..n /\ s[k] = queue[k - Len(b)]
                               /\ k > Len(b)
      /\ \A k \in DOMAIN r : n + k \in DOMAIN queue /\ r[k] = queue[n + k]
      /\ 1..n \subseteq DOMAIN queue
  BY <1>2, <1>4, <1>6
<1>8. /\ Distinct(b) /\ Distinct(queue)
      /\ \A e \in Events : Has(b, e) => rows[e] = 0 /\ e \in offered /\ ~Has(queue, e)
      /\ \A e \in Events : Has(queue, e) => rows[e] = 0 /\ e \in offered
  BY <1>1 DEF UsageInv, EventInv
<1>9. Distinct(s)
  <2> SUFFICES ASSUME NEW i \in DOMAIN s, NEW j \in DOMAIN s, s[i] = s[j]
               PROVE  i = j
    BY DEF Distinct
  <2>1. i \in Nat /\ j \in Nat /\ s[i] \in Events /\ Len(b) \in Nat
    OBVIOUS
  <2>2. CASE i \in DOMAIN b /\ s[i] = b[i] /\ j \in DOMAIN b /\ s[j] = b[j]
    BY <1>8, <2>2 DEF Distinct
  <2>3. CASE /\ i - Len(b) \in DOMAIN queue /\ s[i] = queue[i - Len(b)]
             /\ j - Len(b) \in DOMAIN queue /\ s[j] = queue[j - Len(b)]
    <3>1. i - Len(b) = j - Len(b)
      BY <1>8, <2>3 DEF Distinct
    <3>2. QED
      BY <2>1, <3>1
  <2>4. CASE i \in DOMAIN b /\ s[i] = b[i] /\ Has(queue, s[j])
    BY <1>8, <2>1, <2>4 DEF Has
  <2>5. CASE j \in DOMAIN b /\ s[j] = b[j] /\ Has(queue, s[i])
    BY <1>8, <2>1, <2>5 DEF Has
  <2>6. QED
    BY <1>7, <2>2, <2>3, <2>4, <2>5 DEF Has
<1>10. \A e \in Events : Has(s, e) => Has(b, e) \/ Has(queue, e)
  BY <1>7 DEF Has
<1>11. \A e \in Events : Has(r, e) => Has(queue, e) /\ ~Has(s, e)
  <2> SUFFICES ASSUME NEW e \in Events, NEW k \in DOMAIN r, r[k] = e
               PROVE  Has(queue, e) /\ ~Has(s, e)
    BY DEF Has
  <2>1. n + k \in DOMAIN queue /\ queue[n + k] = e /\ k \in Nat \ {0}
    BY <1>7
  <2>2. ASSUME NEW j \in DOMAIN s, s[j] = e PROVE FALSE
    <3>1. CASE j \in DOMAIN b /\ s[j] = b[j]
      BY <1>8, <2>1, <2>2, <3>1 DEF Has
    <3>2. CASE j - Len(b) \in 1..n /\ s[j] = queue[j - Len(b)]
      <4>1. j - Len(b) = n + k
        BY <1>7, <1>8, <2>1, <2>2, <3>2 DEF Distinct
      <4>2. QED
        BY <2>1, <3>2, <4>1
    <3>3. QED
      BY <1>7, <2>2, <3>1, <3>2
  <2>3. QED
    BY <2>1, <2>2 DEF Has
<1>12. /\ rows' \in [Events -> Nat]
       /\ \A e \in Events :
             \/ rows'[e] = rows[e]
             \/ Has(s, e) /\ rows'[e] = rows[e] + 1
  <2>1. Inserts(s) /\ rows \in [Events -> Nat]
    BY <1>5, <1>6 DEF Inserts, UsageInv, TypeOK
  <2>2. QED
    BY <1>9, <2>1, InsertsOnce
<1>13. Distinct(r)
  <2> SUFFICES ASSUME NEW i \in DOMAIN r, NEW j \in DOMAIN r, r[i] = r[j]
               PROVE  i = j
    BY DEF Distinct
  <2>1. n + i = n + j
    BY <1>7, <1>8 DEF Distinct
  <2>2. QED
    BY <2>1
<1>14. \A q \in Pools : batch'[q] = IF q = p THEN <<>> ELSE batch[q]
  BY <1>5 DEF UsageInv, TypeOK
<1>15. \A q \in Pools : batch'[q] = <<>>
  <2>1. \A q \in Pools : q # p => batch[q] = <<>>
    BY <1>2 DEF UsageInv, LoopInv, Running
  <2>2. QED
    BY <1>14, <2>1
<1>16. EventInv'
  <2>1. \A e \in Events : Has(r, e) => rows'[e] = 0 /\ e \in offered
    BY <1>8, <1>11, <1>12
  <2>2. \A e \in Events : rows'[e] <= 1 /\ (rows'[e] > 0 => e \in offered)
    <3> SUFFICES ASSUME NEW e \in Events
                 PROVE  rows'[e] <= 1 /\ (rows'[e] > 0 => e \in offered)
      OBVIOUS
    <3>1. rows[e] \in Nat /\ rows[e] <= 1 /\ (rows[e] > 0 => e \in offered)
      BY DEF UsageInv, EventInv, TypeOK
    <3>2. CASE rows'[e] = rows[e]
      BY <3>1, <3>2
    <3>3. CASE Has(s, e) /\ rows'[e] = rows[e] + 1
      BY <1>8, <1>10, <3>3
    <3>4. QED
      BY <1>12, <3>2, <3>3
  <2>3. Distinct(queue') /\ \A e \in Events : Has(queue', e) <=> Has(r, e)
    BY <1>5, <1>6, <1>13 DEF Distinct, Has
  <2>4. \A q \in Pools : Distinct(batch'[q]) /\ \A e : ~Has(batch'[q], e)
    BY <1>15 DEF Distinct, Has
  <2>5. offered' = offered
    BY <1>5
  <2>6. QED
    BY <2>1, <2>2, <2>3, <2>4, <2>5 DEF EventInv, Distinct, Has
<1>17. TypeOK'
  <2>1. batch' \in [Pools -> Seq(Events)] /\ \A q \in Pools : Len(batch'[q]) <= BatchMax
    BY <1>5, <1>15, UsageAssumption DEF UsageInv, TypeOK
  <2>2. queue' \in Seq(Events) /\ Len(queue') <= Cap
    BY <1>2, <1>3, <1>5, UsageAssumption DEF UsageInv, TypeOK
  <2>3. drainer' \in [Pools -> {"none", "over"} \cup Running]
    BY <1>5 DEF UsageInv, TypeOK, Running
  <2>4. QED
    BY <1>5, <1>12, <2>1, <2>2, <2>3 DEF UsageInv, TypeOK, poolVars
<1>18. LoopInv'
  BY <1>2, <1>5, <1>15 DEF UsageInv, TypeOK, LoopInv, Running, poolVars
<1>19. QED
  BY <1>16, <1>17, <1>18 DEF UsageInv

LEMMA FlushSteps ==
    ASSUME UsageInv, NEW p \in Pools, Wake(p) \/ BeginFlush(p) \/ EndFlush(p)
    PROVE  UsageInv'
<1> USE DEF UsageInv
<1>1. CASE Wake(p)
  <2>1. EventInv'
    BY <1>1, NothingMoves DEF Wake
  <2>2. QED
    BY <1>1, <2>1 DEF Wake, TypeOK, LoopInv, Running, poolVars
<1>2. CASE BeginFlush(p) /\ UNCHANGED batch
  <2>1. EventInv'
    BY <1>2, NothingMoves DEF BeginFlush
  <2>2. drainer' \in [Pools -> {"none", "over"} \cup Running]
    BY <1>2 DEF BeginFlush, TypeOK, Running
  <2>3. QED
    BY <1>2, <2>1, <2>2 DEF BeginFlush, TypeOK, LoopInv, Running, poolVars
<1>3. CASE BeginFlush(p) /\ batch' = [batch EXCEPT ![p] = <<>>] /\ UNCHANGED drainer
  <2>1. Inserts(batch[p]) /\ UNCHANGED <<queue, offered>>
    BY <1>3 DEF BeginFlush, Inserts
  <2>2. /\ EventInv' /\ batch' \in [Pools -> Seq(Events)]
        /\ \A q \in Pools : Len(batch'[q]) <= BatchMax
    BY <1>3, <2>1, BatchGone
  <2>3. QED
    BY <1>3, <2>2 DEF BeginFlush, TypeOK, LoopInv, Running, poolVars
<1>4. CASE EndFlush(p)
  <2>1. /\ drainer[p] = "flushing" /\ drainer' = [drainer EXCEPT ![p] = "waiting"]
        /\ batch' = [batch EXCEPT ![p] = <<>>] /\ Inserts(batch[p])
        /\ UNCHANGED <<poolVars, appDrainer, watcher, queue, offered, phase>>
    BY <1>4 DEF EndFlush, AfterFlush, Remains
  <2>2. /\ EventInv' /\ rows' \in [Events -> Nat]
        /\ batch' \in [Pools -> Seq(Events)]
        /\ \A q \in Pools : Len(batch'[q]) <= BatchMax
    BY <2>1, BatchGone
  <2>3. drainer' \in [Pools -> {"none", "over"} \cup Running]
    BY <2>1 DEF TypeOK, Running
  <2>4. TypeOK'
    BY <2>1, <2>2, <2>3 DEF TypeOK, poolVars
  <2>5. LoopInv'
    BY <2>1 DEF TypeOK, LoopInv, Running, poolVars
  <2>6. QED
    BY <2>2, <2>4, <2>5
<1>5. QED
  BY <1>1, <1>2, <1>3, <1>4 DEF BeginFlush

\* A cancellation, whatever else of the pools and the watcher the step changes.
LEMMA CancelStep ==
    ASSUME UsageInv, appDrainer \in Pools, CancelDrainer(appDrainer),
           UNCHANGED <<queue, offered, appDrainer>>
    PROVE  /\ EventInv' /\ rows' \in [Events -> Nat]
           /\ drainer' \in [Pools -> {"none", "over"} \cup Running]
           /\ batch' \in [Pools -> Seq(Events)]
           /\ \A q \in Pools :
                 /\ Len(batch'[q]) <= BatchMax
                 /\ drainer'[q] \in Running => q = appDrainer'
                 /\ drainer'[q] \notin Running => batch'[q] = <<>>
<1>1. PICK p \in Pools : p = appDrainer
  OBVIOUS
<1>2. CancelDrainer(p)
  BY <1>1 DEF CancelDrainer, Inserts
<1>3. QED
  BY <1>1, <1>2, Cancelled DEF UsageInv, LoopInv

\* The watcher and the pools it replaces.
LEMMA RebuildSteps ==
    ASSUME UsageInv, ProbeFails \/ Rebuild
    PROVE  UsageInv'
<1> USE UsageAssumption DEF UsageInv, TypeOK, Pools
<1>1. CASE ProbeFails
  <2>1. EventInv'
    BY <1>1, NothingMoves DEF ProbeFails, drainVars
  <2>2. QED
    BY <1>1, <2>1 DEF ProbeFails, LoopInv, drainVars
<1>2. CASE OldClosed
  <2>1. EventInv'
    BY <1>2, NothingMoves DEF OldClosed, drainVars
  <2>2. QED
    BY <1>2, <2>1 DEF OldClosed, LoopInv, drainVars
<1>3. CASE CreateFails
  <2>1. EventInv'
    BY <1>3, NothingMoves DEF CreateFails, drainVars
  <2>2. QED
    BY <1>3, <2>1 DEF CreateFails, LoopInv, drainVars, poolVars
<1>4. ASSUME NEW p \in Pools, Created(p) PROVE UsageInv'
  <2>1. /\ pools' = [pools EXCEPT ![p] = "open"] /\ poolGlobal' = p /\ appPool' = p
        /\ UNCHANGED <<postgres, outages, queue, offered, phase>>
        /\ watcher = "creating"
    BY <1>4 DEF Created
  <2>2. CASE Replaces
    <3>1. /\ appDrainer \in Pools /\ CancelDrainer(appDrainer)
          /\ watcher' = "awaiting" /\ UNCHANGED appDrainer
      BY <1>4, <2>2 DEF Created, Replaces
    <3>2. /\ EventInv' /\ rows' \in [Events -> Nat]
          /\ drainer' \in [Pools -> {"none", "over"} \cup Running]
          /\ batch' \in [Pools -> Seq(Events)]
          /\ \A q \in Pools :
                /\ Len(batch'[q]) <= BatchMax
                /\ drainer'[q] \in Running => q = appDrainer'
                /\ drainer'[q] \notin Running => batch'[q] = <<>>
      BY <2>1, <3>1, CancelStep
    <3>3. TypeOK'
      BY <2>1, <3>1, <3>2
    <3>4. LoopInv'
      BY <2>1, <3>1, <3>2 DEF LoopInv
    <3>5. QED
      BY <3>2, <3>3, <3>4
  <2>3. CASE ~Replaces
    <3>1. /\ drainer' = [drainer EXCEPT ![p] = "waiting"] /\ appDrainer' = p
          /\ watcher' = "asleep" /\ UNCHANGED <<batch, rows>>
      BY <1>4, <2>3 DEF Created, StartDrainer
    <3>2. EventInv'
      BY <2>1, <3>1, NothingMoves
    <3>3. drainer' \in [Pools -> {"none", "over"} \cup Running]
      BY <3>1 DEF Running
    <3>4. TypeOK'
      BY <2>1, <3>1, <3>3
    <3>5. \A q \in Pools : drainer[q] \notin Running
      BY <2>3 DEF Replaces, LoopInv, Running
    <3>6. LoopInv'
      BY <2>1, <3>1, <3>5 DEF LoopInv, Running
    <3>7. QED
      BY <3>2, <3>4, <3>6
  <2>4. QED
    BY <2>2, <2>3
<1>5. CASE Awaited
  <2>1. /\ appDrainer \in Pools /\ poolGlobal \in Pools
        /\ drainer[appDrainer] = "over"
    BY <1>5 DEF Awaited, LoopInv
  <2>2. EventInv'
    BY <1>5, NothingMoves DEF Awaited
  <2>3. drainer' \in [Pools -> {"none", "over"} \cup Running]
    BY <1>5, <2>1 DEF Awaited, StartDrainer, Running
  <2>4. TypeOK'
    BY <1>5, <2>1, <2>3 DEF Awaited, StartDrainer, poolVars
  <2>5. \A q \in Pools : drainer[q] \notin Running
    BY <2>1 DEF LoopInv, Running
  <2>6. LoopInv'
    BY <1>5, <2>1, <2>5 DEF Awaited, StartDrainer, LoopInv, Running, poolVars
  <2>7. QED
    BY <2>2, <2>4, <2>6
<1>6. QED
  BY <1>1, <1>2, <1>3, <1>4, <1>5 DEF Rebuild

\* Lifespan's shutdown, and the middleware's and Postgres' own steps.
LEMMA OtherSteps ==
    ASSUME UsageInv, \/ PostgresFails \/ PostgresReturns
                     \/ BeginShutdown \/ ShutDrainer \/ ShutPool \/ Kill
    PROVE  UsageInv'
<1> USE UsageAssumption DEF UsageInv, TypeOK, Pools
<1>1. CASE PostgresFails \/ PostgresReturns \/ Kill
  <2>1. EventInv'
    BY <1>1, NothingMoves DEF PostgresFails, PostgresReturns, Kill, drainVars
  <2>2. TypeOK'
    <3>1. CASE PostgresFails
      <4>1. pools' \in [Pools -> {"unmade", "open", "broken", "closed"}]
        BY <3>1 DEF PostgresFails
      <4>2. QED
        BY <3>1, <4>1 DEF PostgresFails, drainVars
    <3>2. CASE PostgresReturns \/ Kill
      BY <3>2 DEF PostgresReturns, Kill, drainVars, poolVars
    <3>3. QED
      BY <1>1, <3>1, <3>2
  <2>3. LoopInv'
    BY <1>1 DEF PostgresFails, PostgresReturns, Kill, drainVars, poolVars, LoopInv
  <2>4. QED
    BY <2>1, <2>2, <2>3
<1>2. CASE BeginShutdown \/ ShutDrainer
  <2>1. CASE UNCHANGED <<drainer, batch, rows>>
    <3>1. EventInv'
      BY <1>2, <2>1, NothingMoves DEF BeginShutdown, ShutDrainer
    <3>2. TypeOK' /\ LoopInv'
      BY <1>2, <2>1 DEF BeginShutdown, ShutDrainer, LoopInv, poolVars
    <3>3. QED
      BY <3>1, <3>2
  <2>2. CASE appDrainer \in Pools /\ CancelDrainer(appDrainer)
    <3>1. /\ EventInv' /\ rows' \in [Events -> Nat]
          /\ drainer' \in [Pools -> {"none", "over"} \cup Running]
          /\ batch' \in [Pools -> Seq(Events)]
          /\ \A q \in Pools :
                /\ Len(batch'[q]) <= BatchMax
                /\ drainer'[q] \in Running => q = appDrainer'
                /\ drainer'[q] \notin Running => batch'[q] = <<>>
      BY <1>2, <2>2, CancelStep DEF BeginShutdown, ShutDrainer
    <3>2. TypeOK'
      BY <1>2, <3>1 DEF BeginShutdown, ShutDrainer, poolVars
    <3>3. LoopInv'
      BY <1>2, <3>1 DEF BeginShutdown, ShutDrainer, LoopInv, poolVars
    <3>4. QED
      BY <3>1, <3>2, <3>3
  <2>3. appDrainer # 0 => appDrainer \in Pools
    OBVIOUS
  <2>4. CASE BeginShutdown
    BY <2>1, <2>2, <2>3, <2>4 DEF BeginShutdown, LoopInv
  <2>5. CASE ShutDrainer
    BY <2>1, <2>2, <2>3, <2>5 DEF ShutDrainer
  <2>6. QED
    BY <1>2, <2>4, <2>5
<1>3. CASE ShutPool
  <2>1. EventInv'
    BY <1>3, NothingMoves DEF ShutPool, drainVars
  <2>2. pools' \in [Pools -> {"unmade", "open", "broken", "closed"}]
    BY <1>3 DEF ShutPool
  <2>3. TypeOK'
    BY <1>3, <2>2 DEF ShutPool, drainVars
  <2>4. LoopInv'
    BY <1>3 DEF ShutPool, drainVars, LoopInv
  <2>5. QED
    BY <2>1, <2>3, <2>4
<1>4. QED
  BY <1>1, <1>2, <1>3

LEMMA UsageHolds == Spec => []UsageInv
<1>1. UsageInv /\ [Next]_vars => UsageInv'
  <2> SUFFICES ASSUME UsageInv, [Next]_vars PROVE UsageInv'
    OBVIOUS
  <2>1. ASSUME NEW e \in Events, Offer(e) PROVE UsageInv'
    BY <2>1, OfferStep
  <2>2. ASSUME NEW p \in Pools, Drain(p) PROVE UsageInv'
    BY <2>2, TakeStep, FlushSteps, FinalFlushStep DEF Drain
  <2>3. CASE ProbeFails \/ Rebuild
    BY <2>3, RebuildSteps
  <2>4. CASE \/ PostgresFails \/ PostgresReturns
             \/ BeginShutdown \/ ShutDrainer \/ ShutPool \/ Kill
    BY <2>4, OtherSteps
  <2>5. CASE UNCHANGED vars
    <3>1. EventInv'
      BY <2>5, NothingMoves DEF vars, drainVars, UsageInv
    <3>2. QED
      BY <2>5, <3>1 DEF vars, drainVars, poolVars, UsageInv, TypeOK, LoopInv
  <2>6. QED
    BY <2>1, <2>2, <2>3, <2>4, <2>5 DEF Next
<1>2. QED
  BY <1>1, UsageInit, PTL DEF Spec

-----------------------------------------------------------------------------
\* Type correctness: in particular queue and batches keep their bounds.
THEOREM UsageTypeCorrect == Spec => []TypeOK
<1>1. UsageInv => TypeOK
  BY DEF UsageInv
<1>2. QED
  BY <1>1, UsageHolds, PTL

\* No event is stored twice, whenever a loop is cancelled or replaced and
\* whatever a flush that raised had committed.
THEOREM EventsSavedOnce == Spec => []SavedOnce
<1>1. UsageInv => SavedOnce
  BY DEF UsageInv, EventInv, SavedOnce
<1>2. QED
  BY <1>1, UsageHolds, PTL

\* One drain loop has the queue to itself, for any number of pools.
THEOREM DrainsAlone == Spec => []OneDrainer
<1>1. UsageInv => OneDrainer
  <2> SUFFICES ASSUME UsageInv PROVE OneDrainer
    OBVIOUS
  <2> DEFINE running == {p \in Pools : drainer[p] \in Running}
  <2>1. running \subseteq {appDrainer}
    BY DEF UsageInv, LoopInv
  <2>2. Cardinality(running) <= Cardinality({appDrainer})
    BY <2>1, FS_Singleton, FS_Subset
  <2>3. QED
    BY <2>2, FS_Singleton DEF OneDrainer
<1>2. QED
  BY <1>1, UsageHolds, PTL

-----------------------------------------------------------------------------
(* Part 2: HistoryPages, for any rows, page size, range and clock.          *)

(***************************************************************************)
(* Induction over the subsets of a finite set, for a set G rather than for  *)
(* a predicate: the strict subset relation is well-founded on them.         *)
(***************************************************************************)
LEMMA SubsetInduction ==
    ASSUME NEW S, NEW G, IsFiniteSet(S),
           \A T \in SUBSET S : (\A U \in SUBSET T : U # T => U \in G) => T \in G
    PROVE  \A T \in SUBSET S : T \in G
<1> DEFINE Bad == {T \in SUBSET S : T \notin G}
           R == StrictSubsetOrdering(S)
<1> SUFFICES ASSUME Bad # {} PROVE FALSE
  OBVIOUS
<1>1. IsWellFoundedOn(R, SUBSET S)
  <2>1. IsWellFoundedOn(R, FiniteSubsetsOf(S))
    BY FS_StrictSubsetOrderingWellFounded
  <2>2. FiniteSubsetsOf(S) = SUBSET S
    BY FS_FiniteSubsetsOfFinite
  <2>3. QED
    BY <2>1, <2>2
<1>2. PICK T \in Bad : \A U \in Bad : ~(<<U, T>> \in R)
  <2> HIDE DEF Bad, R
  <2>1. Bad \subseteq SUBSET S
    BY DEF Bad
  <2>2. QED
  BY <1>1, <2>1, WFMin
<1>3. ASSUME NEW U \in SUBSET T, U # T PROVE U \in G
  BY <1>2, <1>3 DEF StrictSubsetOrdering
<1>4. QED
  BY <1>2, <1>3

-----------------------------------------------------------------------------
(* Sorting: an order here is a set of pairs, that a lemma can be about.     *)

StrictOrder(R, S) ==
    /\ \A x \in S : <<x, x>> \notin R
    /\ \A x, y, z \in S : <<x, y>> \in R /\ <<y, z>> \in R => <<x, z>> \in R
    /\ \A x, y \in S : x # y => <<x, y>> \in R \/ <<y, x>> \in R

InOrder(seq, R) == \A i, j \in DOMAIN seq : i < j => <<seq[i], seq[j]>> \in R

IsLast(x, T, R) == x \in T /\ \A y \in T : y # x => <<y, x>> \in R

LEMMA LastExists ==
    ASSUME NEW S, IsFiniteSet(S), NEW R, StrictOrder(R, S)
    PROVE  \A T \in SUBSET S : T # {} => \E x : IsLast(x, T, R)
<1> DEFINE G == {T \in SUBSET S : T # {} => \E x : IsLast(x, T, R)}
<1>1. ASSUME NEW T \in SUBSET S, \A U \in SUBSET T : U # T => U \in G
      PROVE  T \in G
  <2> SUFFICES ASSUME T # {} PROVE \E x : IsLast(x, T, R)
    OBVIOUS
  <2> PICK a \in T : TRUE
    OBVIOUS
  <2>1. CASE T = {a}
    BY <2>1 DEF IsLast
  <2>2. CASE T \ {a} # {}
    <3>1. T \ {a} \in G
      BY <1>1
    <3> PICK x : IsLast(x, T \ {a}, R)
      BY <2>2, <3>1
    <3>2. x \in T /\ x # a /\ \A y \in T \ {a} : y # x => <<y, x>> \in R
      BY DEF IsLast
    <3>3. CASE <<a, x>> \in R
      BY <3>2, <3>3 DEF IsLast
    <3>4. CASE <<x, a>> \in R
      <4>1. \A y \in T : y # a => <<y, a>> \in R
        BY <3>2, <3>4 DEF StrictOrder
      <4>2. QED
        BY <4>1 DEF IsLast
    <3>5. QED
      BY <3>2, <3>3, <3>4 DEF StrictOrder
  <2>3. QED
    BY <2>1, <2>2
<1>2. \A T \in SUBSET S : T \in G
  <2> HIDE DEF G
  <2>1. QED
    BY <1>1, SubsetInduction
<1>3. QED
  BY <1>2

\* A finite set can be sorted: its last element goes behind the others.
LEMMA SortExists ==
    ASSUME NEW S, IsFiniteSet(S), NEW R, StrictOrder(R, S)
    PROVE  \E seq \in [1..Cardinality(S) -> S] : InOrder(seq, R)
<1> DEFINE G == {T \in SUBSET S :
                   \E seq \in [1..Cardinality(T) -> T] : InOrder(seq, R)}
<1>1. ASSUME NEW T \in SUBSET S, \A U \in SUBSET T : U # T => U \in G
      PROVE  T \in G
  <2>0. IsFiniteSet(T)
    BY FS_Subset
  <2>1. CASE T = {}
    <3> DEFINE none == [i \in 1..0 |-> 0]
    <3>1. Cardinality(T) = 0 /\ none \in [1..0 -> T] /\ InOrder(none, R)
      BY <2>1, FS_EmptySet DEF InOrder
    <3>2. QED
      BY <3>1
  <2>2. CASE T # {}
    <3> PICK x : IsLast(x, T, R)
      BY <2>2, LastExists
    <3> PICK n : n = Cardinality(T \ {x})
      OBVIOUS
    <3>1. x \in T /\ \A y \in T \ {x} : <<y, x>> \in R
      BY DEF IsLast
    <3>2. n \in Nat /\ Cardinality(T) = n + 1
      <4>1. Cardinality(T) \in Nat /\ Cardinality(T) # 0
        BY <2>0, <2>2, FS_CardinalityType, FS_EmptySet
      <4>2. n = Cardinality(T) - 1
        BY <2>0, <3>1, FS_RemoveElement
      <4>3. QED
        BY <4>1, <4>2
    <3>3. T \ {x} \in G
      BY <1>1, <3>1
    <3> PICK s \in [1..n -> T \ {x}] : InOrder(s, R)
      BY <3>3
    <3> DEFINE q == [i \in 1..(n + 1) |-> IF i <= n THEN s[i] ELSE x]
    <3>a. ASSUME NEW i \in 1..(n + 1), i <= n PROVE i \in 1..n /\ q[i] = s[i]
      BY <3>2, <3>a
    <3>b. \A i \in 1..n : s[i] \in T \ {x}
      OBVIOUS
    <3>4. q \in [1..(n + 1) -> T]
      <4>1. ASSUME NEW i \in 1..(n + 1) PROVE q[i] \in T
        BY <3>1, <3>2, <3>a, <3>b
      <4>2. QED
        BY <4>1
    <3>5. ASSUME NEW i \in 1..(n + 1), NEW j \in 1..(n + 1), i < j
          PROVE  <<q[i], q[j]>> \in R
      <4>1. i \in 1..n /\ q[i] = s[i]
        BY <3>2, <3>5
      <4>2. CASE j \in 1..n
        <5>1. q[j] = s[j]
          BY <3>2, <3>a, <4>2
        <5>2. <<s[i], s[j]>> \in R
          BY <3>5, <4>1, <4>2 DEF InOrder
        <5>3. QED
          BY <4>1, <5>1, <5>2
      <4>3. CASE j = n + 1
        <5>1. q[j] = x
          BY <3>2, <4>3
        <5>2. QED
          BY <3>1, <4>1, <5>1
      <4>4. QED
        BY <3>2, <4>2, <4>3
    <3>6. InOrder(q, R)
      BY <3>5 DEF InOrder
    <3>7. QED
      BY <3>2, <3>4, <3>6
  <2>3. QED
    BY <2>1, <2>2
<1>2. \A T \in SUBSET S : T \in G
  <2> HIDE DEF G
  <2>1. QED
    BY <1>1, SubsetInduction
<1>3. QED
  BY <1>2

\* An ordered sequence without a gap in length has every element.
LEMMA SortedIsOnto ==
    ASSUME NEW S, IsFiniteSet(S), NEW R, StrictOrder(R, S),
           NEW seq \in [1..Cardinality(S) -> S], InOrder(seq, R)
    PROVE  /\ IsInjective(seq)
           /\ \A x \in S : \E i \in DOMAIN seq : seq[i] = x
<1>1. Cardinality(S) \in Nat
  BY FS_CardinalityType
<1> PICK n \in Nat : n = Cardinality(S)
  BY <1>1
<1>2. IsInjective(seq)
  <2> SUFFICES ASSUME NEW i \in 1..n, NEW j \in 1..n, i # j, seq[i] = seq[j]
               PROVE  FALSE
    BY DEF IsInjective
  <2>1. i < j \/ j < i
    OBVIOUS
  <2>2. <<seq[i], seq[i]>> \in R
    BY <2>1 DEF InOrder
  <2>3. QED
    BY <2>2 DEF StrictOrder
<1>3. seq \in Surjection(1..n, S)
  <2>1. Cardinality(1..n) = n
    BY FS_Interval
  <2>2. seq \in Injection(1..n, S)
    BY <1>2 DEF Injection
  <2>3. QED
    BY <2>1, <2>2, FS_Injection
<1>4. QED
  BY <1>2, <1>3 DEF Surjection

\* L holds the first n of S.
Tops(L, S, R, n) ==
    /\ L \in Seq(S) /\ Len(L) <= n /\ InOrder(L, R)
    /\ IsInjective(L)
    /\ \A x \in S : x \notin ToSet(L) =>
          Len(L) = n /\ \A y \in ToSet(L) : <<y, x>> \in R

LEMMA FirstOfSorted ==
    ASSUME NEW S, IsFiniteSet(S), NEW R, StrictOrder(R, S), NEW n \in Nat,
           NEW seq \in [1..Cardinality(S) -> S], InOrder(seq, R)
    PROVE  Tops(FirstOf(seq, n), S, R, n)
<1>1. Cardinality(S) \in Nat
  BY FS_CardinalityType
<1> PICK m \in Nat : m = Cardinality(S)
  BY <1>1
<1> PICK k \in Nat : k = IF m < n THEN m ELSE n
  OBVIOUS
<1> PICK L : L = FirstOf(seq, n)
  OBVIOUS
<1>2. seq \in Seq(S) /\ Len(seq) = m
  OBVIOUS
<1>3. L \in Seq(S) /\ Len(L) = k /\ \A i \in 1..k : L[i] = seq[i]
  BY <1>2 DEF FirstOf
<1>a. DOMAIN L = 1..k /\ DOMAIN seq = 1..m /\ 1..k \subseteq 1..m
  BY <1>3
<1>4. InOrder(L, R) /\ IsInjective(L)
  <2>1. InOrder(L, R)
    BY <1>3, <1>a DEF InOrder
  <2>2. IsInjective(seq)
    BY SortedIsOnto
  <2>3. IsInjective(L)
    BY <1>3, <1>a, <2>2 DEF IsInjective
  <2>4. QED
    BY <2>1, <2>3
<1>5. ASSUME NEW x \in S, x \notin ToSet(L)
      PROVE  Len(L) = n /\ \A y \in ToSet(L) : <<y, x>> \in R
  <2> PICK j \in 1..m : seq[j] = x
    BY SortedIsOnto
  <2>1. j > k
    BY <1>3, <1>5 DEF ToSet
  <2>2. k = n
    BY <2>1
  <2>3. ASSUME NEW y \in ToSet(L) PROVE <<y, x>> \in R
    <3> PICK i \in 1..k : y = L[i]
      BY <1>3 DEF ToSet
    <3>1. i < j /\ i \in 1..m /\ y = seq[i]
      BY <1>3, <2>1
    <3>2. QED
      BY <3>1 DEF InOrder
  <2>4. QED
    BY <1>3, <2>2, <2>3
<1>6. Len(L) <= n
  BY <1>3
<1>7. QED
  BY <1>3, <1>4, <1>5, <1>6 DEF Tops
\* A sequence without repetitions fills any that is no longer and has its elements.
LEMMA RangeSize ==
    ASSUME NEW S, NEW a \in Seq(S)
    PROVE  /\ IsFiniteSet(ToSet(a)) /\ Cardinality(ToSet(a)) \in Nat
           /\ Cardinality(ToSet(a)) <= Len(a)
           /\ IsInjective(a) => Cardinality(ToSet(a)) = Len(a)
<1>1. a \in Surjection(1..Len(a), ToSet(a))
  BY DEF Surjection, ToSet
<1> PICK n \in Nat : n = Len(a)
  OBVIOUS
<1>2. IsFiniteSet(1..Len(a)) /\ Cardinality(1..Len(a)) = Len(a)
  <2>0. 1 \in Int /\ n \in Int
    OBVIOUS
  <2>a. IsFiniteSet(1..n) /\ Cardinality(1..n) = IF 1 > n THEN 0 ELSE n - 1 + 1
    BY <2>0, FS_Interval, Zenon
  <2>1. IsFiniteSet(1..n) /\ Cardinality(1..n) = n
    BY <2>a
  <2>2. QED
    BY <2>1
<1>3. IsInjective(a) => a \in Injection(1..Len(a), ToSet(a))
  BY <1>1 DEF Surjection, Injection
<1>4. QED
  BY <1>1, <1>2, <1>3, FS_Surjection, FS_CardinalityType

LEMMA Fills ==
    ASSUME NEW S, NEW a \in Seq(S), NEW b \in Seq(S), IsInjective(a),
           Len(b) <= Len(a), ToSet(a) \subseteq ToSet(b)
    PROVE  Len(b) = Len(a) /\ ToSet(b) = ToSet(a)
<1>1. /\ Cardinality(ToSet(a)) = Len(a)
      /\ IsFiniteSet(ToSet(b)) /\ Cardinality(ToSet(b)) <= Len(b)
      /\ Cardinality(ToSet(b)) \in Nat
  BY RangeSize
<1>2. /\ Cardinality(ToSet(a)) <= Cardinality(ToSet(b))
      /\ Cardinality(ToSet(a)) = Cardinality(ToSet(b)) => ToSet(a) = ToSet(b)
  BY <1>1, FS_Subset
<1>3. QED
  BY <1>1, <1>2

-----------------------------------------------------------------------------
(* The orders of the legs and of the page.                                  *)

LEMMA RowParts ==
    \A r \in Rows :
       /\ r = <<r[1], r[2]>> /\ r[1] \in Kinds /\ r[2] \in Nat
       /\ r[1] = "dictation" => r[2] \in Ids
       /\ r[1] = "meeting" => r[2] \in Jobs
<1> SUFFICES ASSUME NEW r \in Rows
             PROVE  /\ r = <<r[1], r[2]>> /\ r[1] \in Kinds /\ r[2] \in Nat
                    /\ r[1] = "dictation" => r[2] \in Ids
                    /\ r[1] = "meeting" => r[2] \in Jobs
  OBVIOUS
<1>1. Ids \subseteq Nat /\ Jobs \subseteq Nat
  BY HistoryAssumption DEF Ids
<1>2. CASE r \in {"dictation"} \X Ids
  <2>1. r = <<r[1], r[2]>> /\ r[1] = "dictation" /\ r[2] \in Ids
    BY <1>2
  <2>2. QED
    BY <1>1, <2>1 DEF Kinds
<1>3. CASE r \in {"meeting"} \X Jobs
  <2>1. r = <<r[1], r[2]>> /\ r[1] = "meeting" /\ r[2] \in Jobs
    BY <1>3
  <2>2. QED
    BY <1>1, <2>1 DEF Kinds
<1>4. QED
  BY <1>2, <1>3 DEF Rows

LEMMA FiniteRows == IsFiniteSet(Rows)
<1>1. FirstId \in Int /\ FirstId + MaxDictations - 1 \in Int
  BY HistoryAssumption
<1>2. IsFiniteSet(Ids) /\ IsFiniteSet(Jobs)
  BY <1>1, FS_Interval, HistoryAssumption DEF Ids
<1>3. IsFiniteSet({"dictation"} \X Ids) /\ IsFiniteSet({"meeting"} \X Jobs)
  BY <1>2, FS_Product, FS_Singleton
<1>4. QED
  BY <1>3, FS_Union DEF Rows

NewerPairs == {p \in Rows \X Rows : Newer(p[1], p[2])}
PagePairs  == {p \in Rows \X Rows : OnPageBefore(p[1], p[2])}

LEMMA MadeIsInt == ASSUME PagesTypeOK PROVE \A r \in Rows : made[r] \in Int
<1>1. \A t \in Time \cup {NoTime} : t \in Int
  BY HistoryAssumption DEF Time, NoTime
<1>2. \A r \in Rows : made[r] \in Time \cup {NoTime}
  BY DEF PagesTypeOK
<1>3. QED
  BY <1>1, <1>2

LEMMA NewerOrders ==
    ASSUME PagesTypeOK, NEW k, NEW S \in SUBSET Rows, \A r \in S : r[1] = k
    PROVE  StrictOrder(NewerPairs, S)
<1>1. \A x, y \in S : <<x, y>> \in NewerPairs <=> Newer(x, y)
  BY DEF NewerPairs
<1>2. \A x \in S : made[x] \in Int /\ x[2] \in Nat
  BY MadeIsInt, RowParts
<1>3. \A x, y \in S : x # y => x[2] # y[2]
  BY RowParts
<1>4. \A x \in S : ~Newer(x, x)
  BY <1>2 DEF Newer
<1>5. \A x, y, z \in S : Newer(x, y) /\ Newer(y, z) => Newer(x, z)
  BY <1>2 DEF Newer
<1>6. \A x, y \in S : x # y => Newer(x, y) \/ Newer(y, x)
  BY <1>2, <1>3 DEF Newer
<1>7. QED
  BY <1>1, <1>4, <1>5, <1>6 DEF StrictOrder

Lead(i) == IF i >= 10 THEN i \div 10 ELSE i

LEMMA TextOrders ==
    /\ \A m \in Nat : ~TextBefore(m, m)
    /\ \A l, m, n \in Nat : TextBefore(l, m) /\ TextBefore(m, n) => TextBefore(l, n)
    /\ \A m, n \in Nat : m # n => TextBefore(m, n) \/ TextBefore(n, m)
<1>1. \A m \in Nat : Lead(m) \in Int
  BY DEF Lead
<1>2. \A m, n \in Nat :
        TextBefore(m, n) <=> Lead(m) < Lead(n) \/ (Lead(m) = Lead(n) /\ m < n)
  BY DEF TextBefore, Lead
<1>3. QED
  BY <1>1, <1>2

LEMMA RowIdOrders ==
    /\ \A r \in Rows : ~RowIdBefore(r, r)
    /\ \A r, s, t \in Rows :
          RowIdBefore(r, s) /\ RowIdBefore(s, t) => RowIdBefore(r, t)
    /\ \A r, s \in Rows : r # s => RowIdBefore(r, s) \/ RowIdBefore(s, r)
<1>1. ASSUME NEW r \in Rows PROVE ~RowIdBefore(r, r)
  BY RowParts, TextOrders DEF RowIdBefore
<1>2. ASSUME NEW r \in Rows, NEW s \in Rows, NEW t \in Rows,
             RowIdBefore(r, s), RowIdBefore(s, t)
      PROVE  RowIdBefore(r, t)
  <2>1. r[2] \in Nat /\ s[2] \in Nat /\ t[2] \in Nat
    BY RowParts
  <2>2. CASE r[1] = s[1] /\ s[1] = t[1]
    BY <1>2, <2>1, <2>2, TextOrders DEF RowIdBefore
  <2>3. CASE r[1] # s[1] \/ s[1] # t[1]
    BY <1>2, <2>3, RowParts DEF RowIdBefore, Kinds
  <2>4. QED
    BY <2>2, <2>3
<1>3. ASSUME NEW r \in Rows, NEW s \in Rows, r # s
      PROVE  RowIdBefore(r, s) \/ RowIdBefore(s, r)
  <2>1. r[2] \in Nat /\ s[2] \in Nat /\ r[1] \in Kinds /\ s[1] \in Kinds
    BY RowParts
  <2>2. CASE r[1] = s[1]
    <3>1. r[2] # s[2]
      BY <1>3, <2>2, RowParts
    <3>2. QED
      BY <2>1, <2>2, <3>1, TextOrders DEF RowIdBefore
  <2>3. CASE r[1] # s[1]
    BY <2>1, <2>3 DEF RowIdBefore, Kinds
  <2>4. QED
    BY <2>2, <2>3
<1>4. QED
  BY <1>1, <1>2, <1>3

LEMMA PageOrders ==
    ASSUME PagesTypeOK, NEW S \in SUBSET Rows PROVE StrictOrder(PagePairs, S)
<1>1. \A x, y \in S : <<x, y>> \in PagePairs <=> OnPageBefore(x, y)
  BY DEF PagePairs
<1>2. \A x \in S : made[x] \in Int
  BY MadeIsInt
<1>3. \A x \in S : ~OnPageBefore(x, x)
  BY <1>2, RowIdOrders DEF OnPageBefore
<1>4. \A x, y, z \in S : OnPageBefore(x, y) /\ OnPageBefore(y, z) => OnPageBefore(x, z)
  BY <1>2, RowIdOrders DEF OnPageBefore
<1>5. \A x, y \in S : x # y => OnPageBefore(x, y) \/ OnPageBefore(y, x)
  BY <1>2, RowIdOrders DEF OnPageBefore
<1>6. QED
  BY <1>1, <1>3, <1>4, <1>5 DEF StrictOrder

-----------------------------------------------------------------------------
(* What a leg and a page hold.                                              *)

Candidates(k, c) == {r \in Rows : r[1] = k /\ Listed(r) /\ Below(r, c)}

LEMMA LegHolds ==
    ASSUME PagesTypeOK, NEW k \in Kinds, NEW c, NEW f, f \in {k, "all"}
    PROVE  Tops(Leg(k, f, c), Candidates(k, c), NewerPairs, Limit)
<1> PICK S : S = Candidates(k, c)
  OBVIOUS
<1>1. S \subseteq Rows /\ \A r \in S : r[1] = k
  BY DEF Candidates
<1>2. IsFiniteSet(S) /\ StrictOrder(NewerPairs, S)
  BY <1>1, FiniteRows, FS_Subset, NewerOrders
<1>3. \E seq \in [1..Cardinality(S) -> S] : InOrder(seq, NewerPairs)
  BY <1>2, SortExists
<1>4. \A seq \in [1..Cardinality(S) -> S] : InOrder(seq, NewerPairs) <=>
         \A i, j \in DOMAIN seq : i < j => Newer(seq[i], seq[j])
  BY <1>1 DEF InOrder, NewerPairs
<1>5. Sorted(S, Newer) \in [1..Cardinality(S) -> S] /\ InOrder(Sorted(S, Newer), NewerPairs)
  BY <1>3, <1>4 DEF Sorted
<1>6. Leg(k, f, c) = FirstOf(Sorted(S, Newer), Limit)
  BY DEF Leg, Candidates
<1> PICK seq : seq = Sorted(S, Newer)
  OBVIOUS
<1>7. QED
  BY <1>2, <1>5, <1>6, FirstOfSorted, HistoryAssumption

LEMMA PageHolds ==
    ASSUME PagesTypeOK, NEW a \in Seq(Rows), NEW b \in Seq(Rows)
    PROVE  Tops(Merged(a, b), ToSet(a) \cup ToSet(b), PagePairs, Limit)
<1> PICK S : S = ToSet(a) \cup ToSet(b)
  OBVIOUS
<1>1. S \subseteq Rows
  BY DEF ToSet
<1>2. IsFiniteSet(S) /\ StrictOrder(PagePairs, S)
  BY <1>1, FiniteRows, FS_Subset, PageOrders
<1>3. \E seq \in [1..Cardinality(S) -> S] : InOrder(seq, PagePairs)
  BY <1>2, SortExists
<1>4. \A seq \in [1..Cardinality(S) -> S] : InOrder(seq, PagePairs) <=>
         \A i, j \in DOMAIN seq : i < j => OnPageBefore(seq[i], seq[j])
  BY <1>1 DEF InOrder, PagePairs
<1>5. /\ Sorted(S, OnPageBefore) \in [1..Cardinality(S) -> S]
      /\ InOrder(Sorted(S, OnPageBefore), PagePairs)
  BY <1>3, <1>4 DEF Sorted
<1>6. Merged(a, b) = FirstOf(Sorted(S, OnPageBefore), Limit)
  BY DEF Merged
<1> PICK seq : seq = Sorted(S, OnPageBefore)
  OBVIOUS
<1>7. seq \in [1..Cardinality(S) -> S] /\ InOrder(seq, PagePairs) /\ Limit \in Nat
  BY <1>5, HistoryAssumption
<1>8. Tops(FirstOf(seq, Limit), S, PagePairs, Limit)
  BY <1>2, <1>7, FirstOfSorted
<1>9. QED
  BY <1>6, <1>8
LEMMA LegType ==
    ASSUME PagesTypeOK, NEW k \in Kinds, NEW f \in Kinds \cup {"all"}, NEW c
    PROVE  /\ Leg(k, f, c) \in Seq(Rows) /\ Len(Leg(k, f, c)) <= Limit
           /\ NextCursor(Leg(k, f, c)) \in Cursor
<1> PICK L : L = Leg(k, f, c)
  OBVIOUS
<1>0. Limit \in Nat \ {0}
  BY HistoryAssumption
<1>1. CASE f \in {k, "all"}
  <2>1. Tops(L, Candidates(k, c), NewerPairs, Limit)
    BY <1>1, LegHolds
  <2>2. L \in Seq(Candidates(k, c)) /\ Len(L) <= Limit
    BY <2>1 DEF Tops
  <2>3. Candidates(k, c) \subseteq Rows
    BY DEF Candidates
  <2>4. L \in Seq(Rows)
    BY <2>2, <2>3
  <2>5. NextCursor(L) \in Cursor
    <3>1. CASE Len(L) # Limit
      BY <3>1 DEF NextCursor, Cursor
    <3>2. CASE Len(L) = Limit
      <4> PICK r : r = Last(L)
        OBVIOUS
      <4>1. r \in Candidates(k, c)
        BY <1>0, <2>2, <3>2 DEF Last
      <4>2. r \in Rows /\ made[r] # NoTime
        BY <4>1 DEF Candidates, Listed
      <4>3. made[r] \in Time /\ r[2] \in Nat
        BY <4>2, RowParts DEF PagesTypeOK
      <4>4. NextCursor(L) = [at |-> made[r], id |-> r[2]]
        BY <3>2 DEF NextCursor
      <4>5. QED
        BY <4>3, <4>4 DEF Cursor
    <3>3. QED
      BY <3>1, <3>2
  <2>6. QED
    BY <2>2, <2>4, <2>5
<1>2. CASE f \notin {k, "all"}
  <2>1. L = <<>>
    BY <1>2 DEF Leg
  <2>2. QED
    BY <1>0, <2>1 DEF NextCursor, Cursor
<1>3. QED
  BY <1>1, <1>2

LEMMA MergedType ==
    ASSUME PagesTypeOK, NEW a \in Seq(Rows), NEW b \in Seq(Rows)
    PROVE  Merged(a, b) \in Seq(Rows)
<1> PICK S : S = ToSet(a) \cup ToSet(b)
  OBVIOUS
<1>1. S \subseteq Rows
  BY DEF ToSet
<1>2. Merged(a, b) \in Seq(S)
  BY PageHolds DEF Tops
<1>3. QED
  BY <1>1, <1>2

\* A page of one leg shows the leg.
LEMMA MergedOfOne ==
    ASSUME PagesTypeOK, NEW L \in Seq(Rows), Len(L) <= Limit,
           NEW M, M = Merged(L, <<>>) \/ M = Merged(<<>>, L)
    PROVE  M \in Seq(Rows) /\ IsInjective(M) /\ ToSet(M) = ToSet(L)
<1>1. <<>> \in Seq(Rows) /\ ToSet(<<>>) = {}
  BY DEF ToSet
<1>2. Tops(M, ToSet(L), PagePairs, Limit) /\ M \in Seq(Rows)
  <2>1. ToSet(L) \cup {} = ToSet(L) /\ {} \cup ToSet(L) = ToSet(L)
    OBVIOUS
  <2>2. QED
    BY <1>1, <2>1, PageHolds, MergedType
<1>3. IsInjective(M) /\ ToSet(M) \subseteq ToSet(L)
  BY <1>2 DEF Tops, ToSet
<1>4. CASE \E x \in ToSet(L) : x \notin ToSet(M)
  <2>1. Len(M) = Limit
    BY <1>2, <1>4 DEF Tops
  <2>2. Len(L) <= Len(M)
    BY <2>1
  <2>3. QED
    BY <1>2, <1>3, <2>2, Fills
<1>5. QED
  BY <1>2, <1>3, <1>4

\* Below a leg's next cursor is below its last row.
LEMMA NextIsLast ==
    ASSUME PagesTypeOK, NEW k \in Kinds, NEW c, NEW L,
           Tops(L, Candidates(k, c), NewerPairs, Limit), Len(L) = Limit
    PROVE  /\ Last(L) \in Candidates(k, c) /\ Last(L) \in ToSet(L)
           /\ NextCursor(L) # Start
           /\ \A r \in Rows : Below(r, NextCursor(L)) <=> Newer(Last(L), r)
           /\ \A r \in ToSet(L) : ~Newer(Last(L), r)
<1> PICK r : r = Last(L)
  OBVIOUS
<1>0. Limit \in Nat \ {0}
  BY HistoryAssumption
<1>1. L \in Seq(Candidates(k, c)) /\ InOrder(L, NewerPairs)
  BY DEF Tops
<1>2. r = L[Limit] /\ Limit \in DOMAIN L /\ r \in Candidates(k, c) /\ r \in ToSet(L)
  BY <1>0, <1>1 DEF Last, ToSet
<1>3. r \in Rows /\ made[r] # NoTime
  BY <1>2 DEF Candidates, Listed
<1>4. made[r] \in Int /\ r[2] \in Nat
  BY <1>3, MadeIsInt, RowParts
<1>5. NextCursor(L) = [at |-> made[r], id |-> r[2]]
  BY DEF NextCursor
<1>6. NextCursor(L) # Start
  BY <1>3, <1>5 DEF Start
<1>7. ASSUME NEW s \in Rows PROVE Below(s, NextCursor(L)) <=> Newer(r, s)
  <2>1. made[s] \in Int /\ s[2] \in Nat
    BY MadeIsInt, RowParts
  <2>2. Below(s, NextCursor(L)) <=> made[s] < made[r] \/ (made[s] = made[r] /\ s[2] < r[2])
    BY <1>5, <1>6 DEF Below
  <2>3. QED
    BY <1>4, <2>1, <2>2 DEF Newer
<1>8. ASSUME NEW s \in ToSet(L) PROVE ~Newer(r, s)
  <2> PICK i \in 1..Limit : s = L[i]
    BY <1>1 DEF ToSet
  <2>0. s \in Rows
    BY <1>1 DEF Candidates
  <2>1. made[s] \in Int /\ s[2] \in Nat
    BY <2>0, MadeIsInt, RowParts
  <2>2. CASE i = Limit
    BY <1>2, <1>4, <2>2 DEF Newer
  <2>3. CASE i # Limit
    <3>1. i < Limit /\ i \in DOMAIN L
      BY <1>0, <1>1, <2>3
    <3>2. <<s, r>> \in NewerPairs
      BY <1>1, <1>2, <3>1 DEF InOrder
    <3>3. Newer(s, r)
      BY <3>2 DEF NewerPairs
    <3>4. QED
      BY <1>4, <2>1, <3>3 DEF Newer
  <2>4. QED
    BY <2>2, <2>3
<1>9. QED
  BY <1>2, <1>6, <1>7, <1>8
-----------------------------------------------------------------------------
(* The invariants.                                                          *)

\* A row that was stored, and may be gone.
Stored(r) == IF r[1] = "dictation" THEN r[2] < nextId ELSE made[r] # NoTime

IdsGrow == \A r \in Rows : made[r] # NoTime => Stored(r)

NotBegun ==
    kind = "" => /\ pages = 0 /\ shown = <<>> /\ ~more /\ there = {}
                 /\ cursor = [k \in Kinds |-> Start]

StillThere == (kind # "" => pages >= 1) /\ there \subseteq InView

ShownOnce(k) ==
    /\ IsInjective(shown)
    /\ \A r \in ToSet(shown) : r[1] = k /\ Stored(r)

\* Behind the cursor are the rows shown, and before it all that are missing.
CursorBetween(k, T) ==
    /\ more => /\ cursor[k] # Start
               /\ \A r \in ToSet(shown) : made[r] # NoTime => ~Below(r, cursor[k])
    /\ \A r \in T : r \in ToSet(shown) \/ (more /\ Below(r, cursor[k]))

LegInv == kind \in Kinds => ShownOnce(kind) /\ CursorBetween(kind, there)

WalkInv == PagesTypeOK /\ IdsGrow /\ NotBegun /\ StillThere /\ LegInv

LEMMA PageIs ==
    ASSUME NEW k, Page(k)
    PROVE  LET d == Leg("dictation", k, cursor["dictation"])
               j == Leg("meeting", k, cursor["meeting"])
           IN /\ shown' = shown \o Merged(d, j)
              /\ cursor' = [dictation |-> NextCursor(d), meeting |-> NextCursor(j)]
              /\ more' = (NextCursor(d) # Start \/ NextCursor(j) # Start)
              /\ pages' = pages + 1
BY DEF Page

LEMMA PageType ==
    ASSUME PagesTypeOK, NEW k \in Kinds \cup {"all"}, Page(k)
    PROVE  /\ shown' \in Seq(Rows) /\ cursor' \in [Kinds -> Cursor]
           /\ more' \in BOOLEAN /\ pages' \in Nat /\ pages' = pages + 1
<1> PICK d, j : d = Leg("dictation", k, cursor["dictation"])
                /\ j = Leg("meeting", k, cursor["meeting"])
  OBVIOUS
<1>1. /\ d \in Seq(Rows) /\ NextCursor(d) \in Cursor
      /\ j \in Seq(Rows) /\ NextCursor(j) \in Cursor
  BY LegType DEF Kinds
<1>2. Merged(d, j) \in Seq(Rows)
  BY <1>1, MergedType
<1>3. /\ shown' = shown \o Merged(d, j)
      /\ cursor' = [dictation |-> NextCursor(d), meeting |-> NextCursor(j)]
      /\ more' = (NextCursor(d) # Start \/ NextCursor(j) # Start)
      /\ pages' = pages + 1
  BY PageIs
<1>4. cursor' \in [Kinds -> Cursor]
  BY <1>1, <1>3 DEF Kinds
<1>5. shown \in Seq(Rows) /\ pages \in Nat
  BY DEF PagesTypeOK
<1>6. QED
  BY <1>2, <1>3, <1>4, <1>5

LEMMA TypeInit == ASSUME PagesInit PROVE PagesTypeOK
<1>1. 0 \in Time /\ FirstId \in FirstId..(FirstId + MaxDictations)
  BY HistoryAssumption DEF Time
<1>2. Start \in Cursor
  BY DEF Cursor
<1>3. \A k \in Kinds : cursor[k] \in Cursor
  BY <1>2 DEF PagesInit
<1>4. cursor \in [Kinds -> Cursor]
  BY <1>3 DEF PagesInit
<1>5. made \in [Rows -> Time \cup {NoTime}] /\ ended \in [Jobs -> Time \cup {NoTime}]
  BY DEF PagesInit
<1>6. shown \in Seq(Rows) /\ there \subseteq Rows
  <2>1. shown = <<>> /\ there = {}
    BY DEF PagesInit
  <2>2. QED
    BY <2>1
<1>7. QED
  BY <1>1, <1>4, <1>5, <1>6 DEF PagesInit, PagesTypeOK

LEMMA TypeStep ==
    ASSUME PagesTypeOK, NotBegun, [PagesNext]_pagesVars PROVE PagesTypeOK'
<1> USE DEF table, walk
<1>0. there' \subseteq there => there' \in SUBSET Rows
  BY DEF PagesTypeOK
<1>a. /\ now \in 0..MaxTime /\ MaxTime \in Nat
      /\ nextId \in FirstId..(FirstId + MaxDictations)
      /\ FirstId \in Nat /\ MaxDictations \in Nat
  BY HistoryAssumption DEF PagesTypeOK, Time
<1>1. CASE Tick
  <2>1. now' \in Time
    BY <1>a, <1>1 DEF Tick, Time
  <2>2. QED
    BY <1>0, <1>1, <2>1 DEF Tick, PagesTypeOK, Still
<1>2. CASE Dictate
  <2>1. nextId' \in FirstId..(FirstId + MaxDictations)
    BY <1>a, <1>2 DEF Dictate
  <2>2. ASSUME NEW at \in 0..now PROVE at \in Time
    BY <1>a DEF Time
  <2>3. made' \in [Rows -> Time \cup {NoTime}]
    BY <1>2, <2>2 DEF Dictate, PagesTypeOK
  <2>4. QED
    BY <1>0, <1>2, <2>1, <2>3 DEF Dictate, PagesTypeOK, Still
<1>3. ASSUME NEW j \in Jobs, Submit(j) PROVE PagesTypeOK'
  BY <1>3 DEF Submit, PagesTypeOK
<1>4. ASSUME NEW j \in Jobs, Transcribed(j) PROVE PagesTypeOK'
  BY <1>0, <1>4 DEF Transcribed, PagesTypeOK, Still
<1>5. ASSUME NEW r \in Rows, Delete(r) PROVE PagesTypeOK'
  BY <1>0, <1>5 DEF Delete, PagesTypeOK, Still
<1>6. ASSUME NEW r \in Rows, Restore(r) PROVE PagesTypeOK'
  BY <1>0, <1>6 DEF Restore, PagesTypeOK, Still
<1>7. ASSUME NEW c \in 1..now, Sweep(c) PROVE PagesTypeOK'
  BY <1>0, <1>7 DEF Sweep, PagesTypeOK, Still
<1>8. ASSUME NEW k \in Kinds \cup {"all"}, Open(k) PROVE PagesTypeOK'
  <2>1. /\ shown' \in Seq(Rows) /\ cursor' \in [Kinds -> Cursor]
        /\ more' \in BOOLEAN /\ pages' \in Nat
    BY <1>8, PageType DEF Open
  <2>2. QED
    BY <1>8, <2>1 DEF Open, PagesTypeOK
<1>9. CASE LoadMore
  <2>1. kind \in Kinds \cup {"all"}
    BY <1>9 DEF LoadMore, NotBegun, PagesTypeOK
  <2>2. /\ shown' \in Seq(Rows) /\ cursor' \in [Kinds -> Cursor]
        /\ more' \in BOOLEAN /\ pages' \in Nat
    BY <1>9, <2>1, PageType DEF LoadMore
  <2>3. QED
    BY <1>9, <2>2 DEF LoadMore, PagesTypeOK
<1>10. CASE UNCHANGED pagesVars
  BY <1>10 DEF pagesVars, PagesTypeOK
<1>11. QED
  BY <1>1, <1>2, <1>3, <1>4, <1>5, <1>6, <1>7, <1>8, <1>9, <1>10 DEF PagesNext
-----------------------------------------------------------------------------
(* While no page is loaded, rows may go but none comes a second time.       *)

RowsMove ==
    /\ \A r \in Rows : Stored(r) => Stored(r)' /\ made'[r] \in {made[r], NoTime}
    /\ IdsGrow'
    /\ there' \subseteq there /\ there' \subseteq InView'
    /\ UNCHANGED walk

NoPage ==
    \/ Tick \/ Dictate
    \/ \E j \in Jobs : Submit(j) \/ Transcribed(j)
    \/ \E r \in Rows : Delete(r) \/ Restore(r)
    \/ \E c \in 1..now : Sweep(c)
    \/ UNCHANGED pagesVars

LEMMA RowsOnlyMove == ASSUME WalkInv, PagesTypeOK', NoPage PROVE RowsMove
<1>0. PagesTypeOK /\ IdsGrow /\ StillThere
  BY DEF WalkInv
<1>a. there \subseteq InView
  BY <1>0 DEF StillThere
<1>b. ASSUME Still PROVE there' \subseteq there /\ there' \subseteq InView'
  BY <1>b DEF Still
<1>c. ASSUME UNCHANGED <<made, nextId>>
      PROVE  /\ \A r \in Rows : Stored(r) => Stored(r)' /\ made'[r] \in {made[r], NoTime}
             /\ IdsGrow'
  BY <1>0, <1>c DEF Stored, IdsGrow
<1>1. CASE Tick
  BY <1>1, <1>b, <1>c DEF Tick, RowsMove, table
<1>2. CASE Dictate
  <2>1. nextId \in Nat /\ nextId' = nextId + 1
    <3>1. nextId \in FirstId..(FirstId + MaxDictations)
      BY <1>0 DEF PagesTypeOK
    <3>2. QED
      BY <1>2, <3>1, HistoryAssumption DEF Dictate
  <2>2. \A r \in Rows : r # <<"dictation", nextId>> => made'[r] = made[r]
    BY <1>0, <1>2 DEF Dictate, PagesTypeOK
  <2>3. ASSUME NEW r \in Rows, Stored(r) PROVE Stored(r)' /\ made'[r] = made[r]
    <3>1. r # <<"dictation", nextId>>
      BY <2>1, <2>3 DEF Stored
    <3>2. made'[r] = made[r]
      BY <2>2, <3>1
    <3>3. Stored(r)'
      BY <2>1, <2>3, <3>2, RowParts DEF Stored
    <3>4. QED
      BY <3>2, <3>3
  <2>4. ASSUME NEW r \in Rows, made'[r] # NoTime PROVE Stored(r)'
    <3>1. CASE r = <<"dictation", nextId>>
      BY <2>1, <3>1 DEF Stored
    <3>2. CASE r # <<"dictation", nextId>>
      BY <1>0, <2>2, <2>3, <2>4, <3>2 DEF IdsGrow
    <3>3. QED
      BY <3>1, <3>2
  <2>5. IdsGrow'
    BY <2>4 DEF IdsGrow
  <2>6. QED
    BY <1>2, <1>b, <2>3, <2>5 DEF Dictate, RowsMove
<1>3. ASSUME NEW j \in Jobs, Submit(j) PROVE RowsMove
  <2>1. /\ made[<<"meeting", j>>] = NoTime
        /\ UNCHANGED <<now, nextId, ended, swept, deleted, walk, there>>
        /\ \A r \in Rows : r # <<"meeting", j>> => made'[r] = made[r]
    BY <1>0, <1>3 DEF Submit, PagesTypeOK
  <2>2. ASSUME NEW r \in Rows, Stored(r) PROVE Stored(r)' /\ made'[r] = made[r]
    BY <2>1, <2>2 DEF Stored
  <2>3. ASSUME NEW r \in Rows, made'[r] # NoTime PROVE Stored(r)'
    BY <1>0, <2>1, <2>3 DEF IdsGrow, Stored
  <2>4. ASSUME NEW r \in there PROVE r \in InView'
    <3>1. r \in Rows /\ Listed(r) /\ kind \in {r[1], "all"}
      BY <1>a DEF InView
    <3>2. made'[r] = made[r]
      BY <2>1, <3>1 DEF Listed
    <3>3. Listed(r)'
      BY <2>1, <3>1, <3>2 DEF Listed, HasText
    <3>4. QED
      BY <2>1, <3>1, <3>3 DEF InView, walk
  <2>5. QED
    BY <2>1, <2>2, <2>3, <2>4 DEF RowsMove, IdsGrow
<1>4. ASSUME NEW j \in Jobs, Transcribed(j) PROVE RowsMove
  BY <1>4, <1>b, <1>c DEF Transcribed, RowsMove
<1>5. ASSUME NEW r \in Rows, Delete(r) PROVE RowsMove
  BY <1>5, <1>b, <1>c DEF Delete, RowsMove
<1>6. ASSUME NEW r \in Rows, Restore(r) PROVE RowsMove
  BY <1>6, <1>b, <1>c DEF Restore, RowsMove
<1>7. ASSUME NEW c \in 1..now, Sweep(c) PROVE RowsMove
  <2> PICK gone : gone = {r \in Rows : r[1] = "dictation" /\ made[r] \in 0..(c - 1)}
    OBVIOUS
  <2>1. /\ made' = [r \in Rows |-> IF r \in gone THEN NoTime ELSE made[r]]
        /\ UNCHANGED <<nextId, walk>> /\ Still
    BY <1>7 DEF Sweep
  <2>2. ASSUME NEW r \in Rows, Stored(r)
        PROVE  Stored(r)' /\ made'[r] \in {made[r], NoTime}
    BY <2>1, <2>2 DEF Stored
  <2>3. ASSUME NEW r \in Rows, made'[r] # NoTime PROVE Stored(r)'
    BY <1>0, <2>1, <2>2, <2>3 DEF IdsGrow
  <2>4. QED
    BY <1>b, <2>1, <2>2, <2>3 DEF RowsMove, IdsGrow
<1>8. CASE UNCHANGED pagesVars
  <2>1. UNCHANGED <<now, nextId, made, ended, swept, deleted, walk, there>>
    BY <1>8 DEF pagesVars, table
  <2>2. InView' = InView
    BY <2>1 DEF InView, Listed, HasText, walk
  <2>3. QED
    BY <1>a, <1>c, <2>1, <2>2 DEF RowsMove
<1>9. QED
  BY <1>1, <1>2, <1>3, <1>4, <1>5, <1>6, <1>7, <1>8 DEF NoPage

\* A row there has the moment it had.
LEMMA ThereKeepsMade ==
    ASSUME WalkInv, PagesTypeOK', RowsMove
    PROVE  \A r \in there' : r \in there /\ r \in Rows /\ made'[r] = made[r]
<1> SUFFICES ASSUME NEW r \in there'
             PROVE  r \in there /\ r \in Rows /\ made'[r] = made[r]
  OBVIOUS
<1>1. r \in there /\ r \in InView' /\ r \in InView
  BY DEF RowsMove, WalkInv, StillThere
<1>2. r \in Rows /\ made[r] # NoTime
  BY <1>1 DEF InView, Listed
<1>3. made'[r] # NoTime
  BY <1>1 DEF InView, Listed
<1>4. Stored(r)
  BY <1>2 DEF WalkInv, IdsGrow
<1>5. QED
  BY <1>1, <1>2, <1>3, <1>4 DEF RowsMove

LEMMA MovesKeepWalk ==
    ASSUME WalkInv, PagesTypeOK', RowsMove PROVE WalkInv'
<1>0. UNCHANGED <<kind, cursor, more, pages, shown>>
  BY DEF RowsMove, walk
<1>1. NotBegun'
  BY <1>0 DEF RowsMove, WalkInv, NotBegun
<1>2. StillThere'
  BY <1>0 DEF RowsMove, WalkInv, StillThere
<1>3. ASSUME kind \in Kinds PROVE ShownOnce(kind)' /\ CursorBetween(kind, there)'
  <2>1. ShownOnce(kind) /\ CursorBetween(kind, there)
    BY <1>3 DEF WalkInv, LegInv
  <2>2. \A r \in ToSet(shown) : r \in Rows
    <3>1. shown \in Seq(Rows)
      BY DEF WalkInv, PagesTypeOK
    <3>2. QED
      BY <3>1 DEF ToSet
  <2>3. ShownOnce(kind)'
    BY <1>0, <2>1, <2>2 DEF ShownOnce, RowsMove
  <2>4. ASSUME more, NEW r \in ToSet(shown), made'[r] # NoTime
        PROVE  ~Below(r, cursor[kind])'
    <3>1. made'[r] = made[r]
      BY <2>1, <2>2, <2>4 DEF ShownOnce, RowsMove
    <3>2. QED
      BY <1>0, <2>1, <2>4, <3>1 DEF CursorBetween, Below
  <2>5. ASSUME NEW r \in there'
        PROVE  r \in ToSet(shown) \/ (more /\ Below(r, cursor[kind])')
    BY <1>0, <2>1, ThereKeepsMade DEF CursorBetween, Below
  <2>6. more => cursor[kind] # Start
    BY <2>1 DEF CursorBetween
  <2>7. CursorBetween(kind, there)'
    BY <1>0, <2>4, <2>5, <2>6 DEF CursorBetween
  <2>8. QED
    BY <2>3, <2>7
<1>4. LegInv'
  BY <1>0, <1>3 DEF LegInv
<1>5. QED
  BY <1>1, <1>2, <1>4 DEF WalkInv, RowsMove
-----------------------------------------------------------------------------
(* A page of one leg.                                                       *)

LEMMA Joined ==
    ASSUME NEW a \in Seq(Rows), NEW b \in Seq(Rows)
    PROVE  /\ ToSet(a \o b) = ToSet(a) \cup ToSet(b)
           /\ IsInjective(a) /\ IsInjective(b) /\ ToSet(a) \cap ToSet(b) = {}
                => IsInjective(a \o b)
<1> PICK m \in Nat, n \in Nat : m = Len(a) /\ n = Len(b)
  OBVIOUS
<1> PICK c : c = a \o b
  OBVIOUS
<1>1. /\ c \in Seq(Rows) /\ DOMAIN c = 1..(m + n)
      /\ \A i \in 1..(m + n) : c[i] = IF i <= m THEN a[i] ELSE b[i - m]
  OBVIOUS
<1>b. DOMAIN a = 1..m /\ DOMAIN b = 1..n
  OBVIOUS
<1>2. \A i \in 1..m : i \in DOMAIN c /\ c[i] = a[i]
  BY <1>1
<1>3. \A i \in 1..n : i + m \in DOMAIN c /\ c[i + m] = b[i]
  BY <1>1
<1>4. \A i \in DOMAIN c : i \in 1..m \/ i - m \in 1..n
  BY <1>1
<1>5. ToSet(c) = ToSet(a) \cup ToSet(b)
  <2>1. ASSUME NEW x \in ToSet(a) PROVE x \in ToSet(c)
    BY <1>2 DEF ToSet
  <2>2. ASSUME NEW x \in ToSet(b) PROVE x \in ToSet(c)
    <3> PICK i \in 1..n : x = b[i]
      BY DEF ToSet
    <3>1. QED
      BY <1>3 DEF ToSet
  <2>3. ASSUME NEW x \in ToSet(c) PROVE x \in ToSet(a) \cup ToSet(b)
    <3> PICK i \in DOMAIN c : x = c[i]
      BY DEF ToSet
    <3>1. CASE i \in 1..m
      BY <1>2, <3>1 DEF ToSet
    <3>2. CASE i - m \in 1..n /\ i \notin 1..m
      <4>1. c[i] = b[i - m]
        BY <1>1, <3>2
      <4>2. QED
        BY <3>2, <4>1 DEF ToSet
    <3>3. QED
      BY <1>4, <3>1, <3>2
  <2>4. QED
    BY <2>1, <2>2, <2>3
<1>6. ASSUME IsInjective(a), IsInjective(b), ToSet(a) \cap ToSet(b) = {}
      PROVE  IsInjective(c)
  <2> SUFFICES ASSUME NEW i \in DOMAIN c, NEW j \in DOMAIN c, c[i] = c[j] PROVE i = j
    BY DEF IsInjective
  <2>a. \A k \in 1..m : a[k] \in ToSet(a)
    BY <1>b DEF ToSet
  <2>b. \A k \in 1..n : b[k] \in ToSet(b)
    BY <1>b DEF ToSet
  <2>1. CASE i \in 1..m /\ j \in 1..m
    BY <1>2, <1>6, <2>1 DEF IsInjective
  <2>2. CASE i \notin 1..m /\ j \notin 1..m
    <3>1. i - m \in 1..n /\ j - m \in 1..n /\ c[i] = b[i - m] /\ c[j] = b[j - m]
      BY <1>1, <2>2
    <3>2. i - m = j - m
      BY <1>6, <1>b, <3>1 DEF IsInjective
    <3>3. QED
      BY <1>1, <3>2
  <2>3. CASE i \in 1..m /\ j \notin 1..m
    <3>1. j - m \in 1..n /\ c[i] = a[i] /\ c[j] = b[j - m]
      BY <1>1, <2>3
    <3>2. QED
      BY <1>6, <2>a, <2>b, <2>3, <3>1
  <2>4. CASE i \notin 1..m /\ j \in 1..m
    <3>1. i - m \in 1..n /\ c[j] = a[j] /\ c[i] = b[i - m]
      BY <1>1, <2>4
    <3>2. QED
      BY <1>6, <2>a, <2>b, <2>4, <3>1
  <2>5. QED
    BY <2>1, <2>2, <2>3, <2>4
<1>7. QED
  BY <1>5, <1>6

\* With a filter, a page is its leg, and the cursor is the leg's.
LEMMA OneLegPage ==
    ASSUME PagesTypeOK, NEW k \in Kinds, Page(k)
    PROVE  \E L, M :
              /\ Tops(L, Candidates(k, cursor[k]), NewerPairs, Limit)
              /\ M \in Seq(Rows) /\ IsInjective(M) /\ ToSet(M) = ToSet(L)
              /\ shown' = shown \o M
              /\ cursor'[k] = NextCursor(L)
              /\ more' = (NextCursor(L) # Start)
<1> PICK d, j : d = Leg("dictation", k, cursor["dictation"])
                /\ j = Leg("meeting", k, cursor["meeting"])
  OBVIOUS
<1>0. NextCursor(<<>>) = Start
  BY HistoryAssumption DEF NextCursor
<1>1. /\ shown' = shown \o Merged(d, j)
      /\ cursor' = [dictation |-> NextCursor(d), meeting |-> NextCursor(j)]
      /\ more' = (NextCursor(d) # Start \/ NextCursor(j) # Start)
  BY PageIs
<1> PICK L, M : L = Leg(k, k, cursor[k]) /\ M = Merged(d, j)
  OBVIOUS
<1>2. Tops(L, Candidates(k, cursor[k]), NewerPairs, Limit)
  BY LegHolds
<1>3. L \in Seq(Rows) /\ Len(L) <= Limit
  BY LegType
<1>4. CASE k = "dictation"
  <2>1. d = L /\ j = <<>>
    BY <1>4 DEF Leg
  <2>2. M \in Seq(Rows) /\ IsInjective(M) /\ ToSet(M) = ToSet(L)
    BY <1>3, <2>1, MergedOfOne
  <2>3. cursor'[k] = NextCursor(L) /\ more' = (NextCursor(L) # Start)
    BY <1>0, <1>1, <1>4, <2>1
  <2>4. QED
    BY <1>1, <1>2, <2>2, <2>3
<1>5. CASE k = "meeting"
  <2>1. d = <<>> /\ j = L
    BY <1>5 DEF Leg
  <2>2. M \in Seq(Rows) /\ IsInjective(M) /\ ToSet(M) = ToSet(L)
    BY <1>3, <2>1, MergedOfOne
  <2>3. cursor'[k] = NextCursor(L) /\ more' = (NextCursor(L) # Start)
    BY <1>0, <1>1, <1>5, <2>1
  <2>4. QED
    BY <1>1, <1>2, <2>2, <2>3
<1>6. QED
  BY <1>4, <1>5 DEF Kinds

\* What is below a row that is below a cursor is below the cursor.
LEMMA BelowFurther ==
    ASSUME PagesTypeOK, NEW r \in Rows, NEW s \in Rows, NEW c \in Cursor,
           Below(r, c), Newer(r, s)
    PROVE  Below(s, c)
<1>1. CASE c = Start
  BY <1>1 DEF Below
<1>2. CASE c # Start
  <2>1. c \in [at : Time, id : Nat]
    BY <1>2 DEF Cursor
  <2>2. c.at \in Int /\ c.id \in Nat
    BY <2>1, HistoryAssumption DEF Time
  <2>3. made[r] \in Int /\ made[s] \in Int /\ r[2] \in Nat /\ s[2] \in Nat
    BY MadeIsInt, RowParts
  <2>4. QED
    BY <1>2, <2>2, <2>3 DEF Below, Newer
<1>3. QED
  BY <1>1, <1>2

LEMMA PageKeepsLeg ==
    ASSUME PagesTypeOK, IdsGrow, NEW k \in Kinds, Page(k), UNCHANGED <<now, table>>,
           ShownOnce(k),
           \A r \in ToSet(shown) : made[r] # NoTime => ~Below(r, cursor[k]),
           NEW T \in SUBSET Rows, \A r \in T : r[1] = k /\ Listed(r),
           \A r \in T : r \in ToSet(shown) \/ Below(r, cursor[k])
    PROVE  ShownOnce(k)' /\ CursorBetween(k, T)'
<1> PICK c \in Cursor : c = cursor[k]
  BY DEF PagesTypeOK
<1> PICK L, M :
       /\ Tops(L, Candidates(k, c), NewerPairs, Limit)
       /\ M \in Seq(Rows) /\ IsInjective(M) /\ ToSet(M) = ToSet(L)
       /\ shown' = shown \o M
       /\ cursor'[k] = NextCursor(L)
       /\ more' = (NextCursor(L) # Start)
  BY OneLegPage
<1>0. shown \in Seq(Rows) /\ ToSet(shown) \subseteq Rows
  <2>1. shown \in Seq(Rows)
    BY DEF PagesTypeOK
  <2>2. QED
    BY <2>1 DEF ToSet
<1>1. \A r \in ToSet(L) : r \in Candidates(k, c)
  BY DEF Tops, ToSet
<1>2. \A r \in ToSet(L) : /\ r \in Rows /\ r[1] = k /\ made[r] # NoTime
                          /\ Below(r, c) /\ Stored(r)
  BY <1>1 DEF Candidates, Listed, IdsGrow
<1>3. ToSet(shown) \cap ToSet(M) = {}
  BY <1>2
<1>4. ToSet(shown') = ToSet(shown) \cup ToSet(L)
  BY <1>0, Joined
<1>5. IsInjective(shown')
  BY <1>0, <1>3, Joined DEF ShownOnce
<1>6. UNCHANGED <<nextId, made>>
  BY DEF table
<1>7. ShownOnce(k)'
  <2>1. \A r \in ToSet(shown') : r[1] = k /\ Stored(r)
    BY <1>2, <1>4 DEF ShownOnce
  <2>2. QED
    BY <1>5, <1>6, <2>1 DEF ShownOnce, Stored
<1>8. more' => Len(L) = Limit
  BY DEF NextCursor
<1>9. ASSUME more', NEW r \in ToSet(shown'), made[r] # NoTime
      PROVE  ~Below(r, NextCursor(L))
  <2> PICK s : s = Last(L)
    OBVIOUS
  <2>1. /\ s \in Candidates(k, c) /\ s \in Rows
        /\ Below(r, NextCursor(L)) <=> Newer(s, r)
        /\ r \in ToSet(L) => ~Newer(s, r)
    BY <1>0, <1>2, <1>4, <1>8, <1>9, NextIsLast
  <2>2. ASSUME r \in ToSet(shown), Newer(s, r) PROVE FALSE
    BY <1>0, <1>9, <2>1, <2>2, BelowFurther DEF Candidates
  <2>3. QED
    BY <1>4, <2>1, <2>2
<1>10. ASSUME NEW r \in T, r \notin ToSet(shown')
       PROVE  more' /\ Below(r, NextCursor(L))
  <2>1. r \in Candidates(k, c) /\ r \notin ToSet(L) /\ r \in Rows
    BY <1>4, <1>10 DEF Candidates
  <2>2. Len(L) = Limit /\ \A y \in ToSet(L) : <<y, r>> \in NewerPairs
    BY <2>1 DEF Tops
  <2>3. Last(L) \in ToSet(L) /\ NextCursor(L) # Start
    BY <2>2, NextIsLast
  <2>4. Newer(Last(L), r)
    BY <2>2, <2>3 DEF NewerPairs
  <2>5. QED
    BY <2>1, <2>2, <2>3, <2>4, NextIsLast
<1>11. CursorBetween(k, T)'
  BY <1>6, <1>9, <1>10 DEF CursorBetween, Below
<1>12. QED
  BY <1>7, <1>11
-----------------------------------------------------------------------------
(* Pages.                                                                   *)

LEMMA OpenKeepsWalk ==
    ASSUME WalkInv, PagesTypeOK', NEW k \in Kinds \cup {"all"}, Open(k)
    PROVE  WalkInv'
<1>0. /\ PagesTypeOK /\ IdsGrow /\ NotBegun
      /\ kind = "" /\ kind' = k /\ Page(k) /\ UNCHANGED <<now, table>>
      /\ there' = {r \in Rows : Listed(r) /\ k \in {r[1], "all"}}
  BY DEF WalkInv, Open
<1>1. pages = 0 /\ shown = <<>> /\ \A l \in Kinds : cursor[l] = Start
  BY <1>0 DEF NotBegun
<1>2. pages' = 1
  <2>1. pages' = pages + 1
    BY <1>0, PageType
  <2>2. QED
    BY <1>1, <2>1
<1>a. k # ""
  BY DEF Kinds
<1>3. IdsGrow' /\ NotBegun'
  BY <1>0, <1>a DEF table, IdsGrow, Stored, NotBegun
<1>4. there' \subseteq InView'
  BY <1>0 DEF table, InView, Listed, HasText
<1>5. ASSUME k \in Kinds PROVE ShownOnce(k)' /\ CursorBetween(k, there)'
  <2>1. ToSet(shown) = {} /\ IsInjective(shown)
    BY <1>1 DEF ToSet, IsInjective
  <2>2. ShownOnce(k)
    BY <2>1 DEF ShownOnce
  <2>3. \A r \in there' : r \in Rows /\ r[1] = k /\ Listed(r)
    BY <1>0, <1>5 DEF Kinds
  <2>4. \A r \in there' : Below(r, cursor[k])
    BY <1>1, <1>5 DEF Below
  <2> PICK T : T = there'
    OBVIOUS
  <2>5. ShownOnce(k)' /\ CursorBetween(k, T)'
    BY <1>0, <1>5, <2>1, <2>2, <2>3, <2>4, PageKeepsLeg
  <2>6. QED
    BY <2>5 DEF CursorBetween
<1>6. LegInv'
  BY <1>0, <1>5 DEF LegInv, ShownOnce, CursorBetween
<1>7. pages' >= 1
  BY <1>2
<1>8. StillThere'
  BY <1>4, <1>7 DEF StillThere
<1>9. QED
  BY <1>3, <1>6, <1>8 DEF WalkInv

LEMMA MoreKeepsWalk ==
    ASSUME WalkInv, PagesTypeOK', LoadMore PROVE WalkInv'
<1>0. /\ PagesTypeOK /\ IdsGrow /\ NotBegun /\ StillThere /\ LegInv
      /\ more /\ Page(kind) /\ UNCHANGED <<now, table, kind, there>>
  BY DEF WalkInv, LoadMore
<1>1. kind \in Kinds \cup {"all"}
  BY <1>0 DEF NotBegun, PagesTypeOK
<1>2. pages' = pages + 1 /\ pages \in Nat
  BY <1>0, <1>1, PageType DEF PagesTypeOK
<1>a. kind # ""
  BY <1>1 DEF Kinds
<1>3. IdsGrow' /\ NotBegun'
  BY <1>0, <1>a DEF table, IdsGrow, Stored, NotBegun
<1>4. there' \subseteq InView'
  BY <1>0 DEF table, InView, Listed, HasText, StillThere
<1>5. ASSUME kind \in Kinds PROVE ShownOnce(kind)' /\ CursorBetween(kind, there)'
  <2>1. ShownOnce(kind) /\ CursorBetween(kind, there)
    BY <1>0, <1>5 DEF LegInv
  <2>2. \A r \in there : r \in Rows /\ r[1] = kind /\ Listed(r)
    BY <1>0, <1>5 DEF StillThere, InView, Kinds
  <2>3. /\ \A r \in ToSet(shown) : made[r] # NoTime => ~Below(r, cursor[kind])
        /\ \A r \in there : r \in ToSet(shown) \/ Below(r, cursor[kind])
    BY <1>0, <2>1 DEF CursorBetween
  <2> PICK k, T : k = kind /\ T = there
    OBVIOUS
  <2>4. ShownOnce(k)' /\ CursorBetween(k, T)'
    BY <1>0, <1>5, <2>1, <2>2, <2>3, PageKeepsLeg
  <2>5. QED
    BY <1>0, <2>4 DEF ShownOnce, CursorBetween
<1>6. LegInv'
  BY <1>0, <1>5 DEF LegInv
<1>7. pages' >= 1
  BY <1>2
<1>8. StillThere'
  BY <1>4, <1>7 DEF StillThere
<1>9. QED
  BY <1>3, <1>6, <1>8 DEF WalkInv

LEMMA WalkInit == ASSUME PagesInit PROVE WalkInv
<1>1. PagesTypeOK
  BY TypeInit
<1>2. IdsGrow /\ NotBegun /\ StillThere /\ LegInv
  BY DEF PagesInit, IdsGrow, NotBegun, StillThere, LegInv, Kinds
<1>3. QED
  BY <1>1, <1>2 DEF WalkInv

LEMMA WalkStep == ASSUME WalkInv, [PagesNext]_pagesVars PROVE WalkInv'
<1>1. PagesTypeOK'
  BY TypeStep DEF WalkInv
<1>2. \/ NoPage
      \/ \E k \in Kinds \cup {"all"} : Open(k)
      \/ LoadMore
  BY DEF PagesNext, NoPage
<1>3. QED
  BY <1>1, <1>2, RowsOnlyMove, MovesKeepWalk, OpenKeepsWalk, MoreKeepsWalk

LEMMA WalkInvariant == PagesSpec => []WalkInv
BY WalkInit, WalkStep, PTL DEF PagesSpec

-----------------------------------------------------------------------------
(* The first page.                                                          *)

LEMMA NewestShown ==
    ASSUME PagesTypeOK, NEW k \in Kinds, NEW c, NEW a, NEW U \in SUBSET Rows, NEW M,
           Tops(a, Candidates(k, c), NewerPairs, Limit), Tops(M, U, PagePairs, Limit),
           ToSet(a) \subseteq U,
           NEW r \in Candidates(k, c), r \notin ToSet(M)
    PROVE  Len(M) = Limit /\ \A s \in ToSet(M) : made[s] >= made[r]
<1>1. /\ a \in Seq(Rows) /\ Len(a) <= Limit /\ IsInjective(a)
      /\ M \in Seq(Rows) /\ Len(M) <= Limit /\ r \in Rows
  <2>1. Candidates(k, c) \subseteq Rows
    BY DEF Candidates
  <2>2. a \in Seq(Candidates(k, c)) /\ M \in Seq(U)
    BY DEF Tops
  <2>3. a \in Seq(Rows) /\ M \in Seq(Rows)
    BY <2>1, <2>2
  <2>4. QED
    BY <2>1, <2>3 DEF Tops
<1>2. \A s \in ToSet(M) \cup ToSet(a) : s \in Rows /\ made[s] \in Int
  BY <1>1, MadeIsInt DEF ToSet
<1>3. made[r] \in Int
  BY <1>1, MadeIsInt
<1>4. ASSUME NEW l \in U, l \notin ToSet(M)
      PROVE  Len(M) = Limit /\ \A s \in ToSet(M) : made[s] >= made[l]
  <2>1. Len(M) = Limit /\ \A s \in ToSet(M) : <<s, l>> \in PagePairs
    BY <1>4 DEF Tops
  <2>2. ASSUME NEW s \in ToSet(M) PROVE made[s] >= made[l]
    <3>1. OnPageBefore(s, l) /\ made[s] \in Int /\ made[l] \in Int
      BY <1>2, <1>4, <2>1, MadeIsInt DEF PagePairs
    <3>2. QED
      BY <3>1 DEF OnPageBefore
  <2>3. QED
    BY <2>1, <2>2
<1>5. CASE r \in U
  BY <1>4, <1>5
<1>6. CASE r \notin U
  <2>1. r \notin ToSet(a)
    BY <1>6
  <2>2. Len(a) = Limit /\ \A l \in ToSet(a) : <<l, r>> \in NewerPairs
    BY <2>1 DEF Tops
  <2>3. ASSUME NEW l \in ToSet(a) PROVE made[l] >= made[r]
    <3>1. Newer(l, r)
      BY <2>2 DEF NewerPairs
    <3>2. QED
      BY <1>2, <1>3, <3>1 DEF Newer
  <2>4. CASE ToSet(a) \subseteq ToSet(M)
    <3>1. Len(M) = Len(a) /\ ToSet(M) = ToSet(a)
      BY <1>1, <2>2, <2>4, Fills
    <3>2. QED
      BY <2>2, <2>3, <3>1
  <2>5. ASSUME NEW l \in ToSet(a), l \notin ToSet(M)
        PROVE  Len(M) = Limit /\ \A s \in ToSet(M) : made[s] >= made[r]
    <3>1. made[l] >= made[r] /\ made[l] \in Int
      BY <1>2, <2>3
    <3>2. Len(M) = Limit /\ \A s \in ToSet(M) : made[s] >= made[l]
      BY <1>4, <2>5
    <3>3. QED
      BY <1>2, <1>3, <3>1, <3>2
  <2>6. QED
    BY <2>4, <2>5
<1>7. QED
  BY <1>5, <1>6

LEMMA FirstPageOpens ==
    ASSUME WalkInv, PagesTypeOK', NEW k \in Kinds \cup {"all"}, Open(k)
    PROVE  FirstPageIsNewest'
<1>0. /\ PagesTypeOK /\ NotBegun /\ kind = "" /\ Page(k) /\ UNCHANGED table
      /\ there' = {r \in Rows : Listed(r) /\ k \in {r[1], "all"}}
  BY DEF WalkInv, Open
<1>1. shown = <<>> /\ \A l \in Kinds : cursor[l] = Start
  BY <1>0 DEF NotBegun
<1> PICK d, j : /\ d = Leg("dictation", k, Start) /\ j = Leg("meeting", k, Start)
  OBVIOUS
<1>2. d \in Seq(Rows) /\ j \in Seq(Rows)
  BY <1>0, LegType DEF Kinds
<1> PICK M, U : M = Merged(d, j) /\ U = ToSet(d) \cup ToSet(j)
  OBVIOUS
<1>3. Tops(M, U, PagePairs, Limit) /\ M \in Seq(Rows) /\ U \subseteq Rows
  <2>1. Tops(M, U, PagePairs, Limit)
    BY <1>0, <1>2, PageHolds
  <2>2. M \in Seq(Rows)
    BY <1>0, <1>2, MergedType
  <2>3. ToSet(d) \subseteq Rows /\ ToSet(j) \subseteq Rows
    BY <1>2 DEF ToSet
  <2>4. QED
    BY <2>1, <2>2, <2>3
<1>4. shown' = M
  <2>1. shown' = shown \o Merged(d, j)
    BY <1>0, <1>1, PageIs DEF Kinds
  <2>2. QED
    BY <1>1, <1>3, <2>1
<1>5. ASSUME NEW r \in there', r \notin ToSet(M)
      PROVE  Len(M) = Limit /\ \A s \in ToSet(M) : made[s] >= made[r]
  <2>1. r \in Rows /\ Listed(r) /\ k \in {r[1], "all"}
    BY <1>0
  <2> PICK l \in Kinds : l = r[1]
    BY <2>1, RowParts
  <2> PICK a : a = Leg(l, k, Start)
    OBVIOUS
  <2>2. r \in Candidates(l, Start)
    BY <2>1 DEF Candidates, Below
  <2>3. Tops(a, Candidates(l, Start), NewerPairs, Limit)
    BY <1>0, <2>1, LegHolds
  <2>4. ToSet(a) \subseteq U
    BY DEF Kinds
  <2>5. QED
    BY <1>0, <1>3, <1>5, <2>2, <2>3, <2>4, NewestShown
<1>6. made' = made
  BY <1>0 DEF table
<1>7. QED
  BY <1>4, <1>5, <1>6 DEF FirstPageIsNewest

LEMMA FirstPageStep ==
    ASSUME WalkInv, WalkInv', FirstPageIsNewest, [PagesNext]_pagesVars
    PROVE  FirstPageIsNewest'
<1>0. PagesTypeOK /\ PagesTypeOK'
  BY DEF WalkInv
<1>1. CASE NoPage
  <2>1. RowsMove
    BY <1>0, <1>1, RowsOnlyMove
  <2>2. UNCHANGED <<pages, shown>>
    BY <2>1 DEF RowsMove, walk
  <2>3. \A r \in there' : r \in there /\ made'[r] = made[r]
    BY <1>0, <2>1, ThereKeepsMade
  <2>4. QED
    BY <2>2, <2>3 DEF FirstPageIsNewest
<1>2. ASSUME NEW k \in Kinds \cup {"all"}, Open(k) PROVE FirstPageIsNewest'
  BY <1>0, <1>2, FirstPageOpens
<1>3. CASE LoadMore
  <2>1. kind \in Kinds \cup {"all"} /\ kind # "" /\ Page(kind)
    BY <1>3 DEF LoadMore, WalkInv, NotBegun, PagesTypeOK, Kinds
  <2>2. pages >= 1 /\ pages \in Nat /\ pages' = pages + 1
    BY <1>0, <2>1, PageType DEF WalkInv, StillThere, PagesTypeOK
  <2>3. QED
    BY <2>2 DEF FirstPageIsNewest
<1>4. QED
  BY <1>1, <1>2, <1>3 DEF PagesNext, NoPage

-----------------------------------------------------------------------------
\* Every variable keeps its type: the ids a page and the tables deal with, the
\* moments in the cursors, the rows a walk appends.
THEOREM PagesTypeCorrect == PagesSpec => []PagesTypeOK
<1>1. WalkInv => PagesTypeOK
  BY DEF WalkInv
<1>2. QED
  BY <1>1, WalkInvariant, PTL

\* A walk through one kind of row appends no row a second time, whatever is
\* stored, deleted, restored or swept while its pages are loaded.
THEOREM RowsShownOnce == PagesSpec => []NoRowTwice
<1>1. WalkInv => NoRowTwice
  BY DEF WalkInv, LegInv, ShownOnce, NoRowTwice, OneLeg
<1>2. QED
  BY <1>1, WalkInvariant, PTL

\* When such a walk has no more pages, it has shown every row that was listed
\* from its first page on: the keyset cursor skips none.
THEOREM RowsNotSkipped == PagesSpec => []NoRowSkipped
<1>1. WalkInv => NoRowSkipped
  BY DEF WalkInv, LegInv, CursorBetween, NoRowSkipped, OneLeg, Done
<1>2. QED
  BY <1>1, WalkInvariant, PTL

\* The first page holds the newest rows of both legs: one that is not on it
\* is no newer than any that is, and the page is full.
THEOREM NewestFirst == PagesSpec => []FirstPageIsNewest
<1>1. PagesInit => FirstPageIsNewest
  BY DEF PagesInit, FirstPageIsNewest
<1>2. WalkInv /\ WalkInv' /\ FirstPageIsNewest /\ [PagesNext]_pagesVars
        => FirstPageIsNewest'
  BY FirstPageStep
<1>3. QED
  BY <1>1, <1>2, WalkInvariant, PTL DEF PagesSpec
=============================================================================
