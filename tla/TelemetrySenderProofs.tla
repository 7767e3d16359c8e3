------------------------ MODULE TelemetrySenderProofs -----------------------
(***************************************************************************)
(* The safety of the audit pipeline, for every queue size, batch size,     *)
(* number of concurrent flushes and number of events, failures and         *)
(* restarts.                                                               *)
(*                                                                         *)
(* IInv (TelemetrySender) is inductive.  Most steps only end ticks and     *)
(* remove rows, or leave both alone, and let settled events grow: the      *)
(* lemmas of the first part say once what such steps preserve.  The second *)
(* part has one lemma per kind of step, and the theorems are at the end.   *)
(***************************************************************************)
EXTENDS TelemetrySender, FiniteSetTheorems, WellFoundedInduction, TLAPS

USE MaxSizeAssumption, SenderAssumption

-----------------------------------------------------------------------------
(* The batch that dequeue_batch peeks is a finite set of rows that         *)
(* contains, with a row, every row before it.                              *)
LEMMA BatchIsPrefix ==
    ASSUME TypeOK, NEW n \in Nat
    PROVE  /\ Batch(n) \subseteq rows
           /\ \A r \in Batch(n), q \in rows : q.id <= r.id => q \in Batch(n)
<1>1. Batch(n) \subseteq rows
  BY DEF Batch
<1>2. ASSUME NEW r \in Batch(n), NEW q \in rows, q.id <= r.id
      PROVE  q \in Batch(n)
  <2> DEFINE below(x) == {y \in rows : y.id <= x.id}
  <2>1. r \in rows /\ kind = "real" /\ Cardinality(below(r)) <= n
    BY <1>2 DEF Batch
  <2>2. \A x \in rows : x.id \in Nat
    BY DEF TypeOK, StoreTypeOK, QueuedEvent
  <2>3. below(q) \subseteq below(r)
    BY <1>2, <2>1, <2>2
  <2>4. IsFiniteSet(rows) /\ below(r) \subseteq rows
    BY DEF TypeOK, StoreTypeOK
  <2>5. IsFiniteSet(below(r))
    BY <2>4, FS_Subset
  <2>6. IsFiniteSet(below(q)) /\ Cardinality(below(q)) <= Cardinality(below(r))
    BY <2>3, <2>5, FS_Subset
  <2>7. Cardinality(below(q)) \in Nat /\ Cardinality(below(r)) \in Nat
    BY <2>5, <2>6, FS_CardinalityType
  <2>8. Cardinality(below(q)) <= n
    BY <2>1, <2>6, <2>7
  <2> QED
    BY <1>2, <2>1, <2>8 DEF Batch
<1> QED
  BY <1>1, <1>2

(* A batch is empty only when the queue is: the row with the fewest rows   *)
(* before it has none before it, and a batch has room for one.             *)
LEMMA EmptyBatch ==
    ASSUME TypeOK, RowsInv, kind = "real", Batch(BatchSize) = {}
    PROVE  rows = {}
<1> SUFFICES ASSUME rows # {} PROVE FALSE
  OBVIOUS
<1> DEFINE Before(r) == {q \in rows : q.id < r.id}
           T         == {Before(r) : r \in rows}
<1>1. IsFiniteSet(rows) /\ \A r \in rows : r.id \in Nat
  BY DEF TypeOK, StoreTypeOK, QueuedEvent
<1>2. T \subseteq FiniteSubsetsOf(rows) /\ T # {}
  <2>1. \A r \in rows : Before(r) \in SUBSET rows
    OBVIOUS
  <2>2. \A r \in rows : IsFiniteSet(Before(r))
    BY <1>1, <2>1, FS_Subset
  <2>3. \A r \in rows : Before(r) \in FiniteSubsetsOf(rows)
    BY <2>1, <2>2 DEF FiniteSubsetsOf
  <2> HIDE DEF Before
  <2> QED
    BY <2>3
<1>3. IsWellFoundedOn(StrictSubsetOrdering(rows), FiniteSubsetsOf(rows))
  BY <1>1, FS_StrictSubsetOrderingWellFounded
<1>4. PICK A \in T : \A B \in T : ~ (<<B, A>> \in StrictSubsetOrdering(rows))
  BY <1>2, <1>3, WFMin
<1>5. PICK r \in rows : A = Before(r)
  OBVIOUS
<1>6. ASSUME NEW q \in rows, q.id < r.id
      PROVE  FALSE
  <2>1. Before(q) \subseteq Before(r) /\ Before(q) # Before(r)
    BY <1>1, <1>6
  <2>2. <<Before(q), Before(r)>> \in StrictSubsetOrdering(rows)
    BY <2>1 DEF StrictSubsetOrdering
  <2> QED
    BY <1>4, <1>5, <2>2
<1>7. {q \in rows : q.id <= r.id} = {r}
  BY <1>1, <1>6 DEF RowsInv
<1>8. Cardinality({q \in rows : q.id <= r.id}) <= BatchSize
  <2>1. Cardinality({r}) = 1
    BY FS_Singleton
  <2>2. 1 <= BatchSize
    OBVIOUS
  <2> QED
    BY <1>7, <2>1, <2>2
<1> QED
  BY <1>8 DEF Batch

(* Evs and Ids are monotonic.                                              *)
LEMMA EvsMonotonic ==
    ASSUME NEW S, NEW T \in SUBSET S
    PROVE  Evs(T) \subseteq Evs(S) /\ Ids(T) \subseteq Ids(S)
BY DEF Evs, Ids

(* The store's and the tickers' part of a step that only removes rows,     *)
(* drops batches and settles events keeps everything about the table and   *)
(* what was peeked from it.                                                *)
LEMMA ShrinkingStep ==
    ASSUME IInv,
           rows' \subseteq rows, seq' = seq, nextEv' = nextEv, accepted' = accepted,
           delivered \subseteq delivered', rejected \subseteq rejected',
           setAside \subseteq setAside',
           \A u \in Tickers : batch'[u] = {} \/ batch'[u] = batch[u]
    PROVE  /\ RowsInv'
           /\ StableIds'
           /\ QueueBound'
           /\ Settled \subseteq Settled'
           /\ \A u \in Tickers :
                 /\ \A r \in batch'[u] : r.id <= seq' /\ r.ev \in accepted'
                 /\ Oldest(Evs(batch[u]))'
<1> USE DEF IInv
<1>1. RowsInv'
  BY DEF RowsInv
<1>2. StableIds'
  BY DEF StableIds
<1>3. QueueBound'
  <2>1. IsFiniteSet(rows) /\ Cardinality(rows) <= MaxSize
    BY DEF TypeOK, StoreTypeOK, QueueBound
  <2>2. IsFiniteSet(rows') /\ Cardinality(rows') <= Cardinality(rows)
    BY <2>1, FS_Subset
  <2>3. Cardinality(rows) \in Nat /\ Cardinality(rows') \in Nat
    BY <2>1, <2>2, FS_CardinalityType
  <2> QED
    BY <2>1, <2>2, <2>3 DEF QueueBound
<1>4. Settled \subseteq Settled'
  BY DEF Settled
<1>5. ASSUME NEW u \in Tickers
      PROVE  /\ \A r \in batch'[u] : r.id <= seq' /\ r.ev \in accepted'
             /\ Oldest(Evs(batch[u]))'
  <2>1. CASE batch'[u] = {}
    BY <2>1 DEF Oldest, Evs
  <2>2. CASE batch'[u] = batch[u]
    BY <2>2, <1>4 DEF BatchInv, Oldest
  <2> QED
    BY <2>1, <2>2
<1> QED
  BY <1>1, <1>2, <1>3, <1>4, <1>5

(* A step that keeps or drops what each ticker carries.                    *)
KeptOrDropped ==
    \A u \in Tickers :
        \/ batch'[u] = {} /\ resp'[u] = "none"
        \/ batch'[u] = batch[u] /\ resp'[u] = resp[u]

(* A tick that ends leaves its ticker without rows, answer or POST, and    *)
(* the other tickers as they were.                                         *)
LEMMA TickEnds ==
    ASSUME IInv, NEW t \in Tickers, NEW how \in Endings, NEW b \in Nat \ {0},
           pc[t] # "idle", TickReturns(t, how, b)
    PROVE  /\ proc' = proc
           /\ pc' \in [Tickers -> {"idle", "ready", "posting", "sleep"}]
           /\ batch' \in [Tickers -> SUBSET QueuedEvent]
           /\ resp' \in [Tickers -> {"none", "ok", "bad", "other"}]
           /\ backoff' \in Nat \ {0}
           /\ ended' \in [Tickers -> Endings]
           /\ TickersInv'
           /\ KeptOrDropped
<1> USE DEF IInv, TypeOK, TickReturns, Rested
<1>1. /\ proc' = proc
      /\ pc' \in [Tickers -> {"idle", "ready", "posting", "sleep"}]
      /\ ended' \in [Tickers -> Endings]
  OBVIOUS
<1>2. batch' \in [Tickers -> SUBSET QueuedEvent]
  OBVIOUS
<1>3. resp' \in [Tickers -> {"none", "ok", "bad", "other"}]
  OBVIOUS
<1>4. backoff' \in Nat \ {0}
  OBVIOUS
<1>5. KeptOrDropped
  BY DEF KeptOrDropped
<1>6. TickersInv'
  BY DEF TickersInv
<1> QED
  BY <1>1, <1>2, <1>3, <1>4, <1>5, <1>6

(* A backoff bumped is a backoff.                                          *)
LEMMA BumpedType ==
    ASSUME NEW b \in Nat \ {0}
    PROVE  Bumped(b) \in Nat \ {0}
BY DEF Bumped

(* What a POST that is given up carried is accepted, and oldest first.     *)
LEMMA AbandonedGhosts ==
    ASSUME IInv, NEW T \in SUBSET Tickers
    PROVE  \A g \in Abandoned(T) : g \subseteq accepted /\ Oldest(g)
<1> SUFFICES ASSUME NEW t \in T
             PROVE  Evs(batch[t]) \subseteq accepted /\ Oldest(Evs(batch[t]))
  BY DEF Abandoned
<1> QED
  BY DEF IInv, BatchInv, Evs

-----------------------------------------------------------------------------
(* The end of a tick in any of its ways: rows may be removed if they are   *)
(* settled, marked or left, and a POST may be given up.                    *)
LEMMA TickEndStep ==
    ASSUME IInv, NEW t \in Tickers, NEW how \in Endings, NEW b \in Nat \ {0},
           pc[t] # "idle", TickReturns(t, how, b),
           StoreTypeOK', rows' \subseteq rows, seq' = seq,
           accepted \subseteq Evs(rows') \cup Settled,
           ghosts' \subseteq ghosts \cup Abandoned({t}),
           UNCHANGED <<nextEv, history, restarts>>, faults' \in Nat
    PROVE  IInv'
<1> USE DEF history
<1>1. /\ proc' = proc
      /\ pc' \in [Tickers -> {"idle", "ready", "posting", "sleep"}]
      /\ batch' \in [Tickers -> SUBSET QueuedEvent]
      /\ resp' \in [Tickers -> {"none", "ok", "bad", "other"}]
      /\ backoff' \in Nat \ {0}
      /\ ended' \in [Tickers -> Endings]
      /\ TickersInv'
      /\ KeptOrDropped
  BY TickEnds
<1>2. /\ RowsInv' /\ StableIds' /\ QueueBound'
      /\ Settled \subseteq Settled'
      /\ \A u \in Tickers :
            /\ \A r \in batch'[u] : r.id <= seq' /\ r.ev \in accepted'
            /\ Oldest(Evs(batch[u]))'
  BY <1>1, ShrinkingStep DEF KeptOrDropped
<1>3. \A g \in ghosts' : g \subseteq accepted /\ Oldest(g)
  BY AbandonedGhosts DEF IInv, TypeOK, GhostInv
<1>4. TypeOK'
  BY <1>1, <1>3 DEF IInv, TypeOK
<1>5. BatchInv'
  BY <1>1, <1>2 DEF IInv, BatchInv, Evs, KeptOrDropped
<1>6. GhostInv'
  BY <1>3 DEF GhostInv, Oldest, Settled
<1>7. NoSilentLoss' /\ InOrder'
  BY DEF IInv, NoSilentLoss, InOrder, Settled
<1> QED
  BY <1>1, <1>2, <1>4, <1>5, <1>6, <1>7 DEF IInv

-----------------------------------------------------------------------------
(* The steps of decide().                                                  *)
LEMMA EnqueueStoredStep == ASSUME IInv, EnqueueStored PROVE IInv'
<1> USE DEF EnqueueStored, Insert, NextId, procVars
<1> DEFINE row == [id |-> seq + 1, ev |-> nextEv]
<1>1. /\ rows' = rows \cup {row} /\ seq' = seq + 1 /\ kind = "real"
      /\ nextEv' = nextEv + 1 /\ accepted' = accepted \cup {nextEv}
      /\ UNCHANGED <<marked, kind, dropped, proc, pc, batch, resp, backoff, ended, ghosts,
                     delivered, rejected, setAside, faults, restarts>>
  OBVIOUS
<1>2. seq \in Nat /\ nextEv \in Nat \ {0} /\ row \in QueuedEvent
  BY DEF IInv, TypeOK, StoreTypeOK, QueuedEvent
<1>3. IsFiniteSet(rows) /\ IsFiniteSet(rows') /\ Cardinality(rows') <= Cardinality(rows) + 1
  <2>1. IsFiniteSet(rows)
    BY DEF IInv, TypeOK, StoreTypeOK
  <2>2. Cardinality(rows) \in Nat
    BY <2>1, FS_CardinalityType
  <2>3. ASSUME NEW x
        PROVE  /\ IsFiniteSet(rows \cup {x})
               /\ Cardinality(rows \cup {x}) <= Cardinality(rows) + 1
    BY <2>1, <2>2, FS_AddElement
  <2>4. rows' = rows \cup {row}
    BY <1>1
  <2> HIDE DEF row
  <2> QED
    BY <2>1, <2>3, <2>4
<1>4. StoreTypeOK'
  BY <1>1, <1>2, <1>3 DEF IInv, TypeOK, StoreTypeOK, Ids
<1>5. TypeOK'
  BY <1>1, <1>2, <1>4 DEF IInv, TypeOK
<1>6. TickersInv'
  BY <1>1 DEF IInv, TickersInv
<1>7. RowsInv'
  <2> USE DEF IInv, RowsInv
  <2>1. \A e \in accepted' : e \in Nat /\ e < nextEv'
    BY <1>1, <1>2 DEF TypeOK
  <2>2. \A r \in rows : r.id \in Nat /\ r.id <= seq /\ r.ev \in accepted /\ r.ev < nextEv
    BY DEF TypeOK, StoreTypeOK, QueuedEvent
  <2>3. \A r \in rows' : r.id <= seq' /\ r.ev \in accepted'
    BY <1>1, <1>2, <2>2
  <2>4. \A r, q \in rows' : r.id = q.id => r = q
    BY <1>1, <1>2, <2>2
  <2>5. \A r, q \in rows' : r.id < q.id => r.ev < q.ev
    BY <1>1, <1>2, <2>2
  <2> QED
    BY <2>1, <2>3, <2>4, <2>5
<1>8. ASSUME NEW E \in SUBSET accepted, Oldest(E)
      PROVE  Oldest(E)'
  <2>1. \A d \in E : d \in Nat /\ d < nextEv
    BY DEF IInv, RowsInv, TypeOK
  <2> QED
    BY <1>1, <1>2, <1>8, <2>1 DEF Oldest, Settled
<1>9. BatchInv'
  <2>1. ASSUME NEW t \in Tickers
        PROVE  /\ \A r \in batch[t] : r.id <= seq + 1 /\ r.ev \in accepted
               /\ Oldest(Evs(batch[t])) /\ Evs(batch[t]) \subseteq accepted
    <3>1. \A r \in batch[t] : r.id \in Nat /\ r.id <= seq /\ r.ev \in accepted
      BY DEF IInv, BatchInv, TypeOK, QueuedEvent
    <3> QED
      BY <1>2, <3>1 DEF IInv, BatchInv, Evs
  <2> QED
    BY <1>1, <1>8, <2>1 DEF IInv, BatchInv
<1>10. GhostInv'
  BY <1>1, <1>8 DEF IInv, GhostInv, TypeOK
<1>11. StableIds'
  <2>1. \A t \in Tickers : \A r \in batch[t] : r.id \in Nat /\ r.id <= seq
    BY DEF IInv, BatchInv, TypeOK, QueuedEvent
  <2> QED
    BY <1>1, <1>2, <2>1 DEF IInv, StableIds
<1>12. NoSilentLoss'
  <2>1. rows \subseteq rows' /\ row \in rows' /\ row.ev = nextEv
    BY <1>1
  <2>2. Evs(rows) \subseteq Evs(rows')
    BY <2>1, EvsMonotonic
  <2>3. row.ev \in Evs(rows')
    BY <2>1 DEF Evs
  <2>4. /\ accepted' = accepted \cup {row.ev} /\ Settled' = Settled
        /\ accepted \subseteq Evs(rows) \cup Settled
    BY <1>1, <2>1 DEF Settled, IInv, NoSilentLoss
  <2> HIDE DEF row
  <2>5. accepted' \subseteq Evs(rows') \cup Settled'
    BY <2>2, <2>3, <2>4
  <2> QED
    BY <2>5 DEF NoSilentLoss
<1>13. InOrder'
  <2>1. \A d \in delivered : d \in Nat /\ d < nextEv
    BY DEF IInv, RowsInv, TypeOK
  <2> QED
    BY <1>1, <1>2, <2>1 DEF IInv, InOrder, Settled
<1>14. QueueBound'
  <2>1. Cardinality(rows) \in Nat /\ Cardinality(rows') \in Nat
    BY <1>3, FS_CardinalityType
  <2> QED
    BY <1>3, <2>1 DEF Full, QueueBound
<1> QED
  BY <1>5, <1>6, <1>7, <1>9, <1>10, <1>11, <1>12, <1>13, <1>14 DEF IInv

(* Steps that leave the table, the batches and what is settled alone.      *)
LEMMA QuietStep ==
    ASSUME IInv, TypeOK', TickersInv',
           UNCHANGED <<rows, seq, batch, resp, ghosts, accepted, delivered, rejected, setAside>>,
           nextEv <= nextEv'
    PROVE  IInv'
<1>1. RowsInv'
  <2>1. \A e \in accepted : e \in Nat /\ nextEv \in Nat /\ nextEv' \in Nat /\ e < nextEv
    BY DEF IInv, RowsInv, TypeOK
  <2> QED
    BY <2>1 DEF IInv, RowsInv
<1>2. BatchInv' /\ GhostInv'
  BY DEF IInv, BatchInv, GhostInv, Oldest, Settled
<1>3. StableIds' /\ NoSilentLoss' /\ InOrder' /\ QueueBound'
  BY DEF IInv, StableIds, NoSilentLoss, InOrder, QueueBound, Settled
<1> QED
  BY <1>1, <1>2, <1>3 DEF IInv

LEMMA EnqueueLostStep ==
    ASSUME IInv, EnqueueDropped \/ EnqueueRaises
    PROVE  IInv'
<1>1. /\ nextEv' = nextEv + 1 /\ dropped' \in Nat /\ faults' \in Nat
      /\ UNCHANGED <<rows, seq, marked, kind, procVars, ghosts, history, restarts>>
  BY DEF EnqueueDropped, EnqueueRaises, Drop, Fault, storeVars, IInv, TypeOK, StoreTypeOK
<1>2. TypeOK'
  BY <1>1 DEF IInv, TypeOK, StoreTypeOK, procVars, history
<1>3. TickersInv'
  BY <1>1 DEF IInv, TickersInv, procVars
<1>4. nextEv <= nextEv'
  BY <1>1 DEF IInv, TypeOK
<1> QED
  BY <1>1, <1>2, <1>3, <1>4, QuietStep DEF procVars, history

-----------------------------------------------------------------------------
(* The steps of a tick.                                                    *)

LEMMA TickStartStep == ASSUME IInv, NEW t \in Tickers, TickStart(t) PROVE IInv'
<1> USE DEF TickStart, storeVars, history
<1> DEFINE B == Batch(BatchSize)
<1>1. B \subseteq rows /\ \A r \in B, q \in rows : q.id <= r.id => q \in B
  BY BatchIsPrefix DEF IInv
<1>2. TypeOK'
  BY <1>1 DEF IInv, TypeOK, StoreTypeOK
<1>3. /\ batch' = [batch EXCEPT ![t] = B] /\ pc' = [pc EXCEPT ![t] = "posting"]
      /\ pc[t] = "ready" /\ UNCHANGED resp
      /\ batch \in [Tickers -> SUBSET QueuedEvent]
      /\ pc \in [Tickers -> {"idle", "ready", "posting", "sleep"}]
  BY DEF IInv, TypeOK
<1> HIDE DEF B
<1>4. TickersInv'
  BY <1>3 DEF IInv, TickersInv
<1>5. RowsInv' /\ GhostInv' /\ NoSilentLoss' /\ InOrder' /\ QueueBound'
  BY DEF IInv, RowsInv, GhostInv, NoSilentLoss, InOrder, QueueBound, Oldest, Settled
<1>6. Oldest(Evs(B))
  <2> SUFFICES ASSUME NEW r \in B, NEW e \in accepted, e < r.ev, e \notin Settled
               PROVE  e \in Evs(B)
    BY DEF Oldest, Evs
  <2>1. PICK q \in rows : q.ev = e
    BY DEF IInv, NoSilentLoss, Evs
  <2>2. r \in rows /\ r.id \in Nat /\ q.id \in Nat /\ r.ev \in Nat /\ q.ev \in Nat
    BY <1>1 DEF IInv, TypeOK, StoreTypeOK, QueuedEvent
  <2>3. q.id <= r.id
    BY <2>1, <2>2 DEF IInv, RowsInv
  <2> QED
    BY <1>1, <2>1, <2>3 DEF Evs
<1>7. BatchInv'
  <2>1. \A r \in B : r.id <= seq /\ r.ev \in accepted
    BY <1>1 DEF IInv, RowsInv
  <2>2. resp[t] = "none"
    BY <1>3 DEF IInv, TickersInv
  <2> QED
    BY <1>3, <1>6, <2>1, <2>2 DEF IInv, BatchInv, Oldest, Settled, Evs
<1>8. StableIds'
  BY <1>1, <1>3 DEF IInv, StableIds, RowsInv
<1> QED
  BY <1>2, <1>4, <1>5, <1>7, <1>8 DEF IInv

(* A tick that ends with the table, and maybe the marks, as they were.     *)
LEMMA TickKeepsRowsStep ==
    ASSUME IInv, NEW t \in Tickers, NEW how \in Endings, NEW b \in Nat \ {0},
           pc[t] # "idle", TickReturns(t, how, b),
           UNCHANGED <<rows, seq, kind, dropped>>, marked' \subseteq Ids(rows),
           ghosts' \subseteq ghosts \cup Abandoned({t}),
           UNCHANGED <<nextEv, history, restarts>>, faults' \in Nat
    PROVE  IInv'
<1>1. StoreTypeOK'
  BY DEF IInv, TypeOK, StoreTypeOK, Ids
<1>2. accepted \subseteq Evs(rows') \cup Settled
  BY DEF IInv, NoSilentLoss
<1> QED
  BY <1>1, <1>2, TickEndStep

(* The marks of a mark_retry are ids of rows.                              *)
LEMMA MarkRetryMarksRows ==
    ASSUME IInv, NEW ids, MarkRetry(ids)
    PROVE  UNCHANGED <<rows, seq, kind, dropped>> /\ marked' \subseteq Ids(rows)
BY DEF MarkRetry, IInv, TypeOK, StoreTypeOK

LEMMA TickOverStep ==
    ASSUME IInv, NEW t \in Tickers,
           \/ TickEmpty(t)
           \/ TickRaises(t)
           \/ FlushDeadline(t)
           \/ TickFinishRaises(t)
    PROVE  IInv'
<1> USE DEF Endings
<1>1. backoff \in Nat \ {0} /\ faults \in Nat /\ marked \subseteq Ids(rows)
  BY DEF IInv, TypeOK, StoreTypeOK
<1>2. PICK how \in Endings : TickReturns(t, how, backoff)
  BY DEF TickEmpty, TickRaises, FlushDeadline, TickFinishRaises
<1>3. /\ pc[t] # "idle"
      /\ UNCHANGED <<rows, seq, marked, kind, dropped, nextEv, history, restarts>>
      /\ ghosts' \subseteq ghosts \cup Abandoned({t})
      /\ faults' \in Nat
  BY <1>1 DEF TickEmpty, TickRaises, FlushDeadline, TickFinishRaises, Fault, storeVars
<1> QED
  BY <1>1, <1>2, <1>3, TickKeepsRowsStep

LEMMA TickFailedStep ==
    ASSUME IInv, NEW t \in Tickers,
           \/ TickMintFails(t)
           \/ TickRetries(t)
           \/ TransportError(t)
    PROVE  IInv'
<1>1. backoff \in Nat \ {0} /\ faults \in Nat
  BY DEF IInv, TypeOK
<1>2. Bumped(backoff) \in Nat \ {0}
  BY <1>1, BumpedType
<1>3. \E ids : MarkRetry(ids)
  BY DEF TickMintFails, TickRetries, TransportError
<1>4. UNCHANGED <<rows, seq, kind, dropped>> /\ marked' \subseteq Ids(rows)
  BY <1>3, MarkRetryMarksRows
<1>5. /\ pc[t] # "idle"
      /\ TickReturns(t, "failed", Bumped(backoff))
      /\ UNCHANGED <<nextEv, history, restarts>>
      /\ ghosts' \subseteq ghosts \cup Abandoned({t})
      /\ faults' \in Nat
  BY <1>1 DEF TickMintFails, TickRetries, TransportError, Fault
<1>6. "failed" \in Endings
  BY DEF Endings
<1> QED
  BY <1>2, <1>4, <1>5, <1>6, TickKeepsRowsStep

(* The rows that an ack removes are rows that the tick read (StableIds),   *)
(* and their events are settled (BatchInv).                                *)
LEMMA TickAcksStep == ASSUME IInv, NEW t \in Tickers, TickAcks(t) PROVE IInv'
<1>1. /\ pc[t] # "idle" /\ resp[t] \in {"ok", "bad"}
      /\ TickReturns(t, "sent", backoff) /\ Ack(Ids(batch[t]))
      /\ UNCHANGED <<ghosts, nextEv, history, faults, restarts>>
  BY DEF TickAcks, AckedAnswers
<1>2. backoff \in Nat \ {0} /\ faults' \in Nat /\ "sent" \in Endings
  BY <1>1 DEF IInv, TypeOK, Endings
<1>3. rows' \subseteq rows /\ seq' = seq
  BY <1>1 DEF Ack
<1>4. IsFiniteSet(rows')
  BY <1>3, FS_Subset DEF IInv, TypeOK, StoreTypeOK
<1>5. marked' \subseteq Ids(rows')
  BY <1>1 DEF Ack, IInv, TypeOK, StoreTypeOK, Ids
<1>6. StoreTypeOK'
  BY <1>1, <1>3, <1>4, <1>5 DEF IInv, TypeOK, StoreTypeOK, Ack
<1>7. accepted \subseteq Evs(rows') \cup Settled
  <2> SUFFICES ASSUME NEW r \in rows, r \notin rows'
               PROVE  r.ev \in Settled
    BY DEF IInv, NoSilentLoss, Evs
  <2>1. PICK q \in batch[t] : q.id = r.id
    BY <1>1 DEF Ack, Ids
  <2>2. q = r
    BY <2>1 DEF IInv, StableIds
  <2> QED
    BY <1>1, <2>1, <2>2 DEF IInv, BatchInv, Settled, Evs
<1> QED
  BY <1>1, <1>2, <1>3, <1>6, <1>7, TickEndStep

-----------------------------------------------------------------------------
(* The steps of the gateway.                                               *)

(* A gateway that answers for E, the events of a POST, settles them (or    *)
(* none): E was the head of the queue, so the order is kept.               *)
LEMMA SettlingStep ==
    ASSUME IInv, NEW E, E \subseteq accepted, Oldest(E),
           Ingests(E) \/ Refuses(E),
           UNCHANGED <<storeVars, proc, pc, batch, backoff, ended, nextEv, accepted,
                       setAside, faults, restarts>>
    PROVE  /\ RowsInv' /\ StableIds' /\ NoSilentLoss' /\ InOrder' /\ QueueBound'
           /\ delivered \subseteq delivered' /\ rejected \subseteq rejected'
           /\ delivered' \subseteq accepted /\ rejected' \subseteq accepted
           /\ \A D : Oldest(D) => Oldest(D)'
<1> USE DEF IInv, storeVars
<1>1. /\ delivered \subseteq delivered' /\ rejected \subseteq rejected'
      /\ delivered' \subseteq delivered \cup E /\ rejected' \subseteq rejected \cup E
      /\ delivered' = delivered \/ E \subseteq delivered'
  BY DEF Ingests, Refuses
<1>2. delivered' \subseteq accepted /\ rejected' \subseteq accepted
  BY <1>1 DEF TypeOK
<1>3. Settled \subseteq Settled' /\ delivered' \subseteq Settled'
  BY <1>1 DEF Settled
<1>4. \A D : Oldest(D) => Oldest(D)'
  BY <1>3 DEF Oldest
<1>5. RowsInv' /\ StableIds' /\ QueueBound'
  BY DEF RowsInv, StableIds, QueueBound
<1>6. NoSilentLoss'
  BY <1>3 DEF NoSilentLoss
<1>7. InOrder'
  <2> SUFFICES ASSUME NEW d \in delivered', NEW e \in accepted, e < d
               PROVE  e \in Settled'
    BY DEF InOrder
  <2>1. CASE d \in delivered
    BY <1>3, <2>1 DEF InOrder
  <2>2. CASE d \notin delivered
    <3>1. d \in E /\ E \subseteq delivered'
      BY <1>1, <2>2
    <3>2. e \in E \cup Settled
      BY <3>1 DEF Oldest
    <3> QED
      BY <1>3, <3>1, <3>2
  <2> QED
    BY <2>1, <2>2
<1> QED
  BY <1>1, <1>2, <1>4, <1>5, <1>6, <1>7

LEMMA GatewayAnswersStep == ASSUME IInv, NEW t \in Tickers, GatewayAnswers(t) PROVE IInv'
<1> DEFINE E == Evs(batch[t])
<1>1. E \subseteq accepted /\ Oldest(E)
  BY DEF IInv, BatchInv, Evs
<1>2. /\ pc[t] = "posting"
      /\ Ingests(E) \/ Refuses(E)
      /\ UNCHANGED <<storeVars, proc, pc, batch, backoff, ended, ghosts, nextEv,
                     accepted, setAside, faults, restarts>>
  BY DEF GatewayAnswers
<1>3. /\ RowsInv' /\ StableIds' /\ NoSilentLoss' /\ InOrder' /\ QueueBound'
      /\ delivered \subseteq delivered' /\ rejected \subseteq rejected'
      /\ delivered' \subseteq accepted /\ rejected' \subseteq accepted
      /\ \A D : Oldest(D) => Oldest(D)'
  <2> HIDE DEF E
  <2> QED
    BY <1>1, <1>2, SettlingStep
<1>4. \E a \in {"ok", "bad", "other"} :
         /\ resp' = [resp EXCEPT ![t] = a]
         /\ a = "ok" => E \subseteq delivered'
         /\ a = "bad" => E \subseteq rejected'
  BY DEF GatewayAnswers, Ingests, Refuses
<1>5. TypeOK'
  BY <1>2, <1>3, <1>4 DEF IInv, TypeOK, StoreTypeOK, storeVars
<1>6. TickersInv'
  <2>1. \A u \in Tickers : u # t => resp'[u] = resp[u]
    BY <1>4 DEF IInv, TypeOK
  <2> QED
    BY <1>2, <2>1 DEF IInv, TickersInv
<1>7. BatchInv'
  <2>1. ASSUME NEW u \in Tickers
        PROVE  /\ resp'[u] = "ok" => Evs(batch[u]) \subseteq delivered'
               /\ resp'[u] = "bad" => Evs(batch[u]) \subseteq rejected'
    BY <1>3, <1>4 DEF IInv, TypeOK, BatchInv
  <2>2. \A u \in Tickers : Oldest(Evs(batch[u]))'
    <3>1. \A u \in Tickers : Oldest(Evs(batch[u]))
      BY DEF IInv, BatchInv
    <3>2. Settled \subseteq Settled' /\ accepted' = accepted /\ batch' = batch
      BY <1>2, <1>3 DEF Settled
    <3> QED
      BY <3>1, <3>2 DEF Oldest
  <2> QED
    BY <1>2, <2>1, <2>2 DEF IInv, BatchInv, storeVars
<1>8. GhostInv'
  BY <1>2, <1>3 DEF IInv, GhostInv
<1> QED
  BY <1>3, <1>5, <1>6, <1>7, <1>8 DEF IInv

LEMMA GatewayFailsStep == ASSUME IInv, NEW t \in Tickers, GatewayFails(t) PROVE IInv'
<1> USE DEF GatewayFails, storeVars, history
<1>1. \A g \in ghosts' : g \subseteq accepted /\ Oldest(g)
  BY AbandonedGhosts DEF IInv, TypeOK, GhostInv
<1>2. TypeOK'
  <2>1. /\ faults' \in Nat
        /\ resp' \in [Tickers -> {"none", "ok", "bad", "other"}]
    BY DEF IInv, TypeOK, Fault
  <2>2. ghosts' \subseteq SUBSET accepted
    BY <1>1
  <2>3. StoreTypeOK'
    BY DEF IInv, TypeOK, StoreTypeOK
  <2> HIDE DEF GatewayFails
  <2>4. UNCHANGED <<proc, pc, batch, backoff, ended, nextEv, history, restarts>>
    BY DEF GatewayFails
  <2> QED
    BY <2>1, <2>2, <2>3, <2>4 DEF IInv, TypeOK
<1>3. resp'[t] = "other" /\ \A u \in Tickers : u # t => resp'[u] = resp[u]
  BY DEF IInv, TypeOK
<1>4. TickersInv' /\ BatchInv'
  <2>1. TickersInv'
    BY <1>3 DEF IInv, TickersInv
  <2>2. \A u \in Tickers : Oldest(Evs(batch[u]))'
    BY DEF IInv, BatchInv, Oldest, Settled
  <2> QED
    BY <1>3, <2>1, <2>2 DEF IInv, BatchInv
<1>5. GhostInv'
  BY <1>1 DEF GhostInv, Oldest, Settled
<1>6. RowsInv' /\ StableIds' /\ NoSilentLoss' /\ InOrder' /\ QueueBound'
  BY DEF IInv, RowsInv, StableIds, NoSilentLoss, InOrder, QueueBound, Settled
<1> QED
  BY <1>2, <1>4, <1>5, <1>6 DEF IInv

LEMMA GhostArrivesStep == ASSUME IInv, GhostArrives PROVE IInv'
<1>1. PICK g \in ghosts :
         /\ Ingests(g) /\ ghosts' = ghosts \ {g}
         /\ UNCHANGED <<storeVars, procVars, nextEv, accepted, setAside, faults, restarts>>
  BY DEF GhostArrives
<1>2. g \subseteq accepted /\ Oldest(g)
  BY DEF IInv, TypeOK, GhostInv
<1>3. /\ RowsInv' /\ StableIds' /\ NoSilentLoss' /\ InOrder' /\ QueueBound'
      /\ delivered \subseteq delivered' /\ rejected \subseteq rejected'
      /\ delivered' \subseteq accepted /\ rejected' \subseteq accepted
      /\ \A D : Oldest(D) => Oldest(D)'
  BY <1>1, <1>2, SettlingStep DEF procVars
<1>4. TypeOK'
  BY <1>1, <1>3 DEF IInv, TypeOK, StoreTypeOK, storeVars, procVars
<1>5. TickersInv'
  BY <1>1 DEF IInv, TickersInv, procVars
<1>6. BatchInv'
  <2>1. Settled \subseteq Settled'
    BY <1>1, <1>3 DEF Settled
  <2> QED
    BY <1>1, <1>3, <2>1 DEF IInv, BatchInv, Oldest, storeVars, procVars
<1>7. GhostInv'
  BY <1>1, <1>3 DEF IInv, GhostInv
<1> QED
  BY <1>3, <1>4, <1>5, <1>6, <1>7 DEF IInv

-----------------------------------------------------------------------------
(* The steps of the process.                                               *)

(* A sleep ends, a flush request arrives or the shutdown starts its drain: *)
(* an idle or sleeping ticker becomes ready.                               *)
LEMMA ReadiedStep ==
    ASSUME IInv, NEW t \in Tickers,
           pc[t] \in {"idle", "sleep"}, pc' = [pc EXCEPT ![t] = "ready"],
           proc' \in {"up", "draining"} \/ (proc' = proc /\ pc[t] = "sleep"),
           proc' # "draining" => t # Drain /\ proc # "draining",
           ended' \in [Tickers -> Endings], restarts' \in Nat,
           UNCHANGED <<storeVars, batch, resp, backoff, ghosts, nextEv, history, faults>>
    PROVE  IInv'
<1> USE DEF storeVars, history
<1>1. TypeOK'
  BY DEF IInv, TypeOK, StoreTypeOK
<1>2. /\ pc'[t] = "ready"
      /\ \A u \in Tickers : u # t => pc'[u] = pc[u]
      /\ Drain \in Tickers
  BY DEF IInv, TypeOK, Tickers
<1>3. batch[t] = {} /\ resp[t] = "none"
  BY DEF IInv, TickersInv
<1>4. proc' = "down" => FALSE
  BY DEF IInv, TickersInv
<1>5. TickersInv'
  BY <1>2, <1>3, <1>4 DEF IInv, TickersInv
<1>6. nextEv <= nextEv'
  BY DEF IInv, TypeOK
<1> QED
  BY <1>1, <1>5, <1>6, QuietStep

LEMMA WakeStep ==
    ASSUME IInv, WorkerWakes \/ (\E f \in Flushers : FlushRequest(f)) \/ Shutdown
    PROVE  IInv'
<1>1. /\ ended \in [Tickers -> Endings] /\ restarts \in Nat
      /\ Worker \in Tickers /\ Drain \in Tickers /\ Flushers \subseteq Tickers
      /\ Worker # Drain /\ \A f \in Flushers : f # Drain
  BY DEF IInv, TypeOK, Tickers, Worker, Drain
<1>2. CASE WorkerWakes
  <2> USE DEF WorkerWakes
  <2>1. proc' # "draining" => Worker # Drain /\ proc # "draining"
    BY <1>1, <1>2
  <2> QED
    BY <1>1, <1>2, <2>1, ReadiedStep
<1>3. CASE \E f \in Flushers : FlushRequest(f)
  <2>1. PICK f \in Flushers : FlushRequest(f)
    BY <1>3
  <2>2. ended' \in [Tickers -> Endings]
    BY <1>1, <2>1 DEF FlushRequest, Endings
  <2> QED
    BY <1>1, <2>1, <2>2, ReadiedStep DEF FlushRequest
<1>4. CASE Shutdown
  <2>1. ended' \in [Tickers -> Endings] /\ restarts' \in Nat
    BY <1>1, <1>4 DEF Shutdown, Endings
  <2>2. pc[Drain] = "idle"
    BY <1>4 DEF Shutdown, IInv, TickersInv
  <2> QED
    BY <1>1, <1>4, <2>1, <2>2, ReadiedStep DEF Shutdown
<1> QED
  BY <1>2, <1>3, <1>4

(* A start finds no ticker with a batch; a table set aside settles what it *)
(* held.                                                                   *)
LEMMA StartStep == ASSUME IInv, Start PROVE IInv'
<1> USE DEF Start
<1>1. /\ proc = "down" /\ proc' = "up" /\ pc' = [pc EXCEPT ![Worker] = "ready"]
      /\ ended' = [t \in Tickers |-> "none"] /\ backoff' = FlushInterval
      /\ UNCHANGED <<batch, resp, ghosts, nextEv, accepted, delivered, rejected, restarts>>
  OBVIOUS
<1>2. \A t \in Tickers : pc[t] = "idle" /\ batch[t] = {} /\ resp[t] = "none"
  BY <1>1 DEF IInv, TickersInv
<1>3. /\ StoreTypeOK' /\ faults' \in Nat /\ setAside' \subseteq accepted
      /\ rows' \subseteq rows /\ (rows' = {} \/ seq' = seq)
      /\ setAside \subseteq setAside' /\ accepted \subseteq Evs(rows') \cup Settled'
  <2>1. CASE OpenAsLeft /\ UNCHANGED <<setAside, faults>>
    BY <1>1, <2>1
       DEF OpenAsLeft, IInv, TypeOK, StoreTypeOK, QueuedEvent, NoSilentLoss, Settled
  <2>2. CASE OpenRotated /\ Fault /\ setAside' = setAside \cup Evs(rows)
    <3>1. IsFiniteSet({}) /\ marked' = {} /\ rows' = {}
      BY <2>2, FS_EmptySet DEF OpenRotated
    <3>2. Evs(rows) \subseteq accepted
      BY DEF IInv, RowsInv, Evs
    <3>3. StoreTypeOK'
      BY <2>2, <3>1 DEF OpenRotated, StoreTypeOK
    <3>4. setAside' \subseteq accepted
      BY <2>2, <3>2 DEF IInv, TypeOK
    <3>5. accepted \subseteq Evs(rows') \cup Settled'
      BY <1>1, <2>2 DEF IInv, NoSilentLoss, Settled
    <3>6. faults' \in Nat /\ setAside \subseteq setAside'
      BY <2>2 DEF Fault, IInv, TypeOK
    <3> HIDE DEF Start
    <3> QED
      BY <3>1, <3>3, <3>4, <3>5, <3>6
  <2>3. CASE OpenNoop /\ Fault /\ UNCHANGED setAside
    BY <1>1, <2>3
       DEF OpenNoop, Fault, IInv, TypeOK, StoreTypeOK, NoSilentLoss, Settled
  <2> QED
    BY <2>1, <2>2, <2>3
<1>4. TypeOK'
  BY <1>1, <1>3 DEF IInv, TypeOK, Endings
<1>5. TickersInv'
  BY <1>1, <1>2 DEF IInv, TickersInv, TypeOK, Worker, Drain, Tickers
<1>6. Settled \subseteq Settled'
  BY <1>1, <1>3 DEF Settled
<1>7. RowsInv'
  BY <1>1, <1>3 DEF IInv, RowsInv
<1>8. BatchInv' /\ StableIds'
  BY <1>1, <1>2 DEF BatchInv, StableIds, Oldest, Evs
<1>9. GhostInv' /\ InOrder' /\ NoSilentLoss'
  BY <1>1, <1>3, <1>6 DEF IInv, GhostInv, InOrder, NoSilentLoss, Oldest
<1>10. QueueBound'
  <2>1. IsFiniteSet(rows)
    BY DEF IInv, TypeOK, StoreTypeOK
  <2>2. /\ Cardinality(rows') <= Cardinality(rows) /\ IsFiniteSet(rows')
        /\ Cardinality(rows) \in Nat
    BY <1>3, <2>1, FS_Subset, FS_CardinalityType
  <2>3. Cardinality(rows') \in Nat
    BY <2>2, FS_CardinalityType
  <2> QED
    BY <2>2, <2>3 DEF IInv, QueueBound
<1> QED
  BY <1>4, <1>5, <1>7, <1>8, <1>9, <1>10 DEF IInv

LEMMA HaltStep == ASSUME IInv, Halt, restarts' \in Nat PROVE IInv'
<1> USE DEF Halt, Close, history
<1>1. \A g \in ghosts' : g \subseteq accepted /\ Oldest(g)
  BY AbandonedGhosts DEF IInv, TypeOK, GhostInv
<1>2. TypeOK'
  BY <1>1 DEF IInv, TypeOK, StoreTypeOK, Endings
<1>3. TickersInv' /\ BatchInv' /\ StableIds'
  BY DEF TickersInv, BatchInv, StableIds, Oldest, Evs, Tickers
<1>4. GhostInv'
  BY <1>1 DEF GhostInv, Oldest, Settled
<1>5. RowsInv' /\ NoSilentLoss' /\ InOrder' /\ QueueBound'
  BY DEF IInv, RowsInv, NoSilentLoss, InOrder, QueueBound, Settled
<1> QED
  BY <1>2, <1>3, <1>4, <1>5 DEF IInv

-----------------------------------------------------------------------------
(* IInv is inductive.                                                      *)

LEMMA InitIInv == Init => IInv
<1> SUFFICES ASSUME Init PROVE IInv
  OBVIOUS
<1> USE DEF Init, StoreInit
<1>1. IsFiniteSet({}) /\ Cardinality({}) = 0
  BY FS_EmptySet
<1>2. TypeOK
  BY <1>1 DEF TypeOK, StoreTypeOK, Endings
<1>3. TickersInv /\ RowsInv
  BY DEF TickersInv, RowsInv, Tickers
<1>4. BatchInv /\ GhostInv
  BY DEF BatchInv, GhostInv, Oldest, Evs
<1>5. StableIds /\ NoSilentLoss /\ InOrder /\ QueueBound
  BY <1>1 DEF StableIds, NoSilentLoss, InOrder, QueueBound
<1> QED
  BY <1>2, <1>3, <1>4, <1>5 DEF IInv

LEMMA NextIInv == IInv /\ [Next]_vars => IInv'
<1> SUFFICES ASSUME IInv, [Next]_vars PROVE IInv'
  OBVIOUS
<1>1. CASE EnqueueStored
  BY <1>1, EnqueueStoredStep
<1>2. CASE EnqueueDropped \/ EnqueueRaises
  BY <1>2, EnqueueLostStep
<1>3. ASSUME NEW t \in Tickers, Tick(t)
      PROVE  IInv'
  BY <1>3, TickStartStep, TickOverStep, TickFailedStep, TickAcksStep DEF Tick
<1>4. ASSUME NEW t \in Tickers, GatewayAnswers(t) \/ GatewayFails(t) \/ FlushDeadline(t)
      PROVE  IInv'
  BY <1>4, GatewayAnswersStep, GatewayFailsStep, TickOverStep
<1>5. CASE WorkerWakes \/ (\E f \in Flushers : FlushRequest(f)) \/ Shutdown
  BY <1>5, WakeStep
<1>6. CASE GhostArrives
  BY <1>6, GhostArrivesStep
<1>7. CASE Start
  BY <1>7, StartStep
<1>8. CASE Stop \/ Crash
  <2>1. Halt /\ restarts' \in Nat
    BY <1>8 DEF Stop, Crash, IInv, TypeOK
  <2> QED
    BY <2>1, HaltStep
<1>9. CASE UNCHANGED vars
  <2> USE <1>9 DEF vars, storeVars, procVars, history
  <2>1. TypeOK' /\ TickersInv'
    BY DEF IInv, TypeOK, StoreTypeOK, TickersInv
  <2>2. nextEv <= nextEv'
    BY DEF IInv, TypeOK
  <2> QED
    BY <2>1, <2>2, QuietStep
<1> QED
  BY <1>1, <1>2, <1>3, <1>4, <1>5, <1>6, <1>7, <1>8, <1>9 DEF Next

LEMMA Inductive == Spec => []IInv
BY InitIInv, NextIInv, PTL DEF Spec

-----------------------------------------------------------------------------
(* Every variable keeps the type its declaration in the code gives it.     *)
THEOREM TypeCorrect == Spec => []TypeOK
<1>1. IInv => TypeOK
  BY DEF IInv
<1> QED
  BY <1>1, Inductive, PTL

(* No interleaving of ticks, failures, crashes and restarts loses an event *)
(* that the store has taken (store.py dequeue_batch: "the rows replay on   *)
(* next start").                                                           *)
THEOREM NoLoss == Spec => []NoSilentLoss
<1>1. IInv => NoSilentLoss
  BY DEF IInv
<1> QED
  BY <1>1, Inductive, PTL

(* The gateway ingests no event before every older one has been answered   *)
(* for, whatever the overlap of ticks and late requests (dequeue_batch's   *)
(* ORDER BY id).                                                           *)
THEOREM FirstDeliveryInOrder == Spec => []InOrder
<1>1. IInv => InOrder
  BY DEF IInv
<1> QED
  BY <1>1, Inductive, PTL

(* The table stays within settings.telemetry_queue_size (enqueue).         *)
THEOREM Bounded == Spec => []QueueBound
<1>1. IInv => QueueBound
  BY DEF IInv
<1> QED
  BY <1>1, Inductive, PTL

(* An ack or mark_retry after the POST's await touches only rows that the  *)
(* tick read before it (the AUTOINCREMENT of store.py's DDL).              *)
THEOREM IdsStable == Spec => []StableIds
<1>1. IInv => StableIds
  BY DEF IInv
<1> QED
  BY <1>1, Inductive, PTL

(* A drain that ended on an empty queue is the shutdown's, and the queue   *)
(* has taken nothing since.                                                *)
DrainInv == CleanDrain /\ (ended[Drain] = "empty" => proc = "draining")

(* A shutdown whose drain ran until it found the queue empty leaves no row *)
(* behind: no request is left to enqueue one, and the worker beside it     *)
(* only removes rows (app.py's finally block).                             *)
THEOREM DrainsClean == Spec => []CleanDrain
<1> USE DEF DrainInv, CleanDrain
<1>1. Init => DrainInv
  BY DEF Init, Tickers
<1>2. ASSUME IInv, DrainInv, [Next]_vars
      PROVE  DrainInv'
  <2>1. DOMAIN ended = Tickers /\ DOMAIN pc = Tickers /\ Drain \in Tickers
    BY <1>2 DEF IInv, TypeOK, Tickers
  <2>2. CASE EnqueueStored
    BY <1>2, <2>2 DEF EnqueueStored, procVars
  <2>3. CASE EnqueueDropped \/ EnqueueRaises \/ GhostArrives \/ UNCHANGED vars
    BY <1>2, <2>3 DEF EnqueueDropped, EnqueueRaises, GhostArrives, Drop, vars, procVars,
                      storeVars
  <2>4. ASSUME NEW t \in Tickers, TickEmpty(t)
        PROVE  DrainInv'
    <3>1. UNCHANGED <<rows, kind, proc>> /\ ended' = [ended EXCEPT ![t] = "empty"]
      BY <2>4 DEF TickEmpty, TickReturns, storeVars
    <3>2. CASE t = Drain
      <4>1. proc = "draining"
        BY <1>2, <2>4, <3>2 DEF TickEmpty, IInv, TickersInv
      <4>2. kind = "real" => rows = {}
        BY <1>2, <2>4, EmptyBatch DEF TickEmpty, IInv
      <4> QED
        BY <3>1, <4>1, <4>2
    <3>3. CASE t # Drain
      BY <1>2, <2>1, <3>1, <3>3
    <3> QED
      BY <3>2, <3>3
  <2>5. ASSUME NEW t \in Tickers,
               NEW how \in Endings \ {"empty"}, NEW b, TickReturns(t, how, b),
               rows' \subseteq rows, UNCHANGED kind
        PROVE  DrainInv'
    BY <1>2, <2>1, <2>5 DEF TickReturns
  <2>6. ASSUME NEW t \in Tickers, Tick(t) \/ FlushDeadline(t)
        PROVE  DrainInv'
    <3>1. CASE TickStart(t)
      BY <1>2, <3>1 DEF TickStart, storeVars
    <3>2. CASE TickMintFails(t) \/ TickRetries(t) \/ TransportError(t)
      BY <2>5, <3>2 DEF TickMintFails, TickRetries, TransportError, MarkRetry, Endings
    <3>3. CASE TickRaises(t) \/ TickFinishRaises(t) \/ FlushDeadline(t)
      BY <2>5, <3>3 DEF TickRaises, TickFinishRaises, FlushDeadline, storeVars, Endings
    <3>4. CASE TickAcks(t)
      BY <2>5, <3>4 DEF TickAcks, Ack, Endings
    <3> QED
      BY <2>4, <2>6, <3>1, <3>2, <3>3, <3>4 DEF Tick
  <2>7. ASSUME NEW t \in Tickers, GatewayAnswers(t) \/ GatewayFails(t)
        PROVE  DrainInv'
    BY <1>2, <2>7 DEF GatewayAnswers, GatewayFails, storeVars
  <2>8. CASE WorkerWakes
    BY <1>2, <2>8 DEF WorkerWakes, storeVars
  <2>9. ASSUME NEW f \in Flushers, FlushRequest(f)
        PROVE  DrainInv'
    <3>1. f # Drain
      BY <2>9
    <3> QED
      BY <1>2, <2>1, <2>9, <3>1 DEF FlushRequest, storeVars
  <2>10. CASE Shutdown
    BY <1>2, <2>1, <2>10 DEF Shutdown, storeVars
  <2>11. CASE Start \/ Stop \/ Crash
    <3>1. ended'[Drain] = "none"
      BY <2>1, <2>11 DEF Start, Stop, Crash, Halt
    <3> QED
      BY <3>1
  <2> QED
    BY <1>2, <2>2, <2>3, <2>4, <2>6, <2>7, <2>8, <2>9, <2>10, <2>11 DEF Next
<1>3. DrainInv => CleanDrain
  OBVIOUS
<1> QED
  BY <1>1, <1>2, <1>3, Inductive, PTL DEF Spec

(* The worker's sleep comes down by a batch of the worker's own, by a new  *)
(* process, or from above _MAX_BACKOFF_SECONDS to it, whatever the flush   *)
(* interval is (sender.py run_forever, _bump_backoff).                     *)
THEOREM ShippingAloneCalms == Spec => OnlyShippingCalms
<1> DEFINE Calm == \/ TickAcks(Worker)
                   \/ "down" \in {proc, proc'}
                   \/ backoff > MaxBackoff /\ backoff' = MaxBackoff
<1>1. ASSUME IInv, [Next]_vars, backoff' < backoff PROVE Calm
  <2>1. backoff \in Nat \ {0} /\ MaxBackoff \in Nat \ {0}
    BY <1>1, SenderAssumption DEF IInv, TypeOK
  <2>2. Bumped(backoff) < backoff => backoff > MaxBackoff /\ Bumped(backoff) = MaxBackoff
    BY <2>1 DEF Bumped
  <2>3. CASE UNCHANGED vars
    BY <1>1, <2>1, <2>3 DEF vars, procVars
  <2>4. CASE EnqueueStored \/ EnqueueDropped \/ EnqueueRaises \/ GhostArrives
    BY <1>1, <2>1, <2>4 DEF EnqueueStored, EnqueueDropped, EnqueueRaises, GhostArrives, procVars
  <2>5. ASSUME NEW t \in Tickers, Tick(t) \/ FlushDeadline(t) PROVE Calm
    <3>1. CASE TickStart(t)
      BY <1>1, <2>1, <3>1 DEF TickStart
    <3>2. CASE TickAcks(t)
      <4>1. t # Worker => backoff' = backoff
        BY <3>2 DEF TickAcks, TickReturns, Rested
      <4> QED
        BY <1>1, <2>1, <3>2, <4>1
    <3>3. CASE TickEmpty(t) \/ TickRaises(t) \/ TickFinishRaises(t) \/ FlushDeadline(t)
      BY <1>1, <2>1, <3>3
      DEF TickEmpty, TickRaises, TickFinishRaises, FlushDeadline, TickReturns, Rested
    <3>4. CASE TickMintFails(t) \/ TickRetries(t) \/ TransportError(t)
      BY <1>1, <2>2, <3>4 DEF TickMintFails, TickRetries, TransportError, TickReturns, Rested
    <3> QED
      BY <2>5, <3>1, <3>2, <3>3, <3>4 DEF Tick
  <2>6. ASSUME NEW t \in Tickers, GatewayAnswers(t) \/ GatewayFails(t) PROVE Calm
    BY <1>1, <2>1, <2>6 DEF GatewayAnswers, GatewayFails
  <2>7. CASE WorkerWakes \/ (\E f \in Flushers : FlushRequest(f)) \/ Shutdown
    BY <1>1, <2>1, <2>7 DEF WorkerWakes, FlushRequest, Shutdown
  <2>8. CASE Stop \/ Crash
    BY <2>8 DEF Stop, Crash, Halt
  <2>9. CASE Start
    BY <2>9 DEF Start
  <2> QED
    BY <1>1, <2>3, <2>4, <2>5, <2>6, <2>7, <2>8, <2>9 DEF Next
<1>2. IInv /\ [Next]_vars => [backoff' < backoff => Calm]_vars
  BY <1>1
<1> QED
  BY <1>2, Inductive, PTL DEF Spec, OnlyShippingCalms

-----------------------------------------------------------------------------
(* The pipeline implements the audit log.  What the log knows is what the  *)
(* store has accepted.                                                     *)
LEMMA LogKnowsAccepted == ASSUME IInv PROVE Log!Known = accepted
<1>1. Evs(rows) \subseteq accepted
  BY DEF IInv, RowsInv, Evs
<1>2. Settled \subseteq accepted
  BY DEF IInv, TypeOK, Settled
<1>3. accepted \subseteq Evs(rows) \cup Settled
  BY DEF IInv, NoSilentLoss
<1> QED
  BY <1>1, <1>2, <1>3 DEF Log!Known

(* A step that changes neither the table's events nor what is settled.     *)
LEMMA LogStutters ==
    ASSUME UNCHANGED <<rows, delivered, rejected, setAside>>
    PROVE  UNCHANGED Log!logVars
BY DEF Settled, Evs, Log!logVars

(* The gateway settles events that are the oldest.                         *)
LEMMA LogSettles ==
    ASSUME IInv, NEW evs \in SUBSET accepted, Oldest(evs),
           Ingests(evs) \/ Refuses(evs), UNCHANGED <<rows, accepted, setAside>>
    PROVE  [Log!Next]_(Log!logVars)
<1>1. Evs(rows)' = Evs(rows)
  BY DEF Evs
<1>2. CASE Settled' = Settled
  BY <1>1, <1>2 DEF Log!logVars
<1>3. CASE Settled' = Settled \cup evs
  BY <1>1, <1>3, LogKnowsAccepted DEF Log!Next, Log!Settle, Oldest
<1>4. Settled' = Settled \/ Settled' = Settled \cup evs
  BY DEF Ingests, Refuses, Settled
<1> QED
  BY <1>2, <1>3, <1>4

(* An acknowledged batch leaves: its rows' events, and no others.          *)
LEMMA LogLeaves ==
    ASSUME IInv, NEW t \in Tickers, TickAcks(t)
    PROVE  [Log!Next]_(Log!logVars)
<1> USE DEF TickAcks, Ack
<1>1. UNCHANGED <<delivered, rejected, setAside>>
  BY DEF history
<1>2. Settled' = Settled
  BY <1>1 DEF Settled
<1>3. CASE kind # "real"
  BY <1>1, <1>3, LogStutters
<1>4. CASE kind = "real"
  <2> DEFINE gone == {r \in rows : r.id \in Ids(batch[t])}
  <2>1. rows' = rows \ gone
    BY <1>4
  <2>2. \A r, q \in rows : r.ev = q.ev => r = q
    <3>1. \A r \in rows : r.id \in Nat /\ r.ev \in Nat
      BY DEF IInv, TypeOK, StoreTypeOK, QueuedEvent
    <3> QED
      BY <3>1 DEF IInv, RowsInv
  <2>3. Evs(rows') = Evs(rows) \ Evs(gone)
    BY <2>1, <2>2 DEF Evs
  <2>4. gone \subseteq batch[t]
    BY DEF IInv, StableIds, Ids
  <2>5. Evs(batch[t]) \subseteq Settled
    BY DEF IInv, BatchInv, Settled, AckedAnswers
  <2>6. Evs(gone) \subseteq Settled /\ Evs(gone) \subseteq Evs(rows)
    BY <2>4, <2>5, EvsMonotonic
  <2> HIDE DEF gone
  <2> QED
    BY <1>2, <2>3, <2>6 DEF Log!Next, Log!Leave, Evs
<1> QED
  BY <1>3, <1>4

LEMMA LogStep == ASSUME IInv, [Next]_vars PROVE [Log!Next]_(Log!logVars)
<1>1. CASE EnqueueStored
  <2>1. rows' = rows \cup {[id |-> NextId, ev |-> nextEv]} /\ Settled' = Settled
    BY <1>1 DEF EnqueueStored, Insert, Settled
  <2>2. Evs(rows)' = Evs(rows) \cup {nextEv}
    <3> DEFINE row == [id |-> NextId, ev |-> nextEv]
    <3>1. rows' = rows \cup {row} /\ row.ev = nextEv
      BY <2>1
    <3> HIDE DEF row
    <3>2. Evs(rows \cup {row}) = Evs(rows) \cup {row.ev}
      BY DEF Evs
    <3> QED
      BY <3>1, <3>2 DEF Evs
  <2>3. nextEv \in 1..MaxEvents
    BY <1>1 DEF EnqueueStored, IInv, TypeOK
  <2>4. \A d \in Evs(rows) \cup Settled : d < nextEv
    BY LogKnowsAccepted DEF IInv, RowsInv, Log!Known
  <2>5. Log!Accept(nextEv)
    BY <2>1, <2>2, <2>4 DEF Log!Accept, Log!Known
  <2> QED
    BY <2>3, <2>5 DEF Log!Next
<1>2. CASE EnqueueDropped \/ EnqueueRaises
  BY <1>2, LogStutters DEF EnqueueDropped, EnqueueRaises, Drop, storeVars, history
<1>3. ASSUME NEW t \in Tickers, Tick(t)
      PROVE  [Log!Next]_(Log!logVars)
  <2>1. CASE TickAcks(t)
    BY <2>1, LogLeaves
  <2>2. CASE TickEmpty(t) \/ TickStart(t) \/ TickRaises(t) \/ TickFinishRaises(t)
    BY <2>2, LogStutters
       DEF TickEmpty, TickStart, TickRaises, TickFinishRaises, storeVars, history
  <2>3. CASE TickMintFails(t) \/ TickRetries(t) \/ TransportError(t)
    BY <2>3, LogStutters
       DEF TickMintFails, TickRetries, TransportError, MarkRetry, history
  <2> QED
    BY <1>3, <2>1, <2>2, <2>3 DEF Tick
<1>4. ASSUME NEW t \in Tickers, GatewayAnswers(t)
      PROVE  [Log!Next]_(Log!logVars)
  <2>1. Evs(batch[t]) \subseteq accepted /\ Oldest(Evs(batch[t]))
    BY DEF IInv, BatchInv, Evs
  <2>2. /\ Ingests(Evs(batch[t])) \/ Refuses(Evs(batch[t]))
        /\ UNCHANGED <<rows, accepted, setAside>>
    BY <1>4 DEF GatewayAnswers, storeVars
  <2> QED
    BY <2>1, <2>2, LogSettles
<1>5. ASSUME NEW t \in Tickers, GatewayFails(t) \/ FlushDeadline(t)
      PROVE  [Log!Next]_(Log!logVars)
  BY <1>5, LogStutters DEF GatewayFails, FlushDeadline, storeVars, history
<1>6. CASE WorkerWakes \/ (\E f \in Flushers : FlushRequest(f)) \/ Shutdown
  BY <1>6, LogStutters DEF WorkerWakes, FlushRequest, Shutdown, storeVars, history
<1>7. CASE GhostArrives
  <2>1. PICK g \in ghosts : Ingests(g) /\ UNCHANGED <<storeVars, accepted, setAside>>
    BY <1>7 DEF GhostArrives
  <2>2. g \subseteq accepted /\ Oldest(g) /\ UNCHANGED <<rows, accepted, setAside>>
    BY <2>1 DEF IInv, TypeOK, GhostInv, storeVars
  <2> QED
    BY <2>1, <2>2, LogSettles
<1>8. CASE Start
  <2>1. UNCHANGED <<delivered, rejected>>
    BY <1>8 DEF Start
  <2>2. CASE OpenRotated /\ setAside' = setAside \cup Evs(rows)
    <3>1. Evs(rows)' = {} /\ Settled' = Settled \cup Evs(rows)
      BY <2>1, <2>2 DEF OpenRotated, Evs, Settled
    <3> QED
      BY <3>1 DEF Log!Next, Log!SetAside
  <2>3. CASE (OpenAsLeft \/ OpenNoop) /\ UNCHANGED setAside
    BY <2>1, <2>3, LogStutters DEF OpenAsLeft, OpenNoop
  <2> QED
    BY <1>8, <2>2, <2>3 DEF Start
<1>9. CASE Stop \/ Crash
  BY <1>9, LogStutters DEF Stop, Crash, Halt, Close, history
<1>10. CASE UNCHANGED vars
  BY <1>10, LogStutters DEF vars, storeVars, history
<1> QED
  BY <1>1, <1>2, <1>3, <1>4, <1>5, <1>6, <1>7, <1>8, <1>9, <1>10 DEF Next

(* TelemetrySender implements AuditLog: the table is the log, an ack is    *)
(* the leaving of settled events, and every other step of a coroutine, or  *)
(* of a shutdown or a crash, leaves the log as it is (sender.py _tick).    *)
THEOREM ImplementsAuditLog == Spec => KeepsAuditLog
<1>1. Init => Log!Init
  BY DEF Init, StoreInit, Log!Init, Evs, Settled
<1>2. IInv /\ [Next]_vars => [Log!Next]_(Log!logVars)
  BY LogStep
<1> QED
  BY <1>1, <1>2, Inductive, PTL DEF Spec, KeepsAuditLog, Log!Spec
=============================================================================
