-------------------------- MODULE AuditChainProofs --------------------------
(***************************************************************************)
(* Theorems about AuditChain for every set of transactions, on both        *)
(* databases.                                                              *)
(***************************************************************************)
EXTENDS AuditChain, TLAPS

(* The rows are numbered 1 to n without gaps or repetitions, each chained to *)
(* the one before it.                                                       *)
Chain(rows, n) ==
  /\ VerifyAuditChain(rows)
  /\ {e.sequence_no : e \in rows} = 1 .. n

(* h is the hash of one of the rows numbered i to n, or the start if i is 0. *)
HashWithin(rows, i, n, h) ==
  \/ i = 0 /\ h = NoHash
  \/ \E e \in rows : i <= e.sequence_no /\ e.sequence_no <= n /\ e.event_hash = h

(* What a transaction has read is not ahead of what it sees, and the last   *)
(* event it read is not behind the sequence it read before.                 *)
Reads(t) ==
  /\ held[t] <= VisibleCounter(t) \/ pc[t] \in {"new", "done", "aborted"}
  /\ pc[t] \in {"counted", "linked"} => seen[t] <= VisibleCounter(t)
  /\ pc[t] = "linked" => HashWithin(Visible(t), seen[t], VisibleCounter(t), last[t])

IInv ==
  /\ TypeOK
  /\ Chain(events, counter)
  /\ \A t \in Txns : /\ Chain(Visible(t), VisibleCounter(t))
                     /\ written[t] # {} => lock = t
                     /\ pc[t] \in {"new", "done", "aborted"} => written[t] = {}
                     /\ Reads(t)

-----------------------------------------------------------------------------
(* The numbers of a chain's rows bound them.                                *)
LEMMA ChainNumbers ==
  ASSUME NEW rows, rows \subseteq Rows, NEW n \in Nat, Chain(rows, n)
  PROVE  /\ \A e \in rows : e.sequence_no \in 1 .. n
         /\ n > 0 => \E e \in rows : e.sequence_no = n
         /\ rows = {} <=> n = 0
<1>1. \A e \in rows : e.sequence_no \in 1 .. n
  BY DEF Chain
<1>2. n > 0 => \E e \in rows : e.sequence_no = n
  BY DEF Chain
<1>3. QED
  BY <1>1, <1>2

(* The hash that follows a chain is that of its last row.                   *)
LEMMA LastOfChain ==
  ASSUME NEW rows, rows \subseteq Rows, NEW n \in Nat, Chain(rows, n)
  PROVE  /\ LastHash(rows) \in Hashes \cup {NoHash}
         /\ HashWithin(rows, n, n, LastHash(rows))
<1>1. CASE rows = {}
  BY <1>1, ChainNumbers DEF LastHash, HashWithin
<1>2. CASE rows # {}
  <2> DEFINE top == CHOOSE e \in rows : \A f \in rows : f.sequence_no <= e.sequence_no
  <2>1. PICK e \in rows : e.sequence_no = n
    BY <1>2, ChainNumbers
  <2>2. \A f \in rows : f.sequence_no <= e.sequence_no
    BY <2>1, ChainNumbers
  <2>3. top \in rows /\ \A f \in rows : f.sequence_no <= top.sequence_no
    BY <2>1, <2>2
  <2>4. top.sequence_no = n
    BY <2>1, <2>3, ChainNumbers
  <2>5. LastHash(rows) = top.event_hash
    BY <1>2 DEF LastHash
  <2>6. top.event_hash \in Hashes
    BY <2>3 DEF Rows
  <2>7. QED
    BY <2>3, <2>4, <2>5, <2>6 DEF HashWithin
<1>3. QED
  BY <1>1, <1>2

(* A row numbered after the last one and chained to it extends the chain.   *)
LEMMA ChainExtends ==
  ASSUME NEW rows, rows \subseteq Rows, NEW n \in Nat, Chain(rows, n),
         NEW e \in Rows, e.sequence_no = n + 1,
         HashWithin(rows, n, n, e.previous_hash)
  PROVE  Chain(rows \cup {e}, n + 1)
<1> DEFINE more == rows \cup {e}
<1>1. \A f \in rows : f.sequence_no \in 1 .. n
  BY ChainNumbers
<1>2. \A f, g \in more : f.sequence_no = g.sequence_no => f = g
  BY <1>1 DEF Chain, VerifyAuditChain
<1>3. {f.sequence_no : f \in more} = 1 .. n + 1
  <2>1. {f.sequence_no : f \in rows} = 1 .. n
    BY DEF Chain
  <2>2. {f.sequence_no : f \in more} = {f.sequence_no : f \in rows} \cup {n + 1}
    OBVIOUS
  <2>3. QED
    BY <2>1, <2>2
<1>4. ASSUME NEW f \in more
      PROVE  IF f.sequence_no = 1 THEN f.previous_hash = NoHash
             ELSE \E g \in more : /\ g.sequence_no + 1 = f.sequence_no
                                  /\ f.previous_hash = g.event_hash
  <2>1. CASE f \in rows
    BY <2>1 DEF Chain, VerifyAuditChain
  <2>2. CASE f = e
    <3>1. CASE n = 0
      BY <1>1, <2>2, <3>1 DEF HashWithin
    <3>2. CASE n # 0
      <4>1. PICK g \in rows : /\ n <= g.sequence_no /\ g.sequence_no <= n
                              /\ g.event_hash = e.previous_hash
        BY <3>2 DEF HashWithin
      <4>2. g.sequence_no = n
        BY <1>1, <4>1
      <4>3. QED
        BY <2>2, <3>2, <4>1, <4>2
    <3>3. QED
      BY <3>1, <3>2
  <2>3. QED
    BY <2>1, <2>2
<1>5. QED
  BY <1>2, <1>3, <1>4 DEF Chain, VerifyAuditChain

-----------------------------------------------------------------------------
LEMMA InitIInv == Init => IInv
<1> SUFFICES ASSUME Init
             PROVE  IInv
  OBVIOUS
<1>1. TypeOK
  BY DEF Init, TypeOK
<1>2. Chain(events, counter)
  BY DEF Init, Chain, VerifyAuditChain
<1>3. \A t \in Txns : Visible(t) = events /\ VisibleCounter(t) = counter
  BY DEF Init, Visible, VisibleCounter
<1>4. \A t \in Txns : written[t] = {} /\ Reads(t)
  BY DEF Init, Reads
<1>5. QED
  BY <1>1, <1>2, <1>3, <1>4 DEF IInv

(* What a transaction sees, and what it has read of it, is left alone by a  *)
(* step that touches neither.                                               *)
LEMMA SameView ==
  ASSUME IInv, NEW t \in Txns,
         events' = events, counter' = counter,
         written'[t] = written[t], own'[t] = own[t]
  PROVE  Visible(t)' = Visible(t) /\ VisibleCounter(t)' = VisibleCounter(t)
BY DEF Visible, VisibleCounter

LEMMA SameReads ==
  ASSUME IInv, NEW t \in Txns,
         events' = events, counter' = counter,
         written'[t] = written[t], own'[t] = own[t],
         pc'[t] = pc[t], held'[t] = held[t], seen'[t] = seen[t], last'[t] = last[t]
  PROVE  /\ Chain(Visible(t), VisibleCounter(t))'
         /\ Reads(t)'
BY SameView DEF IInv, Reads

(* The end of a transaction whose rows are dropped.                         *)
LEMMA DroppedKeeps ==
  ASSUME IInv, NEW t \in Txns, NEW how \in {"done", "aborted"}, Ends(t, how),
         UNCHANGED <<events, counter, held, seen, last, own>>
  PROVE  IInv'
<1>1. TypeOK'
  BY TxnsAssumption DEF IInv, TypeOK, Ends
<1>2. Chain(events, counter)'
  BY DEF IInv
<1>3. ASSUME NEW u \in Txns
      PROVE  /\ Chain(Visible(u), VisibleCounter(u))'
             /\ written'[u] # {} => lock' = u
             /\ pc'[u] \in {"new", "done", "aborted"} => written'[u] = {}
             /\ Reads(u)'
  <2>1. CASE u = t
    <3>1. pc'[u] = how /\ written'[u] = {}
      BY <2>1 DEF IInv, TypeOK, Ends
    <3>2. Visible(u)' = events /\ VisibleCounter(u)' = counter
      BY <3>1 DEF Visible, VisibleCounter
    <3>3. QED
      BY <3>1, <3>2 DEF IInv, Reads
  <2>2. CASE u # t
    <3>1. pc'[u] = pc[u] /\ written'[u] = written[u]
      BY <2>2 DEF IInv, TypeOK, Ends
    <3>2. written'[u] # {} => lock' = u
      BY <2>2, <3>1 DEF IInv, Ends
    <3>3. QED
      BY <3>1, <3>2, SameReads DEF IInv
  <2>3. QED
    BY <2>1, <2>2
<1>4. QED
  BY <1>1, <1>2, <1>3 DEF IInv

LEMMA BeginKeeps ==
  ASSUME IInv, NEW t \in Txns, Begin(t)
  PROVE  IInv'
<1>1. TypeOK'
  BY DEF IInv, TypeOK, Begin
<1>2. \A u \in Txns : Visible(u)' = Visible(u) /\ VisibleCounter(u)' = VisibleCounter(u)
  BY SameView DEF Begin
<1>3. ASSUME NEW u \in Txns
      PROVE  Reads(u)'
  <2>1. CASE u = t
    BY <1>2, <2>1 DEF IInv, TypeOK, Begin, Reads, VisibleCounter
  <2>2. CASE u # t
    BY <1>2, <2>2 DEF IInv, TypeOK, Begin, Reads
  <2>3. QED
    BY <2>1, <2>2
<1>4. \A u \in Txns : pc'[u] \in {"new", "done", "aborted"} => written'[u] = {}
  BY DEF IInv, TypeOK, Begin
<1>5. QED
  BY <1>1, <1>2, <1>3, <1>4 DEF IInv, Begin

LEMMA ReadTenantKeeps ==
  ASSUME IInv, NEW t \in Txns, ReadTenant(t)
  PROVE  IInv'
<1>1. TypeOK'
  BY DEF IInv, TypeOK, ReadTenant, VisibleCounter
<1>2. \A u \in Txns : Visible(u)' = Visible(u) /\ VisibleCounter(u)' = VisibleCounter(u)
  BY SameView DEF ReadTenant
<1>3. ASSUME NEW u \in Txns
      PROVE  Reads(u)'
  <2>1. CASE u = t
    <3>1. seen'[t] <= VisibleCounter(t)
      <4>1. VisibleCounter(t) \in Nat /\ held[t] \in Nat
        BY DEF IInv, TypeOK, VisibleCounter
      <4>2. held[t] <= VisibleCounter(t)
        BY DEF IInv, Reads, ReadTenant
      <4>3. QED
        BY <4>1, <4>2 DEF IInv, TypeOK, ReadTenant
    <3>2. pc'[t] = "counted" /\ held' = held
      BY DEF IInv, TypeOK, ReadTenant
    <3>3. QED
      BY <1>2, <2>1, <3>1, <3>2 DEF IInv, Reads, ReadTenant
  <2>2. CASE u # t
    BY <1>2, <2>2 DEF IInv, TypeOK, ReadTenant, Reads
  <2>3. QED
    BY <2>1, <2>2
<1>4. \A u \in Txns : written'[u] # {} => lock' = u
  BY TxnsAssumption DEF IInv, TypeOK, ReadTenant, MayLock
<1>5. \A u \in Txns : pc'[u] \in {"new", "done", "aborted"} => written'[u] = {}
  BY DEF IInv, TypeOK, ReadTenant
<1>6. QED
  BY <1>1, <1>2, <1>3, <1>4, <1>5 DEF IInv, ReadTenant

LEMMA ReadPreviousKeeps ==
  ASSUME IInv, NEW t \in Txns, ReadPrevious(t)
  PROVE  IInv'
<1>1. /\ Visible(t) \subseteq Rows /\ VisibleCounter(t) \in Nat
      /\ Chain(Visible(t), VisibleCounter(t))
  BY DEF IInv, TypeOK, Visible, VisibleCounter
<1>2. /\ LastHash(Visible(t)) \in Hashes \cup {NoHash}
      /\ HashWithin(Visible(t), VisibleCounter(t), VisibleCounter(t), LastHash(Visible(t)))
  BY <1>1, LastOfChain
<1>3. TypeOK'
  BY <1>2 DEF IInv, TypeOK, ReadPrevious
<1>4. \A u \in Txns : Visible(u)' = Visible(u) /\ VisibleCounter(u)' = VisibleCounter(u)
  BY SameView DEF ReadPrevious
<1>5. ASSUME NEW u \in Txns
      PROVE  Reads(u)'
  <2>1. CASE u = t
    <3>1. seen[t] <= VisibleCounter(t) /\ seen[t] \in Nat
      BY DEF IInv, TypeOK, Reads, ReadPrevious
    <3>2. HashWithin(Visible(t), seen[t], VisibleCounter(t), LastHash(Visible(t)))
      <4>1. CASE VisibleCounter(t) = 0
        BY <1>1, <1>2, <3>1, <4>1, ChainNumbers DEF HashWithin
      <4>2. CASE VisibleCounter(t) # 0
        BY <1>1, <1>2, <3>1, <4>2, ChainNumbers DEF HashWithin
      <4>3. QED
        BY <4>1, <4>2
    <3>3. last'[t] = LastHash(Visible(t)) /\ seen' = seen /\ held' = held /\ pc'[t] = "linked"
      BY DEF IInv, TypeOK, ReadPrevious
    <3>4. HashWithin(Visible(t), seen[t], VisibleCounter(t), last[t])'
      BY <1>4, <2>1, <3>2, <3>3 DEF HashWithin
    <3>5. QED
      BY <1>4, <2>1, <3>1, <3>3, <3>4 DEF IInv, Reads, ReadPrevious
  <2>2. CASE u # t
    BY <1>4, <2>2 DEF IInv, TypeOK, ReadPrevious, Reads
  <2>3. QED
    BY <2>1, <2>2
<1>6. \A u \in Txns : pc'[u] \in {"new", "done", "aborted"} => written'[u] = {}
  BY DEF IInv, TypeOK, ReadPrevious
<1>7. QED
  BY <1>3, <1>4, <1>5, <1>6 DEF IInv, ReadPrevious

(* A flush that does not collide appends right after the last event: what   *)
(* it read cannot be older, or its number would be taken.                   *)
LEMMA FlushKeeps ==
  ASSUME IInv, NEW t \in Txns, Flush(t)
  PROVE  IInv'
<1> DEFINE n == VisibleCounter(t)
           e == Follow(t)
<1>1. /\ Visible(t) \subseteq Rows /\ n \in Nat /\ Chain(Visible(t), n)
      /\ seen[t] \in Nat /\ seen[t] <= n
      /\ HashWithin(Visible(t), seen[t], n, last[t])
  BY DEF IInv, TypeOK, Visible, VisibleCounter, Flush, Reads
<1>2. seen[t] = n
  <2>1. SUFFICES ASSUME seen[t] # n PROVE FALSE
    OBVIOUS
  <2>2. seen[t] + 1 \in 1 .. n
    BY <1>1, <2>1
  <2>3. \E f \in Visible(t) : f.sequence_no = seen[t] + 1
    BY <1>1, <2>2 DEF Chain
  <2>4. QED
    BY <2>3 DEF Flush, Collides
<1>3. /\ e \in Rows /\ e.sequence_no = n + 1 /\ e.previous_hash = last[t]
  BY <1>2 DEF IInv, TypeOK, Follow, Rows, Hashes
<1>4. Chain(Visible(t) \cup {e}, n + 1)
  BY <1>1, <1>2, <1>3, ChainExtends
<1>5. /\ lock' = t /\ events' = events /\ counter' = counter
      /\ written'[t] = written[t] \cup {e} /\ own'[t] = n + 1 /\ held'[t] = n + 1
      /\ pc'[t] = "ready"
  BY <1>2 DEF IInv, TypeOK, Flush, AppendEvent
<1>6. \A u \in Txns \ {t} :
        /\ written'[u] = written[u] /\ own'[u] = own[u] /\ held'[u] = held[u]
        /\ seen'[u] = seen[u] /\ last'[u] = last[u] /\ pc'[u] = pc[u]
  BY DEF IInv, TypeOK, Flush, AppendEvent
<1>7. TypeOK'
  <2>1. written' \in [Txns -> SUBSET Rows]
    BY <1>3 DEF IInv, TypeOK, Flush, AppendEvent
  <2>2. seen[t] + 1 \in Nat
    BY <1>1
  <2>3. QED
    BY <2>1, <2>2 DEF IInv, TypeOK, Flush, AppendEvent
<1>8. ASSUME NEW u \in Txns
      PROVE  /\ Chain(Visible(u), VisibleCounter(u))'
             /\ written'[u] # {} => lock' = u
             /\ pc'[u] \in {"new", "done", "aborted"} => written'[u] = {}
             /\ Reads(u)'
  <2>1. CASE u = t
    <3>1. Visible(t)' = Visible(t) \cup {e} /\ VisibleCounter(t)' = n + 1
      BY <1>5 DEF Visible, VisibleCounter
    <3>2. Chain(Visible(t), VisibleCounter(t))'
      BY <1>4, <3>1 DEF Chain, VerifyAuditChain
    <3>3. Reads(t)'
      BY <1>1, <1>5, <3>1 DEF Reads
    <3>4. QED
      BY <1>5, <2>1, <3>2, <3>3
  <2>2. CASE u # t
    <3>1. Chain(Visible(u), VisibleCounter(u))' /\ Reads(u)'
      BY <1>5, <1>6, <2>2, SameReads
    <3>2. written[u] = {}
      BY <2>2, TxnsAssumption DEF IInv, Flush, MayLock
    <3>3. QED
      BY <1>6, <2>2, <3>1, <3>2
  <2>3. QED
    BY <2>1, <2>2
<1>9. Chain(events, counter)'
  BY <1>5 DEF IInv
<1>10. QED
  BY <1>7, <1>8, <1>9 DEF IInv

(* A commit publishes a chain that extends the one before: nobody else has  *)
(* written, so everybody now sees what the committer saw.                   *)
LEMMA CommitKeeps ==
  ASSUME IInv, NEW t \in Txns, Commit(t)
  PROVE  IInv'
<1> DEFINE n == VisibleCounter(t)
<1>1. /\ events' = Visible(t) /\ counter' = n
      /\ written'[t] = {} /\ pc'[t] = "done"
      /\ UNCHANGED <<held, seen, last, own>>
  BY DEF IInv, TypeOK, Commit, Ends, Visible, VisibleCounter
<1>2. /\ Chain(Visible(t), n) /\ n \in Nat /\ Visible(t) \subseteq Rows
      /\ lock = t
  BY DEF IInv, TypeOK, Commit, Visible, VisibleCounter
<1>3. /\ Chain(events, counter) /\ counter \in Nat /\ events \subseteq Visible(t)
  BY DEF IInv, TypeOK, Visible
<1>4. counter <= n
  <2>1. CASE counter = 0
    BY <1>2, <2>1
  <2>2. CASE counter # 0
    <3>1. counter \in {f.sequence_no : f \in events}
      BY <1>3, <2>2 DEF Chain
    <3>2. counter \in {f.sequence_no : f \in Visible(t)}
      BY <1>3, <3>1
    <3>3. QED
      BY <1>2, <3>2 DEF Chain
  <2>3. QED
    BY <2>1, <2>2
<1>5. TypeOK'
  BY <1>1, <1>2, TxnsAssumption DEF IInv, TypeOK, Commit, Ends
<1>6. Chain(events, counter)'
  BY <1>1, <1>2 DEF Chain, VerifyAuditChain
<1>7. ASSUME NEW u \in Txns
      PROVE  /\ Chain(Visible(u), VisibleCounter(u))'
             /\ written'[u] # {} => lock' = u
             /\ pc'[u] \in {"new", "done", "aborted"} => written'[u] = {}
             /\ Reads(u)'
  <2>1. written'[u] = {}
    BY <1>1, <1>2 DEF IInv, TypeOK, Commit, Ends
  <2>2. Visible(u)' = Visible(t) /\ VisibleCounter(u)' = n
    BY <1>1, <2>1 DEF Visible, VisibleCounter
  <2>3. Chain(Visible(u), VisibleCounter(u))'
    BY <1>2, <2>2 DEF Chain, VerifyAuditChain
  <2>4. Reads(u)'
    <3>1. CASE u = t
      BY <1>1, <3>1 DEF Reads
    <3>2. CASE u # t
      <4>1. /\ written[u] = {} /\ pc'[u] = pc[u]
        BY <1>2, <3>2 DEF IInv, TypeOK, Commit, Ends
      <4>2. Visible(u) = events /\ VisibleCounter(u) = counter
        BY <4>1 DEF Visible, VisibleCounter
      <4>3. held[u] \in Nat /\ seen[u] \in Nat
        BY DEF IInv, TypeOK
      <4>4. pc[u] = "linked" => HashWithin(Visible(t), seen[u], n, last[u])
        <5>1. pc[u] = "linked" => HashWithin(events, seen[u], counter, last[u])
          BY <4>2 DEF IInv, Reads
        <5>2. \A f \in events : f.sequence_no \in Nat
          BY <1>2, <1>3 DEF Rows
        <5>3. QED
          BY <1>2, <1>3, <1>4, <4>3, <5>1, <5>2 DEF HashWithin
      <4>5. HashWithin(Visible(u), seen[u], VisibleCounter(u), last[u])'
              <=> HashWithin(Visible(t), seen[u], n, last[u])
        BY <1>1, <2>2 DEF HashWithin
      <4>6. held[u] <= counter \/ pc[u] \in {"new", "done", "aborted"}
        BY <4>2 DEF IInv, Reads
      <4>7. pc[u] \in {"counted", "linked"} => seen[u] <= counter
        BY <4>2 DEF IInv, Reads
      <4>8. QED
        BY <1>1, <1>2, <1>3, <1>4, <2>2, <4>1, <4>3, <4>4, <4>5, <4>6, <4>7 DEF Reads
    <3>3. QED
      BY <3>1, <3>2
  <2>5. QED
    BY <2>1, <2>3, <2>4
<1>8. QED
  BY <1>5, <1>6, <1>7 DEF IInv

LEMMA NextKeeps ==
  ASSUME IInv, [Next]_vars
  PROVE  IInv'
<1>1. CASE UNCHANGED vars
  BY <1>1 DEF vars, IInv, TypeOK, Chain, VerifyAuditChain, Visible, VisibleCounter, Reads, HashWithin
<1>2. ASSUME NEW t \in Txns, Work(t) PROVE IInv'
  <2>1. CASE FlushFails(t)
    BY <2>1, DroppedKeeps DEF FlushFails
  <2>2. QED
    BY <1>2, <2>1, BeginKeeps, ReadTenantKeeps, ReadPreviousKeeps, FlushKeeps, CommitKeeps DEF Work
<1>3. ASSUME NEW t \in Txns, Rollback(t) PROVE IInv'
  BY <1>3, DroppedKeeps DEF Rollback
<1>4. QED
  BY <1>1, <1>2, <1>3 DEF Next

(* The committed events are always one unbroken chain, on either database   *)
(* and whatever tenant objects the requests keep.                           *)
THEOREM ChainStaysIntact == Spec => []ChainIntact
<1>1. IInv => ChainIntact
  BY DEF IInv, Chain, ChainIntact
<1>2. QED
  BY <1>1, InitIInv, NextKeeps, PTL DEF Spec

(* The events, the counter and what the requests have read keep their types *)
(* (models.py, audit.py).                                                   *)
THEOREM TypeCorrect == Spec => []TypeOK
<1>1. IInv => TypeOK
  BY DEF IInv
<1>2. QED
  BY <1>1, InitIInv, NextKeeps, PTL DEF Spec
=============================================================================
