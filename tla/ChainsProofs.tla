---------------------------- MODULE ChainsProofs ----------------------------
(***************************************************************************)
(* Theorems about the chains, for any number of transactions, documents    *)
(* and chains.                                                             *)
(*                                                                         *)
(* A document has at most one link (OneLink).  Alone that is not           *)
(* inductive: a commit adds links that were checked when they were         *)
(* flushed, and others have committed since.  IInv says what keeps the     *)
(* check valid: the links a transaction has flushed are free of the        *)
(* committed ones it does not delete (Fresh) and of those that others      *)
(* have flushed (Apart), and nothing is committed unflushed (Flushed).     *)
(*                                                                         *)
(* A document leaves a chain by a detachment only.  Kept adds that what a  *)
(* transaction deletes stays there for it, and that a document which is    *)
(* processed again has its new link before the commit.                     *)
(*                                                                         *)
(* One transaction at a time, the primary documents, the suppliers and     *)
(* the findings fit the links.  Ordered says of the record of a            *)
(* transaction in progress what the rows will be once it commits.          *)
(***************************************************************************)
EXTENDS Chains, TLAPS

Fields == {"pc", "then", "flushed", "row", "archive", "opens", "del", "ins", "prim", "sup",
           "locked", "todo", "found"}

Shaped(x) == DOMAIN x = Fields /\ x = [f \in Fields |-> x[f]]

Single(ls) == \A l, m \in ls : l.doc = m.doc => l = m

Shape == tx = [t \in Txns |-> tx[t]] /\ \A t \in Txns : Shaped(tx[t])

Flushed == \A t \in Txns : tx[t].pc \in {"place", "commit"} => tx[t].flushed

OwnSingle == \A t \in Txns : Single(tx[t].ins)

Fresh ==
  \A t \in Txns : tx[t].flushed => \A n \in tx[t].ins : LinksOf(links \ tx[t].del, n.doc) = {}

Apart ==
  \A t, u \in Txns : t # u /\ tx[t].flushed /\ tx[u].flushed
    => \A n \in tx[t].ins : LinksOf(tx[u].ins, n.doc) = {}

IInv == Shape /\ OneLink /\ Flushed /\ OwnSingle /\ Fresh /\ Apart

-----------------------------------------------------------------------------
(* No step but a commit changes the links: it gives one transaction a new   *)
(* record, whose links are free if they are flushed.                        *)
LEMMA Advance ==
  ASSUME IInv, NEW t \in Txns, NEW y, links' = links, tx' = [tx EXCEPT ![t] = y],
         Shaped(y), y.pc \in {"place", "commit"} => y.flushed, Single(y.ins),
         y.flushed => MayInsert(t, y)
  PROVE  IInv'
<1>1. tx'[t] = y /\ \A u \in Txns \ {t} : tx'[u] = tx[u]
  BY DEF IInv, Shape
<1>2. Shape'
  BY <1>1 DEF IInv, Shape, Shaped
<1>3. OneLink'
  BY DEF IInv, OneLink
<1>4. Flushed' /\ OwnSingle'
  BY <1>1 DEF IInv, Flushed, OwnSingle
<1>5. Fresh'
  BY <1>1 DEF IInv, Fresh, MayInsert, LinksOf
<1>6. Apart'
  <2> SUFFICES ASSUME NEW u \in Txns, NEW v \in Txns, u # v, tx'[u].flushed, tx'[v].flushed,
                      NEW n \in tx'[u].ins, NEW m \in tx'[v].ins, m.doc = n.doc
               PROVE  FALSE
    BY DEF Apart, LinksOf
  <2>1. CASE u # t /\ v # t
    BY <2>1, <1>1 DEF IInv, Apart, LinksOf
  <2>2. CASE u = t
    BY <2>2, <1>1 DEF MayInsert, LinksOf
  <2>3. CASE v = t
    BY <2>3, <1>1 DEF MayInsert, LinksOf
  <2> QED BY <2>1, <2>2, <2>3
<1> QED BY <1>2, <1>3, <1>4, <1>5, <1>6 DEF IInv

(* A flush keeps the invariant if the transaction has its shape and links   *)
(* of different documents.                                                  *)
LEMMA FlushAdvances ==
  ASSUME IInv, NEW t \in Txns, NEW x, links' = links, Flush(t, x), Shaped(x), Single(x.ins)
  PROVE  IInv'
<1> DEFINE y == [x EXCEPT !.flushed = TRUE, !.locked = Written(x)]
<1>1. Shaped(y) /\ y.flushed /\ y.ins = x.ins /\ y.del = x.del
  BY DEF Shaped, Fields
<1>2. MayInsert(t, y)
  BY <1>1 DEF Flush, MayInsert
<1>3. tx' = [tx EXCEPT ![t] = y]
  BY DEF Flush
<1> HIDE DEF y
<1> QED BY <1>1, <1>2, <1>3, Advance

LEMMA IdleShaped ==
  Shaped(Idle) /\ ~Idle.flushed /\ Idle.pc = "idle" /\ Idle.ins = {} /\ Idle.del = {}
BY DEF Shaped, Fields, Idle

LEMMA IngestKeeps ==
  ASSUME IInv, NEW t \in Txns, NEW d \in Docs, NEW r \in Roles, NEW s \in Sources,
         Ingest(t, d, r, s)
  PROVE  IInv'
<1> DEFINE x(p, w) == [Idle EXCEPT !.pc = p, !.row = w]
<1>1. links' = links
  BY DEF Ingest, rows
<1>2. \E p, w : Flush(t, x(p, w))
  <2>1. PICK ok \in BOOLEAN :
          \/ Flush(t, x("place", {[doc |-> d, kind |-> r, maker |-> s, parsed |-> ok]}))
          \/ Flush(t, x("commit", {[doc |-> d, kind |-> r, maker |-> NoSupplier, parsed |-> ok]}))
    BY DEF Ingest
  <2> HIDE DEF x
  <2> QED BY <2>1
<1>3. \A p, w : Shaped(x(p, w)) /\ Single(x(p, w).ins)
  BY IdleShaped DEF Shaped, Fields, Single
<1> HIDE DEF x
<1> QED BY <1>1, <1>2, <1>3, FlushAdvances

LEMMA ReprocessKeeps ==
  ASSUME IInv, NEW t \in Txns, NEW d \in Docs, NEW r \in Roles, NEW s \in Sources,
         Reprocess(t, d, r, s)
  PROVE  IInv'
<1> DEFINE gone == LinksOf(links, d)
           x(ok, repair) == [Idle EXCEPT !.pc = "analyse", !.then = "place",
                                         !.row = {[doc |-> d, kind |-> r,
                                                   maker |-> s, parsed |-> ok]},
                                         !.del = gone,
                                         !.prim = repair, !.todo = {l.chain : l \in gone}]
<1>1. links' = links
  BY DEF Reprocess, rows
<1>2. PICK repair \in Repairs(gone), ok \in BOOLEAN : Flush(t, x(ok, repair))
  BY DEF Reprocess
<1>3. Shaped(x(ok, repair)) /\ Single(x(ok, repair).ins)
  BY IdleShaped DEF Shaped, Fields, Single
<1> HIDE DEF x
<1> QED BY <1>1, <1>2, <1>3, FlushAdvances

LEMMA AttachKeeps ==
  ASSUME IInv, NEW t \in Txns, NEW c \in Chains, NEW d \in Docs, Attach(t, c, d)
  PROVE  IInv'
<1> DEFINE new == IF LinksOf(links, d) = {} THEN {NewLink(t, d, c, kind[d])} ELSE {}
           y == [Idle EXCEPT !.pc = "analyse", !.ins = new, !.todo = {c},
                             !.prim = {[chain |-> c, role |-> l.role, doc |-> d] :
                                         l \in {m \in new : primary[c][m.role] = NoDoc}},
                             !.sup = IF supplier[c] = maker[d] THEN {}
                                     ELSE {[chain |-> c, supplier |-> maker[d]]}]
<1>1. links' = links
  BY DEF Attach, rows
<1>2. tx' = [tx EXCEPT ![t] = y]
  BY DEF Attach
<1>3. Single(new)
  BY DEF Single
<1> HIDE DEF new
<1>4. Shaped(y) /\ y.pc = "analyse" /\ ~y.flushed /\ y.ins = new
  BY IdleShaped DEF Shaped, Fields
<1> HIDE DEF y
<1> QED BY <1>1, <1>2, <1>3, <1>4, Advance

LEMMA DetachKeeps ==
  ASSUME IInv, NEW t \in Txns, NEW l \in links, Detach(t, l)
  PROVE  IInv'
<1> DEFINE y(repair) == [Idle EXCEPT !.pc = "analyse", !.flushed = TRUE, !.del = {l},
                                     !.prim = repair, !.todo = {l.chain}]
<1>1. links' = links
  BY DEF Detach, rows
<1>2. PICK repair \in Repairs({l}) : tx' = [tx EXCEPT ![t] = y(repair)]
  BY DEF Detach
<1>3. Shaped(y(repair)) /\ y(repair).flushed /\ y(repair).ins = {}
  BY IdleShaped DEF Shaped, Fields
<1> HIDE DEF y
<1> QED BY <1>1, <1>2, <1>3, Advance DEF Single, MayInsert

LEMMA ArchiveKeeps ==
  ASSUME IInv, NEW t \in Txns, NEW d \in Docs, Archive(t, d)
  PROVE  IInv'
<1> DEFINE y == [Idle EXCEPT !.pc = "analyse", !.archive = {d},
                             !.todo = {l.chain : l \in LinksOf(links, d)}]
<1>1. links' = links /\ tx' = [tx EXCEPT ![t] = y]
  BY DEF Archive, rows
<1>2. Shaped(y) /\ y.pc = "analyse" /\ ~y.flushed /\ y.ins = {}
  BY IdleShaped DEF Shaped, Fields
<1> HIDE DEF y
<1> QED BY <1>1, <1>2, Advance DEF Single

LEMMA ReanalyseKeeps ==
  ASSUME IInv, NEW t \in Txns, NEW cs, Reanalyse(t, cs)
  PROVE  IInv'
<1> DEFINE y == [Idle EXCEPT !.pc = "analyse", !.todo = cs]
<1>1. links' = links /\ tx' = [tx EXCEPT ![t] = y]
  BY DEF Reanalyse, rows
<1>2. Shaped(y) /\ y.pc = "analyse" /\ ~y.flushed /\ y.ins = {}
  BY IdleShaped DEF Shaped, Fields
<1> HIDE DEF y
<1> QED BY <1>1, <1>2, Advance DEF Single

LEMMA AnalyseKeeps ==
  ASSUME IInv, NEW t \in Txns, Analyse(t)
  PROVE  IInv'
<1> DEFINE x == [tx[t] EXCEPT !.pc = tx[t].then,
                              !.then = "commit",
                              !.todo = {},
                              !.found = {f \in @ : f.chain \notin tx[t].todo}
                                          \cup {[chain |-> c, docs |-> Considered(t, c)] :
                                                   c \in tx[t].todo}]
<1>1. links' = links /\ Shaped(tx[t]) /\ Single(tx[t].ins)
  BY DEF Analyse, rows, IInv, Shape, OwnSingle
<1>2. Flush(t, x)
  BY DEF Analyse
<1>3. Shaped(x) /\ x.ins = tx[t].ins
  BY <1>1 DEF Shaped, Fields
<1> HIDE DEF x
<1> QED BY <1>1, <1>2, <1>3, FlushAdvances

LEMMA PlaceKeeps ==
  ASSUME IInv, NEW t \in Txns, Place(t)
  PROVE  IInv'
<1>1. links' = links /\ Shaped(tx[t])
  BY DEF Place, rows, IInv, Shape
<1>2. PICK w, c : PlaceIn(t, w, c)
  BY DEF Place
<1> DEFINE new == IF \E l \in LinksOf(Seen(t), w.doc) : l.chain = c THEN {}
                  ELSE {NewLink(t, w.doc, c, w.kind)}
           fill == IF Primary(t, c, w.kind) = NoDoc
                   THEN {[chain |-> c, role |-> w.kind, doc |-> w.doc]} ELSE {}
           x == [tx[t] EXCEPT !.pc = "analyse",
                              !.ins = new,
                              !.prim = {p \in @ : \A q \in fill :
                                          p.chain # q.chain \/ p.role # q.role} \cup fill,
                              !.todo = {c},
                              !.opens = {c} \ chains,
                              !.sup = IF c \in chains THEN {}
                                      ELSE {[chain |-> c, supplier |-> w.maker]}]
<1>3. Flush(t, x)
  BY <1>2 DEF PlaceIn
<1>4. Single(new)
  BY DEF Single
<1> HIDE DEF new, fill
<1>5. Shaped(x) /\ x.ins = new
  BY <1>1 DEF Shaped, Fields
<1> HIDE DEF x
<1> QED BY <1>1, <1>3, <1>4, <1>5, FlushAdvances

(* What is committed is free of the other links, and of what others have    *)
(* flushed.                                                                 *)
LEMMA CommitKeeps ==
  ASSUME IInv, NEW t \in Txns, Commit(t)
  PROVE  IInv'
<1>1. /\ tx[t].flushed
      /\ links' = (links \ tx[t].del) \cup tx[t].ins
      /\ tx' = [tx EXCEPT ![t] = Idle]
  BY DEF Commit, Apply, IInv, Flushed
<1>2. tx'[t] = Idle /\ \A u \in Txns \ {t} : tx'[u] = tx[u]
  BY <1>1 DEF IInv, Shape
<1>3. Shape'
  BY <1>1, <1>2, IdleShaped DEF IInv, Shape, Shaped
<1>4. OneLink'
  BY <1>1 DEF IInv, OneLink, OwnSingle, Single, Fresh, LinksOf
<1>5. Flushed' /\ OwnSingle'
  BY <1>2, IdleShaped DEF IInv, Flushed, OwnSingle, Single
<1>6. Fresh'
  BY <1>1, <1>2, IdleShaped DEF IInv, Fresh, Apart, LinksOf
<1>7. Apart'
  BY <1>2, IdleShaped DEF IInv, Apart
<1> QED BY <1>3, <1>4, <1>5, <1>6, <1>7 DEF IInv

LEMMA RollbackKeeps ==
  ASSUME IInv, NEW t \in Txns, Rollback(t)
  PROVE  IInv'
BY IdleShaped, Advance DEF Rollback, rows, Single

-----------------------------------------------------------------------------
LEMMA Initially == Init => IInv
BY IdleShaped DEF Init, IInv, Shape, Shaped, OneLink, Flushed, OwnSingle, Single, Fresh, Apart

LEMMA Inductive == IInv /\ [Next]_vars => IInv'
<1> SUFFICES ASSUME IInv, [Next]_vars PROVE IInv'
  OBVIOUS
<1>1. ASSUME NEW t \in Txns, Operate(t) PROVE IInv'
  BY <1>1, IngestKeeps, ReprocessKeeps, AttachKeeps, DetachKeeps, ArchiveKeeps, ReanalyseKeeps
     DEF Operate
<1>2. CASE UNCHANGED vars
  BY <1>2 DEF vars, rows, IInv, Shape, Shaped, OneLink, Flushed, OwnSingle, Single, Fresh, Apart,
    LinksOf
<1> QED BY <1>1, <1>2, AnalyseKeeps, PlaceKeeps, CommitKeeps, RollbackKeeps DEF Next

(* uq_chain_document and the order of flush and commit keep every document  *)
(* in at most one chain, whatever concurrent requests attach, reprocess,    *)
(* detach or match.                                                         *)
THEOREM DocumentsHaveOneLink == Spec => []OneLink
<1>1. IInv => OneLink
  BY DEF IInv
<1> QED BY <1>1, Initially, Inductive, PTL DEF Spec

-----------------------------------------------------------------------------
(* What a transaction deletes stays there until it commits, is of its       *)
(* document, and is replaced before the commit if it processes that one     *)
(* again.                                                                   *)

Replaces(y) ==
  /\ y.del \subseteq links
  /\ \A x \in y.row : \A l \in y.del : l.doc = x.doc
  /\ y.row = {} => \A l, m \in y.del : l = m
  /\ y.then \in {"place", "commit"} /\ (y.pc = "place" => y.then = "commit")
  /\ y.pc = "place" \/ (y.pc = "analyse" /\ y.then = "place") => y.ins = {}
  /\ (y.pc = "commit" \/ (y.pc = "analyse" /\ y.then = "commit")) /\ y.row # {} /\ y.del # {}
       => \E x \in y.row, n \in y.ins : n.doc = x.doc

Disjoint == \A t, u \in Txns : t # u => tx[t].del \cap tx[u].del = {}

Kept == Disjoint /\ \A t \in Txns : Replaces(tx[t])

LEMMA KeptAdvance ==
  ASSUME IInv, Kept, NEW t \in Txns, NEW y, links' = links, tx' = [tx EXCEPT ![t] = y],
         Replaces(y), y.del = tx[t].del \/ Unlocked(y.del)
  PROVE  Kept'
<1>1. tx'[t] = y /\ \A u \in Txns \ {t} : tx'[u] = tx[u]
  BY DEF IInv, Shape
<1>2. Disjoint'
  BY <1>1 DEF Kept, Disjoint, Unlocked
<1>3. ASSUME NEW u \in Txns PROVE Replaces(tx[u])'
  <2>1. Replaces(tx[u]) \/ tx'[u] = y
    BY <1>1 DEF Kept
  <2>2. tx'[u] = tx[u] \/ tx'[u] = y
    BY <1>1
  <2> QED BY <1>1, <2>1, <2>2 DEF Kept, Replaces
<1> QED BY <1>2, <1>3 DEF Kept

LEMMA KeptFlush ==
  ASSUME IInv, Kept, NEW t \in Txns, NEW x, links' = links, Flush(t, x), Shaped(x),
         Replaces(x), x.del = tx[t].del \/ Unlocked(x.del)
  PROVE  Kept'
<1> DEFINE y == [x EXCEPT !.flushed = TRUE, !.locked = Written(x)]
<1>1. /\ y.del = x.del /\ y.row = x.row /\ y.then = x.then /\ y.pc = x.pc /\ y.ins = x.ins
  BY DEF Shaped, Fields
<1>2. tx' = [tx EXCEPT ![t] = y]
  BY DEF Flush
<1> HIDE DEF y
<1>3. Replaces(y)
  BY <1>1 DEF Replaces
<1> QED BY <1>1, <1>2, <1>3, KeptAdvance

LEMMA IdleReplaces ==
  /\ Replaces(Idle) /\ Unlocked({}) /\ Shaped(Idle) /\ Idle.del = {} /\ Idle.row = {}
  /\ Idle.then = "commit" /\ Idle.ins = {}
BY IdleShaped DEF Replaces, Idle, Unlocked

LEMMA IngestReplaces ==
  ASSUME IInv, Kept, NEW t \in Txns, NEW d \in Docs, NEW r \in Roles, NEW s \in Sources,
         Ingest(t, d, r, s)
  PROVE  Kept'
<1> DEFINE x(p, w) == [Idle EXCEPT !.pc = p, !.row = w]
<1>1. links' = links
  BY DEF Ingest, rows
<1>2. \E p \in {"place", "commit"} : \E w : Flush(t, x(p, w))
  <2>1. PICK ok \in BOOLEAN :
          \/ Flush(t, x("place", {[doc |-> d, kind |-> r, maker |-> s, parsed |-> ok]}))
          \/ Flush(t, x("commit", {[doc |-> d, kind |-> r, maker |-> NoSupplier, parsed |-> ok]}))
    BY DEF Ingest
  <2> HIDE DEF x
  <2> QED BY <2>1
<1>3. \A p, w : /\ Shaped(x(p, w)) /\ x(p, w).del = {} /\ x(p, w).ins = {}
                /\ x(p, w).then = "commit" /\ x(p, w).pc = p
  BY ZenonT(40), IdleReplaces DEF Shaped, Fields
<1> HIDE DEF x
<1>4. \A p, w : Replaces(x(p, w))
  BY <1>3 DEF Replaces
<1> QED BY ZenonT(40), <1>1, <1>2, <1>3, <1>4, IdleReplaces, KeptFlush

LEMMA ReprocessReplaces ==
  ASSUME IInv, Kept, NEW t \in Txns, NEW d \in Docs, NEW r \in Roles, NEW s \in Sources,
         Reprocess(t, d, r, s)
  PROVE  Kept'
<1> DEFINE gone == LinksOf(links, d)
           row(ok) == {[doc |-> d, kind |-> r, maker |-> s, parsed |-> ok]}
           x(ok, repair) == [Idle EXCEPT !.pc = "analyse", !.then = "place",
                                         !.row = row(ok),
                                         !.del = gone,
                                         !.prim = repair, !.todo = {l.chain : l \in gone}]
<1>1. links' = links /\ Unlocked(gone)
  BY DEF Reprocess, rows
<1>2. PICK repair \in Repairs(gone), ok \in BOOLEAN : Flush(t, x(ok, repair))
  BY DEF Reprocess
<1>3. \A z \in row(ok) : z.doc = d
  OBVIOUS
<1> HIDE DEF row
<1>4. LET y == x(ok, repair) IN
      /\ Shaped(y) /\ y.pc = "analyse" /\ y.then = "place" /\ y.row = row(ok)
      /\ y.del = gone /\ y.ins = {}
  BY IdleReplaces DEF Shaped, Fields
<1>5. gone \subseteq links /\ \A l \in gone : l.doc = d
  BY DEF LinksOf
<1>6. row(ok) # {}
  BY DEF row
<1> HIDE DEF x, gone
<1>7. Replaces(x(ok, repair))
  BY <1>3, <1>4, <1>5, <1>6 DEF Replaces
<1> QED BY <1>1, <1>2, <1>4, <1>7, KeptFlush

LEMMA AttachReplaces ==
  ASSUME IInv, Kept, NEW t \in Txns, NEW c \in Chains, NEW d \in Docs, Attach(t, c, d)
  PROVE  Kept'
<1> DEFINE new == IF LinksOf(links, d) = {} THEN {NewLink(t, d, c, kind[d])} ELSE {}
           y == [Idle EXCEPT !.pc = "analyse", !.ins = new, !.todo = {c},
                             !.prim = {[chain |-> c, role |-> l.role, doc |-> d] :
                                         l \in {m \in new : primary[c][m.role] = NoDoc}},
                             !.sup = IF supplier[c] = maker[d] THEN {}
                                     ELSE {[chain |-> c, supplier |-> maker[d]]}]
<1>1. links' = links /\ tx' = [tx EXCEPT ![t] = y]
  BY DEF Attach, rows
<1> HIDE DEF new
<1>2. y.del = {} /\ y.row = {} /\ y.pc = "analyse" /\ y.then = "commit"
  BY IdleReplaces DEF Shaped, Fields
<1> HIDE DEF y
<1>3. Replaces(y)
  BY <1>2 DEF Replaces
<1> QED BY <1>1, <1>2, <1>3, IdleReplaces, KeptAdvance

LEMMA DetachReplaces ==
  ASSUME IInv, Kept, NEW t \in Txns, NEW l \in links, Detach(t, l)
  PROVE  Kept'
<1> DEFINE y(repair) == [Idle EXCEPT !.pc = "analyse", !.flushed = TRUE, !.del = {l},
                                     !.prim = repair, !.todo = {l.chain}]
<1>1. links' = links /\ Unlocked({l})
  BY DEF Detach, rows
<1>2. PICK repair \in Repairs({l}) : tx' = [tx EXCEPT ![t] = y(repair)]
  BY DEF Detach
<1>3. /\ y(repair).del = {l} /\ y(repair).row = {} /\ y(repair).pc = "analyse"
      /\ y(repair).then = "commit" /\ y(repair).ins = {}
  BY IdleReplaces DEF Shaped, Fields
<1> HIDE DEF y
<1>4. Replaces(y(repair))
  BY <1>3 DEF Replaces
<1> QED BY <1>1, <1>2, <1>3, <1>4, KeptAdvance

LEMMA ArchiveReplaces ==
  ASSUME IInv, Kept, NEW t \in Txns, NEW d \in Docs, Archive(t, d)
  PROVE  Kept'
<1> DEFINE y == [Idle EXCEPT !.pc = "analyse", !.archive = {d},
                             !.todo = {l.chain : l \in LinksOf(links, d)}]
<1>1. links' = links /\ tx' = [tx EXCEPT ![t] = y]
  BY DEF Archive, rows
<1>2. y.del = {} /\ y.row = {} /\ y.pc = "analyse" /\ y.then = "commit"
  BY IdleReplaces DEF Shaped, Fields
<1> HIDE DEF y
<1>3. Replaces(y)
  BY <1>2 DEF Replaces
<1> QED BY <1>1, <1>2, <1>3, IdleReplaces, KeptAdvance

LEMMA ReanalyseReplaces ==
  ASSUME IInv, Kept, NEW t \in Txns, NEW cs, Reanalyse(t, cs)
  PROVE  Kept'
<1> DEFINE y == [Idle EXCEPT !.pc = "analyse", !.todo = cs]
<1>1. links' = links /\ tx' = [tx EXCEPT ![t] = y]
  BY DEF Reanalyse, rows
<1>2. y.del = {} /\ y.row = {} /\ y.pc = "analyse" /\ y.then = "commit"
  BY IdleReplaces DEF Shaped, Fields
<1> HIDE DEF y
<1>3. Replaces(y)
  BY <1>2 DEF Replaces
<1> QED BY <1>1, <1>2, <1>3, IdleReplaces, KeptAdvance

LEMMA AnalyseReplaces ==
  ASSUME IInv, Kept, NEW t \in Txns, Analyse(t)
  PROVE  Kept'
<1> DEFINE found == {f \in tx[t].found : f.chain \notin tx[t].todo}
                      \cup {[chain |-> c, docs |-> Considered(t, c)] : c \in tx[t].todo}
           x == [tx[t] EXCEPT !.pc = tx[t].then, !.then = "commit", !.todo = {}, !.found = found]
<1>1. links' = links /\ Shaped(tx[t]) /\ tx[t].pc = "analyse" /\ Replaces(tx[t])
  BY DEF Analyse, rows, IInv, Shape, Kept
<1>2. Flush(t, x)
  BY DEF Analyse
<1> HIDE DEF found
<1>3. /\ Shaped(x) /\ x.ins = tx[t].ins /\ x.del = tx[t].del /\ x.row = tx[t].row
      /\ x.pc = tx[t].then /\ x.then = "commit"
  BY <1>1 DEF Shaped, Fields
<1> HIDE DEF x
<1>4. Replaces(x)
  BY <1>1, <1>3 DEF Replaces
<1> QED BY <1>1, <1>2, <1>3, <1>4, KeptFlush

(* A document that is processed again has no other link by the time it is   *)
(* placed, so it gets one.                                                  *)
LEMMA PlaceReplaces ==
  ASSUME IInv, Kept, NEW t \in Txns, Place(t)
  PROVE  Kept'
<1>1. links' = links /\ Shaped(tx[t]) /\ tx[t].pc = "place" /\ tx[t].flushed /\ Replaces(tx[t])
  BY DEF Place, rows, IInv, Shape, Flushed, Kept
<1>2. PICK w \in tx[t].row : \E k : PlaceIn(t, w, k)
  BY DEF Place
<1>3. PICK c : PlaceIn(t, w, c)
  BY <1>2
<1> DEFINE new == IF \E l \in LinksOf(Seen(t), w.doc) : l.chain = c THEN {}
                  ELSE {NewLink(t, w.doc, c, w.kind)}
           fill == IF Primary(t, c, w.kind) = NoDoc
                   THEN {[chain |-> c, role |-> w.kind, doc |-> w.doc]} ELSE {}
           x == [tx[t] EXCEPT !.pc = "analyse",
                              !.ins = new,
                              !.prim = {p \in @ : \A q \in fill :
                                          p.chain # q.chain \/ p.role # q.role} \cup fill,
                              !.todo = {c},
                              !.opens = {c} \ chains,
                              !.sup = IF c \in chains THEN {}
                                      ELSE {[chain |-> c, supplier |-> w.maker]}]
<1>4. Flush(t, x)
  BY <1>3 DEF PlaceIn
<1>5. Seen(t) = links \ tx[t].del
  BY <1>1 DEF Seen, Replaces
<1>6. tx[t].del # {} => LinksOf(Seen(t), w.doc) = {}
  BY <1>1, <1>5 DEF LinksOf, Replaces, IInv, OneLink
<1>7. tx[t].del # {} => \E n \in new : n.doc = w.doc
  BY <1>6 DEF NewLink
<1> HIDE DEF new, fill
<1>8. /\ Shaped(x) /\ x.ins = new /\ x.del = tx[t].del /\ x.row = tx[t].row
      /\ x.pc = "analyse" /\ x.then = tx[t].then
  BY <1>1 DEF Shaped, Fields
<1> HIDE DEF x
<1>9. tx[t].then = "commit"
  BY <1>1 DEF Replaces
<1>10. Replaces(x)
  BY <1>1, <1>7, <1>8, <1>9 DEF Replaces
<1> QED BY <1>1, <1>4, <1>8, <1>10, KeptFlush

LEMMA CommitReplaces ==
  ASSUME IInv, Kept, NEW t \in Txns, Commit(t)
  PROVE  Kept'
<1>1. links' = (links \ tx[t].del) \cup tx[t].ins /\ tx' = [tx EXCEPT ![t] = Idle]
  BY DEF Commit, Apply
<1>2. tx'[t] = Idle /\ \A u \in Txns \ {t} : tx'[u] = tx[u]
  BY <1>1 DEF IInv, Shape
<1>3. Disjoint'
  BY <1>2, IdleReplaces DEF Kept, Disjoint
<1>4. ASSUME NEW u \in Txns \ {t} PROVE Replaces(tx[u])'
  <2>1. tx[u].del \subseteq links'
    BY <1>1 DEF Kept, Disjoint, Replaces
  <2> QED BY <1>2, <2>1 DEF Kept, Replaces
<1>5. Replaces(tx[t])'
  BY <1>2, IdleReplaces DEF Replaces
<1> QED BY <1>3, <1>4, <1>5 DEF Kept

LEMMA RollbackReplaces ==
  ASSUME IInv, Kept, NEW t \in Txns, Rollback(t)
  PROVE  Kept'
BY IdleReplaces, KeptAdvance DEF Rollback, rows

LEMMA KeptInductive == IInv /\ Kept /\ [Next]_vars => Kept'
<1> SUFFICES ASSUME IInv, Kept, [Next]_vars PROVE Kept'
  OBVIOUS
<1>1. ASSUME NEW t \in Txns, Operate(t) PROVE Kept'
  BY <1>1, IngestReplaces, ReprocessReplaces, AttachReplaces, DetachReplaces, ArchiveReplaces,
     ReanalyseReplaces DEF Operate
<1>2. CASE UNCHANGED vars
  BY <1>2 DEF vars, rows, Kept, Disjoint, Replaces
<1> QED BY <1>1, <1>2, AnalyseReplaces, PlaceReplaces, CommitReplaces, RollbackReplaces DEF Next

(* A document without its link after a step was detached by it.             *)
LEMMA NothingElseUnlinks ==
  ASSUME IInv, Kept, NEW t \in Txns, Commit(t)
  PROVE  LinkKept
<1> SUFFICES ASSUME NEW d \in Docs, LinksOf(links, d) # {}, LinksOf(links', d) = {}
             PROVE  tx[t].row = {} /\ tx[t].del = LinksOf(links, d)
  BY DEF Commit, LinkKept
<1>1. links' = (links \ tx[t].del) \cup tx[t].ins /\ tx[t].pc = "commit" /\ Replaces(tx[t])
  BY DEF Commit, Apply, Kept
<1>2. PICK l \in links : l.doc = d /\ LinksOf(links, d) = {l}
  BY DEF IInv, OneLink, LinksOf
<1>3. l \in tx[t].del /\ \A n \in tx[t].ins : n.doc # d
  BY <1>1, <1>2 DEF LinksOf
<1>4. tx[t].row = {}
  BY <1>1, <1>2, <1>3 DEF Replaces
<1> QED BY <1>1, <1>2, <1>3, <1>4 DEF Replaces

(* A document in a chain leaves it by a detachment only: reprocessing       *)
(* deletes the link that is there when it commits, whatever others do, and  *)
(* has placed the document again by then.                                   *)
THEOREM DetachmentAloneUnlinks == Spec => OnlyDetachmentUnlinks
<1>1. Init => Kept
  BY IdleReplaces DEF Init, Kept, Disjoint, Replaces
<1>2. IInv /\ Kept /\ [Next]_vars => [LinkKept]_vars
  <2> SUFFICES ASSUME IInv, Kept, Next PROVE LinkKept
    OBVIOUS
  <2>1. ASSUME NEW t \in Txns, ~Commit(t), Operate(t) \/ Analyse(t) \/ Place(t) \/ Rollback(t)
        PROVE  links' = links
    BY <2>1 DEF Operate, Ingest, Reprocess, Attach, Detach, Archive, Reanalyse, Analyse, Place,
      Rollback, rows
  <2>2. links' = links => LinkKept
    BY DEF LinkKept, LinksOf
  <2> QED BY <2>1, <2>2, NothingElseUnlinks DEF Next
<1> QED BY <1>1, <1>2, KeptInductive, Initially, Inductive, PTL DEF Spec, OnlyDetachmentUnlinks

-----------------------------------------------------------------------------
(* One transaction at a time.  What it will commit fits the rows: Fits says *)
(* so of its record, while it is in progress.                               *)

After(y) == (links \ y.del) \cup y.ins

OfChain(ls, c) == {l.doc : l \in {m \in ls : m.chain = c}}

Right(ls, c, r, d) == IF Members(ls, c, r) = {} THEN d = NoDoc ELSE d \in Members(ls, c, r)

MakerIs(y, d, m) ==
  IF \E x \in y.row : x.doc = d THEN \E x \in y.row : x.doc = d /\ m = x.maker ELSE m = maker[d]

SupplierIs(y, c, s) ==
  IF \E z \in y.sup : z.chain = c THEN \E z \in y.sup : z.chain = c /\ s = z.supplier
  ELSE s = supplier[c]

PrimaryIs(y, c, r, d) ==
  IF \E p \in y.prim : p.chain = c /\ p.role = r
  THEN \E p \in y.prim : p.chain = c /\ p.role = r /\ d = p.doc
  ELSE d = primary[c][r]

FitRow(y) ==
  /\ \A x \in y.row : x.doc \in Docs /\ x.kind \in Roles
  /\ \A x, z \in y.row : x = z

FitLinks(y) ==
  /\ y.opens \subseteq Chains \ chains
  /\ y.todo \subseteq chains \cup y.opens
  /\ \A p \in y.prim : p.chain \in chains \cup y.opens /\ p.role \in Roles
  /\ \A f \in y.found : f.chain \in chains \cup y.opens
  /\ \A l \in After(y) : /\ l.doc \in Docs /\ l.role \in Roles /\ l.chain \in chains \cup y.opens
                         /\ l.doc \in Existing \/ \E x \in y.row : x.doc = l.doc

FitPrimary(y) ==
  \A c \in chains \cup y.opens, r \in Roles : \A d :
    PrimaryIs(y, c, r, d) => Right(After(y), c, r, d)

FitSupplier(y) ==
  \A l \in After(y) : \A m, s :
    MakerIs(y, l.doc, m) /\ SupplierIs(y, l.chain, s) => m \in {s, NoSupplier}

FitFindings(y) ==
  \A c \in chains \cup y.opens :
    \/ c \in y.todo
    \/ IF \E f \in y.found : f.chain = c
       THEN \A f \in y.found : f.chain = c => f.docs \subseteq OfChain(After(y), c)
       ELSE assessed[c] \subseteq OfChain(After(y), c)

FitStage(y) ==
  /\ y.pc = "place" \/ (y.pc = "analyse" /\ y.then = "place") =>
       /\ y.ins = {} /\ y.sup = {} /\ y.opens = {}
       /\ \A x \in y.row : LinksOf(After(y), x.doc) = {}
  /\ y.pc \in {"place", "commit"} => y.todo = {}
  /\ y.then \in {"place", "commit"} /\ (y.pc = "place" => y.then = "commit")

Fitted(y) ==
  FitRow(y) /\ FitLinks(y) /\ FitPrimary(y) /\ FitSupplier(y) /\ FitFindings(y) /\ FitStage(y)

Fits(y) == Fitted(y) /\ (~y.flushed => y.del = {})

Linked ==
  /\ chains \subseteq Chains
  /\ \A d \in Existing : kind[d] \in Roles
  /\ \A l \in links : l.doc \in Existing /\ l.role \in Roles /\ l.chain \in chains

Unopened ==
  \A c \in Chains \ chains : assessed[c] = {} /\ \A r \in Roles : primary[c][r] = NoDoc

MakersFit == \A l \in links : maker[l.doc] \in {supplier[l.chain], NoSupplier}

RowsFit == Linked /\ Unopened /\ PrimaryLinked /\ MakersFit /\ AssessesOwn

AtMostOne == \A t, u \in Txns : tx[t] = Idle \/ tx[u] = Idle \/ t = u

Ordered == serial => RowsFit /\ AtMostOne /\ \A t \in Txns : Fits(tx[t])

Others(t) == \A u \in Txns \ {t} : tx[u] = Idle

LEMMA IdleFields ==
  /\ Idle.pc = "idle" /\ Idle.then = "commit" /\ ~Idle.flushed /\ Idle.row = {} /\ Idle.opens = {}
  /\ Idle.del = {} /\ Idle.ins = {} /\ Idle.prim = {} /\ Idle.sup = {} /\ Idle.todo = {}
  /\ Idle.found = {} /\ Shaped(Idle)
BY IdleShaped DEF Idle

(* A record that writes nothing but marks of its document fits.             *)
LEMMA LeavesAlone ==
  ASSUME RowsFit, NEW y, FitRow(y), FitStage(y), y.opens = {}, y.del = {}, y.ins = {}, y.prim = {},
         y.sup = {}, y.todo \subseteq chains, y.found = {},
         \A x \in y.row : x.doc \notin Existing
  PROVE  Fitted(y)
<1>1. After(y) = links
  BY DEF After
<1>2. FitLinks(y)
  BY <1>1 DEF FitLinks, RowsFit, Linked, Existing
<1>3. FitPrimary(y)
  BY <1>1 DEF FitPrimary, PrimaryIs, Right, RowsFit, PrimaryLinked
<1>4. FitSupplier(y)
  BY <1>1 DEF FitSupplier, MakerIs, SupplierIs, RowsFit, MakersFit, Linked
<1>5. FitFindings(y)
  BY <1>1 DEF FitFindings, RowsFit, AssessesOwn, OfChain
<1> QED BY <1>2, <1>3, <1>4, <1>5 DEF Fitted

LEMMA IdleFits == RowsFit => Fits(Idle)
<1> SUFFICES ASSUME RowsFit PROVE Fits(Idle)
  OBVIOUS
<1>1. FitRow(Idle) /\ FitStage(Idle)
  BY IdleFields DEF FitRow, FitStage
<1> QED BY <1>1, IdleFields, LeavesAlone DEF Fits

(* A record fits as long as the rows stay.                                  *)
LEMMA FitsStill ==
  ASSUME UNCHANGED rows, NEW u \in Txns, Fits(tx'[u])
  PROVE  Fits(tx[u])'
<1>1. Fits(tx'[u])
  OBVIOUS
<1> USE DEF rows
<1>2. After(tx[u])' = After(tx'[u])
  BY DEF After
<1>3. (~tx[u].flushed => tx[u].del = {})'
  BY <1>1 DEF Fits
<1>4. FitRow(tx[u])'
  BY <1>1 DEF Fits, Fitted, FitRow
<1>5. FitLinks(tx[u])'
  BY <1>1, <1>2 DEF Fits, Fitted, FitLinks, Existing
<1>6. FitPrimary(tx[u])'
  <2>1. ASSUME NEW c \in (chains \cup tx'[u].opens), NEW r \in Roles, NEW d,
               PrimaryIs(tx[u], c, r, d)'
        PROVE  Right(After(tx[u])', c, r, d)
    <3>1. PrimaryIs(tx'[u], c, r, d)
      BY <2>1 DEF PrimaryIs
    <3> QED BY <1>1, <1>2, <3>1 DEF Fits, Fitted, FitPrimary
  <2>2. ASSUME NEW c \in (chains \cup tx'[u].opens), NEW r \in Roles, NEW d
        PROVE  Right(After(tx[u]), c, r, d)' = Right(After(tx[u])', c, r, d)
    BY DEF Right, Members
  <2> QED BY <2>1, <2>2 DEF FitPrimary
<1>7. FitSupplier(tx[u])'
  <2>1. ASSUME NEW l \in After(tx'[u]), NEW m, NEW s, MakerIs(tx[u], l.doc, m)',
               SupplierIs(tx[u], l.chain, s)'
        PROVE  m \in {s, NoSupplier}
    <3>1. MakerIs(tx'[u], l.doc, m) /\ SupplierIs(tx'[u], l.chain, s)
      BY <2>1 DEF MakerIs, SupplierIs
    <3> QED BY <1>1, <3>1 DEF Fits, Fitted, FitSupplier
  <2> QED BY <1>2, <2>1 DEF FitSupplier
<1>8. FitFindings(tx[u])'
  BY <1>1, <1>2 DEF Fits, Fitted, FitFindings, OfChain
<1>9. FitStage(tx[u])'
  BY <1>1, <1>2 DEF Fits, Fitted, FitStage, LinksOf
<1> QED BY <1>3, <1>4, <1>5, <1>6, <1>7, <1>8, <1>9 DEF Fits, Fitted

LEMMA OrderedAdvance ==
  ASSUME IInv, RowsFit, NEW t \in Txns, Others(t), UNCHANGED rows,
         NEW y, tx' = [tx EXCEPT ![t] = y], Fits(y)
  PROVE  (RowsFit /\ AtMostOne /\ \A u \in Txns : Fits(tx[u]))'
<1>1. tx'[t] = y /\ \A u \in Txns \ {t} : tx'[u] = Idle
  BY DEF IInv, Shape, Others
<1>2. RowsFit'
  BY DEF rows, RowsFit, Linked, Unopened, PrimaryLinked, MakersFit, AssessesOwn, Existing, Members
<1>3. AtMostOne'
  BY <1>1 DEF AtMostOne
<1>4. \A u \in Txns : Fits(tx'[u])
  BY <1>1, IdleFits
<1>5. \A u \in Txns : Fits(tx[u])'
  BY <1>4, FitsStill
<1> QED BY <1>2, <1>3, <1>5

LEMMA OrderedFlush ==
  ASSUME IInv, RowsFit, NEW t \in Txns, Others(t), UNCHANGED rows,
         NEW x, Flush(t, x), Shaped(x), Fitted(x)
  PROVE  (RowsFit /\ AtMostOne /\ \A u \in Txns : Fits(tx[u]))'
<1> DEFINE y == [x EXCEPT !.flushed = TRUE, !.locked = Written(x)]
<1>1. /\ y.del = x.del /\ y.row = x.row /\ y.then = x.then /\ y.pc = x.pc /\ y.ins = x.ins
      /\ y.opens = x.opens /\ y.prim = x.prim /\ y.sup = x.sup /\ y.todo = x.todo
      /\ y.found = x.found /\ y.flushed
  BY DEF Shaped, Fields
<1>2. tx' = [tx EXCEPT ![t] = y]
  BY DEF Flush
<1> HIDE DEF y
<1>3. Fits(y)
  <2>1. After(y) = After(x)
    BY <1>1 DEF After
  <2>2. FitRow(y) /\ FitLinks(y)
    BY <1>1, <2>1 DEF Fitted, FitRow, FitLinks
  <2>3. FitPrimary(y)
    BY <1>1, <2>1 DEF Fitted, FitPrimary, PrimaryIs
  <2>4. FitSupplier(y)
    <3>1. ASSUME NEW d, NEW m, MakerIs(y, d, m) PROVE MakerIs(x, d, m)
      BY <1>1, <3>1 DEF MakerIs
    <3>2. ASSUME NEW c, NEW s, SupplierIs(y, c, s) PROVE SupplierIs(x, c, s)
      BY <1>1, <3>2 DEF SupplierIs
    <3> QED BY <2>1, <3>1, <3>2 DEF Fitted, FitSupplier
  <2>5. FitFindings(y) /\ FitStage(y)
    BY <1>1, <2>1 DEF Fitted, FitFindings, FitStage
  <2> QED BY <1>1, <2>2, <2>3, <2>4, <2>5 DEF Fits, Fitted
<1> QED BY <1>1, <1>2, <1>3, OrderedAdvance

OneByOne == RowsFit /\ AtMostOne /\ \A t \in Txns : Fits(tx[t])

LEMMA BeginsAlone ==
  ASSUME serial, NEW t \in Txns, MayBegin(t)
  PROVE  Others(t) /\ tx[t] = Idle
BY DEF MayBegin, Others

LEMMA ContinuesAlone ==
  ASSUME AtMostOne, NEW t \in Txns, tx[t].pc # "idle"
  PROVE  Others(t)
BY IdleFields DEF AtMostOne, Others

LEMMA IngestOrdered ==
  ASSUME IInv, OneByOne, serial, NEW t \in Txns, NEW d \in Docs, NEW r \in Roles, NEW s \in Sources,
         Ingest(t, d, r, s)
  PROVE  OneByOne'
<1> DEFINE x(p, w) == [Idle EXCEPT !.pc = p, !.row = w]
<1>1. UNCHANGED rows /\ Others(t) /\ d \notin Existing
  BY BeginsAlone DEF Ingest
<1>2. \E p \in {"place", "commit"} : \E m, ok :
        Flush(t, x(p, {[doc |-> d, kind |-> r, maker |-> m, parsed |-> ok]}))
  <2>1. PICK ok \in BOOLEAN :
          \/ Flush(t, x("place", {[doc |-> d, kind |-> r, maker |-> s, parsed |-> ok]}))
          \/ Flush(t, x("commit", {[doc |-> d, kind |-> r, maker |-> NoSupplier, parsed |-> ok]}))
    BY DEF Ingest
  <2> HIDE DEF x
  <2> QED BY <2>1
<1>3. PICK p \in {"place", "commit"} :
        \E m, ok : Flush(t, x(p, {[doc |-> d, kind |-> r, maker |-> m, parsed |-> ok]}))
  BY <1>2
<1>4. PICK m, ok : Flush(t, x(p, {[doc |-> d, kind |-> r, maker |-> m, parsed |-> ok]}))
  BY <1>3
<1> DEFINE w == {[doc |-> d, kind |-> r, maker |-> m, parsed |-> ok]}
<1>5. /\ \A z \in w : z.doc = d /\ z.kind = r
      /\ \A z, v \in w : z = v
  OBVIOUS
<1>6. Flush(t, x(p, w))
  BY <1>4
<1> HIDE DEF w
<1>7. LET y == x(p, w) IN
      /\ Shaped(y) /\ y.pc = p /\ y.then = "commit" /\ y.row = w /\ y.opens = {} /\ y.del = {}
      /\ y.ins = {} /\ y.prim = {} /\ y.sup = {} /\ y.todo = {} /\ y.found = {}
  BY IdleFields DEF Shaped, Fields
<1> HIDE DEF x
<1>8. FitRow(x(p, w))
  BY <1>5, <1>7 DEF FitRow
<1>9. LinksOf(links, d) = {}
  BY <1>1 DEF LinksOf, OneByOne, RowsFit, Linked
<1>10. FitStage(x(p, w))
  BY <1>5, <1>7, <1>9 DEF FitStage, After
<1>11. Fitted(x(p, w))
  BY <1>1, <1>5, <1>7, <1>8, <1>10, LeavesAlone DEF OneByOne
<1> QED BY <1>1, <1>6, <1>7, <1>11, OrderedFlush DEF OneByOne

LEMMA ArchiveOrdered ==
  ASSUME IInv, OneByOne, serial, NEW t \in Txns, NEW d \in Docs, Archive(t, d)
  PROVE  OneByOne'
<1> DEFINE on == {l.chain : l \in LinksOf(links, d)}
           y == [Idle EXCEPT !.pc = "analyse", !.archive = {d}, !.todo = on]
<1>1. UNCHANGED rows /\ Others(t) /\ tx' = [tx EXCEPT ![t] = y]
  BY BeginsAlone DEF Archive
<1>2. on \subseteq chains
  BY DEF OneByOne, RowsFit, Linked, LinksOf
<1> HIDE DEF on
<1>3. /\ y.pc = "analyse" /\ y.then = "commit" /\ y.row = {} /\ y.opens = {} /\ y.del = {}
      /\ y.ins = {} /\ y.prim = {} /\ y.sup = {} /\ y.todo = on /\ y.found = {}
  BY IdleFields DEF Shaped, Fields
<1> HIDE DEF y
<1>4. Fits(y)
  BY <1>2, <1>3, LeavesAlone DEF OneByOne, FitRow, FitStage, Fits
<1> QED BY <1>1, <1>4, OrderedAdvance DEF OneByOne

LEMMA ReanalyseOrdered ==
  ASSUME IInv, OneByOne, serial, NEW t \in Txns, NEW cs \in SUBSET chains, Reanalyse(t, cs)
  PROVE  OneByOne'
<1> DEFINE y == [Idle EXCEPT !.pc = "analyse", !.todo = cs]
<1>1. UNCHANGED rows /\ Others(t) /\ tx' = [tx EXCEPT ![t] = y]
  BY BeginsAlone DEF Reanalyse
<1>2. /\ y.pc = "analyse" /\ y.then = "commit" /\ y.row = {} /\ y.opens = {} /\ y.del = {}
      /\ y.ins = {} /\ y.prim = {} /\ y.sup = {} /\ y.todo = cs /\ y.found = {}
  BY IdleFields DEF Shaped, Fields
<1> HIDE DEF y
<1>3. Fits(y)
  BY <1>2, LeavesAlone DEF OneByOne, FitRow, FitStage, Fits
<1> QED BY <1>1, <1>3, OrderedAdvance DEF OneByOne

LEMMA RollbackOrdered ==
  ASSUME IInv, OneByOne, NEW t \in Txns, Rollback(t)
  PROVE  OneByOne'
BY ContinuesAlone, IdleFits, OrderedAdvance DEF Rollback, OneByOne

(* The primary that is chosen when links are deleted is one of the rest.    *)
LEMMA RepairIsRight ==
  ASSUME RowsFit, NEW gone \in SUBSET links, \A l, m \in gone : l = m, NEW repair \in Repairs(gone)
  PROVE  \A c \in chains, r \in Roles : \A d :
           (IF \E p \in repair : p.chain = c /\ p.role = r
            THEN \E p \in repair : p.chain = c /\ p.role = r /\ d = p.doc
            ELSE d = primary[c][r]) => Right(links \ gone, c, r, d)
<1> DEFINE orphaned == {l \in gone : primary[l.chain][l.role] = l.doc}
<1>1. CASE orphaned = {}
  <2>1. repair = {}
    BY <1>1 DEF Repairs
  <2>2. ASSUME NEW c \in chains, NEW r \in Roles PROVE Right(links \ gone, c, r, primary[c][r])
    <3>1. CASE Members(links, c, r) = {}
      BY <3>1 DEF RowsFit, PrimaryLinked, Right, Members
    <3>2. CASE Members(links, c, r) # {}
      <4>1. PICK m \in links : m.chain = c /\ m.role = r /\ m.doc = primary[c][r]
        BY <3>2 DEF RowsFit, PrimaryLinked, Members
      <4>2. m \notin gone
        BY <1>1, <4>1
      <4> QED BY <4>1, <4>2 DEF Right, Members
    <3> QED BY <3>1, <3>2
  <2> QED BY <2>1, <2>2
<1>2. CASE orphaned # {}
  <2>1. PICK l \in orphaned : \E e \in Replacements(links \ gone, l.chain, l.role) :
                                repair = {[chain |-> l.chain, role |-> l.role, doc |-> e]}
    BY <1>2 DEF Repairs
  <2>2. PICK e \in Replacements(links \ gone, l.chain, l.role) :
               repair = {[chain |-> l.chain, role |-> l.role, doc |-> e]}
    BY <2>1
  <2>3. gone = {l}
    BY <2>1
  <2>4. \A p \in repair : p.chain = l.chain /\ p.role = l.role /\ p.doc = e
    BY <2>2
  <2>5. \E p \in repair : p.chain = l.chain /\ p.role = l.role /\ p.doc = e
    BY <2>2
  <2>6. Right(links \ gone, l.chain, l.role, e)
    BY <2>2 DEF Replacements, Lowest, Right, Members
  <2>7. ASSUME NEW c \in chains, NEW r \in Roles, c # l.chain \/ r # l.role
        PROVE  Right(links \ gone, c, r, primary[c][r])
    <3>1. Members(links \ gone, c, r) = Members(links, c, r)
      BY <2>3, <2>7 DEF Members
    <3> QED BY <3>1 DEF RowsFit, PrimaryLinked, Right
  <2> HIDE DEF orphaned
  <2>8. ASSUME NEW c \in chains, NEW r \in Roles, NEW d,
               IF \E p \in repair : p.chain = c /\ p.role = r
               THEN \E p \in repair : p.chain = c /\ p.role = r /\ d = p.doc
               ELSE d = primary[c][r]
        PROVE  Right(links \ gone, c, r, d)
    <3>1. CASE c = l.chain /\ r = l.role
      BY <2>4, <2>5, <2>6, <2>8, <3>1
    <3>2. CASE c # l.chain \/ r # l.role
      BY <2>4, <2>7, <2>8, <3>2
    <3> QED BY <3>1, <3>2
  <2> QED BY <2>3, <2>4, <2>8
<1> QED BY <1>1, <1>2

LEMMA RepairsAreOfGone ==
  ASSUME NEW gone \in SUBSET links, NEW repair \in Repairs(gone)
  PROVE  \A p \in repair : \E l \in gone : p.chain = l.chain /\ p.role = l.role
<1> DEFINE orphaned == {l \in gone : primary[l.chain][l.role] = l.doc}
<1>1. CASE orphaned = {}
  BY <1>1 DEF Repairs
<1>2. CASE orphaned # {}
  <2>1. PICK l \in orphaned : \E e \in Replacements(links \ gone, l.chain, l.role) :
                                repair = {[chain |-> l.chain, role |-> l.role, doc |-> e]}
    BY <1>2 DEF Repairs
  <2> QED BY <2>1
<1> QED BY <1>1, <1>2

(* So a record that deletes the link of a document fits.                    *)
LEMMA DeletionFits ==
  ASSUME RowsFit, NEW gone \in SUBSET links, \A l, m \in gone : l = m,
         NEW y, FitRow(y), FitStage(y), y.opens = {}, y.del = gone, y.ins = {},
         y.prim \in Repairs(gone), y.sup = {}, y.todo = {l.chain : l \in gone}, y.found = {},
         \A x \in y.row : \A l \in links \ gone : l.doc # x.doc
  PROVE  Fitted(y)
<1>1. After(y) = links \ gone
  BY DEF After
<1>2. FitLinks(y)
  <2>1. \A p \in y.prim : p.chain \in chains /\ p.role \in Roles
    <3>1. \A p \in y.prim : \E l \in gone : p.chain = l.chain /\ p.role = l.role
      BY RepairsAreOfGone
    <3> QED BY <3>1 DEF RowsFit, Linked
  <2>2. \A l \in links \ gone : /\ l.doc \in Existing /\ l.doc \in Docs
                                /\ l.role \in Roles /\ l.chain \in chains
    BY DEF RowsFit, Linked, Existing
  <2>3. y.todo \subseteq chains
    BY DEF RowsFit, Linked
  <2> QED BY <1>1, <2>1, <2>2, <2>3 DEF FitLinks
<1>3. FitPrimary(y)
  <2>1. ASSUME NEW c \in chains, NEW r \in Roles, NEW d, PrimaryIs(y, c, r, d)
        PROVE  Right(links \ gone, c, r, d)
    BY <2>1, RepairIsRight DEF PrimaryIs
  <2> QED BY <1>1, <2>1 DEF FitPrimary
<1>4. FitSupplier(y)
  BY <1>1 DEF FitSupplier, MakerIs, SupplierIs, RowsFit, MakersFit
<1>5. FitFindings(y)
  <2>1. ASSUME NEW c \in chains, c \notin y.todo
        PROVE  assessed[c] \subseteq OfChain(links \ gone, c)
    <3>1. OfChain(links \ gone, c) = OfChain(links, c)
      BY <2>1 DEF OfChain
    <3> QED BY <3>1 DEF RowsFit, AssessesOwn, OfChain
  <2> QED BY <1>1, <2>1 DEF FitFindings
<1> QED BY <1>2, <1>3, <1>4, <1>5 DEF Fitted

LEMMA ReprocessOrdered ==
  ASSUME IInv, OneByOne, serial, NEW t \in Txns, NEW d \in Docs, NEW r \in Roles, NEW s \in Sources,
         Reprocess(t, d, r, s)
  PROVE  OneByOne'
<1> DEFINE gone == LinksOf(links, d)
           row(ok) == {[doc |-> d, kind |-> r, maker |-> s, parsed |-> ok]}
           on == {l.chain : l \in gone}
           x(ok, repair) == [Idle EXCEPT !.pc = "analyse", !.then = "place", !.row = row(ok),
                                         !.del = gone, !.prim = repair, !.todo = on]
<1>1. UNCHANGED rows /\ Others(t)
  BY BeginsAlone DEF Reprocess
<1>2. PICK repair \in Repairs(gone), ok \in BOOLEAN : Flush(t, x(ok, repair))
  BY DEF Reprocess
<1>3. \A z \in row(ok) : z.doc = d /\ z.kind = r
  OBVIOUS
<1>4. \A z, w \in row(ok) : z = w
  OBVIOUS
<1>5. gone \in SUBSET links /\ (\A l, m \in gone : l = m) /\ \A l \in links \ gone : l.doc # d
  BY DEF LinksOf, IInv, OneLink
<1> HIDE DEF row, gone, on
<1>6. LET y == x(ok, repair) IN
      /\ Shaped(y) /\ y.pc = "analyse" /\ y.then = "place" /\ y.row = row(ok) /\ y.opens = {}
      /\ y.del = gone /\ y.ins = {} /\ y.prim = repair /\ y.sup = {} /\ y.todo = on
      /\ y.found = {}
  BY IdleFields DEF Shaped, Fields
<1> HIDE DEF x
<1>7. FitRow(x(ok, repair))
  BY <1>3, <1>4, <1>6 DEF FitRow
<1>8. FitStage(x(ok, repair))
  BY <1>3, <1>5, <1>6 DEF FitStage, After, LinksOf
<1>9. Fitted(x(ok, repair))
  <2>1. x(ok, repair).todo = {l.chain : l \in gone}
    BY <1>6 DEF on
  <2> QED BY <1>3, <1>5, <1>6, <1>7, <1>8, <2>1, DeletionFits DEF OneByOne
<1> QED BY <1>1, <1>2, <1>6, <1>9, OrderedFlush DEF OneByOne

LEMMA DetachOrdered ==
  ASSUME IInv, OneByOne, serial, NEW t \in Txns, NEW l \in links, Detach(t, l)
  PROVE  OneByOne'
<1> DEFINE y(repair) == [Idle EXCEPT !.pc = "analyse", !.flushed = TRUE, !.del = {l},
                                     !.prim = repair, !.todo = {l.chain}]
<1>1. UNCHANGED rows /\ Others(t)
  BY BeginsAlone DEF Detach
<1>2. PICK repair \in Repairs({l}) : tx' = [tx EXCEPT ![t] = y(repair)]
  BY DEF Detach
<1>3. LET z == y(repair) IN
      /\ z.pc = "analyse" /\ z.then = "commit" /\ z.row = {} /\ z.opens = {} /\ z.flushed
      /\ z.del = {l} /\ z.ins = {} /\ z.prim = repair /\ z.sup = {} /\ z.todo = {l.chain}
      /\ z.found = {}
  BY IdleFields DEF Shaped, Fields
<1> HIDE DEF y
<1>4. FitRow(y(repair)) /\ FitStage(y(repair))
  BY <1>3 DEF FitRow, FitStage
<1>5. {l.chain} = {k.chain : k \in {l}}
  OBVIOUS
<1>6. PICK gone \in SUBSET links : gone = {l}
  OBVIOUS
<1>7. Fitted(y(repair))
  BY <1>2, <1>3, <1>4, <1>5, <1>6, DeletionFits DEF OneByOne
<1>8. Fits(y(repair))
  BY <1>3, <1>7 DEF Fits
<1> QED BY <1>1, <1>2, <1>8, OrderedAdvance DEF OneByOne

LEMMA AttachOrdered ==
  ASSUME IInv, OneByOne, serial, NEW t \in Txns, NEW c \in Chains, NEW d \in Docs, Attach(t, c, d)
  PROVE  OneByOne'
<1> DEFINE new == IF LinksOf(links, d) = {} THEN {NewLink(t, d, c, kind[d])} ELSE {}
           prim == {[chain |-> c, role |-> l.role, doc |-> d] :
                      l \in {m \in new : primary[c][m.role] = NoDoc}}
           sup == IF supplier[c] = maker[d] THEN {} ELSE {[chain |-> c, supplier |-> maker[d]]}
           y == [Idle EXCEPT !.pc = "analyse", !.ins = new, !.todo = {c}, !.prim = prim,
                  !.sup = sup]
<1>1. UNCHANGED rows /\ Others(t) /\ tx' = [tx EXCEPT ![t] = y]
  BY BeginsAlone DEF Attach
<1>2. c \in chains /\ d \in Existing /\ SupplierFits(c, d) /\ kind[d] \in Roles
  BY DEF Attach, OneByOne, RowsFit, Linked
<1>3. \A n \in new : n.doc = d /\ n.chain = c /\ n.role = kind[d]
  BY DEF NewLink
<1> HIDE DEF new
<1>4. /\ \A p \in prim : /\ p.chain = c /\ p.role = kind[d] /\ p.doc = d
                         /\ primary[c][kind[d]] = NoDoc /\ new # {}
      /\ new # {} /\ primary[c][kind[d]] = NoDoc => prim # {}
  <2>1. ASSUME NEW p \in prim
        PROVE  /\ p.chain = c /\ p.role = kind[d] /\ p.doc = d
               /\ primary[c][kind[d]] = NoDoc /\ new # {}
    <3>1. PICK l \in new :
            primary[c][l.role] = NoDoc /\ p = [chain |-> c, role |-> l.role, doc |-> d]
      OBVIOUS
    <3> QED BY <1>3, <3>1
  <2>2. ASSUME NEW n \in new, primary[c][kind[d]] = NoDoc PROVE prim # {}
    <3>1. n \in {m \in new : primary[c][m.role] = NoDoc}
      BY <1>3, <2>2
    <3>2. [chain |-> c, role |-> n.role, doc |-> d] \in prim
      BY <3>1
    <3> QED BY <3>2
  <2> QED BY <2>1, <2>2
<1>5. \A z \in sup : z.chain = c /\ z.supplier = maker[d]
  OBVIOUS
<1>6. sup = {} => supplier[c] = maker[d]
  OBVIOUS
<1> HIDE DEF prim, sup
<1>7. /\ y.pc = "analyse" /\ y.then = "commit" /\ y.row = {} /\ y.opens = {}
      /\ y.del = {} /\ y.ins = new /\ y.prim = prim /\ y.sup = sup /\ y.todo = {c}
      /\ y.found = {}
  BY IdleFields DEF Shaped, Fields
<1> HIDE DEF y
<1>8. After(y) = links \cup new
  BY <1>7 DEF After
<1>9. FitRow(y) /\ FitStage(y)
  BY <1>7 DEF FitRow, FitStage
<1>10. FitLinks(y)
  <2>1. y.opens \subseteq Chains \ chains /\ y.todo \subseteq chains \cup y.opens
    BY <1>2, <1>7
  <2>2. \A p \in y.prim : p.chain \in chains \cup y.opens /\ p.role \in Roles
    BY <1>2, <1>4, <1>7
  <2>3. \A l \in After(y) : /\ l.doc \in Docs /\ l.role \in Roles /\ l.chain \in chains \cup y.opens
                            /\ l.doc \in Existing
    BY <1>2, <1>3, <1>8 DEF OneByOne, RowsFit, Linked, Existing
  <2> QED BY <1>7, <2>1, <2>2, <2>3 DEF FitLinks
<1>11. FitPrimary(y)
  <2> SUFFICES ASSUME NEW k \in chains, NEW r \in Roles, NEW e, PrimaryIs(y, k, r, e)
               PROVE  Right(links \cup new, k, r, e)
    BY <1>7, <1>8 DEF FitPrimary
  <2>1. IF Members(links, k, r) = {} THEN primary[k][r] = NoDoc
        ELSE primary[k][r] \in Members(links, k, r)
    BY DEF OneByOne, RowsFit, PrimaryLinked
  <2>2. CASE prim # {} /\ k = c /\ r = kind[d]
    <3>1. e = d /\ new # {}
      BY <1>4, <1>7, <2>2 DEF PrimaryIs
    <3>2. d \in Members(links \cup new, k, r)
      BY <1>3, <2>2, <3>1 DEF Members
    <3> QED BY <3>1, <3>2 DEF Right
  <2>3. CASE ~(prim # {} /\ k = c /\ r = kind[d])
    <3>1. e = primary[k][r]
      BY <1>4, <1>7, <2>3 DEF PrimaryIs
    <3>2. CASE Members(links, k, r) # {}
      BY <2>1, <3>1, <3>2 DEF Right, Members
    <3>3. CASE Members(links, k, r) = {}
      <4>1. e = NoDoc
        BY <2>1, <3>1, <3>3
      <4>2. \A n \in new : n.chain # k \/ n.role # r
        BY <1>3, <1>4, <2>3, <3>1, <4>1
      <4>3. Members(links \cup new, k, r) = {}
        BY <3>3, <4>2 DEF Members
      <4> QED BY <4>1, <4>3 DEF Right
    <3> QED BY <3>2, <3>3
  <2> QED BY <2>2, <2>3
<1>12. FitSupplier(y)
  <2> SUFFICES ASSUME NEW l \in links \cup new, NEW m, NEW s,
                      MakerIs(y, l.doc, m), SupplierIs(y, l.chain, s)
               PROVE  m \in {s, NoSupplier}
    BY <1>8 DEF FitSupplier
  <2>1. m = maker[l.doc]
    BY <1>7 DEF MakerIs
  <2>2. l.chain = c => s = maker[d]
    BY <1>5, <1>6, <1>7 DEF SupplierIs
  <2>3. l.chain # c => s = supplier[l.chain]
    BY <1>5, <1>7 DEF SupplierIs
  <2>4. CASE l \in new
    BY <1>3, <2>1, <2>2, <2>4
  <2>5. CASE l \in links
    <3>1. maker[l.doc] \in {supplier[l.chain], NoSupplier}
      BY <2>5 DEF OneByOne, RowsFit, MakersFit
    <3> QED BY <1>2, <2>1, <2>2, <2>3, <3>1 DEF SupplierFits
  <2> QED BY <2>4, <2>5
<1>13. FitFindings(y)
  BY <1>7, <1>8 DEF FitFindings, OneByOne, RowsFit, AssessesOwn, OfChain
<1>14. Fits(y)
  BY <1>7, <1>9, <1>10, <1>11, <1>12, <1>13 DEF Fits, Fitted
<1> QED BY <1>1, <1>14, OrderedAdvance DEF OneByOne

(* What an analysis considers is of its chain as the transaction leaves it. *)
LEMMA PrimaryIsSet ==
  ASSUME NEW t, NEW c, NEW r
  PROVE  PrimaryIs(tx[t], c, r, Primary(t, c, r))
BY DEF PrimaryIs, Primary

LEMMA SeenIsAfter ==
  ASSUME NEW t, Fits(tx[t])
  PROVE  Seen(t) \subseteq After(tx[t])
BY DEF Seen, After, Fits

LEMMA ConsideredIsOfChain ==
  ASSUME NEW t, Fits(tx[t]), NEW c \in chains \cup tx[t].opens
  PROVE  Considered(t, c) \subseteq OfChain(After(tx[t]), c)
<1> SUFFICES ASSUME NEW d \in Considered(t, c) PROVE d \in OfChain(After(tx[t]), c)
  OBVIOUS
<1>1. PICK r \in Roles : d \in IF Members(Seen(t), c, r) # {} THEN Members(Seen(t), c, r)
                               ELSE {Primary(t, c, r)} \ {NoDoc}
  BY DEF Considered
<1>2. \A ls, m : m \in Members(ls, c, r) => \E l \in ls : l.chain = c /\ l.doc = m
  BY DEF Members
<1>3. CASE Members(Seen(t), c, r) # {}
  <2>1. PICK l \in Seen(t) : l.chain = c /\ l.doc = d
    BY <1>1, <1>2, <1>3
  <2> QED BY <2>1, SeenIsAfter DEF OfChain
<1>4. CASE Members(Seen(t), c, r) = {}
  <2>1. d = Primary(t, c, r) /\ d # NoDoc
    BY <1>1, <1>4
  <2>2. Right(After(tx[t]), c, r, d)
    BY <2>1, PrimaryIsSet DEF Fits, Fitted, FitPrimary
  <2>3. d \in Members(After(tx[t]), c, r)
    BY <2>1, <2>2 DEF Right
  <2> QED BY <2>3, <1>2 DEF OfChain
<1> QED BY <1>3, <1>4

LEMMA AnalyseOrdered ==
  ASSUME IInv, OneByOne, NEW t \in Txns, Analyse(t)
  PROVE  OneByOne'
<1> DEFINE o == tx[t]
           new == {[chain |-> c, docs |-> Considered(t, c)] : c \in o.todo}
           found == {f \in o.found : f.chain \notin o.todo} \cup new
           y == [o EXCEPT !.pc = o.then, !.then = "commit", !.todo = {}, !.found = found]
<1>1. UNCHANGED rows /\ o.pc = "analyse" /\ Shaped(o) /\ Fits(o)
  BY DEF Analyse, OneByOne, IInv, Shape
<1>2. Others(t)
  BY <1>1, ContinuesAlone DEF OneByOne
<1>3. Flush(t, y)
  BY DEF Analyse
<1>4. /\ \A f \in new : f.chain \in o.todo /\ f.docs = Considered(t, f.chain)
      /\ \A c \in o.todo : \E f \in new : f.chain = c
  <2>1. ASSUME NEW c \in o.todo PROVE \E f \in new : f.chain = c
    <3>1. [chain |-> c, docs |-> Considered(t, c)] \in new
      OBVIOUS
    <3> QED BY <3>1
  <2>2. ASSUME NEW f \in new PROVE f.chain \in o.todo /\ f.docs = Considered(t, f.chain)
    OBVIOUS
  <2> QED BY <2>1, <2>2
<1> HIDE DEF new
<1>5. /\ \A f \in found : (f \in o.found /\ f.chain \notin o.todo) \/ f \in new
      /\ \A f \in o.found : f.chain \notin o.todo => f \in found
      /\ \A f \in new : f \in found
  OBVIOUS
<1> HIDE DEF found
<1>6. /\ Shaped(y) /\ y.pc = o.then /\ y.then = "commit" /\ y.row = o.row /\ y.opens = o.opens
      /\ y.del = o.del /\ y.ins = o.ins /\ y.prim = o.prim /\ y.sup = o.sup /\ y.todo = {}
      /\ y.found = found
  BY <1>1 DEF Shaped, Fields
<1> HIDE DEF y, o
<1>7. After(y) = After(o)
  BY <1>6 DEF After
<1>8. FitRow(y)
  BY <1>1, <1>6 DEF FitRow, Fits, Fitted
<1>9. FitLinks(y)
  BY <1>1, <1>4, <1>5, <1>6, <1>7 DEF FitLinks, Fits, Fitted
<1>10. FitPrimary(y)
  BY <1>1, <1>6, <1>7 DEF FitPrimary, PrimaryIs, Fits, Fitted
<1>11. FitSupplier(y)
  <2>1. ASSUME NEW d, NEW m, MakerIs(y, d, m) PROVE MakerIs(o, d, m)
    BY <1>6, <2>1 DEF MakerIs
  <2>2. ASSUME NEW c, NEW s, SupplierIs(y, c, s) PROVE SupplierIs(o, c, s)
    BY <1>6, <2>2 DEF SupplierIs
  <2> QED BY <1>1, <1>7, <2>1, <2>2 DEF Fits, Fitted, FitSupplier
<1>12. FitFindings(y)
  <2> SUFFICES ASSUME NEW c \in chains \cup o.opens
               PROVE  IF \E f \in found : f.chain = c
                      THEN \A f \in found : f.chain = c => f.docs \subseteq OfChain(After(o), c)
                      ELSE assessed[c] \subseteq OfChain(After(o), c)
    BY <1>6, <1>7 DEF FitFindings
  <2>1. CASE c \in o.todo
    <3>1. Considered(t, c) \subseteq OfChain(After(o), c)
      BY <1>1, ConsideredIsOfChain DEF o
    <3>2. \A f \in found : f.chain = c => f.docs = Considered(t, c)
      BY <1>4, <1>5, <2>1
    <3>3. \E f \in found : f.chain = c
      BY <1>4, <1>5, <2>1
    <3> QED BY <3>1, <3>2, <3>3
  <2>2. CASE c \notin o.todo
    <3>1. \A f \in found : f.chain = c => f \in o.found
      BY <1>4, <1>5, <2>2
    <3>2. \A f \in o.found : f.chain = c => f \in found
      BY <1>5, <2>2
    <3>3. IF \E f \in o.found : f.chain = c
          THEN \A f \in o.found : f.chain = c => f.docs \subseteq OfChain(After(o), c)
          ELSE assessed[c] \subseteq OfChain(After(o), c)
      BY <1>1, <2>2 DEF Fits, Fitted, FitFindings
    <3> QED BY <3>1, <3>2, <3>3
  <2> QED BY <2>1, <2>2
<1>13. FitStage(y)
  BY <1>1, <1>6, <1>7 DEF FitStage, Fits, Fitted
<1> QED BY <1>1, <1>2, <1>3, <1>6, <1>8, <1>9, <1>10, <1>11, <1>12, <1>13, OrderedFlush
        DEF OneByOne, Fitted

(* Placed, the document is in a chain that is new or of its supplier.       *)
LEMMA PlaceOrdered ==
  ASSUME IInv, OneByOne, NEW t \in Txns, Place(t)
  PROVE  OneByOne'
<1> DEFINE o == tx[t]
<1>1. UNCHANGED rows /\ o.pc = "place" /\ o.flushed /\ Shaped(o) /\ Fits(o)
  BY DEF Place, OneByOne, IInv, Shape, Flushed
<1>2. Others(t)
  BY <1>1, ContinuesAlone DEF OneByOne
<1>3. /\ o.ins = {} /\ o.sup = {} /\ o.opens = {} /\ o.todo = {} /\ o.then = "commit"
      /\ \A x \in o.row : LinksOf(After(o), x.doc) = {}
  BY <1>1 DEF Fits, Fitted, FitStage
<1>4. Seen(t) = After(o)
  BY <1>1 DEF Seen, After
<1>5. PICK x \in o.row : \E c \in Candidates(t, x.maker) \cup (Chains \ chains) : PlaceIn(t, x, c)
  BY DEF Place
<1>6. PICK c \in Candidates(t, x.maker) \cup (Chains \ chains) : PlaceIn(t, x, c)
  BY <1>5
<1>7. c \in Chains /\ (c \in chains => c \in Candidates(t, x.maker))
  BY DEF Candidates, OneByOne, RowsFit, Linked
<1>8. x.doc \in Docs /\ x.kind \in Roles /\ \A z \in o.row : z = x
  BY <1>1 DEF Fits, Fitted, FitRow
<1> DEFINE n == NewLink(t, x.doc, c, x.kind)
           fill == IF Primary(t, c, x.kind) = NoDoc
                   THEN {[chain |-> c, role |-> x.kind, doc |-> x.doc]} ELSE {}
           prim == {p \in o.prim : \A q \in fill : p.chain # q.chain \/ p.role # q.role} \cup fill
           opens == {c} \ chains
           sup == IF c \in chains THEN {} ELSE {[chain |-> c, supplier |-> x.maker]}
           y == [o EXCEPT !.pc = "analyse", !.ins = {n}, !.prim = prim, !.todo = {c},
                          !.opens = opens, !.sup = sup]
<1>9. Flush(t, y)
  <2>1. ~ \E l \in LinksOf(Seen(t), x.doc) : l.chain = c
    BY <1>3, <1>4
  <2> QED BY <1>6, <2>1 DEF PlaceIn
<1>10. n.doc = x.doc /\ n.chain = c /\ n.role = x.kind
  BY DEF NewLink
<1>11. /\ \A p \in fill : p.chain = c /\ p.role = x.kind /\ p.doc = x.doc
       /\ fill = {} => Primary(t, c, x.kind) # NoDoc
  <2> HIDE DEF n, prim, opens, sup
  <2>1. ASSUME fill = {} PROVE Primary(t, c, x.kind) # NoDoc
    <3>1. ~([chain |-> c, role |-> x.kind, doc |-> x.doc] \in fill)
      BY <2>1
    <3> QED BY <3>1
  <2>2. ASSUME NEW p \in fill PROVE p.chain = c /\ p.role = x.kind /\ p.doc = x.doc
    <3>1. p = [chain |-> c, role |-> x.kind, doc |-> x.doc]
      OBVIOUS
    <3> QED BY <3>1
  <2> QED BY <2>1, <2>2
<1>12. /\ c \in chains => sup = {}
       /\ c \notin chains =>
            (\E z \in sup : z.chain = c) /\ \A z \in sup : z.chain = c /\ z.supplier = x.maker
  <2> HIDE DEF n, prim, opens, fill
  <2>1. CASE c \in chains
    BY <2>1
  <2>2. CASE c \notin chains
    <3>1. sup = {[chain |-> c, supplier |-> x.maker]}
      BY <2>2
    <3>2. [chain |-> c, supplier |-> x.maker] \in sup
      BY <3>1
    <3>3. \A z \in sup : z.chain = c /\ z.supplier = x.maker
      BY <3>1
    <3> HIDE DEF sup
    <3> QED BY <2>2, <3>2, <3>3
  <2> QED BY <2>1, <2>2
<1> HIDE DEF n, fill, sup
<1>13. /\ Shaped(y) /\ y.pc = "analyse" /\ y.then = o.then /\ y.row = o.row /\ y.opens = opens
       /\ y.del = o.del /\ y.ins = {n} /\ y.prim = prim /\ y.sup = sup /\ y.todo = {c}
       /\ y.found = o.found
  BY <1>1 DEF Shaped, Fields
<1> HIDE DEF y, o
<1>14. After(y) = After(o) \cup {n}
  BY <1>3, <1>13 DEF After
<1>15. \A l \in After(o) : l.chain \in chains
  BY <1>1, <1>3 DEF Fits, Fitted, FitLinks
<1>16. FitRow(y)
  BY <1>1, <1>13 DEF FitRow, Fits, Fitted
<1>17. FitLinks(y)
  <2>1. y.opens \subseteq Chains \ chains /\ y.todo \subseteq chains \cup y.opens
    BY <1>7, <1>13
  <2>2. \A p \in y.prim : p.chain \in chains \cup y.opens /\ p.role \in Roles
    <3>1. \A p \in o.prim : p.chain \in chains /\ p.role \in Roles
      BY <1>1, <1>3 DEF Fits, Fitted, FitLinks
    <3> QED BY <1>8, <1>11, <1>13, <3>1
  <2>3. \A f \in y.found : f.chain \in chains \cup y.opens
    BY <1>1, <1>3, <1>13 DEF Fits, Fitted, FitLinks
  <2>4. ASSUME NEW l \in After(y)
        PROVE  /\ l.doc \in Docs /\ l.role \in Roles /\ l.chain \in chains \cup y.opens
               /\ l.doc \in Existing \/ \E z \in y.row : z.doc = l.doc
    <3>1. CASE l = n
      BY <1>7, <1>8, <1>10, <1>13, <3>1
    <3>2. CASE l \in After(o)
      BY <1>1, <1>3, <1>13, <3>2 DEF Fits, Fitted, FitLinks
    <3> QED BY <1>14, <3>1, <3>2
  <2> QED BY <2>1, <2>2, <2>3, <2>4 DEF FitLinks
<1>18. FitPrimary(y)
  <2> SUFFICES ASSUME NEW k \in chains \cup opens, NEW r \in Roles, NEW e, PrimaryIs(y, k, r, e)
               PROVE  Right(After(o) \cup {n}, k, r, e)
    <3> HIDE DEF prim, opens
    <3> QED BY SMTT(40), <1>13, <1>14 DEF FitPrimary
  <2>1. \A d : PrimaryIs(o, k, r, d) =>
          /\ k \in chains => Right(After(o), k, r, d)
          /\ k \notin chains => d = NoDoc /\ Members(After(o), k, r) = {}
    <3>1. k \in chains => \A d : PrimaryIs(o, k, r, d) => Right(After(o), k, r, d)
      BY <1>1 DEF Fits, Fitted, FitPrimary
    <3>2. ASSUME k \notin chains, NEW d, PrimaryIs(o, k, r, d) PROVE d = NoDoc
      <4>1. \A p \in o.prim : p.chain # k
        BY <1>1, <1>3, <3>2 DEF Fits, Fitted, FitLinks
      <4>2. primary[k][r] = NoDoc
        BY <1>7, <3>2 DEF OneByOne, RowsFit, Unopened
      <4> QED BY <3>2, <4>1, <4>2 DEF PrimaryIs
    <3>3. k \notin chains => Members(After(o), k, r) = {}
      BY <1>15 DEF Members
    <3> QED BY <3>1, <3>2, <3>3
  <2>2. CASE k = c /\ r = x.kind /\ fill # {}
    <3>1. e = x.doc
      BY <1>11, <1>13, <2>2 DEF PrimaryIs
    <3>2. e \in Members(After(o) \cup {n}, k, r)
      BY <1>10, <2>2, <3>1 DEF Members
    <3> QED BY <3>2 DEF Right
  <2>3. CASE ~(k = c /\ r = x.kind /\ fill # {})
    <3>1. PrimaryIs(o, k, r, e)
      <4>1. \A p : p.chain = k /\ p.role = r => (p \in prim <=> p \in o.prim)
        BY <1>11, <2>3
      <4>2. PrimaryIs(y, k, r, e) <=> PrimaryIs(o, k, r, e)
        BY <1>13, <4>1 DEF PrimaryIs
      <4> QED BY <4>2
    <3>2. CASE k = c /\ r = x.kind
      <4>1. Primary(t, k, r) # NoDoc
        BY <1>11, <2>3, <3>2
      <4>2. PrimaryIs(o, k, r, Primary(t, k, r))
        BY PrimaryIsSet DEF o
      <4>3. e \in Members(After(o), k, r)
        BY <2>1, <3>1, <4>1, <4>2 DEF Right
      <4> QED BY <4>3 DEF Members, Right
    <3>3. CASE ~(k = c /\ r = x.kind)
      <4>1. Members(After(o) \cup {n}, k, r) = Members(After(o), k, r)
        BY <1>10, <3>3 DEF Members
      <4> QED BY <2>1, <3>1, <4>1 DEF Right
    <3> QED BY <3>2, <3>3
  <2> QED BY <2>2, <2>3
<1>19. FitSupplier(y)
  <2> SUFFICES ASSUME NEW l \in After(o) \cup {n}, NEW m, NEW s,
                      MakerIs(y, l.doc, m), SupplierIs(y, l.chain, s)
               PROVE  m \in {s, NoSupplier}
    BY <1>14 DEF FitSupplier
  <2>1. MakerIs(o, l.doc, m)
    BY <1>13 DEF MakerIs
  <2>2. l.chain \in chains => s = supplier[l.chain]
    BY <1>12, <1>13 DEF SupplierIs
  <2>3. \A z : SupplierIs(o, z, supplier[z])
    BY <1>3 DEF SupplierIs
  <2>4. CASE l \in After(o)
    BY <1>1, <1>15, <2>1, <2>2, <2>3, <2>4 DEF Fits, Fitted, FitSupplier
  <2>5. CASE l = n
    <3>1. m = x.maker
      BY <1>8, <1>10, <2>1, <2>5 DEF MakerIs
    <3>2. CASE c \notin chains
      BY <1>10, <1>12, <1>13, <2>5, <3>1, <3>2 DEF SupplierIs
    <3>3. CASE supplier[c] = x.maker
      BY <1>10, <1>12, <1>13, <2>2, <2>5, <3>1, <3>2, <3>3
    <3>4. CASE c \in chains /\ \E j \in Seen(t) : j.chain = c /\ maker[j.doc] = x.maker
      <4>1. PICK j \in After(o) : j.chain = c /\ maker[j.doc] = x.maker
        BY <1>4, <3>4
      <4>2. MakerIs(o, j.doc, maker[j.doc])
        BY <1>3 DEF MakerIs, LinksOf
      <4>3. x.maker \in {supplier[c], NoSupplier}
        BY <1>1, <2>3, <4>1, <4>2 DEF Fits, Fitted, FitSupplier
      <4> QED BY <1>10, <2>2, <2>5, <3>1, <3>4, <4>3
    <3> QED BY <1>7, <3>2, <3>3, <3>4 DEF Candidates
  <2> QED BY <2>4, <2>5
<1>20. FitFindings(y)
  <2> SUFFICES ASSUME NEW k \in chains, k # c
               PROVE  IF \E f \in o.found : f.chain = k
                      THEN \A f \in o.found : f.chain = k => f.docs \subseteq OfChain(After(y), k)
                      ELSE assessed[k] \subseteq OfChain(After(y), k)
    BY <1>13 DEF FitFindings
  <2>1. OfChain(After(o), k) \subseteq OfChain(After(y), k)
    BY <1>14 DEF OfChain
  <2> QED BY <1>1, <1>3, <2>1 DEF Fits, Fitted, FitFindings
<1>21. FitStage(y)
  BY <1>3, <1>13 DEF FitStage
<1> QED BY <1>1, <1>2, <1>9, <1>13, <1>16, <1>17, <1>18, <1>19, <1>20, <1>21, OrderedFlush
        DEF OneByOne, Fitted

LEMMA AllIdle == RowsFit /\ (\A u \in Txns : tx[u] = Idle) => OneByOne
BY IdleFits DEF OneByOne, AtMostOne

(* Committed, the rows fit as the transaction left them.                    *)
LEMMA CommitOrdered ==
  ASSUME IInv, OneByOne, NEW t \in Txns, Commit(t)
  PROVE  OneByOne'
<1> DEFINE o == tx[t]
<1>1. o.pc = "commit" /\ Fits(o) /\ Apply(t)
  BY DEF Commit, OneByOne
<1>2. Others(t)
  BY <1>1, ContinuesAlone DEF OneByOne
<1>3. \A u \in Txns : tx'[u] = Idle
  BY <1>1, <1>2 DEF Apply, Others, IInv, Shape
<1>4. o.todo = {}
  BY <1>1 DEF Fits, Fitted, FitStage
<1>5. links' = After(o) /\ chains' = chains \cup o.opens
  BY <1>1 DEF Apply, After
<1>6. /\ o.opens \subseteq Chains \ chains
      /\ \A p \in o.prim : p.chain \in chains' /\ p.role \in Roles
      /\ \A f \in o.found : f.chain \in chains'
      /\ \A l \in links' : /\ l.doc \in Docs /\ l.role \in Roles /\ l.chain \in chains'
                           /\ l.doc \in Existing \/ \E x \in o.row : x.doc = l.doc
  BY <1>1, <1>5 DEF Fits, Fitted, FitLinks
<1>7. \A d \in Docs : /\ Writes(t, d) => RowOf(t, d) \in o.row /\ RowOf(t, d).doc = d
                      /\ kind'[d] = IF Writes(t, d) THEN RowOf(t, d).kind ELSE kind[d]
                      /\ maker'[d] = IF Writes(t, d) THEN RowOf(t, d).maker ELSE maker[d]
  BY <1>1 DEF Apply, Writes, RowOf
<1>8. \A d \in Docs : Writes(t, d) <=> \E x \in o.row : x.doc = d
  BY DEF Writes
<1>9. \A x \in o.row : x.kind \in Roles
  BY <1>1 DEF Fits, Fitted, FitRow
<1>10. \A c \in Chains, r \in Roles : PrimaryIs(o, c, r, primary'[c][r])
  BY <1>1, PrimaryIsSet DEF Apply
<1>11. \A c \in Chains : SupplierIs(o, c, supplier'[c])
  BY <1>1 DEF Apply, SupplierIs
<1>12. \A d \in Docs : MakerIs(o, d, maker'[d])
  BY <1>7, <1>8 DEF MakerIs
<1>13. \A c \in Chains : IF \E f \in o.found : f.chain = c
                         THEN \E f \in o.found : f.chain = c /\ assessed'[c] = f.docs
                         ELSE assessed'[c] = assessed[c]
  BY <1>1 DEF Apply
<1>14. chains \subseteq Chains /\ chains' \subseteq Chains
  BY <1>5, <1>6 DEF OneByOne, RowsFit, Linked
<1> HIDE DEF o
<1>15. Linked'
  <2>1. ASSUME NEW d \in Docs, kind'[d] # NoRole PROVE kind'[d] \in Roles
    <3>1. CASE Writes(t, d)
      BY <1>7, <1>9, <3>1
    <3>2. CASE ~Writes(t, d)
      BY <1>7, <2>1, <3>2 DEF OneByOne, RowsFit, Linked, Existing
    <3> QED BY <3>1, <3>2
  <2>2. ASSUME NEW l \in links' PROVE l.doc \in Docs /\ kind'[l.doc] # NoRole
    <3>1. l.doc \in Docs /\ (l.doc \in Existing \/ Writes(t, l.doc))
      BY <1>6, <1>8
    <3>2. CASE Writes(t, l.doc)
      BY <1>7, <1>9, <3>1, <3>2, OutsideAssumption
    <3>3. CASE ~Writes(t, l.doc)
      BY <1>7, <3>1, <3>3 DEF Existing
    <3> QED BY <3>1, <3>2, <3>3
  <2> QED BY <1>6, <1>14, <2>1, <2>2 DEF Linked, Existing
<1>16. Unopened'
  <2> SUFFICES ASSUME NEW c \in Chains \ chains'
               PROVE  assessed'[c] = {} /\ \A r \in Roles : primary'[c][r] = NoDoc
    BY DEF Unopened
  <2>1. assessed[c] = {} /\ \A r \in Roles : primary[c][r] = NoDoc
    BY <1>5 DEF OneByOne, RowsFit, Unopened
  <2>2. assessed'[c] = assessed[c]
    BY <1>6, <1>13
  <2>3. \A r \in Roles : primary'[c][r] = primary[c][r]
    BY <1>6, <1>10 DEF PrimaryIs
  <2> QED BY <2>1, <2>2, <2>3
<1>17. PrimaryLinked'
  <2> SUFFICES ASSUME NEW c \in chains', NEW r \in Roles PROVE Right(links', c, r, primary'[c][r])
    BY DEF PrimaryLinked, Right, Members
  <2> QED BY <1>1, <1>5, <1>10, <1>14 DEF Fits, Fitted, FitPrimary
<1>18. MakersFit'
  <2> SUFFICES ASSUME NEW l \in links' PROVE maker'[l.doc] \in {supplier'[l.chain], NoSupplier}
    BY DEF MakersFit
  <2>1. l.doc \in Docs /\ l.chain \in Chains
    BY <1>6, <1>14
  <2> QED BY <1>1, <1>5, <1>11, <1>12, <2>1 DEF Fits, Fitted, FitSupplier
<1>19. AssessesOwn'
  <2> SUFFICES ASSUME NEW c \in chains' PROVE assessed'[c] \subseteq OfChain(links', c)
    BY DEF AssessesOwn, OfChain
  <2>1. IF \E f \in o.found : f.chain = c
        THEN \A f \in o.found : f.chain = c => f.docs \subseteq OfChain(links', c)
        ELSE assessed[c] \subseteq OfChain(links', c)
    BY <1>1, <1>4, <1>5 DEF Fits, Fitted, FitFindings
  <2> QED BY <1>13, <1>14, <2>1
<1>20. RowsFit'
  BY <1>15, <1>16, <1>17, <1>18, <1>19 DEF RowsFit
<1>21. RowsFit' /\ (\A u \in Txns : tx[u] = Idle)' => OneByOne'
  BY AllIdle, PTL
<1> QED BY <1>3, <1>20, <1>21

-----------------------------------------------------------------------------
LEMMA OrderedInitially == Init => Ordered
<1> SUFFICES ASSUME Init PROVE OneByOne
  BY DEF Ordered, OneByOne
<1>1. RowsFit
  BY DEF Init, RowsFit, Linked, Unopened, PrimaryLinked, MakersFit, AssessesOwn, Existing, Members
<1> QED BY <1>1, AllIdle DEF Init

LEMMA OrderedInductive == IInv /\ Ordered /\ [Next]_vars => Ordered'
<1> SUFFICES ASSUME IInv, OneByOne, serial, [Next]_vars PROVE OneByOne'
  BY DEF Ordered, OneByOne, Next, vars
<1>1. ASSUME NEW t \in Txns, Operate(t) PROVE OneByOne'
  <2>1. ASSUME NEW cs \in {chains} \cup {{c} : c \in chains}, Reanalyse(t, cs) PROVE OneByOne'
    <3>1. cs \in SUBSET chains
      OBVIOUS
    <3> QED BY <2>1, <3>1, ReanalyseOrdered
  <2> QED BY <1>1, <2>1, IngestOrdered, ReprocessOrdered, AttachOrdered, DetachOrdered,
        ArchiveOrdered
          DEF Operate
<1>2. CASE UNCHANGED vars
  <2> USE <1>2 DEF vars, rows
  <2>1. RowsFit' /\ AtMostOne'
    BY ZenonT(40) DEF OneByOne, RowsFit, Linked, Unopened, PrimaryLinked, MakersFit, AssessesOwn, Existing,
           Members, AtMostOne
  <2>2. ASSUME NEW u \in Txns PROVE Fits(tx[u])'
    <3>1. Fits(tx'[u])
      BY DEF OneByOne
    <3> QED BY <3>1, FitsStill
  <2> QED BY <2>1, <2>2 DEF OneByOne
<1> QED BY <1>1, <1>2, AnalyseOrdered, PlaceOrdered, CommitOrdered, RollbackOrdered DEF Next

(* What holds of transactions one at a time in every behaviour.             *)
LEMMA OrderedAlways == Spec => [](IInv /\ Ordered)
BY Initially, Inductive, OrderedInitially, OrderedInductive, PTL DEF Spec

(* The primary document of a role is one of the chain's documents of that   *)
(* role, whatever was attached, placed, unlinked or extracted anew, in      *)
(* whatever order, as long as one transaction runs at a time.               *)
THEOREM PrimariesStayLinked == Spec => []PrimariesAreLinked
<1>1. Ordered => PrimariesAreLinked
  BY DEF Ordered, RowsFit, PrimariesAreLinked
<1> QED BY <1>1, OrderedAlways, PTL

(* One transaction at a time, matching and attachment never bring documents *)
(* of two suppliers into one chain: every maker fits the chain's supplier.  *)
THEOREM SuppliersStayAgreed == Spec => []SuppliersAgree
<1>1. Ordered => SuppliersAgree
  BY DEF Ordered, RowsFit, MakersFit, SuppliersAgree, OneSupplier
<1> QED BY <1>1, OrderedAlways, PTL

(* One transaction at a time, a chain's findings are about its documents:   *)
(* every step that takes a document out of a chain analyses it again.       *)
THEOREM AnalysesStayOwn == Spec => []AnalysesAreOwn
<1>1. Ordered => AnalysesAreOwn
  BY DEF Ordered, RowsFit, AnalysesAreOwn
<1> QED BY <1>1, OrderedAlways, PTL
=============================================================================
