------------------------------- MODULE Chains -------------------------------
(***************************************************************************)
(* Documents and the operation chains they belong to: the matching of a    *)
(* new document, manual attachment and detachment, reprocessing, archiving *)
(* and analysis, in the transactions of concurrent requests and workers.   *)
(*                                                                         *)
(* A transaction computes what it will write (tx), analyses the chains it  *)
(* touches and commits.  READ COMMITTED: every step reads the rows that    *)
(* are committed by then.  The session does not flush before a query       *)
(* (autoflush=False in app/db.py): the queries of the analysis see what    *)
(* the transaction has flushed, and not what it has only set.              *)
(*                                                                         *)
(* The matching by reference, line overlap and date is a choice among the  *)
(* chains its queries can return.  An analysis is the set of documents it  *)
(* considers: its findings are about those and no others.                  *)
(***************************************************************************)
EXTENDS Naturals, FiniteSets

CONSTANTS
  Docs,      \* files: each becomes at most one document of the tenant
  Chains,    \* operation_chains rows that may come to exist (a bound)
  Roles,     \* document types, the keys of PRIMARY_FIELD_BY_TYPE
  Suppliers,
  Txns,      \* requests and workers that are at work at a time (a bound)
  NoDoc, NoRole, NoSupplier

ASSUME OutsideAssumption ==
  NoDoc \notin Docs /\ NoRole \notin Roles /\ NoSupplier \notin Suppliers

Sources == Suppliers \cup {NoSupplier}
Links   == [doc : Docs, chain : Chains, role : Roles, seq : Nat]

VARIABLES
  kind,      \* documents.document_type; NoRole before the upload
  maker,     \* documents.supplier_id
  parsed,    \* documents with parse_status parsed: not failed, not to be reviewed
  archived,  \* documents with archived = True
  chains,    \* operation_chains rows that exist
  supplier,  \* operation_chains.supplier_id
  links,     \* chain_documents rows
  primary,   \* the *_document_id columns of a chain
  assessed,  \* documents the last committed analysis of a chain considered
  tx,        \* what each transaction has set and not committed
  serial     \* in this behaviour transactions come one at a time

rows == <<kind, maker, parsed, archived, chains, supplier, links, primary, assessed>>
vars == <<rows, tx, serial>>

Idle == [pc      |-> "idle",
         then    |-> "commit", \* what follows the analysis
         flushed |-> FALSE,    \* the analysis sees ins and del
         row     |-> {},       \* the document, as the extraction sets it
         archive |-> {},
         opens   |-> {},       \* new chains
         del     |-> {},
         ins     |-> {},
         prim    |-> {},       \* primary columns
         sup     |-> {},       \* suppliers of chains
         locked  |-> {},       \* chain rows updated by a flush
         todo    |-> {},       \* chains to analyse
         found   |-> {}]       \* what their analyses considered

TypeOK ==
  /\ kind \in [Docs -> Roles \cup {NoRole}]
  /\ maker \in [Docs -> Sources]
  /\ parsed \subseteq Docs /\ archived \subseteq Docs
  /\ chains \subseteq Chains
  /\ supplier \in [Chains -> Sources]
  /\ links \subseteq Links
  /\ primary \in [Chains -> [Roles -> Docs \cup {NoDoc}]]
  /\ assessed \in [Chains -> SUBSET Docs]
  /\ DOMAIN tx = Txns
  /\ serial \in BOOLEAN
  /\ \A t \in Txns :
       /\ tx[t].pc \in {"idle", "analyse", "place", "commit"}
       /\ tx[t].ins \subseteq Links /\ tx[t].del \subseteq links
       /\ tx[t].todo \subseteq chains \cup tx[t].opens

Init ==
  /\ kind = [d \in Docs |-> NoRole]
  /\ maker = [d \in Docs |-> NoSupplier]
  /\ parsed = {}
  /\ archived = {}
  /\ chains = {}
  /\ supplier = [c \in Chains |-> NoSupplier]
  /\ links = {}
  /\ primary = [c \in Chains |-> [r \in Roles |-> NoDoc]]
  /\ assessed = [c \in Chains |-> {}]
  /\ tx = [t \in Txns |-> Idle]
  /\ serial \in BOOLEAN

-----------------------------------------------------------------------------
(* What transaction t sees.                                                *)

Seen(t) == IF tx[t].flushed THEN (links \ tx[t].del) \cup tx[t].ins ELSE links

Members(ls, c, r) == {l.doc : l \in {m \in ls : m.chain = c /\ m.role = r}}

RowOf(t, d) == CHOOSE x \in tx[t].row : x.doc = d
Writes(t, d) == \E x \in tx[t].row : x.doc = d

Parsed(t) == {d \in Docs : IF Writes(t, d) THEN RowOf(t, d).parsed ELSE d \in parsed}

LinksOf(ls, d) == {l \in ls : l.doc = d}

(* A chain object in the session: its columns as set, flushed or not.       *)
Primary(t, c, r) ==
  IF \E p \in tx[t].prim : p.chain = c /\ p.role = r
  THEN (CHOOSE p \in tx[t].prim : p.chain = c /\ p.role = r).doc
  ELSE primary[c][r]

(* sequence_no of a new link: the count of the role's links, plus one.      *)
NewLink(t, d, c, r) ==
  [doc |-> d, chain |-> c, role |-> r,
   seq |-> Cardinality({l \in Seen(t) : l.chain = c /\ l.role = r}) + 1]

(* _documents: the linked documents of each role or else the primary one,   *)
(* without those that are archived or not fully parsed.                     *)
Considered(t, c) ==
  (UNION {IF Members(Seen(t), c, r) # {} THEN Members(Seen(t), c, r)
          ELSE {Primary(t, c, r)} \ {NoDoc} : r \in Roles} \cap Parsed(t)) \ archived

Lowest(ls) == {l \in ls : \A m \in ls : l.seq <= m.seq}

\* mutant: the role is not compared
ReplacementsOfAnyRole(ls, c, r) ==
  LET left == {l \in ls : l.chain = c}
  IN  IF left = {} THEN {NoDoc} ELSE {l.doc : l \in Lowest(left)}

(* The document that becomes primary when another one is unlinked: the      *)
(* first by sequence_no, any of them when the numbers are equal.            *)
Replacements(ls, c, r) ==
  LET left == {l \in ls : l.chain = c /\ l.role = r}
  IN  IF left = {} THEN {NoDoc} ELSE {l.doc : l \in Lowest(left)}

Repairs(gone) ==
  LET orphaned == {l \in gone : primary[l.chain][l.role] = l.doc}
  IN  IF orphaned = {} THEN {{}}
      ELSE UNION {{{[chain |-> l.chain, role |-> l.role, doc |-> d]} :
                     d \in Replacements(links \ gone, l.chain, l.role)} : l \in orphaned}

Unlocked(gone) == \A u \in Txns : tx[u].del \cap gone = {}

(* A document row that some transaction has written and not committed.      *)
Writing(d) == \E u \in Txns : Writes(u, d)

Written(x) == {p.chain : p \in x.prim} \cup {s.chain : s \in x.sup}

\* mutant: no unique constraint on (tenant_id, document_id)
MayInsertAny(t, x) == TRUE

(* A flush of transaction x in slot t.  uq_chain_document: a link waits for *)
(* the transaction that has inserted or deleted another one of the document *)
(* and fails if that one stays.  An updated chain row is locked.            *)
MayInsert(t, x) ==
  \A n \in x.ins :
    /\ LinksOf(links \ x.del, n.doc) = {}
    /\ \A u \in Txns \ {t} : tx[u].flushed => LinksOf(tx[u].ins, n.doc) = {}

MayUpdate(t, x) == \A u \in Txns \ {t} : tx[u].locked \cap Written(x) = {}

Flush(t, x) ==
  /\ MayInsert(t, x)
  /\ MayUpdate(t, x)
  /\ tx' = [tx EXCEPT ![t] = [x EXCEPT !.flushed = TRUE, !.locked = Written(x)]]

MayBegin(t) ==
  /\ tx[t] = Idle
  /\ serial => \A u \in Txns : tx[u] = Idle

Existing == {d \in Docs : kind[d] # NoRole}
-----------------------------------------------------------------------------
(* Operations: each begins a transaction.                                  *)

(* ingest_path inserts the document and flushes.  A file that cannot be     *)
(* parsed is kept as a document without a chain.                            *)
Ingest(t, d, r, s) ==
  /\ MayBegin(t)
  /\ d \notin Existing
  /\ ~Writing(d)
  /\ \E ok \in BOOLEAN :
       \/ Flush(t, [Idle EXCEPT !.pc = "place",
                                !.row = {[doc |-> d, kind |-> r, maker |-> s, parsed |-> ok]}])
       \/ /\ ~ok
          /\ Flush(t, [Idle EXCEPT !.pc = "commit",
                                   !.row = {[doc |-> d, kind |-> r, maker |-> NoSupplier, parsed |-> ok]}])
  /\ UNCHANGED rows

\* mutant: the document is not placed again
ReprocessUnplaced(t, d, r, s) ==
  /\ MayBegin(t)
  /\ d \in Existing
  /\ ~Writing(d)
  /\ LET gone == LinksOf(links, d)
     IN  /\ Unlocked(gone)
         /\ \E repair \in Repairs(gone), ok \in BOOLEAN :
              Flush(t, [Idle EXCEPT !.pc = "analyse", !.then = "commit",
                                    !.row = {[doc |-> d, kind |-> r, maker |-> s, parsed |-> ok]},
                                    !.del = gone,
                                    !.prim = repair, !.todo = {l.chain : l \in gone}])
  /\ UNCHANGED rows

(* reprocess_document: the new extraction replaces type and supplier, the   *)
(* old link is deleted, its chain repaired and analysed, and the document   *)
(* is placed again.                                                         *)
Reprocess(t, d, r, s) ==
  /\ MayBegin(t)
  /\ d \in Existing
  /\ ~Writing(d)
  /\ LET gone == LinksOf(links, d)
     IN  /\ Unlocked(gone)
         /\ \E repair \in Repairs(gone), ok \in BOOLEAN :
              Flush(t, [Idle EXCEPT !.pc = "analyse", !.then = "place",
                                    !.row = {[doc |-> d, kind |-> r, maker |-> s, parsed |-> ok]},
                                    !.del = gone,
                                    !.prim = repair, !.todo = {l.chain : l \in gone}])
  /\ UNCHANGED rows

\* mutant: any supplier
SupplierAny(c, d) == TRUE

SupplierFits(c, d) == supplier[c] \in {NoSupplier, maker[d]}

(* attach_chain_document.  Nothing is flushed before the analysis.          *)
Attach(t, c, d) ==
  /\ MayBegin(t)
  /\ c \in chains /\ d \in Existing
  /\ SupplierFits(c, d)
  /\ \A l \in LinksOf(links, d) : l.chain = c
  /\ LET new == IF LinksOf(links, d) = {} THEN {NewLink(t, d, c, kind[d])} ELSE {}
     IN  tx' = [tx EXCEPT ![t] =
           [Idle EXCEPT !.pc = "analyse", !.ins = new, !.todo = {c},
                        !.prim = {[chain |-> c, role |-> l.role, doc |-> d] :
                                    l \in {m \in new : primary[c][m.role] = NoDoc}},
                        !.sup = IF supplier[c] = maker[d] THEN {}
                                ELSE {[chain |-> c, supplier |-> maker[d]]}]]
  /\ UNCHANGED rows

\* mutant: no flush before the analysis
DetachUnflushed(t, l) ==
  /\ MayBegin(t)
  /\ l \in links
  /\ Unlocked({l})
  /\ \E repair \in Repairs({l}) :
       tx' = [tx EXCEPT ![t] = [Idle EXCEPT !.pc = "analyse", !.del = {l},
                                            !.prim = repair, !.todo = {l.chain}]]
  /\ UNCHANGED rows

(* detach_chain_document deletes the link and flushes.                      *)
Detach(t, l) ==
  /\ MayBegin(t)
  /\ l \in links
  /\ Unlocked({l})
  /\ \E repair \in Repairs({l}) :
       tx' = [tx EXCEPT ![t] = [Idle EXCEPT !.pc = "analyse", !.flushed = TRUE, !.del = {l},
                                            !.prim = repair, !.todo = {l.chain}]]
  /\ UNCHANGED rows

(* archive_document sets the flag and analyses the document's chain.        *)
Archive(t, d) ==
  /\ MayBegin(t)
  /\ d \in Existing
  /\ tx' = [tx EXCEPT ![t] = [Idle EXCEPT !.pc = "analyse", !.archive = {d},
                                          !.todo = {l.chain : l \in LinksOf(links, d)}]]
  /\ UNCHANGED rows

(* The analysis of one chain (reanalyze_chain, correct_document_line) or of *)
(* all (_reanalyze_tenant_chains).                                          *)
Reanalyse(t, cs) ==
  /\ MayBegin(t)
  /\ tx' = [tx EXCEPT ![t] = [Idle EXCEPT !.pc = "analyse", !.todo = cs]]
  /\ UNCHANGED rows

-----------------------------------------------------------------------------
(* The rest of a transaction.                                              *)

(* analyze_chain for the chains to analyse; it ends with a flush.           *)
Analyse(t) ==
  /\ tx[t].pc = "analyse"
  /\ Flush(t, [tx[t] EXCEPT !.pc = tx[t].then,
                            !.then = "commit",
                            !.todo = {},
                            !.found = {f \in @ : f.chain \notin tx[t].todo}
                                        \cup {[chain |-> c, docs |-> Considered(t, c)] : c \in tx[t].todo}])
  /\ UNCHANGED rows

(* The chains that attach_document_to_chain can choose for a document of    *)
(* this supplier: those of the supplier, by reference key or line overlap,  *)
(* and the one of a document of the supplier that it refers to.             *)
Candidates(t, s) ==
  {c \in chains : supplier[c] = s \/ \E l \in Seen(t) : l.chain = c /\ maker[l.doc] = s}

PlaceIn(t, x, c) ==
  LET new == IF \E l \in LinksOf(Seen(t), x.doc) : l.chain = c THEN {} ELSE {NewLink(t, x.doc, c, x.kind)}
      fill == IF Primary(t, c, x.kind) = NoDoc
              THEN {[chain |-> c, role |-> x.kind, doc |-> x.doc]} ELSE {}
  IN  Flush(t, [tx[t] EXCEPT !.pc = "analyse",
                             !.ins = new,
                             !.prim = {p \in @ : \A q \in fill : p.chain # q.chain \/ p.role # q.role} \cup fill,
                             !.todo = {c},
                             !.opens = {c} \ chains,
                             !.sup = IF c \in chains THEN {} ELSE {[chain |-> c, supplier |-> x.maker]}])

(* attach_document_to_chain, an existing chain or a new one.                *)
Place(t) ==
  /\ tx[t].pc = "place"
  /\ \E x \in tx[t].row :
     \E c \in Candidates(t, x.maker) \cup {n \in Chains \ chains : \A u \in Txns : n \notin tx[u].opens} :
       PlaceIn(t, x, c)
  /\ UNCHANGED rows

Apply(t) ==
  /\ kind' = [d \in Docs |-> IF Writes(t, d) THEN RowOf(t, d).kind ELSE kind[d]]
  /\ maker' = [d \in Docs |-> IF Writes(t, d) THEN RowOf(t, d).maker ELSE maker[d]]
  /\ parsed' = Parsed(t)
  /\ archived' = archived \cup tx[t].archive
  /\ chains' = chains \cup tx[t].opens
  /\ supplier' = [c \in Chains |->
       IF \E s \in tx[t].sup : s.chain = c
       THEN (CHOOSE s \in tx[t].sup : s.chain = c).supplier ELSE supplier[c]]
  /\ links' = (links \ tx[t].del) \cup tx[t].ins
  /\ primary' = [c \in Chains |-> [r \in Roles |-> Primary(t, c, r)]]
  /\ assessed' = [c \in Chains |->
       IF \E f \in tx[t].found : f.chain = c
       THEN (CHOOSE f \in tx[t].found : f.chain = c).docs ELSE assessed[c]]
  /\ tx' = [tx EXCEPT ![t] = Idle]

Commit(t) ==
  /\ tx[t].pc = "commit"
  /\ Apply(t)

(* The request fails, waits for a lock in vain, or its process dies.        *)
Rollback(t) ==
  /\ tx[t].pc # "idle"
  /\ tx' = [tx EXCEPT ![t] = Idle]
  /\ UNCHANGED rows

Operate(t) ==
  \/ \E d \in Docs, r \in Roles, s \in Sources : Ingest(t, d, r, s) \/ Reprocess(t, d, r, s)
  \/ \E d \in Docs, c \in Chains : Attach(t, c, d)
  \/ \E l \in links : Detach(t, l)
  \/ \E d \in Docs : Archive(t, d)
  \/ \E cs \in {chains} \cup {{c} : c \in chains} : Reanalyse(t, cs)

Next ==
  /\ \E t \in Txns :
       \/ Operate(t)
       \/ Analyse(t)
       \/ Place(t)
       \/ Commit(t)
       \/ Rollback(t)
  /\ UNCHANGED serial

Spec == Init /\ [][Next]_vars
-----------------------------------------------------------------------------
(* Properties.                                                             *)

(* A document belongs to at most one chain and has one role in it, whatever *)
(* the requests that attach, reprocess or match it at the same time read.   *)
OneLink == \A l, m \in links : l.doc = m.doc => l = m

(* A document in a chain leaves it by a detachment only, whatever other     *)
(* transactions do to it meanwhile: reprocessing places it again before its *)
(* commit.                                                                  *)
LinkKept ==
  \A d \in Docs : LinksOf(links, d) # {} /\ LinksOf(links, d)' = {}
    => \E t \in Txns : tx[t].pc = "commit" /\ tx[t].row = {} /\ tx[t].del = LinksOf(links, d)
OnlyDetachmentUnlinks == [][LinkKept]_vars

PrimaryLinked ==
  \A c \in chains, r \in Roles :
    IF Members(links, c, r) = {} THEN primary[c][r] = NoDoc
    ELSE primary[c][r] \in Members(links, c, r)

OneSupplier ==
  \A l, m \in links :
    l.chain = m.chain => maker[l.doc] = maker[m.doc] \/ NoSupplier \in {maker[l.doc], maker[m.doc]}

AssessesOwn == \A c \in chains : assessed[c] \subseteq {l.doc : l \in {m \in links : m.chain = c}}

(* The primary document of a role is one of the chain's documents of that   *)
(* role, and there is one as long as the role has documents; also when a    *)
(* document changes its type (one transaction at a time).                   *)
PrimariesAreLinked == serial => PrimaryLinked

(* The documents of a chain that have a supplier have the same one (one     *)
(* transaction at a time).                                                  *)
SuppliersAgree == serial => OneSupplier

(* The findings of a chain are about documents of that chain (one           *)
(* transaction at a time).                                                  *)
AnalysesAreOwn == serial => AssessesOwn

(* Attachment and matching come with an analysis: the parsed documents of a *)
(* chain that are not archived are among those its findings are about.      *)
AttachedAreAssessed == \A l \in links : l.doc \in parsed \ archived => l.doc \in assessed[l.chain]
=============================================================================
