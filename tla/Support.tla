------------------------------ MODULE Support ------------------------------
(***************************************************************************)
(* The evidence of the cases of a chain, recorded after each analysis, and *)
(* required by a review whatever happened to the documents since.          *)
(*                                                                         *)
(* The analysis queries the documents before the transaction is flushed,   *)
(* the recorders after.                                                    *)
(***************************************************************************)
EXTENDS Integers, Sequences, FiniteSets, FiniteSetsExt

CONSTANTS
  Corpus,       \* documents that may be attached
  MaxDocuments, \* documents of the chain (a bound)
  MaxChanges,   \* readings again and corrections (a bound)
  Similar, Bars, Length, Fees, Units  \* of keys and units, see Rules

VARIABLES
  documents,
  cases         \* per finding raised so far: its amount, and the facts of its latest record

vars == <<documents, cases>>

active == {}    \* findings of other rules are not qualified

INSTANCE Evidence
-----------------------------------------------------------------------------
Same(c, f) == c.type = f.type /\ c.item = f.item /\ c.place = f.place

(* What the analysis of the documents D of the chain, as a transaction has  *)
(* left it, raises, with the facts of the recorders.                        *)
Raised(D) ==
  {[type |-> f.type, item |-> f.item, place |-> f.place, amount |-> f.amount,
    facts |-> SupportOf(f, D)] : f \in {g \in FindingsOf(D) : g.type \in Qualified}}

(* A record remains the latest one until there are facts for another.       *)
Record(raised) ==
  LET recorded(f) == UNION {c.facts : c \in {e \in cases : Same(e, f)}}
  IN cases' = {c \in cases : \A r \in raised : ~Same(c, r)}
                \cup {IF r.facts # {} THEN r ELSE [r EXCEPT !.facts = recorded(r)] : r \in raised}

Analyse(new) ==
  /\ documents' = new
  /\ \E raised \in {Raised(Evaluated)'} : Record(raised)

(* Before the flush the analysis still finds the documents as they were.    *)
AnalyseUnflushed(new) ==
  /\ documents' = new
  /\ \E D \in {Evaluated} : \E raised \in {Raised(D)'} : Record(raised)

Init == documents = <<>> /\ cases = {}

Placeable(document) ==
  /\ Len(documents) < MaxDocuments
  /\ \A i \in Indices : Rank(documents[i].role) <= Rank(document.role)

(* attach_document_to_chain flushes the link.                               *)
Upload(document) ==
  /\ Placeable(document)
  /\ Analyse(Append(documents, document))

(* attach_chain_document does not; a role without documents is read from    *)
(* the primary column of the chain.                                         *)
AttachByHand(document) ==
  /\ Placeable(document) /\ Of(Indices, document.role) # {}
  /\ AnalyseUnflushed(Append(documents, document))

(* archive_document does not flush the flag.                                *)
Archive(i) ==
  /\ ~documents[i].archived
  /\ AnalyseUnflushed([documents EXCEPT ![i].archived = TRUE])

Changes ==
  SumFunction([i \in Indices |-> documents[i].read])
    + Cardinality({x \in Lines(Indices) : ~Line(x).direct})

(* reprocess_document: the document may need a review.                      *)
Reprocess(i) ==
  /\ ~documents[i].archived /\ Changes < MaxChanges
  /\ \E parsed \in BOOLEAN :
       Analyse([documents EXCEPT ![i].read = @ + 1, ![i].parsed = parsed])

(* correct_document_line: a number that the document does not state.        *)
Correct(x) ==
  /\ Line(x).direct /\ Changes < MaxChanges
  /\ Analyse([documents EXCEPT ![x[1]].lines[x[2]].qty = @ + 1,
                                ![x[1]].lines[x[2]].direct = FALSE])

Next ==
  \/ \E document \in Corpus : Upload(document) \/ AttachByHand(document)
  \/ \E i \in Indices : Archive(i) \/ Reprocess(i)
  \/ \E x \in Lines(Indices) : Correct(x)

Spec == Init /\ [][Next]_vars
-----------------------------------------------------------------------------
(* Properties.                                                             *)

(* No line of another role joins what the recorders of the rules keep apart. *)
Unbridged ==
  \A roles \in {{"proposal", "order", "confirmation", "delivery"},
                {"proposal", "order", "confirmation", "delivery", "invoice"}} :
    \A item \in Items(Evaluated), role \in roles :
      OfRole(item, role) =
        UNION {OfRole(own, role) : own \in ItemsOf(InRoles(Evaluated, roles), item.key)}

(* A judgment is linked to a finding only if the analysis of the documents  *)
(* as they are now would raise it, with the amount of the case: however     *)
(* stale the case is, and though its support is computed by other code (if  *)
(* no document needs a review and no other role joins the lines).           *)
JudgedIsCurrent ==
  Unread = {} /\ Unbridged
  => \A c \in cases : Supported(c) => \E f \in Findings : Same(c, f) /\ c.amount = f.amount
=============================================================================
