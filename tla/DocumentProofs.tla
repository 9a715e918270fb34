--------------------------- MODULE DocumentProofs ---------------------------
(***************************************************************************)
(* Documents that are read again, archives of documents, and the originals *)
(* and the evidence of a practice, for any number of requests, contents    *)
(* and reviewers.                                                          *)
(***************************************************************************)
EXTENDS Services, SequenceTheorems, FiniteSetTheorems, TLAPS
-----------------------------------------------------------------------------
Pcs == {"idle", "parse", "links", "unlink", "snapshot", "erase", "write", "place", "commit",
        "classify", "ended"}
Transaction ==
  [pc : Pcs, kind : {"none", "retry", "reprocess"}, status : Readings!Statuses,
    record : SUBSET Readings!Records,
   link : SUBSET Readings!Sources, rows : SUBSET Readings!Sources, gone : SUBSET Readings!Sources,
     took : BOOLEAN,
   outcome : Readings!Statuses, holds : SUBSET {"document", "link", "record"}]
Transactions == Readers \cup Reviewers

ReadingsTyped ==
  /\ document \in Readings!Statuses
  /\ link \subseteq Readings!Sources
  /\ lines \subseteq Readings!Sources
  /\ record \subseteq Readings!Records
  /\ tx \in [Transactions -> Transaction]
  /\ verdicts \subseteq Readings!States
  /\ loose \subseteq Readers

(* What is stored or was seen comes from the original or a reading that has *)
(* ended: a line inserted later is of none of the rows seen before.         *)
Over(x) == x = "original" \/ tx[x].pc = "ended"
SeenIsOver ==
  /\ \A x \in lines : Over(x)
  /\ \A r \in Readers : \A x \in tx[r].rows : Over(x)

(* One transaction holds the link, and one that took it holds it.           *)
LinkHeld ==
  /\ \A s, t \in Transactions : "link" \in tx[s].holds \cap tx[t].holds => s = t
  /\ \A t \in Transactions : tx[t].took => "link" \in tx[t].holds

(* A reading has seen, and erases, exactly the lines there are, or there    *)
(* are lines that it has not seen.                                          *)
Exact(r) == tx[r].rows = lines /\ (tx[r].pc # "erase" => tx[r].gone = lines)
ErasesAll == \A r \in Readers : Readings!Replacing(r) => Exact(r) \/ ~(lines \subseteq tx[r].rows)

(* As long as no reading was loose, the lines are of one, and those seen by *)
(* a reading that took the link remain.                                     *)
OneSource == lines = {} \/ \E x \in Readings!Sources : lines = {x}
TakersSeeAll == \A r \in Readers : Readings!Replacing(r) /\ tx[r].took => tx[r].rows = lines
Replaced == loose = {} => OneSource /\ TakersSeeAll

(* A document that was read remains so, and only reviewers call one that    *)
(* was not acquired.                                                        *)
Shows ==
  /\ document \in Readings!Read <=> lines # {}
  /\ \A r \in Readers :
       /\ tx[r].pc \notin {"idle", "parse", "classify", "ended"} => tx[r].outcome \in Readings!Read
       /\ tx[r].pc \notin {"idle", "classify", "ended"} /\ tx[r].status \in Readings!Read =>
            document \in Readings!Read
  /\ document = "failed" => \A entry \in record : entry.state = "acquired" =>
       "acquired" \in verdicts

ReadingsInv == ReadingsTyped /\ SeenIsOver /\ LinkHeld /\ ErasesAll /\ Replaced /\ Shows
-----------------------------------------------------------------------------
(* The order of a reading's steps.                                          *)
LEMMA Order7 ==
  /\ DOMAIN Readings!Order = 1..7
  /\ Readings!Order[1] = "links" /\ Readings!Order[2] = "unlink" /\
       Readings!Order[3] = "snapshot" /\ Readings!Order[4] = "erase"
  /\ Readings!Order[5] = "write" /\ Readings!Order[6] = "place" /\ Readings!Order[7] = "commit"
BY DEF Readings!Order

(* A reading goes through the steps in order.                               *)
LEMMA Steps ==
  /\ Readings!NextPc("links") = "unlink" /\ Readings!NextPc("unlink") = "snapshot"
  /\ Readings!NextPc("snapshot") = "erase" /\ Readings!NextPc("erase") = "write"
  /\ Readings!NextPc("write") = "place" /\ Readings!NextPc("place") = "commit"
<1>1. \A i \in 1..6 : Readings!NextPc(Readings!Order[i]) = Readings!Order[i + 1]
  <2> TAKE i \in 1..6
  <2>1. \A k \in DOMAIN Readings!Order : Readings!Order[k] = Readings!Order[i] <=> k = i
    BY Order7
  <2>2. (CHOOSE k \in DOMAIN Readings!Order : Readings!Order[k] = Readings!Order[i]) = i
    BY <2>1, Order7
  <2> QED BY <2>2 DEF Readings!NextPc
<1> QED BY <1>1, Order7

(* An UPDATE of some columns of a record leaves a record.                   *)
LEMMA WrittenIsRecord ==
  ASSUME record \subseteq Readings!Records, NEW seen \in Readings!Records,
           NEW new \in Readings!Records
  PROVE  /\ Readings!Written(seen, new) \subseteq Readings!Records
         /\ \A entry \in Readings!Written(seen, new) :
              entry.state = new.state \/ \E before \in record : entry.state = before.state
<1> SUFFICES ASSUME NEW before \in record
             PROVE  LET entry == [column \in {"state", "automatic"} |->
                                    IF seen[column] # new[column] THEN new[column] ELSE before[column]]
                    IN entry \in Readings!Records /\ entry.state \in {new.state, before.state}
  BY DEF Readings!Written
<1> DEFINE entry == [column \in {"state", "automatic"} |->
                       IF seen[column] # new[column] THEN new[column] ELSE before[column]]
<1>1. entry = [state |-> entry["state"], automatic |-> entry["automatic"]]
  OBVIOUS
<1>2. entry["state"] \in {new.state, before.state} /\
        entry["automatic"] \in {new.automatic, before.automatic}
  OBVIOUS
<1>3. before \in Readings!Records /\ new.state \in Readings!States /\
        before.state \in Readings!States
      /\ new.automatic \in BOOLEAN /\ before.automatic \in BOOLEAN
  BY DEF Readings!Records
<1>4. entry["state"] \in Readings!States /\ entry["automatic"] \in BOOLEAN
  BY <1>2, <1>3
<1>5. [state |-> entry["state"], automatic |-> entry["automatic"]] \in Readings!Records
  BY <1>4 DEF Readings!Records
<1> QED BY <1>1, <1>2, <1>5
-----------------------------------------------------------------------------
(* Steps that concern one transaction only.                                *)

(* A step changes one transaction, not the document, its link or its lines. *)
Kept(t, new) ==
  /\ tx' = [tx EXCEPT ![t] = new]
  /\ UNCHANGED <<document, link, lines, loose>>

(* It leaves the others as they are.                                        *)
LEMMA OthersKept ==
  ASSUME ReadingsTyped, NEW t \in Transactions, NEW new \in Transaction, Kept(t, new)
  PROVE  /\ tx' \in [Transactions -> Transaction]
         /\ tx'[t] = new /\ \A s \in Transactions \ {t} : tx'[s] = tx[s]
BY DEF ReadingsTyped, Kept

(* It sees rows that are there, or were seen before.                        *)
LEMMA SeenKept ==
  ASSUME ReadingsTyped, SeenIsOver, NEW t \in Transactions, NEW new \in Transaction, Kept(t, new),
         tx[t].pc # "ended", new.rows \subseteq tx[t].rows \cup lines
  PROVE  SeenIsOver'
<1>1. \A x \in Readings!Sources : Over(x) => Over(x)'
  BY OthersKept DEF Over, ReadingsTyped, Kept, Readings!Sources, Transactions
<1>2. \A r \in Readers : r \in Transactions /\ tx[r].rows \subseteq Readings!Sources
  BY DEF ReadingsTyped, Transactions, Transaction
<1>3. \A r \in Readers : \A x \in tx'[r].rows : x \in tx[r].rows \cup lines
  BY OthersKept, <1>2
<1> QED BY <1>1, <1>2, <1>3 DEF SeenIsOver, ReadingsTyped, Kept

(* It takes the link only if it is free.                                    *)
LEMMA LinkKept ==
  ASSUME ReadingsTyped, LinkHeld, NEW t \in Transactions, NEW new \in Transaction, Kept(t, new),
         "link" \in new.holds \ tx[t].holds => Readings!Free(t, "link"),
         new.took => "link" \in new.holds
  PROVE  LinkHeld'
<1>1. \A s \in Transactions \ {t} : "link" \in tx[s].holds => "link" \notin new.holds
  BY DEF Readings!Free, LinkHeld, ReadingsTyped
<1> QED BY <1>1, OthersKept DEF LinkHeld

(* It has seen all the lines, or there are others.                          *)
LEMMA ErasesKept ==
  ASSUME ReadingsTyped, ErasesAll, NEW t \in Transactions, NEW new \in Transaction, Kept(t, new),
         new.pc \in {"erase", "write", "place", "commit"} =>
           \/ new.rows = lines /\ (new.pc # "erase" => new.gone = lines)
           \/ ~(lines \subseteq new.rows)
  PROVE  ErasesAll'
<1>1. \A r \in Readers : r \in Transactions /\ lines' = lines
  BY DEF Transactions, Kept
<1> QED BY <1>1, OthersKept DEF ErasesAll, Exact, Readings!Replacing

(* One that took the link has seen them all.                                *)
LEMMA ReplacedKept ==
  ASSUME ReadingsTyped, Replaced, NEW t \in Transactions, NEW new \in Transaction, Kept(t, new),
         new.pc \in {"erase", "write", "place", "commit"} /\ new.took =>
           new.rows = lines \/ loose # {}
  PROVE  Replaced'
<1>1. \A r \in Readers : r \in Transactions /\ lines' = lines /\ loose' = loose
  BY DEF Transactions, Kept
<1>2. Replaced => (loose' = {} => OneSource')
  BY DEF Kept, Replaced, OneSource, Readings!Sources
<1>3. ASSUME loose' = {}, NEW r \in Readers, Readings!Replacing(r)', tx'[r].took
      PROVE  tx'[r].rows = lines'
  <2>1. CASE r = t
    BY <1>1, <1>3, <2>1, OthersKept DEF Readings!Replacing
  <2>2. CASE r # t
    BY <1>1, <1>3, <2>2, OthersKept DEF Readings!Replacing, Replaced, TakersSeeAll
  <2> QED BY <2>1, <2>2
<1> QED BY <1>2, <1>3 DEF Replaced, TakersSeeAll

(* It has read the document as parsed only if it was.                       *)
LEMMA ReadKept ==
  ASSUME ReadingsTyped, Shows, NEW t \in Transactions, NEW new \in Transaction, Kept(t, new),
         new.pc \notin {"idle", "parse", "classify", "ended"} => new.outcome \in Readings!Read,
         new.pc \notin {"idle", "classify", "ended"} /\ new.status \in Readings!Read =>
           document \in Readings!Read,
         UNCHANGED <<record, verdicts>>
  PROVE  Shows'
<1>1. \A r \in Readers : r \in Transactions
  BY DEF Transactions
<1> QED BY <1>1, OthersKept DEF Shows, Kept

(* A step of one transaction that neither ends nor writes.                  *)
LEMMA Undisturbed ==
  ASSUME ReadingsInv, NEW t \in Transactions, NEW new \in Transaction, Kept(t, new),
         UNCHANGED <<record, verdicts>>, tx[t].pc # "ended",
         new.rows \subseteq tx[t].rows \cup lines,
         "link" \in new.holds \ tx[t].holds => Readings!Free(t, "link"),
         new.took => "link" \in new.holds,
         new.pc \in {"erase", "write", "place", "commit"} =>
           \/ new.rows = lines /\ (new.pc # "erase" => new.gone = lines)
           \/ ~(lines \subseteq new.rows),
         new.pc \in {"erase", "write", "place", "commit"} /\ new.took =>
           new.rows = lines \/ loose # {},
         new.pc \notin {"idle", "parse", "classify", "ended"} => new.outcome \in Readings!Read,
         new.pc \notin {"idle", "classify", "ended"} /\ new.status \in Readings!Read =>
           document \in Readings!Read
  PROVE  ReadingsInv'
<1>1. ReadingsTyped'
  BY OthersKept DEF ReadingsTyped, ReadingsInv, Kept
<1>2. SeenIsOver'
  BY SeenKept DEF ReadingsInv
<1>3. LinkHeld'
  BY LinkKept DEF ReadingsInv
<1>4. ErasesAll'
  BY ErasesKept DEF ReadingsInv
<1>5. Replaced'
  BY ReplacedKept DEF ReadingsInv
<1>6. Shows'
  BY ReadKept DEF ReadingsInv
<1> QED BY <1>1, <1>2, <1>3, <1>4, <1>5, <1>6 DEF ReadingsInv

(* A transaction that has ended.                                            *)
LEMMA Ended == [Readings!Idle EXCEPT !.pc = "ended"] \in Transaction
BY DEF Readings!Idle, Transaction, Pcs, Readings!Statuses

(* A transaction that ends and may have written the record of the document. *)
LEMMA Ending ==
  ASSUME ReadingsInv, NEW t \in Transactions, Readings!End(t), tx[t].pc # "ended",
         UNCHANGED <<document, link, lines, loose>>,
         record' \subseteq Readings!Records, verdicts \subseteq verdicts',
           verdicts' \subseteq Readings!States,
         \A entry \in record' : entry.state = "acquired" =>
           "acquired" \in verdicts' \/ \E before \in record : before.state = "acquired"
  PROVE  ReadingsInv'
<1> DEFINE new == [Readings!Idle EXCEPT !.pc = "ended"]
<1>1. /\ new \in Transaction /\ Kept(t, new) /\ new.pc = "ended" /\ new.rows = {}
      /\ new.holds = {} /\ new.took = FALSE
  BY Ended DEF Kept, Readings!End, Readings!Idle
<1> HIDE DEF new
<1>2. ReadingsTyped'
  BY <1>1, OthersKept DEF ReadingsTyped, ReadingsInv, Kept
<1>3. SeenIsOver'
  BY <1>1, SeenKept DEF ReadingsInv
<1>4. LinkHeld'
  BY <1>1, LinkKept DEF ReadingsInv
<1>5. ErasesAll'
  BY <1>1, ErasesKept DEF ReadingsInv
<1>6. Replaced'
  BY <1>1, ReplacedKept DEF ReadingsInv
<1>7. Shows'
  <2>1. \A r \in Readers : r \in Transactions
    BY DEF Transactions
  <2> QED BY <1>1, <2>1, OthersKept DEF Shows, ReadingsInv
<1> QED BY <1>2, <1>3, <1>4, <1>5, <1>6, <1>7 DEF ReadingsInv
-----------------------------------------------------------------------------
(* A document that was uploaded, before any reading.                        *)
LEMMA ReadingsInit ==
  ASSUME Readings!Init PROVE ReadingsInv
<1>1. Readings!Idle \in Transaction
  BY DEF Readings!Idle, Transaction, Pcs, Readings!Statuses
<1>2. \A t \in Transactions : tx[t] = Readings!Idle
  BY DEF Readings!Init, Transactions
<1>3. ReadingsTyped
  BY <1>1 DEF Readings!Init, ReadingsTyped, Readings!Statuses, Readings!Read, Readings!Sources,
     Transactions
<1>4. SeenIsOver /\ LinkHeld /\ ErasesAll /\ TakersSeeAll
  BY <1>2 DEF Readings!Init, SeenIsOver, Over, LinkHeld, ErasesAll, TakersSeeAll,
     Readings!Replacing, Readings!Idle, Transactions
<1>5. OneSource
  BY DEF Readings!Init, OneSource, Readings!Sources
<1>6. Shows
  BY <1>2 DEF Readings!Init, Shows, Readings!Read, Readings!Idle, Transactions
<1> QED BY <1>3, <1>4, <1>5, <1>6 DEF ReadingsInv, Replaced
-----------------------------------------------------------------------------
(* The actions.                                                            *)
(* A request or job begins, and reads the document and its record.          *)
LEMMA BeginKeeps ==
  ASSUME ReadingsInv, NEW r \in Readers, Readings!Begin(r) PROVE ReadingsInv'
<1>1. r \in Transactions /\ tx \in [Transactions -> Transaction] /\ tx[r] \in Transaction
  BY DEF ReadingsInv, ReadingsTyped, Transactions
<1>2. PICK way \in {"retry", "reprocess"} :
        tx' = [tx EXCEPT ![r].pc = "parse", ![r].kind = way, ![r].status = document,
                         ![r].record = IF way = "retry" THEN record ELSE {}]
  BY DEF Readings!Begin
<1> DEFINE new == [tx[r] EXCEPT !.pc = "parse", !.kind = way, !.status = document,
                                !.record = IF way = "retry" THEN record ELSE {}]
<1>3. Kept(r, new) /\ UNCHANGED <<record, verdicts>> /\ tx[r].pc = "idle"
  BY <1>1, <1>2 DEF Readings!Begin, Kept, Readings!At
<1>4. new \in Transaction
  BY <1>1 DEF ReadingsInv, ReadingsTyped, Transaction, Pcs
<1>5. /\ new.pc = "parse" /\ new.rows = tx[r].rows /\ new.holds = tx[r].holds
      /\ new.took = tx[r].took /\ new.status = document
  BY <1>1 DEF Transaction
<1>6. new.took => "link" \in new.holds
  BY <1>1, <1>5 DEF ReadingsInv, LinkHeld
<1> HIDE DEF new
<1> QED BY <1>1, <1>3, <1>4, <1>5, <1>6, Undisturbed

(* The file is parsed.                                                      *)
LEMMA ParseKeeps ==
  ASSUME ReadingsInv, NEW r \in Readers, Readings!Parse(r) PROVE ReadingsInv'
<1>1. r \in Transactions /\ tx \in [Transactions -> Transaction] /\ tx[r] \in Transaction
  BY DEF ReadingsInv, ReadingsTyped, Transactions
<1>2. PICK outcome \in Readings!Read : tx' = [tx EXCEPT ![r].pc = "links", ![r].outcome = outcome]
  BY Order7 DEF Readings!Parse
<1> DEFINE new == [tx[r] EXCEPT !.pc = "links", !.outcome = outcome]
<1>3. Kept(r, new) /\ UNCHANGED <<record, verdicts>> /\ tx[r].pc = "parse"
  BY <1>1, <1>2 DEF Readings!Parse, Kept, Readings!At
<1>4. new \in Transaction
  BY <1>1 DEF Transaction, Pcs, Readings!Statuses
<1>5. /\ new.pc = "links" /\ new.rows = tx[r].rows /\ new.holds = tx[r].holds
      /\ new.took = tx[r].took /\ new.outcome \in Readings!Read /\ new.status = tx[r].status
  BY <1>1 DEF Transaction
<1>6. /\ new.took => "link" \in new.holds
      /\ new.status \in Readings!Read => document \in Readings!Read
  BY <1>1, <1>3, <1>5 DEF ReadingsInv, LinkHeld, Shows
<1> HIDE DEF new
<1> QED BY <1>1, <1>3, <1>4, <1>5, <1>6, Undisturbed

(* It is not; a retry says so in the record.                                *)
LEMMA ParseFailsKeeps ==
  ASSUME ReadingsInv, NEW r \in Readers, Readings!ParseFails(r) PROVE ReadingsInv'
<1> DEFINE verdict == [state |-> "not_acquired", automatic |-> TRUE]
           seen == IF tx[r].record = {} THEN record ELSE tx[r].record
<1>1. r \in Transactions /\ verdict \in Readings!Records /\ seen \subseteq Readings!Records /\
        record \subseteq Readings!Records
  BY DEF ReadingsInv, ReadingsTyped, Transactions, Transaction, Readings!Records, Readings!States
<1>2. record' \in {record, {verdict}, UNION {Readings!Written(entry, verdict) : entry \in seen}}
  BY DEF Readings!ParseFails
<1>3. /\ record' \subseteq Readings!Records
      /\ \A entry \in record' : entry.state = "acquired" =>
           \E before \in record : before.state = "acquired"
  <2>1. CASE record' = record
    BY <1>1, <2>1
  <2>2. CASE record' = {verdict}
    BY <1>1, <2>2
  <2>3. CASE record' = UNION {Readings!Written(entry, verdict) : entry \in seen}
    BY <1>1, <2>3, WrittenIsRecord
  <2> QED BY <1>2, <2>1, <2>2, <2>3
<1> QED BY <1>1, <1>3, Ending DEF Readings!ParseFails, Readings!At, ReadingsInv, ReadingsTyped

(* The links are read ...                                                   *)
LEMMA ReadLinksKeeps ==
  ASSUME ReadingsInv, NEW r \in Readers, Readings!ReadLinks(r) PROVE ReadingsInv'
<1>1. r \in Transactions /\ tx \in [Transactions -> Transaction] /\ tx[r] \in Transaction
  BY DEF ReadingsInv, ReadingsTyped, Transactions
<1> DEFINE new == [tx[r] EXCEPT !.pc = "unlink", !.link = link]
<1>2. Kept(r, new) /\ UNCHANGED <<record, verdicts>> /\ tx[r].pc = "links"
  BY <1>1, Steps DEF Readings!ReadLinks, Kept, Readings!At
<1>3. new \in Transaction
  BY <1>1 DEF ReadingsInv, ReadingsTyped, Transaction, Pcs
<1>4. /\ new.pc = "unlink" /\ new.rows = tx[r].rows /\ new.holds = tx[r].holds
      /\ new.took = tx[r].took /\ new.outcome = tx[r].outcome /\ new.status = tx[r].status
  BY <1>1 DEF Transaction
<1>5. /\ new.took => "link" \in new.holds
      /\ new.outcome \in Readings!Read /\ (new.status \in Readings!Read =>
           document \in Readings!Read)
  BY <1>1, <1>2, <1>4 DEF ReadingsInv, LinkHeld, Shows
<1> HIDE DEF new
<1> QED BY <1>1, <1>2, <1>3, <1>4, <1>5, Undisturbed

(* ... and deleted, if they are still there.                                *)
LEMMA UnlinkKeeps ==
  ASSUME ReadingsInv, NEW r \in Readers, Readings!Unlink(r) PROVE ReadingsInv'
<1>1. r \in Transactions /\ tx \in [Transactions -> Transaction] /\ tx[r] \in Transaction
  BY DEF ReadingsInv, ReadingsTyped, Transactions
<1> DEFINE took    == tx[r].link # {} /\ link = tx[r].link
           counted == IF tx[r].record = {} THEN {} ELSE {"record"}
           new     == [tx[r] EXCEPT !.pc = "snapshot", !.took = took,
                                    !.holds = counted \cup IF took THEN {"link"} ELSE {}]
<1>2. Kept(r, new) /\ UNCHANGED <<record, verdicts>> /\ tx[r].pc = "unlink"
  BY <1>1, Steps DEF Readings!Unlink, Kept, Readings!At
<1>3. new \in Transaction
  BY <1>1 DEF Transaction, Pcs
<1>4. /\ new.pc = "snapshot" /\ new.rows = tx[r].rows /\ new.took = took
      /\ new.holds = counted \cup (IF took THEN {"link"} ELSE {})
      /\ new.outcome = tx[r].outcome /\ new.status = tx[r].status
  BY <1>1 DEF Transaction
<1>5. new.outcome \in Readings!Read /\ (new.status \in Readings!Read => document \in Readings!Read)
  BY <1>2, <1>4 DEF ReadingsInv, Shows
<1>6. took => Readings!Free(r, "link")
  BY DEF Readings!Unlink
<1>7. "link" \in new.holds <=> took
  BY <1>4
<1> HIDE DEF new, took
<1> QED BY <1>1, <1>2, <1>3, <1>4, <1>5, <1>6, <1>7, Undisturbed

(* The lines to delete are seen: all those there are.                       *)
LEMMA SnapshotKeeps ==
  ASSUME ReadingsInv, NEW r \in Readers, Readings!Snapshot(r) PROVE ReadingsInv'
<1>1. r \in Transactions /\ tx \in [Transactions -> Transaction] /\ tx[r] \in Transaction
  BY DEF ReadingsInv, ReadingsTyped, Transactions
<1> DEFINE new == [tx[r] EXCEPT !.pc = "erase", !.rows = lines]
<1>2. Kept(r, new) /\ UNCHANGED <<record, verdicts>> /\ tx[r].pc = "snapshot"
  BY <1>1, Steps DEF Readings!Snapshot, Kept, Readings!At
<1>3. new \in Transaction
  BY <1>1 DEF ReadingsInv, ReadingsTyped, Transaction, Pcs
<1>4. /\ new.pc = "erase" /\ new.rows = lines /\ new.holds = tx[r].holds
      /\ new.took = tx[r].took /\ new.outcome = tx[r].outcome /\ new.status = tx[r].status
  BY <1>1 DEF Transaction
<1>5. /\ new.took => "link" \in new.holds
      /\ new.outcome \in Readings!Read /\ (new.status \in Readings!Read =>
           document \in Readings!Read)
  BY <1>1, <1>2, <1>4 DEF ReadingsInv, LinkHeld, Shows
<1> HIDE DEF new
<1> QED BY <1>1, <1>2, <1>3, <1>4, <1>5, Undisturbed

(* They are deleted, those that are left.                                   *)
LEMMA EraseKeeps ==
  ASSUME ReadingsInv, NEW r \in Readers, Readings!Erase(r) PROVE ReadingsInv'
<1>1. r \in Transactions /\ tx \in [Transactions -> Transaction] /\ tx[r] \in Transaction
  BY DEF ReadingsInv, ReadingsTyped, Transactions
<1> DEFINE new == [tx[r] EXCEPT !.pc = "write", !.gone = tx[r].rows \cap lines]
<1>2. Kept(r, new) /\ UNCHANGED <<record, verdicts>> /\ tx[r].pc = "erase"
  BY <1>1, Steps DEF Readings!Erase, Kept, Readings!At
<1>3. new \in Transaction
  BY <1>1 DEF Transaction, Pcs
<1>4. /\ new.pc = "write" /\ new.rows = tx[r].rows /\ new.gone = tx[r].rows \cap lines
      /\ new.holds = tx[r].holds /\ new.took = tx[r].took
      /\ new.outcome = tx[r].outcome /\ new.status = tx[r].status
  BY <1>1 DEF Transaction
<1>5. /\ new.took => "link" \in new.holds
      /\ new.outcome \in Readings!Read /\ (new.status \in Readings!Read =>
           document \in Readings!Read)
  BY <1>1, <1>2, <1>4 DEF ReadingsInv, LinkHeld, Shows
<1>6. /\ tx[r].rows = lines \/ ~(lines \subseteq tx[r].rows)
      /\ tx[r].took => tx[r].rows = lines \/ loose # {}
  BY <1>2 DEF ReadingsInv, ErasesAll, Exact, Replaced, TakersSeeAll, Readings!Replacing
<1> HIDE DEF new
<1> QED BY <1>1, <1>2, <1>3, <1>4, <1>5, <1>6, Undisturbed

(* The document is updated.                                                 *)
LEMMA WriteKeeps ==
  ASSUME ReadingsInv, NEW r \in Readers, Readings!Write(r) PROVE ReadingsInv'
<1>1. r \in Transactions /\ tx \in [Transactions -> Transaction] /\ tx[r] \in Transaction
  BY DEF ReadingsInv, ReadingsTyped, Transactions
<1>2. PICK differs \in BOOLEAN :
        tx' = [tx EXCEPT ![r].pc = Readings!NextPc(@),
                         ![r].holds = IF differs THEN Readings!Hold(r, "document") ELSE @]
  BY DEF Readings!Write
<1> DEFINE new == [tx[r] EXCEPT !.pc = "place",
                                !.holds = IF differs THEN tx[r].holds \cup {"document"} ELSE @]
<1>3. Kept(r, new) /\ UNCHANGED <<record, verdicts>> /\ tx[r].pc = "write"
  BY <1>1, <1>2, Steps DEF Readings!Write, Kept, Readings!At, Readings!Hold
<1>4. new \in Transaction
  BY <1>1 DEF Transaction, Pcs
<1>5. /\ new.pc = "place" /\ new.rows = tx[r].rows /\ new.gone = tx[r].gone
      /\ tx[r].holds \subseteq new.holds /\ new.holds \subseteq tx[r].holds \cup {"document"}
      /\ new.took = tx[r].took /\ new.outcome = tx[r].outcome /\ new.status = tx[r].status
  BY <1>1 DEF Transaction
<1>6. /\ new.took => "link" \in new.holds
      /\ new.outcome \in Readings!Read /\ (new.status \in Readings!Read =>
           document \in Readings!Read)
  BY <1>1, <1>3, <1>5 DEF ReadingsInv, LinkHeld, Shows
<1>7. /\ (tx[r].rows = lines /\ tx[r].gone = lines) \/ ~(lines \subseteq tx[r].rows)
      /\ tx[r].took => tx[r].rows = lines \/ loose # {}
  BY <1>3 DEF ReadingsInv, ErasesAll, Exact, Replaced, TakersSeeAll, Readings!Replacing
<1> HIDE DEF new
<1> QED BY <1>1, <1>3, <1>4, <1>5, <1>6, <1>7, Undisturbed

(* It is placed, in the link it holds or in a free one.                     *)
LEMMA PlaceKeeps ==
  ASSUME ReadingsInv, NEW r \in Readers, Readings!Place(r) PROVE ReadingsInv'
<1>1. r \in Transactions /\ tx \in [Transactions -> Transaction] /\ tx[r] \in Transaction
  BY DEF ReadingsInv, ReadingsTyped, Transactions
<1> DEFINE inserts == tx[r].took \/ link = {}
           new == [tx[r] EXCEPT !.pc = "commit", !.link = IF inserts THEN {r} ELSE {},
                                !.holds = IF inserts THEN tx[r].holds \cup {"link"} ELSE @]
<1>2. Kept(r, new) /\ UNCHANGED <<record, verdicts>> /\ tx[r].pc = "place"
  BY <1>1, Steps DEF Readings!Place, Kept, Readings!At, Readings!Hold
<1>3. new \in Transaction
  BY <1>1 DEF Transaction, Pcs, Readings!Sources
<1>4. /\ new.pc = "commit" /\ new.rows = tx[r].rows /\ new.gone = tx[r].gone
      /\ tx[r].holds \subseteq new.holds
      /\ "link" \in new.holds \ tx[r].holds => inserts
      /\ new.took = tx[r].took /\ new.outcome = tx[r].outcome /\ new.status = tx[r].status
  BY <1>1 DEF Transaction
<1>5. /\ new.took => "link" \in new.holds
      /\ new.outcome \in Readings!Read /\ (new.status \in Readings!Read =>
           document \in Readings!Read)
  BY <1>1, <1>2, <1>4 DEF ReadingsInv, LinkHeld, Shows
<1>6. /\ (tx[r].rows = lines /\ tx[r].gone = lines) \/ ~(lines \subseteq tx[r].rows)
      /\ tx[r].took => tx[r].rows = lines \/ loose # {}
  BY <1>2 DEF ReadingsInv, ErasesAll, Exact, Replaced, TakersSeeAll, Readings!Replacing
<1>7. inserts => Readings!Free(r, "link")
  BY DEF Readings!Place
<1> HIDE DEF new, inserts
<1> QED BY <1>1, <1>2, <1>3, <1>4, <1>5, <1>6, <1>7, Undisturbed

(* A reviewer reads the record ...                                          *)
LEMMA ReadRecordKeeps ==
  ASSUME ReadingsInv, NEW t \in Reviewers, Readings!ReadRecord(t) PROVE ReadingsInv'
<1>1. t \in Transactions /\ tx \in [Transactions -> Transaction] /\ tx[t] \in Transaction
  BY DEF ReadingsInv, ReadingsTyped, Transactions
<1> DEFINE new == [tx[t] EXCEPT !.pc = "classify", !.record = record]
<1>2. Kept(t, new) /\ UNCHANGED <<record, verdicts>> /\ tx[t].pc = "idle"
  BY <1>1 DEF Readings!ReadRecord, Kept, Readings!At
<1>3. new \in Transaction
  BY <1>1 DEF ReadingsInv, ReadingsTyped, Transaction, Pcs
<1>4. new.pc = "classify" /\ new.rows = tx[t].rows /\ new.holds = tx[t].holds
      /\ new.took = tx[t].took
  BY <1>1 DEF Transaction
<1>5. new.took => "link" \in new.holds
  BY <1>1, <1>4 DEF ReadingsInv, LinkHeld
<1> HIDE DEF new
<1> QED BY <1>1, <1>2, <1>3, <1>4, <1>5, Undisturbed

(* ... and classifies the acquisition.                                      *)
LEMMA ClassifyKeeps ==
  ASSUME ReadingsInv, NEW t \in Reviewers, Readings!Classify(t) PROVE ReadingsInv'
<1>1. PICK state \in Readings!States :
        /\ record' \in {{[state |-> state, automatic |-> FALSE]},
                       UNION {Readings!Written(entry, [state |-> state, automatic |-> FALSE]) :
                                entry \in tx[t].record}}
        /\ verdicts' = verdicts \cup {state}
  BY DEF Readings!Classify
<1> DEFINE verdict == [state |-> state, automatic |-> FALSE]
<1>2. /\ t \in Transactions /\ verdict \in Readings!Records /\
           tx[t].record \subseteq Readings!Records
      /\ record \subseteq Readings!Records /\ verdicts \subseteq Readings!States
  BY DEF ReadingsInv, ReadingsTyped, Transactions, Transaction, Readings!Records
<1>3. verdict.state = state
  OBVIOUS
<1> HIDE DEF verdict
<1>4. /\ record' \subseteq Readings!Records
      /\ \A entry \in record' : entry.state = state \/
           \E before \in record : entry.state = before.state
  <2>1. CASE record' = {verdict}
    BY <1>2, <1>3, <2>1
  <2>2. CASE record' = UNION {Readings!Written(entry, verdict) : entry \in tx[t].record}
    BY <1>2, <1>3, <2>2, WrittenIsRecord
  <2> QED BY <1>1, <2>1, <2>2 DEF verdict
<1>5. \A entry \in record' : entry.state = "acquired" =>
        "acquired" \in verdicts' \/ \E before \in record : before.state = "acquired"
  BY <1>1, <1>4
<1> QED BY <1>1, <1>2, <1>4, <1>5, Ending DEF Readings!Classify, Readings!At

(* Anything is rolled back.                                                 *)
LEMMA FailKeeps ==
  ASSUME ReadingsInv, NEW t \in Transactions, Readings!Fail(t) PROVE ReadingsInv'
BY Ending DEF Readings!Fail, ReadingsInv, ReadingsTyped
-----------------------------------------------------------------------------
(* A reading that commits: its lines replace those it erased.               *)
LEMMA CommitKeeps ==
  ASSUME ReadingsInv, NEW r \in Readers, Readings!Commit(r) PROVE ReadingsInv'
<1> DEFINE new == [Readings!Idle EXCEPT !.pc = "ended"]
<1>1. /\ r \in Transactions /\ r \in Readings!Sources /\ tx \in [Transactions -> Transaction]
      /\ tx[r] \in Transaction /\ Readers \subseteq Transactions
  BY DEF ReadingsInv, ReadingsTyped, Transactions, Readings!Sources
<1>2. /\ new \in Transaction /\ new.pc = "ended" /\ new.rows = {} /\ new.holds = {}
      /\ new.took = FALSE
  BY Ended DEF Readings!Idle
<1>3. tx' = [tx EXCEPT ![r] = new] /\ tx[r].pc = "commit"
  BY DEF Readings!Commit, Readings!End, Readings!At
<1> HIDE DEF new
<1>4. /\ tx' \in [Transactions -> Transaction] /\ tx'[r] = new
      /\ \A s \in Transactions \ {r} : tx'[s] = tx[s]
  BY <1>1, <1>2, <1>3
<1>5. lines' = (lines \ tx[r].gone) \cup {r}
  BY DEF Readings!Commit
<1>6. /\ tx[r].outcome \in Readings!Read /\ (tx[r].status \in Readings!Read =>
           document \in Readings!Read)
      /\ \/ tx[r].rows = lines /\ tx[r].gone = lines
         \/ ~(lines \subseteq tx[r].rows)
  BY <1>3 DEF ReadingsInv, Shows, ErasesAll, Exact, Readings!Replacing
<1>7. document' \in Readings!Read
  BY <1>6 DEF Readings!Commit
<1>8. ReadingsTyped'
  <2>1. record' \subseteq Readings!Records
    <3> DEFINE verdict == [state |-> Readings!Automatic(tx[r].outcome), automatic |-> TRUE]
               seen == IF tx[r].record = {} THEN record ELSE tx[r].record
    <3>1. verdict \in Readings!Records /\ seen \subseteq Readings!Records /\
            record \subseteq Readings!Records
      BY <1>1, <1>6 DEF ReadingsInv, ReadingsTyped, Transaction, Readings!Records,
         Readings!Automatic, Readings!Read, Readings!States
    <3>2. record' \in {record, UNION {Readings!Written(entry, verdict) : entry \in seen}}
      BY DEF Readings!Commit
    <3> HIDE DEF verdict, seen
    <3> QED BY <3>1, <3>2, WrittenIsRecord
  <2>2. link' \subseteq Readings!Sources /\ lines' \subseteq Readings!Sources
    BY <1>1, <1>5 DEF Readings!Commit, ReadingsInv, ReadingsTyped, Transaction
  <2>3. loose' \subseteq Readers /\ verdicts' \subseteq Readings!States
    BY DEF Readings!Commit, ReadingsInv, ReadingsTyped
  <2> QED BY <1>4, <1>7, <2>1, <2>2, <2>3 DEF ReadingsTyped, Readings!Statuses
<1>9. SeenIsOver'
  <2>1. \A x \in Readings!Sources : Over(x) => Over(x)'
    BY <1>1, <1>2, <1>4 DEF Over, Readings!Sources, Transactions
  <2>2. Over(r)'
    BY <1>2, <1>4 DEF Over
  <2>3. /\ lines \subseteq Readings!Sources
        /\ \A s \in Readers : tx[s].rows \subseteq Readings!Sources /\
             tx'[s].rows \subseteq tx[s].rows
    BY <1>1, <1>2, <1>4 DEF ReadingsInv, ReadingsTyped, Transaction
  <2> QED BY <1>5, <2>1, <2>2, <2>3 DEF SeenIsOver, ReadingsInv
<1>10. LinkHeld'
  BY <1>2, <1>4 DEF LinkHeld, ReadingsInv
<1>11. \A s \in Readers \ {r} : r \notin tx[s].rows
  BY <1>3, NamesAssumption DEF ReadingsInv, SeenIsOver, Over
<1>12. ErasesAll'
  BY <1>1, <1>2, <1>4, <1>5, <1>11 DEF ErasesAll, Readings!Replacing
<1>13. Replaced'
  <2> SUFFICES ASSUME loose' = {} PROVE OneSource' /\ TakersSeeAll'
    BY DEF Replaced
  <2>1. /\ loose = {}
        /\ ~tx[r].took => tx[r].rows = lines /\ \A s \in Readers \ {r} : ~Readings!Replacing(s)
    BY DEF Readings!Commit
  <2>2. tx[r].took => tx[r].rows = lines
    BY <1>3, <2>1 DEF ReadingsInv, Replaced, TakersSeeAll, Readings!Replacing
  <2>3. OneSource'
    BY <1>1, <1>5, <1>6, <2>1, <2>2 DEF OneSource, Readings!Sources
  <2>4. \A s \in Readers \ {r} : ~(Readings!Replacing(s) /\ tx[s].took)
    BY <1>1, <2>1 DEF ReadingsInv, LinkHeld
  <2> QED BY <1>1, <1>2, <1>4, <2>3, <2>4 DEF TakersSeeAll, Readings!Replacing
<1>14. Shows'
  BY <1>1, <1>2, <1>4, <1>5, <1>7 DEF Shows, ReadingsInv, Readings!Read
<1> QED BY <1>8, <1>9, <1>10, <1>12, <1>13, <1>14 DEF ReadingsInv

(* Every step keeps the invariant.                                          *)
LEMMA ReadingsStep ==
  ASSUME ReadingsInv, [Readings!Next]_Readings!vars PROVE ReadingsInv'
<1>1. CASE UNCHANGED Readings!vars
  BY <1>1 DEF Readings!vars, ReadingsInv, ReadingsTyped, SeenIsOver, Over, LinkHeld, ErasesAll,
     Exact, Readings!Replacing, Replaced,
              OneSource, TakersSeeAll, Shows
<1>2. ASSUME NEW r \in Readers, Readings!ReadAgain(r) PROVE ReadingsInv'
  BY <1>2, BeginKeeps, ParseKeeps, ParseFailsKeeps, ReadLinksKeeps, UnlinkKeeps, SnapshotKeeps,
     EraseKeeps, WriteKeeps, PlaceKeeps, CommitKeeps DEF Readings!ReadAgain
<1>3. ASSUME NEW t \in Reviewers, Readings!ReadRecord(t) \/ Readings!Classify(t) PROVE ReadingsInv'
  BY <1>3, ReadRecordKeeps, ClassifyKeeps
<1>4. ASSUME NEW t \in Transactions, Readings!Fail(t) PROVE ReadingsInv'
  BY <1>4, FailKeeps
<1> QED BY <1>1, <1>2, <1>3, <1>4 DEF Readings!Next, Transactions
-----------------------------------------------------------------------------

(* There is one record of the document and one link, also as seen before.   *)
One(S)  == \A x, y \in S : x = y
Singles == One(link) /\ One(record) /\ \A t \in Transactions : One(tx[t].link) /\ One(tx[t].record)

(* An UPDATE makes no second record.                                        *)
LEMMA WrittenIsOne ==
  ASSUME One(record), NEW seen, One(seen), NEW new
  PROVE  One(UNION {Readings!Written(entry, new) : entry \in seen})
<1> SUFFICES \A e, f \in seen :
               \A x \in Readings!Written(e, new), y \in Readings!Written(f, new) : x = y
  BY DEF One
<1> TAKE e, f \in seen
<1> TAKE x \in Readings!Written(e, new), y \in Readings!Written(f, new)
<1> DEFINE W(before) == [column \in {"state", "automatic"} |->
                          IF e[column] # new[column] THEN new[column] ELSE before[column]]
<1>1. e = f
  BY DEF One
<1>2. PICK b \in record : x = W(b)
  BY DEF Readings!Written
<1>3. PICK c \in record : y = W(c)
  BY <1>1 DEF Readings!Written
<1>4. b = c
  BY DEF One
<1> QED BY <1>2, <1>3, <1>4

(* A step gives one transaction a new record of what it has seen.           *)
LEMMA SinglesKept ==
  ASSUME ReadingsTyped, Singles, NEW t \in Transactions, NEW new \in Transaction,
         tx' = [tx EXCEPT ![t] = new], One(link'), One(record'), One(new.link), One(new.record)
  PROVE  Singles'
<1>1. \A s \in Transactions : tx'[s] = IF s = t THEN new ELSE tx[s]
  BY DEF ReadingsTyped
<1> QED BY <1>1 DEF Singles

(* A reading or review that ends.                                           *)
LEMMA EndIsSingle ==
  ASSUME ReadingsTyped, Singles, NEW t \in Transactions, Readings!End(t), One(link'), One(record')
  PROVE  Singles'
<1> DEFINE new == [Readings!Idle EXCEPT !.pc = "ended"]
<1>1. new \in Transaction /\ tx' = [tx EXCEPT ![t] = new]
  BY Ended DEF Readings!End
<1>2. One(new.link) /\ One(new.record)
  BY DEF One, Readings!Idle
<1> HIDE DEF new
<1> QED BY <1>1, <1>2, SinglesKept

LEMMA SinglesInit ==
  ASSUME Readings!Init PROVE Singles
BY DEF Readings!Init, Singles, One, Transactions, Readings!Idle

(* No reading and no review adds a second record or a second link.          *)
LEMMA SinglesStep ==
  ASSUME ReadingsTyped, Singles, [Readings!Next]_Readings!vars PROVE Singles'
<1>1. CASE UNCHANGED Readings!vars
  BY <1>1 DEF Readings!vars, Singles, One
<1>2. ASSUME NEW r \in Readers, Readings!ReadAgain(r) PROVE Singles'
  <2>1. /\ r \in Transactions /\ tx \in [Transactions -> Transaction] /\ tx[r] \in Transaction
        /\ One(link) /\ One(record) /\ One(tx[r].link) /\ One(tx[r].record)
        /\ One({}) /\ One({r})
    BY DEF ReadingsTyped, Transactions, Singles, One
  <2>2. CASE Readings!Begin(r)
    <3>1. PICK way \in {"retry", "reprocess"} :
            tx' = [tx EXCEPT ![r].pc = "parse", ![r].kind = way, ![r].status = document,
                             ![r].record = IF way = "retry" THEN record ELSE {}]
      BY <2>2 DEF Readings!Begin
    <3>2. UNCHANGED <<link, record>>
      BY <2>2 DEF Readings!Begin
    <3>3. \A s \in Transactions :
            /\ tx'[s].link = tx[s].link
            /\ tx'[s].record \in {tx[s].record, record, {}}
      BY <2>1, <3>1 DEF Transaction
    <3> QED BY <2>1, <3>2, <3>3 DEF Singles
  <2>3. ASSUME Readings!Parse(r) \/ Readings!ReadLinks(r) \/ Readings!Unlink(r)
               \/ Readings!Snapshot(r) \/ Readings!Erase(r) \/ Readings!Write(r)
               \/ Readings!Place(r)
        PROVE  Singles'
    <3>1. UNCHANGED <<link, record>>
      BY <2>3 DEF Readings!Parse, Readings!ReadLinks, Readings!Unlink, Readings!Snapshot,
         Readings!Erase, Readings!Write, Readings!Place
    <3>2. \A s \in Transactions :
            /\ tx'[s].link \in {tx[s].link, link, {r}, {}}
            /\ tx'[s].record = tx[s].record
      <4>1. CASE Readings!Parse(r)
        BY <2>1, <4>1 DEF Readings!Parse, Transaction
      <4>2. CASE Readings!ReadLinks(r)
        BY <2>1, <4>2 DEF Readings!ReadLinks, Transaction
      <4>3. CASE Readings!Unlink(r)
        BY <2>1, <4>3 DEF Readings!Unlink, Transaction
      <4>4. CASE Readings!Snapshot(r) \/ Readings!Erase(r)
        BY <2>1, <4>4 DEF Readings!Snapshot, Readings!Erase, Transaction
      <4>5. CASE Readings!Write(r)
        BY <2>1, <4>5 DEF Readings!Write, Transaction
      <4>6. CASE Readings!Place(r)
        BY <2>1, <4>6 DEF Readings!Place, Transaction
      <4> QED BY <2>3, <4>1, <4>2, <4>3, <4>4, <4>5, <4>6
    <3> QED BY <2>1, <3>1, <3>2 DEF Singles
  <2>4. CASE Readings!ParseFails(r)
    <3> DEFINE verdict == [state |-> "not_acquired", automatic |-> TRUE]
               seen == IF tx[r].record = {} THEN record ELSE tx[r].record
    <3>1. record' \in {record, {verdict}, UNION {Readings!Written(entry, verdict) : entry \in seen}}
      BY <2>4 DEF Readings!ParseFails
    <3>2. One({verdict}) /\ One(seen)
      BY <2>1 DEF One
    <3> HIDE DEF verdict, seen
    <3>3. One(UNION {Readings!Written(entry, verdict) : entry \in seen})
      BY <2>1, <3>2, WrittenIsOne
    <3>4. One(record')
      BY <2>1, <3>1, <3>2, <3>3
    <3> QED BY <2>1, <2>4, <3>4, EndIsSingle DEF Readings!ParseFails
  <2>5. CASE Readings!Commit(r)
    <3> DEFINE verdict == [state |-> Readings!Automatic(tx[r].outcome), automatic |-> TRUE]
               seen == IF tx[r].record = {} THEN record ELSE tx[r].record
    <3>1. record' \in {record, UNION {Readings!Written(entry, verdict) : entry \in seen}}
      BY <2>5 DEF Readings!Commit
    <3>2. One(seen) /\ link' \in {link, tx[r].link} /\ Readings!End(r)
      BY <2>1, <2>5 DEF Readings!Commit
    <3> HIDE DEF verdict, seen
    <3>3. One(record') /\ One(link')
      BY <2>1, <3>1, <3>2, WrittenIsOne
    <3> QED BY <2>1, <3>2, <3>3, EndIsSingle
  <2> QED BY <1>2, <2>2, <2>3, <2>4, <2>5 DEF Readings!ReadAgain
<1>3. ASSUME NEW t \in Reviewers, Readings!ReadRecord(t) PROVE Singles'
  <2>1. t \in Transactions /\ tx \in [Transactions -> Transaction] /\ UNCHANGED <<link, record>>
    BY <1>3 DEF ReadingsTyped, Transactions, Readings!ReadRecord
  <2>2. \A s \in Transactions :
          tx'[s].link = tx[s].link /\ tx'[s].record \in {tx[s].record, record}
    BY <1>3, <2>1 DEF Readings!ReadRecord, Transaction
  <2> QED BY <2>1, <2>2 DEF Singles
<1>4. ASSUME NEW t \in Reviewers, Readings!Classify(t) PROVE Singles'
  <2>1. t \in Transactions /\ One(link') /\ One(record) /\ One(tx[t].record) /\ Readings!End(t)
    BY <1>4 DEF Transactions, Singles, Readings!Classify
  <2>2. PICK state \in Readings!States :
          record' = IF tx[t].record = {} THEN {[state |-> state, automatic |-> FALSE]}
                    ELSE UNION {Readings!Written(entry, [state |-> state, automatic |-> FALSE]) :
                                  entry \in tx[t].record}
    BY <1>4 DEF Readings!Classify
  <2> DEFINE verdict == [state |-> state, automatic |-> FALSE]
  <2>3. record' \in {{verdict}, UNION {Readings!Written(entry, verdict) : entry \in tx[t].record}}
    BY <2>2
  <2>4. One({verdict})
    BY DEF One
  <2> HIDE DEF verdict
  <2>5. One(UNION {Readings!Written(entry, verdict) : entry \in tx[t].record})
    BY <2>1, WrittenIsOne
  <2>6. One(record')
    BY <2>3, <2>4, <2>5
  <2> QED BY <2>1, <2>6, EndIsSingle
<1>5. ASSUME NEW t \in Transactions, Readings!Fail(t) PROVE Singles'
  BY <1>5, EndIsSingle DEF Readings!Fail, Singles
<1> QED BY <1>1, <1>2, <1>3, <1>4, <1>5 DEF Readings!Next, Transactions

LEMMA ReadingsCardinality ==
  ASSUME NEW S PROVE Readings!Cardinality(S) = Cardinality(S)
BY Zenon DEF Readings!Cardinality, Cardinality

LEMMA ReadingsScope ==
  ASSUME [Next]_vars, scope' = "readings"
  PROVE  scope = "readings" /\ [Readings!Next]_Readings!vars
BY DEF Next, vars, readings, Readings!vars, PracticesNext, PilotsNext, AccountsNext, ProfilesNext,
       BackupsNext, EditionNext, LimitsNext, ProtocolNext, ReadingsNext, BatchesNext

ReadingsHold == scope = "readings" => ReadingsInv /\ Singles

(* What holds of the readings in every behaviour.                           *)
LEMMA ReadingsAlways == Spec => []ReadingsHold
<1>1. Init => ReadingsHold
  BY ReadingsInit, SinglesInit DEF Init, ReadingsHold
<1>2. ReadingsHold /\ [Next]_vars => ReadingsHold'
  BY ReadingsScope, ReadingsStep, SinglesStep DEF ReadingsHold, ReadingsInv
<1> QED BY <1>1, <1>2, PTL DEF Spec

(* The lines of a document are those of one reading, whatever readings,     *)
(* retries and reviews overlap, unless readings without a link to hold have *)
(* replaced them together (reprocess_document); it has lines exactly if it  *)
(* could be read, and one that could not is shown as acquired only after a  *)
(* reviewer said so (get_intake_outcomes).                                  *)
THEOREM ReadingsReplaceEachOther == Spec => []ReadingsReplace
<1>1. ReadingsInv => Readings!ReadingsReplace
  <2> SUFFICES ASSUME ReadingsInv, loose = {} PROVE Cardinality(lines) <= 1
    BY ReadingsCardinality DEF Readings!ReadingsReplace
  <2>1. CASE lines = {}
    BY <2>1, FS_EmptySet
  <2>2. CASE \E x \in Readings!Sources : lines = {x}
    <3>1. PICK x \in Readings!Sources : lines = {x}
      BY <2>2
    <3>2. Cardinality({x}) = 1
      BY FS_Singleton
    <3> QED BY <3>1, <3>2
  <2> QED BY <2>1, <2>2 DEF ReadingsInv, Replaced, OneSource
<1>2. ReadingsInv => Readings!FailuresAreShown
  <2> SUFFICES ASSUME ReadingsInv, document = "failed"
               PROVE  Readings!Shown \subseteq (Readings!States \ {"acquired"}) \cup verdicts
    BY DEF Readings!FailuresAreShown, ReadingsInv, Shows
  <2>1. CASE record = {}
    BY <2>1 DEF Readings!Shown, Readings!Automatic, Readings!States
  <2>2. CASE record # {}
    BY <2>2 DEF Readings!Shown, ReadingsInv, ReadingsTyped, Shows, Readings!Records
  <2> QED BY <2>1, <2>2
<1>3. ReadingsHold => ReadingsReplace
  BY <1>1, <1>2 DEF ReadingsHold, ReadingsReplace
<1> QED BY <1>3, ReadingsAlways, PTL
-----------------------------------------------------------------------------
(* Archives of documents.                                                  *)

None == Batches!NoRow
BatchRow == [status : {"none", "processing", "parsed", "failed"},
             by : {"nobody", "batch", "upload"}]
Outcomes == {"skipped", "failed", "duplicate", "ingested", "parse_failed"}
Rows == [Contents -> BatchRow]

BatchTyped ==
  /\ archive \in Seq(Contents \cup {Foreign}) /\ entered \in Rows
  /\ job \in [status : {"queued", "running", "completed", "failed"}, attempts : Nat,
              report : Seq(Outcomes)]
  /\ run \in [pc : {"idle", "members", "insert", "parse", "unlinked", "finished"}, made : Rows,
              report : Seq(Outcomes)]
  /\ other \in [pc : {"idle", "insert", "parse", "parsed", "raised"}, made : Rows, report : {<<>>}]

(* Of a content there is one row, committed or not.                         *)
OneRow ==
  \A c \in Contents :
    /\ run.made[c] # None =>
         run.made[c].by = "batch" /\ entered[c] = None /\ other.made[c] = None
    /\ other.made[c] # None =>
         c = Rival /\ other.made[c].by = "upload" /\ entered[c] = None

(* What a batch reports of its members so far.                              *)
Tells(x) ==
  \A c \in Contents :
    /\ \A i \in 1 .. Len(x.report) : archive[i] = c =>
         /\ x.report[i] = "ingested"     => x.made[c] = [status |-> "parsed", by |-> "batch"]
         /\ x.report[i] = "parse_failed" => x.made[c] = [status |-> "failed", by |-> "batch"]
         /\ x.report[i] = "duplicate"    => x.made[c] # None \/ entered[c] # None
    /\ x.made[c] # None =>
         \/ x.made[c].status = "processing"
         \/ \E i \in 1 .. Len(x.report) :
              archive[i] = c /\ x.report[i] \in {"ingested", "parse_failed"}

(* The member that is at work, of which nothing has been reported but that  *)
(* it failed.                                                               *)
Current(x) == archive[Len(x.report) + 1]
Unheard(x, c) ==
  \A i \in 1 .. Len(x.report) :
    archive[i] = c => x.report[i] \notin {"ingested", "parse_failed", "duplicate"}

Progresses(x) ==
  /\ x.pc = "idle" => x = Batches!Quiet
  /\ x.pc \in {"insert", "parse", "unlinked"} =>
       Len(x.report) < Len(archive) /\ Current(x) \in Contents /\ Unheard(x, Current(x))
  /\ x.pc = "insert" => x.made[Current(x)] = None
  /\ x.pc \in {"parse", "unlinked"} => x.made[Current(x)].status = "processing"
  /\ \A c \in Contents :
       x.made[c].status = "processing" => x.pc \in {"parse", "unlinked"} /\ c = Current(x)
  /\ x.pc = "finished" => Len(x.report) = Len(archive)
  /\ Tells(x)

UploadProgresses ==
  /\ other.pc = "idle" => other = Batches!Quiet
  /\ other.pc = "insert" => other.made[Rival] = None
  /\ other.pc = "parse" => other.made[Rival].status = "processing"
  /\ other.pc = "parsed" => other.made[Rival].status # "processing"

HasOriginal(r, c) == r.status = "parsed" => c \in originals
OriginalsThere ==
  \A c \in Contents : /\ HasOriginal(entered[c], c) /\ HasOriginal(run.made[c], c)
                      /\ HasOriginal(other.made[c], c)

BatchInv ==
  /\ BatchTyped /\ OneRow /\ Progresses(run) /\ UploadProgresses /\ OriginalsThere
  /\ run.pc = "idle" <=> job.status # "running"
  /\ Batches!ReportsAreTrue /\ Batches!AllOrNothing /\ Batches!NoneInProgress
-----------------------------------------------------------------------------
LEMMA QuietRows ==
  /\ None \in BatchRow /\ None.status = "none" /\ None.by = "nobody"
  /\ Batches!Quiet.pc = "idle" /\ Batches!Quiet.report = <<>>
  /\ Batches!Quiet.made \in Rows /\ \A c \in Contents : Batches!Quiet.made[c] = None
  /\ Batches!Quiet \in [pc : {"idle"}, made : Rows, report : {<<>>}]
<1>1. None \in BatchRow /\ None.status = "none" /\ None.by = "nobody"
  BY DEF None, Batches!NoRow, BatchRow
<1> QED BY <1>1 DEF Batches!Quiet, Rows, None

LEMMA BatchStarts ==
  ASSUME Batches!Init PROVE BatchInv
<1>1. /\ archive \in Seq(Contents \cup {Foreign})
      /\ entered \in Rows /\ \A c \in Contents : entered[c] = None
      /\ job = [status |-> "queued", attempts |-> 0, report |-> <<>>]
      /\ job.status = "queued"
      /\ run = Batches!Quiet /\ other = Batches!Quiet
  BY BatchesAssumption, QuietRows DEF Batches!Init, Rows, None
<1>2. BatchTyped
  <2>1. <<>> \in Seq(Outcomes)
    OBVIOUS
  <2>2. job \in [status : {"queued", "running", "completed", "failed"}, attempts : Nat,
                 report : Seq(Outcomes)]
    BY <1>1, <2>1
  <2>3. Batches!Quiet = [pc |-> "idle", made |-> Batches!Quiet.made, report |-> <<>>]
    BY DEF Batches!Quiet
  <2> QED BY <1>1, <2>1, <2>2, <2>3, QuietRows DEF BatchTyped
<1>3. OneRow /\ UploadProgresses
  BY <1>1, QuietRows, BatchesAssumption DEF OneRow, UploadProgresses
<1>4. Progresses(run)
  <2>1. Len(run.report) = 0
    BY <1>1, QuietRows
  <2> QED BY <1>1, <2>1, QuietRows DEF Progresses, Tells
<1>5. OriginalsThere
  BY <1>1, QuietRows DEF OriginalsThere, HasOriginal
<1>6. Batches!ReportsAreTrue /\ Batches!AllOrNothing /\ Batches!NoneInProgress
  BY <1>1, QuietRows DEF Batches!ReportsAreTrue, Batches!AllOrNothing, Batches!NoneInProgress
<1> QED BY <1>1, <1>2, <1>3, <1>4, <1>5, <1>6, QuietRows DEF BatchInv

(* A step of the batch before its end.                                      *)
LEMMA BatchGoesOn ==
  ASSUME BatchInv, run.pc # "idle",
         UNCHANGED <<archive, job, entered, other>>,
         NEW x \in [pc : {"members", "insert", "parse", "unlinked", "finished"}, made : Rows,
                    report : Seq(Outcomes)],
         run' = x, Progresses(x),
         \A c \in Contents :
           /\ x.made[c] # None =>
                x.made[c].by = "batch" /\ entered[c] = None /\ other.made[c] = None
           /\ x.made[c].status = "parsed" => c \in originals'
           /\ entered[c].status = "parsed" \/ other.made[c].status = "parsed"
                => (c \in originals => c \in originals')
  PROVE  BatchInv'
<1>1. BatchTyped'
  BY DEF BatchInv, BatchTyped
<1>2. OneRow' /\ OriginalsThere'
  BY DEF BatchInv, OneRow, OriginalsThere, HasOriginal
<1>3. Progresses(run)' /\ UploadProgresses'
  BY DEF BatchInv, Progresses, Tells, Current, Unheard, UploadProgresses, Batches!Quiet,
     Batches!NoRow
<1>4. run'.pc # "idle" /\ (run.pc = "idle" <=> job.status # "running")
  BY DEF BatchInv
<1>5. Batches!ReportsAreTrue' /\ Batches!AllOrNothing' /\ Batches!NoneInProgress'
  BY DEF BatchInv, Batches!ReportsAreTrue, Batches!AllOrNothing, Batches!NoneInProgress,
         Batches!Entries
<1> QED BY <1>1, <1>2, <1>3, <1>4, <1>5 DEF BatchInv

(* A member gets its entry.                                                 *)
LEMMA MemberReported ==
  ASSUME BatchTyped, Tells(run), NEW e \in Outcomes,
         NEW x \in [pc : {"members"}, made : Rows, report : Seq(Outcomes)],
         x.report = Append(run.report, e),
         \A c \in Contents : c # Current(run) =>
           x.made[c] = run.made[c] /\ run.made[c].status # "processing",
         Current(run) \in Contents =>
           LET c == Current(run) IN
           /\ x.made[c] = run.made[c] \/ Unheard(run, c)
           /\ e = "ingested"     => x.made[c] = [status |-> "parsed", by |-> "batch"]
           /\ e = "parse_failed" => x.made[c] = [status |-> "failed", by |-> "batch"]
           /\ e = "duplicate"    => x.made[c] # None \/ entered[c] # None
           /\ x.made[c] # None => \/ e \in {"ingested", "parse_failed"}
                                  \/ x.made[c] = run.made[c]
           /\ x.made[c].status # "processing"
  PROVE  Progresses(x)
<1> DEFINE n == Len(run.report)
<1>1. /\ n \in Nat /\ Len(x.report) = n + 1 /\ x.report[n + 1] = e
      /\ \A i \in 1 .. n : x.report[i] = run.report[i]
  BY DEF BatchTyped
<1>2. \A i \in 1 .. n + 1 : i \in 1 .. n \/ i = n + 1
  BY <1>1
<1>3. n + 1 \in 1 .. n + 1 /\ \A i \in 1 .. n : i \in 1 .. n + 1
  BY <1>1
<1> HIDE DEF n
<1>4. Current(run) = archive[n + 1]
  BY DEF Current, n
<1>5. ASSUME NEW c \in Contents, c # Current(run)
      PROVE  /\ \A i \in 1 .. n + 1 : archive[i] = c =>
                  /\ x.report[i] = "ingested"     =>
                       x.made[c] = [status |-> "parsed", by |-> "batch"]
                  /\ x.report[i] = "parse_failed" =>
                       x.made[c] = [status |-> "failed", by |-> "batch"]
                  /\ x.report[i] = "duplicate"    => x.made[c] # None \/ entered[c] # None
             /\ x.made[c] # None =>
                  \/ x.made[c].status = "processing"
                  \/ \E i \in 1 .. n + 1 :
                       archive[i] = c /\ x.report[i] \in {"ingested", "parse_failed"}
  BY <1>1, <1>2, <1>3, <1>4, <1>5 DEF Tells, n
<1>6. ASSUME NEW c \in Contents, c = Current(run)
      PROVE  /\ \A i \in 1 .. n + 1 : archive[i] = c =>
                  /\ x.report[i] = "ingested"     =>
                       x.made[c] = [status |-> "parsed", by |-> "batch"]
                  /\ x.report[i] = "parse_failed" =>
                       x.made[c] = [status |-> "failed", by |-> "batch"]
                  /\ x.report[i] = "duplicate"    => x.made[c] # None \/ entered[c] # None
             /\ x.made[c] # None =>
                  \/ x.made[c].status = "processing"
                  \/ \E i \in 1 .. n + 1 :
                       archive[i] = c /\ x.report[i] \in {"ingested", "parse_failed"}
  <2>1. /\ x.made[c] = run.made[c] \/ Unheard(run, c)
        /\ e = "ingested"     => x.made[c] = [status |-> "parsed", by |-> "batch"]
        /\ e = "parse_failed" => x.made[c] = [status |-> "failed", by |-> "batch"]
        /\ e = "duplicate"    => x.made[c] # None \/ entered[c] # None
        /\ x.made[c] # None => \/ e \in {"ingested", "parse_failed"}
                               \/ x.made[c] = run.made[c]
        /\ x.made[c].status # "processing"
    BY <1>6
  <2>2. ASSUME NEW i \in 1 .. n, archive[i] = c
        PROVE  /\ x.report[i] = "ingested"     => x.made[c] = [status |-> "parsed", by |-> "batch"]
               /\ x.report[i] = "parse_failed" => x.made[c] = [status |-> "failed", by |-> "batch"]
               /\ x.report[i] = "duplicate"    => x.made[c] # None \/ entered[c] # None
    BY <1>1, <2>1, <2>2 DEF Tells, Unheard, n
  <2>3. x.made[c] # None /\ e \notin {"ingested", "parse_failed"} =>
          \E i \in 1 .. n : archive[i] = c /\ run.report[i] \in {"ingested", "parse_failed"}
    BY <2>1 DEF Tells, n
  <2> QED BY <1>1, <1>2, <1>3, <1>4, <1>6, <2>1, <2>2, <2>3
<1>7. Tells(x)
  BY <1>1, <1>5, <1>6 DEF Tells
<1> QED BY <1>7 DEF Progresses

(* Report and EXCEPT, written out.                                          *)
LEMMA ReportIs ==
  ASSUME BatchTyped, NEW e \in Outcomes
  PROVE  Batches!Report(e) = [pc |-> "members", made |-> run.made, report |-> Append(run.report, e)]
<1>1. /\ run = [pc |-> run.pc, made |-> run.made, report |-> run.report]
      /\ run \in [pc : {"idle", "members", "insert", "parse", "unlinked", "finished"}, made : Rows,
                  report : Seq(Outcomes)]
  BY DEF BatchTyped
<1>2. Batches!Report(e) = [run EXCEPT !.pc = "members", !.report = Append(run.report, e)]
  BY DEF Batches!Report
<1> QED BY <1>1, <1>2

LEMMA RunChanges ==
  ASSUME BatchTyped, NEW pc, NEW m
  PROVE  /\ [run EXCEPT !.pc = pc] = [pc |-> pc, made |-> run.made, report |-> run.report]
         /\ [run EXCEPT !.pc = pc, !.made = m] = [pc |-> pc, made |-> m, report |-> run.report]
<1>1. /\ run = [pc |-> run.pc, made |-> run.made, report |-> run.report]
      /\ run \in [pc : {"idle", "members", "insert", "parse", "unlinked", "finished"}, made : Rows,
                  report : Seq(Outcomes)]
  BY DEF BatchTyped
<1>2. [run EXCEPT !.pc = pc] = [pc |-> pc, made |-> run.made, report |-> run.report]
  BY <1>1
<1>3. [run EXCEPT !.pc = pc, !.made = m] = [[run EXCEPT !.pc = pc] EXCEPT !.made = m]
  BY <1>1
<1>4. ASSUME NEW y, y = [pc |-> pc, made |-> run.made, report |-> run.report]
      PROVE  [y EXCEPT !.made = m] = [pc |-> pc, made |-> m, report |-> run.report]
  BY <1>4
<1> QED BY <1>2, <1>3, <1>4

LEMMA MemberSkipped ==
  ASSUME BatchInv, Batches!Skip \/ Batches!Refuse \/ (Batches!Look /\ run'.pc = "members")
                   \/ (Batches!Insert /\ run'.pc = "members")
  PROVE  BatchInv'
<1>1. BatchTyped /\ Progresses(run) /\ OneRow /\ OriginalsThere
  BY DEF BatchInv
<1>2. PICK e \in Outcomes : /\ run' = Batches!Report(e)
                            /\ e \notin {"ingested", "parse_failed"}
                            /\ e = "duplicate" => /\ run.pc = "members"
                                                  /\ Batches!Sees(run, Current(run)) # None
  <2>1. CASE Batches!Skip
    BY <2>1 DEF Batches!Skip, Outcomes
  <2>2. CASE Batches!Refuse
    BY <2>2 DEF Batches!Refuse, Outcomes
  <2>3. CASE Batches!Look /\ run'.pc = "members"
    <3>1. run' = Batches!Report("duplicate") \/ run' = [run EXCEPT !.pc = "insert"]
      BY <2>3 DEF Batches!Look
    <3>2. run' # [run EXCEPT !.pc = "insert"]
      BY <1>1, <2>3, RunChanges
    <3> QED BY <2>3, <3>1, <3>2 DEF Batches!Look, Outcomes, None, Current, Batches!Member
  <2>4. CASE Batches!Insert /\ run'.pc = "members"
    <3>1. \/ run' = Batches!Report("failed")
          \/ run' = [run EXCEPT !.pc = "parse",
                               !.made[Batches!Member] = [status |-> "processing", by |-> "batch"]]
      BY <2>4 DEF Batches!Insert
    <3>2. run' # [run EXCEPT !.pc = "parse",
                             !.made[Batches!Member] = [status |-> "processing", by |-> "batch"]]
      BY <1>1, <2>4, RunChanges
    <3> QED BY <3>1, <3>2 DEF Outcomes
  <2> QED BY <2>1, <2>2, <2>3, <2>4
<1>3. /\ UNCHANGED <<archive, job, entered, other>> /\ originals \subseteq originals'
      /\ run.pc \in {"members", "insert"}
  BY DEF Batches!Skip, Batches!Refuse, Batches!Look, Batches!Insert
<1>4. /\ run'.pc = "members" /\ run'.made = run.made /\ run'.report = Append(run.report, e)
      /\ run' \in [pc : {"members"}, made : Rows, report : Seq(Outcomes)]
  <2>1. run.report \in Seq(Outcomes) /\ run.made \in Rows
    BY <1>1 DEF BatchTyped
  <2>2. Append(run.report, e) \in Seq(Outcomes)
    BY <2>1
  <2>3. run' = [pc |-> "members", made |-> run.made, report |-> Append(run.report, e)]
    BY <1>1, <1>2, ReportIs
  <2> DEFINE q == Append(run.report, e)
  <2> HIDE DEF q
  <2>4. run' = [pc |-> "members", made |-> run.made, report |-> q] /\ q \in Seq(Outcomes)
    BY <2>2, <2>3 DEF q
  <2>5. /\ run'.pc = "members" /\ run'.made = run.made /\ run'.report = q
        /\ run' \in [pc : {"members"}, made : Rows, report : Seq(Outcomes)]
    BY <2>1, <2>4
  <2> QED BY <2>5 DEF q
<1>5. \A c \in Contents : run.made[c].status # "processing"
  BY <1>1, <1>3 DEF Progresses
<1>6. Progresses(run')
  <2>1. e = "duplicate" => run'.made[Current(run)] # None \/ entered[Current(run)] # None
    BY <1>2, <1>4 DEF Batches!Sees, None
  <2>2. PICK x : x = run'
    OBVIOUS
  <2>3. /\ BatchTyped /\ Tells(run) /\ x.report = Append(run.report, e)
        /\ x \in [pc : {"members"}, made : Rows, report : Seq(Outcomes)]
        /\ x.made = run.made /\ e # "ingested" /\ e # "parse_failed"
        /\ e = "duplicate" => x.made[Current(run)] # None \/ entered[Current(run)] # None
    BY <1>1, <1>2, <1>4, <2>1, <2>2 DEF Progresses
  <2> HIDE <2>2
  <2>4. Progresses(x)
    BY <1>5, <2>3, MemberReported
  <2> QED BY <2>2, <2>4
<1>7. run.pc # "idle"
  BY <1>3
<1>8. \A c \in Contents :
        /\ run'.made[c] # None =>
             run'.made[c].by = "batch" /\ entered[c] = None /\ other.made[c] = None
        /\ run'.made[c].status = "parsed" => c \in originals'
  BY <1>1, <1>3, <1>4 DEF OneRow, OriginalsThere, HasOriginal
<1>9. run' \in [pc : {"members", "insert", "parse", "unlinked", "finished"}, made : Rows,
               report : Seq(Outcomes)]
  BY <1>4
<1> QED BY <1>3, <1>6, <1>7, <1>8, <1>9, BatchGoesOn

(* The file of a new member is copied, and its row is inserted.             *)
LEMMA MemberInserted ==
  ASSUME BatchInv, \/ Batches!Look /\ run'.pc # "members"
                   \/ Batches!Insert /\ run'.pc # "members"
  PROVE  BatchInv'
<1>1. BatchTyped /\ Progresses(run) /\ OneRow /\ OriginalsThere
  BY DEF BatchInv
<1>2. run.made \in Rows /\ run.report \in Seq(Outcomes)
  BY <1>1 DEF BatchTyped
<1>3. UNCHANGED <<archive, job, entered, other>> /\ originals \subseteq originals'
  BY DEF Batches!Look, Batches!Insert
<1> DEFINE c == Current(run)
<1>4. Batches!Member = c
  BY DEF Batches!Member, Current
<1> HIDE DEF c
<1>5. CASE Batches!Look /\ run'.pc # "members"
  <2>1. /\ run.pc = "members" /\ Len(run.report) < Len(archive) /\ c # Foreign
        /\ run' = [run EXCEPT !.pc = "insert"] /\ Batches!Sees(run, c) = None
    <3>1. run' # Batches!Report("duplicate")
      BY <1>1, <1>5, ReportIs DEF Outcomes
    <3> QED BY <1>4, <1>5, <3>1 DEF Batches!Look, None
  <2>2. c \in Contents
    <3>1. Len(run.report) + 1 \in 1 .. Len(archive)
      BY <1>1, <1>2, <2>1 DEF BatchTyped
    <3>2. c \in Contents \cup {Foreign}
      BY <1>1, <3>1 DEF BatchTyped, Current, c
    <3> QED BY <2>1, <3>2
  <2>3. run.made[c] = None /\ entered[c] = None
    BY <2>1 DEF Batches!Sees, None
  <2>4. PICK x : x = [pc |-> "insert", made |-> run.made, report |-> run.report]
    OBVIOUS
  <2>5. run' = x
    BY <1>1, <2>1, <2>4, RunChanges
  <2>6. Unheard(run, c)
    BY <1>1, <2>2, <2>3, QuietRows DEF Progresses, Tells, Unheard
  <2>7. Progresses(x)
    <3>1. /\ x.pc = "insert" /\ x.made = run.made /\ x.report = run.report
      BY <2>4
    <3>2. Tells(x) /\ Unheard(x, c) /\ Current(x) = c
      BY <1>1, <2>6, <3>1 DEF Progresses, Tells, Unheard, Current, c
    <3>3. \A d \in Contents : run.made[d].status # "processing"
      BY <1>1, <2>1 DEF Progresses
    <3> QED BY <2>1, <2>2, <2>3, <3>1, <3>2, <3>3 DEF Progresses
  <2>8. x \in [pc : {"members", "insert", "parse", "unlinked", "finished"}, made : Rows,
               report : Seq(Outcomes)] /\ x.made = run.made
    BY <1>2, <2>4
  <2>9. run.pc # "idle"
    BY <2>1
  <2> QED BY <1>1, <1>3, <2>5, <2>7, <2>8, <2>9, BatchGoesOn DEF OneRow, OriginalsThere, HasOriginal
<1>6. CASE Batches!Insert /\ run'.pc # "members"
  <2> DEFINE r == [status |-> "processing", by |-> "batch"]
  <2>1. /\ run.pc = "insert" /\ entered[c] = None /\ other.made[c] = None
        /\ run' = [run EXCEPT !.pc = "parse", !.made[c] = r]
    <3>1. run' # Batches!Report("failed")
      BY <1>1, <1>6, ReportIs DEF Outcomes
    <3> QED BY <1>4, <1>6, <3>1 DEF Batches!Insert, Batches!Vacant, None
  <2>2. /\ Len(run.report) < Len(archive) /\ c \in Contents /\ Unheard(run, c)
    BY <1>1, <2>1 DEF Progresses, c
  <2>3. r \in BatchRow /\ r.status = "processing" /\ r.by = "batch" /\ r # None
    BY QuietRows DEF BatchRow
  <2> HIDE DEF r
  <2>4. PICK m : m = [run.made EXCEPT ![c] = r]
    OBVIOUS
  <2>5. m \in Rows /\ m[c] = r /\ \A d \in Contents : d # c => m[d] = run.made[d]
    BY <1>2, <2>2, <2>3, <2>4 DEF Rows
  <2>6. PICK x : x = [pc |-> "parse", made |-> m, report |-> run.report]
    OBVIOUS
  <2>7. run' = x
    <3>1. [run EXCEPT !.pc = "parse", !.made[c] = r]
            = [pc |-> "parse", made |-> [run.made EXCEPT ![c] = r], report |-> run.report]
      <4>1. [run EXCEPT !.pc = "parse", !.made[c] = r] = [run EXCEPT !.pc = "parse", !.made = m]
        BY <2>4
      <4>2. [run EXCEPT !.pc = "parse", !.made = m]
              = [pc |-> "parse", made |-> m, report |-> run.report]
        BY <1>1, RunChanges
      <4> QED BY <2>4, <4>1, <4>2
    <3> QED BY <2>1, <2>4, <2>6, <3>1
  <2>8. /\ x.pc = "parse" /\ x.made = m /\ x.report = run.report
        /\ x \in [pc : {"members", "insert", "parse", "unlinked", "finished"}, made : Rows,
                  report : Seq(Outcomes)]
    BY <1>2, <2>5, <2>6
  <2>9. Progresses(x)
    <3>1. Unheard(x, c) /\ Current(x) = c
      BY <2>2, <2>8 DEF Unheard, Current, c
    <3>2. \A d \in Contents : run.made[d].status # "processing"
      BY <1>1, <2>1 DEF Progresses
    <3>3. Tells(x)
      BY <1>1, <2>2, <2>3, <2>5, <2>8 DEF Progresses, Tells, Unheard
    <3> QED BY <2>2, <2>3, <2>5, <2>8, <3>1, <3>2, <3>3 DEF Progresses
  <2>10. \A d \in Contents :
           /\ x.made[d] # None =>
                x.made[d].by = "batch" /\ entered[d] = None /\ other.made[d] = None
           /\ x.made[d].status = "parsed" => d \in originals'
    BY <1>1, <1>3, <2>1, <2>3, <2>5, <2>8 DEF OneRow, OriginalsThere, HasOriginal
  <2>11. run.pc # "idle"
    BY <2>1
  <2> QED BY <1>3, <2>7, <2>8, <2>9, <2>10, <2>11, BatchGoesOn
<1> QED BY <1>5, <1>6

(* The member is read, fails to be read, or its savepoint is rolled back.   *)
LEMMA RowChanges ==
  ASSUME BatchInv, run.pc \in {"parse", "unlinked"}, NEW r \in BatchRow, NEW e \in Outcomes,
         run' = [pc   |-> "members", made |-> [run.made EXCEPT ![Current(run)] = r],
                 report |-> Append(run.report, e)],
         UNCHANGED <<archive, job, entered, other, originals>>,
         \/ e = "ingested"     /\ r = [status |-> "parsed", by |-> "batch"] /\
              Current(run) \in originals
         \/ e = "parse_failed" /\ r = [status |-> "failed", by |-> "batch"]
         \/ e = "failed"       /\ r = None
  PROVE  BatchInv'
<1>1. BatchTyped /\ Progresses(run) /\ OneRow /\ OriginalsThere
  BY DEF BatchInv
<1> DEFINE c == Current(run)  q == Append(run.report, e)
<1>2. run.made \in Rows /\ run.report \in Seq(Outcomes) /\ q \in Seq(Outcomes)
  BY <1>1 DEF BatchTyped
<1>3. /\ c \in Contents /\ Unheard(run, c) /\ run.made[c].status = "processing"
      /\ \A d \in Contents : d # c => run.made[d].status # "processing"
  BY <1>1 DEF Progresses
<1> HIDE DEF c, q
<1>4. PICK m : m = [run.made EXCEPT ![c] = r]
  OBVIOUS
<1>5. m \in Rows /\ m[c] = r /\ \A d \in Contents : d # c => m[d] = run.made[d]
  BY <1>2, <1>3, <1>4 DEF Rows
<1>6. PICK x : x = [pc |-> "members", made |-> m, report |-> q]
  OBVIOUS
<1>7. /\ x \in [pc : {"members"}, made : Rows, report : Seq(Outcomes)]
      /\ x \in [pc : {"members", "insert", "parse", "unlinked", "finished"}, made : Rows,
                report : Seq(Outcomes)]
      /\ x.made = m /\ x.report = q
  BY <1>2, <1>5, <1>6
<1>8. run' = x
  BY <1>4, <1>6 DEF c, q
<1>9. r.status \in {"none", "parsed", "failed"} /\ (r # None => r.by = "batch")
  BY QuietRows
<1>10. Progresses(x)
  <2>1. /\ x.report = Append(run.report, e) /\ Tells(run)
        /\ \A d \in Contents : d # Current(run) =>
             x.made[d] = run.made[d] /\ run.made[d].status # "processing"
    BY <1>1, <1>3, <1>5, <1>7 DEF Progresses, c, q
  <2>2. /\ x.made[Current(run)] = r /\ Unheard(run, Current(run)) /\ r.status # "processing"
        /\ e = "ingested"     => r = [status |-> "parsed", by |-> "batch"]
        /\ e = "parse_failed" => r = [status |-> "failed", by |-> "batch"]
        /\ e # "duplicate" /\ (r # None => e \in {"ingested", "parse_failed"})
    BY <1>3, <1>5, <1>7, <1>9 DEF c
  <2> QED BY <1>1, <1>7, <2>1, <2>2, MemberReported
<1>11. entered[c] = None /\ other.made[c] = None
  BY <1>1, <1>3, QuietRows DEF OneRow
<1>12. \A d \in Contents :
         /\ x.made[d] # None =>
              x.made[d].by = "batch" /\ entered[d] = None /\ other.made[d] = None
         /\ x.made[d].status = "parsed" => d \in originals'
  <2>1. r.status = "parsed" => c \in originals'
    BY <1>9, QuietRows DEF c
  <2>2. \A d \in Contents : d # c =>
           /\ x.made[d] # None =>
                x.made[d].by = "batch" /\ entered[d] = None /\ other.made[d] = None
           /\ x.made[d].status = "parsed" => d \in originals'
    BY <1>1, <1>5, <1>7 DEF OneRow, OriginalsThere, HasOriginal
  <2> QED BY <1>3, <1>5, <1>7, <1>9, <1>11, <2>1, <2>2
<1> QED BY <1>7, <1>8, <1>10, <1>12, BatchGoesOn

LEMMA MemberRead ==
  ASSUME BatchInv, Batches!Parse \/ Batches!RollBackMember PROVE BatchInv'
<1>1. BatchTyped /\ Progresses(run) /\ OneRow
  BY DEF BatchInv
<1> DEFINE c == Current(run)
<1>2. Batches!Member = c
  BY DEF Batches!Member, Current
<1>3. /\ run.pc \in {"parse", "unlinked"} /\ c \in Contents
      /\ run.made[c] \in BatchRow /\ run.made[c].by = "batch"
  <2>1. run.pc \in {"parse", "unlinked"}
    BY DEF Batches!Parse, Batches!RollBackMember
  <2>2. c \in Contents /\ run.made[c].status = "processing"
    BY <1>1, <2>1 DEF Progresses
  <2>3. run.made[c] # None /\ run.made[c] \in BatchRow
    BY <1>1, <2>2, QuietRows DEF BatchTyped, Rows
  <2> QED BY <1>1, <2>1, <2>2, <2>3 DEF OneRow
<1>4. UNCHANGED <<archive, job, entered, other, originals>>
  BY DEF Batches!Parse, Batches!RollBackMember
<1> HIDE DEF c
<1>5. CASE Batches!RollBackMember
  <2>1. PICK q : q = Append(run.report, "failed")
    OBVIOUS
  <2>2. PICK y : y = [pc |-> "members", made |-> run.made, report |-> q]
    OBVIOUS
  <2>3. run' = [y EXCEPT !.made[c] = None]
    BY <1>1, <1>2, <1>5, <2>1, <2>2, ReportIs DEF Batches!RollBackMember, None, Outcomes
  <2>4. [y EXCEPT !.made[c] = None] = [y EXCEPT !.made = [run.made EXCEPT ![c] = None]]
    BY <2>2
  <2>5. PICK m : m = [run.made EXCEPT ![c] = None]
    OBVIOUS
  <2>6. run' = [pc |-> "members", made |-> m, report |-> q]
    BY <2>2, <2>3, <2>4, <2>5
  <2>7. run' = [pc   |-> "members", made |-> [run.made EXCEPT ![Current(run)] = None],
                report |-> Append(run.report, "failed")]
    BY <2>1, <2>5, <2>6 DEF c
  <2> QED BY <1>3, <1>4, <2>7, QuietRows, RowChanges DEF Outcomes
<1>6. CASE Batches!Parse
  <2>1. PICK v : v = Batches!Verdict(c)
    OBVIOUS
  <2>2. PICK e : e = IF v = "failed" THEN "parse_failed" ELSE "ingested"
    OBVIOUS
  <2>3. PICK q : q = Append(run.report, e)
    OBVIOUS
  <2>4. PICK y : y = [pc |-> "members", made |-> run.made, report |-> q]
    OBVIOUS
  <2>5. PICK r : r = [status |-> v, by |-> "batch"]
    OBVIOUS
  <2>6. e \in Outcomes /\ r \in BatchRow
        /\ \/ e = "ingested"     /\ v = "parsed" /\ c \in originals
           \/ e = "parse_failed" /\ v = "failed"
    BY <2>1, <2>2, <2>5 DEF Batches!Verdict, Outcomes, BatchRow
  <2>7. run' = [y EXCEPT !.made[c].status = v]
    <3>1. Batches!Report(e) = y
      BY <1>1, <2>3, <2>4, <2>6, ReportIs
    <3> QED BY <1>2, <1>6, <2>1, <2>2, <3>1 DEF Batches!Parse
  <2>8. [run.made[c] EXCEPT !.status = v] = r
    BY <1>3, <2>5 DEF BatchRow
  <2>9. [y EXCEPT !.made[c].status = v]
          = [y EXCEPT !.made = [run.made EXCEPT ![c] = [run.made[c] EXCEPT !.status = v]]]
    BY <2>4
  <2>10. PICK m : m = [run.made EXCEPT ![c] = r]
    OBVIOUS
  <2>11. run' = [pc |-> "members", made |-> m, report |-> q]
    BY <2>4, <2>7, <2>8, <2>9, <2>10
  <2>12. run' = [pc   |-> "members", made |-> [run.made EXCEPT ![Current(run)] = r],
                 report |-> Append(run.report, e)]
    BY <2>3, <2>10, <2>11 DEF c
  <2> QED BY <1>3, <1>4, <2>5, <2>6, <2>12, RowChanges DEF c
<1> QED BY <1>5, <1>6

(* Another exception: the file of the member is gone, which nobody else has *)
(* inserted.                                                                *)
LEMMA MemberRaises ==
  ASSUME BatchInv, Batches!Raise \/ Batches!Finish PROVE BatchInv'
<1>1. BatchTyped /\ Progresses(run) /\ OneRow /\ OriginalsThere
  BY DEF BatchInv
<1>2. PICK p \in {"unlinked", "finished"} : run' = [run EXCEPT !.pc = p]
  BY DEF Batches!Raise, Batches!Finish
<1>3. PICK x : x = [pc |-> p, made |-> run.made, report |-> run.report]
  OBVIOUS
<1>4. run' = x
  BY <1>1, <1>2, <1>3, RunChanges
<1>5. /\ x \in [pc : {"members", "insert", "parse", "unlinked", "finished"}, made : Rows,
                report : Seq(Outcomes)]
      /\ x.pc = p /\ x.made = run.made /\ x.report = run.report
  BY <1>1, <1>3 DEF BatchTyped
<1>6. /\ UNCHANGED <<archive, job, entered, other>>
      /\ \/ run.pc = "parse" /\ p = "unlinked" /\ originals' = originals \ {Current(run)}
         \/ run.pc = "members" /\ p = "finished" /\ UNCHANGED originals
            /\ Len(run.report) = Len(archive)
  <2>1. [run EXCEPT !.pc = p].pc = p
    BY <1>1, RunChanges
  <2>2. run'.pc = p
    BY <1>2, <2>1
  <2>3. CASE Batches!Raise
    <3>1. run' = [run EXCEPT !.pc = "unlinked"]
      BY <2>3 DEF Batches!Raise
    <3>2. run'.pc = "unlinked"
      BY <1>1, <3>1, RunChanges
    <3> QED BY <2>2, <2>3, <3>2 DEF Batches!Raise, Batches!Member, Current
  <2>4. CASE Batches!Finish
    <3>1. run' = [run EXCEPT !.pc = "finished"]
      BY <2>4 DEF Batches!Finish
    <3>2. run'.pc = "finished"
      BY <1>1, <3>1, RunChanges
    <3> QED BY <2>2, <2>4, <3>2 DEF Batches!Finish
  <2> QED BY <2>3, <2>4
<1>7. Progresses(x)
  BY <1>1, <1>5, <1>6 DEF Progresses, Tells, Unheard, Current
<1>8. \A c \in Contents :
        run.pc = "parse" /\ c = Current(run) =>
          /\ run.made[c].status = "processing" /\ entered[c] = None /\ other.made[c] = None
  <2>1. SUFFICES ASSUME NEW c \in Contents, run.pc = "parse", c = Current(run)
                 PROVE  run.made[c].status = "processing" /\ run.made[c] # None
    BY <1>1 DEF OneRow
  <2> QED BY <1>1, <2>1, QuietRows DEF Progresses
<1>9. \A c \in Contents :
        /\ x.made[c] # None =>
             x.made[c].by = "batch" /\ entered[c] = None /\ other.made[c] = None
        /\ x.made[c].status = "parsed" => c \in originals'
        /\ entered[c].status = "parsed" \/ other.made[c].status = "parsed"
             => (c \in originals => c \in originals')
  BY <1>1, <1>5, <1>6, <1>8, QuietRows DEF OneRow, OriginalsThere, HasOriginal
<1> QED BY <1>4, <1>5, <1>6, <1>7, <1>9, BatchGoesOn

(* The transaction of the batch begins.                                     *)
LEMMA BatchBegins ==
  ASSUME BatchInv, Batches!Start PROVE BatchInv'
<1>1. BatchTyped /\ OneRow /\ OriginalsThere /\ UploadProgresses
  BY DEF BatchInv
<1>2. /\ job.status = "queued" /\ job' = [job EXCEPT !.status = "running", !.attempts = @ + 1]
      /\ run' = [Batches!Quiet EXCEPT !.pc = "members"]
      /\ UNCHANGED <<archive, entered, originals, other>>
  BY DEF Batches!Start
<1>3. /\ job' \in [status : {"queued", "running", "completed", "failed"}, attempts : Nat,
                   report : Seq(Outcomes)]
      /\ job'.status = "running"
  <2>1. job.attempts + 1 \in Nat
    BY <1>1 DEF BatchTyped
  <2> QED BY <1>1, <1>2, <2>1 DEF BatchTyped
<1>4. /\ run' \in [pc : {"members"}, made : Rows, report : {<<>>}]
      /\ run'.pc = "members" /\ run'.made = Batches!Quiet.made /\ run'.report = <<>>
  BY <1>2, QuietRows
<1>5. \A c \in Contents : run'.made[c] = None
  BY <1>4, QuietRows
<1>6. BatchTyped'
  <2>1. <<>> \in Seq(Outcomes)
    OBVIOUS
  <2> QED BY <1>1, <1>2, <1>3, <1>4, <2>1 DEF BatchTyped
<1>7. OneRow' /\ OriginalsThere' /\ UploadProgresses'
  BY <1>1, <1>2, <1>5, QuietRows DEF OneRow, OriginalsThere, HasOriginal, UploadProgresses,
     Batches!Quiet, Batches!NoRow
<1>8. Progresses(run)'
  <2>1. Len(run'.report) = 0
    BY <1>4
  <2> QED BY <1>4, <1>5, <2>1, QuietRows DEF Progresses, Tells, Batches!Quiet, Batches!NoRow
<1>9. Batches!ReportsAreTrue' /\ Batches!AllOrNothing' /\ Batches!NoneInProgress'
  BY <1>2, <1>3 DEF BatchInv, Batches!ReportsAreTrue, Batches!AllOrNothing, Batches!NoneInProgress
<1> QED BY <1>3, <1>4, <1>6, <1>7, <1>8, <1>9 DEF BatchInv

(* What remains of a transaction that has ended is nothing.                 *)
LEMMA BatchIsQuiet ==
  ASSUME BatchInv, UNCHANGED <<archive, other, originals>>, run' = Batches!Quiet,
         job' \in [status : {"queued", "completed", "failed"}, attempts : Nat,
                  report : Seq(Outcomes)],
         entered' \in Rows,
         \A c \in Contents :
           /\ entered'[c] = entered[c] \/ entered'[c] = run.made[c]
           /\ entered'[c].status # "processing",
         Batches!ReportsAreTrue', Batches!AllOrNothing'
  PROVE  BatchInv'
<1>1. BatchTyped /\ OneRow /\ OriginalsThere /\ UploadProgresses
  BY DEF BatchInv
<1>2. /\ run' \in [pc : {"idle"}, made : Rows, report : {<<>>}]
      /\ run'.pc = "idle" /\ run'.report = <<>> /\ \A c \in Contents : run'.made[c] = None
  BY QuietRows
<1>3. BatchTyped'
  <2>1. <<>> \in Seq(Outcomes)
    OBVIOUS
  <2> QED BY <1>1, <1>2, <2>1 DEF BatchTyped
<1>4. OneRow'
  BY <1>1, <1>2 DEF OneRow
<1>5. OriginalsThere' /\ UploadProgresses'
  BY <1>1, <1>2, QuietRows DEF OriginalsThere, HasOriginal, UploadProgresses,
     Batches!Quiet, Batches!NoRow
<1>6. Progresses(run)'
  <2>1. Len(run'.report) = 0
    BY <1>2
  <2> QED BY <1>2, <2>1, QuietRows DEF Progresses, Tells, Batches!Quiet, Batches!NoRow
<1>7. Batches!NoneInProgress'
  BY DEF Batches!NoneInProgress
<1> QED BY <1>2, <1>3, <1>4, <1>5, <1>6, <1>7 DEF BatchInv

LEMMA BatchEnds ==
  ASSUME BatchInv, Batches!Commit \/ Batches!RollBack PROVE BatchInv'
<1>1. BatchTyped /\ OneRow /\ Progresses(run)
  BY DEF BatchInv
<1>2. run.pc # "idle" /\ job.status = "running"
  BY DEF BatchInv, Batches!Commit, Batches!RollBack
<1>3. \A c \in Contents : entered[c].by # "batch" /\ entered[c].status # "processing"
  BY <1>2 DEF BatchInv, Batches!AllOrNothing, Batches!NoneInProgress
<1>4. CASE Batches!RollBack
  <2>1. PICK s \in {"queued", "failed"} : job' = [job EXCEPT !.status = s]
    BY <1>4 DEF Batches!RollBack
  <2>2. /\ job' \in [status : {"queued", "completed", "failed"}, attempts : Nat,
                     report : Seq(Outcomes)]
        /\ job'.status = s
    BY <1>1, <2>1 DEF BatchTyped
  <2>3. UNCHANGED <<archive, other, originals, entered>> /\ run' = Batches!Quiet
    BY <1>4 DEF Batches!RollBack
  <2>4. Batches!ReportsAreTrue' /\ Batches!AllOrNothing'
    BY <1>3, <2>2, <2>3 DEF Batches!ReportsAreTrue, Batches!AllOrNothing
  <2> QED BY <1>1, <1>3, <2>2, <2>3, <2>4, BatchIsQuiet DEF BatchTyped
<1>5. CASE Batches!Commit
  <2>1. /\ run.pc = "finished" /\ UNCHANGED <<archive, other, originals>>
        /\ entered' = Batches!Merged(run) /\ run' = Batches!Quiet
        /\ job' = [job EXCEPT !.status = "completed", !.report = run.report]
    BY <1>5 DEF Batches!Commit
  <2>2. /\ job' \in [status : {"queued", "completed", "failed"}, attempts : Nat,
                     report : Seq(Outcomes)]
        /\ job'.status = "completed" /\ job'.report = run.report
    BY <1>1, <2>1 DEF BatchTyped
  <2>3. \A c \in Contents : entered'[c] = IF run.made[c] = None THEN entered[c] ELSE run.made[c]
    BY <2>1 DEF Batches!Merged, Batches!Sees, None
  <2>4. entered' \in Rows
    BY <1>1, <2>1 DEF Batches!Merged, Batches!Sees, BatchTyped, Rows
  <2>5. \A c \in Contents : run.made[c].status # "processing"
    BY <1>1, <2>1 DEF Progresses
  <2>6. Len(run.report) = Len(archive) /\ Tells(run)
    BY <1>1, <2>1 DEF Progresses
  <2>7. DOMAIN job'.report = 1 .. Len(run.report) /\ DOMAIN archive = 1 .. Len(archive)
    BY <1>1, <2>2 DEF BatchTyped
  <2>8. ASSUME NEW c \in Contents
        PROVE  /\ Batches!Entries(c, {"ingested"})' # {}     =>
                    entered'[c] = [status |-> "parsed", by |-> "batch"]
               /\ Batches!Entries(c, {"parse_failed"})' # {} =>
                    entered'[c] = [status |-> "failed", by |-> "batch"]
               /\ Batches!Entries(c, {"duplicate"})' # {}    => entered'[c] # None
               /\ entered'[c].by = "batch" <=>
                    Batches!Entries(c, {"ingested", "parse_failed"})' # {}
    <3>1. \A S : Batches!Entries(c, S)' =
                   {i \in 1 .. Len(run.report) : archive[i] = c /\ run.report[i] \in S}
      BY <2>1, <2>2, <2>7 DEF Batches!Entries
    <3>2. \A i \in 1 .. Len(run.report) : archive[i] = c =>
            /\ run.report[i] = "ingested"     => run.made[c] = [status |-> "parsed", by |-> "batch"]
            /\ run.report[i] = "parse_failed" => run.made[c] = [status |-> "failed", by |-> "batch"]
            /\ run.report[i] = "duplicate"    => run.made[c] # None \/ entered[c] # None
      BY <2>6 DEF Tells
    <3>3. run.made[c] # None =>
            \E i \in 1 .. Len(run.report) :
              archive[i] = c /\ run.report[i] \in {"ingested", "parse_failed"}
      BY <2>5, <2>6 DEF Tells
    <3>6. \A S : Batches!Entries(c, S)' # {} <=>
                  \E i \in 1 .. Len(run.report) : archive[i] = c /\ run.report[i] \in S
      BY <3>1
    <3>7. run.made[c] # None <=>
            \E i \in 1 .. Len(run.report) :
              archive[i] = c /\ run.report[i] \in {"ingested", "parse_failed"}
      BY <3>2, <3>3, QuietRows
    <3>4. /\ Batches!Entries(c, {"ingested"})' # {}     =>
               run.made[c] = [status |-> "parsed", by |-> "batch"]
          /\ Batches!Entries(c, {"parse_failed"})' # {} =>
               run.made[c] = [status |-> "failed", by |-> "batch"]
          /\ Batches!Entries(c, {"duplicate"})' # {}    => run.made[c] # None \/ entered[c] # None
          /\ Batches!Entries(c, {"ingested", "parse_failed"})' # {} <=> run.made[c] # None
      BY <3>2, <3>6, <3>7
    <3>5. run.made[c] # None => run.made[c].by = "batch"
      BY <1>1 DEF OneRow
    <3> QED BY <1>3, <2>3, <3>4, <3>5, QuietRows
  <2>9. Batches!ReportsAreTrue' /\ Batches!AllOrNothing'
    BY <2>1, <2>2, <2>6, <2>7, <2>8 DEF Batches!ReportsAreTrue, Batches!AllOrNothing, None
  <2>10. \A c \in Contents :
           /\ entered'[c] = entered[c] \/ entered'[c] = run.made[c]
           /\ entered'[c].status # "processing"
    BY <1>3, <2>3, <2>5
  <2> QED BY <2>1, <2>2, <2>4, <2>9, <2>10, BatchIsQuiet
<1> QED BY <1>4, <1>5

(* The other upload.                                                        *)
LEMMA UploadGoesOn ==
  ASSUME BatchInv, UNCHANGED <<archive, job, run>>,
         NEW x \in [pc : {"idle", "insert", "parse", "parsed", "raised"}, made : Rows,
                    report : {<<>>}],
         other' = x, UploadProgresses', entered' \in Rows,
         \A c \in Contents :
           /\ \/ entered'[c] = entered[c]
              \/ /\ entered[c] = None /\ run.made[c] = None
                 /\ entered'[c].by # "batch" /\ entered'[c].status # "processing"
                 /\ entered'[c].status = "parsed" => c \in originals'
           /\ x.made[c] # None => /\ c = Rival /\ x.made[c].by = "upload"
                                  /\ entered'[c] = None /\ run.made[c] = None
           /\ x.made[c].status = "parsed" => c \in originals'
           /\ entered[c].status = "parsed" \/ run.made[c].status = "parsed"
                => (c \in originals => c \in originals')
  PROVE  BatchInv'
<1>1. BatchTyped /\ OneRow /\ Progresses(run) /\ OriginalsThere
  BY DEF BatchInv
<1>2. BatchTyped'
  BY <1>1 DEF BatchTyped
<1>3. OneRow' /\ OriginalsThere'
  BY <1>1 DEF OneRow, OriginalsThere, HasOriginal
<1>4. \A c \in Contents : entered[c] # None => entered'[c] = entered[c]
  OBVIOUS
<1>5. Progresses(run)'
  <2>1. Tells(run)'
    BY <1>1, <1>4 DEF Progresses, Tells, None, Batches!NoRow
  <2> QED BY <1>1, <2>1 DEF Progresses, Unheard, Current, None, Batches!NoRow, Batches!Quiet
<1>6. Batches!AllOrNothing' /\ Batches!NoneInProgress'
  BY DEF BatchInv, Batches!AllOrNothing, Batches!NoneInProgress
<1>7. Batches!ReportsAreTrue'
  <2> SUFFICES ASSUME job.status = "completed", NEW c \in Contents
               PROVE  /\ Batches!Entries(c, {"ingested"}) # {}     =>
                           entered'[c] = [status |-> "parsed", by |-> "batch"]
                      /\ Batches!Entries(c, {"parse_failed"}) # {} =>
                           entered'[c] = [status |-> "failed", by |-> "batch"]
                      /\ Batches!Entries(c, {"duplicate"}) # {}    => entered'[c] # None
                      /\ entered'[c].by = "batch" <=>
                           Batches!Entries(c, {"ingested", "parse_failed"}) # {}
    BY DEF BatchInv, Batches!ReportsAreTrue, Batches!Entries, None, Batches!NoRow
  <2>1. /\ Batches!Entries(c, {"ingested"}) # {}     =>
             entered[c] = [status |-> "parsed", by |-> "batch"]
        /\ Batches!Entries(c, {"parse_failed"}) # {} =>
             entered[c] = [status |-> "failed", by |-> "batch"]
        /\ Batches!Entries(c, {"duplicate"}) # {}    => entered[c] # None
        /\ entered[c].by = "batch" <=> Batches!Entries(c, {"ingested", "parse_failed"}) # {}
    BY DEF BatchInv, Batches!ReportsAreTrue, None
  <2> QED BY <1>4, <2>1, QuietRows
<1> QED BY <1>2, <1>3, <1>5, <1>6, <1>7 DEF BatchInv

LEMMA OtherChanges ==
  ASSUME BatchTyped, NEW pc, NEW m
  PROVE  /\ [other EXCEPT !.pc = pc] = [pc |-> pc, made |-> other.made, report |-> <<>>]
         /\ [other EXCEPT !.pc = pc, !.made = m] = [pc |-> pc, made |-> m, report |-> <<>>]
<1>1. /\ other = [pc |-> other.pc, made |-> other.made, report |-> <<>>]
      /\ other \in [pc : {"idle", "insert", "parse", "parsed", "raised"}, made : Rows,
                    report : {<<>>}]
  BY DEF BatchTyped
<1>2. [other EXCEPT !.pc = pc] = [pc |-> pc, made |-> other.made, report |-> <<>>]
  BY <1>1
<1>3. [other EXCEPT !.pc = pc, !.made = m] = [[other EXCEPT !.pc = pc] EXCEPT !.made = m]
  BY <1>1
<1>4. ASSUME NEW y, y = [pc |-> pc, made |-> other.made, report |-> <<>>]
      PROVE  [y EXCEPT !.made = m] = [pc |-> pc, made |-> m, report |-> <<>>]
  BY <1>4
<1> QED BY <1>2, <1>3, <1>4

(* The upload copies its file, or removes it where its row was inserted.    *)
LEMMA OtherMovesFile ==
  ASSUME BatchInv, Batches!OtherLook \/ Batches!OtherRaises PROVE BatchInv'
<1>1. BatchTyped /\ OneRow /\ UploadProgresses /\ OriginalsThere
  BY DEF BatchInv
<1>2. PICK p \in {"insert", "raised"} :
        /\ other' = [other EXCEPT !.pc = p]
        /\ \/ p = "insert" /\ other.pc = "idle" /\ originals' = originals \cup {Rival}
           \/ p = "raised" /\ other.pc = "parse" /\ originals' = originals \ {Rival}
  BY DEF Batches!OtherLook, Batches!OtherRaises
<1>3. PICK x : x = [pc |-> p, made |-> other.made, report |-> <<>>]
  OBVIOUS
<1>4. other' = x
  BY <1>1, <1>2, <1>3, OtherChanges
<1>5. /\ x \in [pc : {"idle", "insert", "parse", "parsed", "raised"}, made : Rows, report : {<<>>}]
      /\ x.pc = p /\ x.made = other.made
  BY <1>1, <1>3 DEF BatchTyped
<1>6. UNCHANGED <<archive, job, run, entered>>
  BY DEF Batches!OtherLook, Batches!OtherRaises
<1>7. UploadProgresses'
  BY <1>1, <1>2, <1>4, <1>5, QuietRows, BatchesAssumption DEF UploadProgresses, None, Batches!NoRow
<1>8. p = "raised" => entered[Rival] = None /\ run.made[Rival] = None /\
        other.made[Rival].status = "processing"
  BY <1>1, <1>2, QuietRows, BatchesAssumption DEF OneRow, UploadProgresses
<1>9. \A c \in Contents :
        /\ x.made[c] # None => /\ c = Rival /\ x.made[c].by = "upload"
                               /\ entered'[c] = None /\ run.made[c] = None
        /\ x.made[c].status = "parsed" => c \in originals'
        /\ entered[c].status = "parsed" \/ run.made[c].status = "parsed"
             => (c \in originals => c \in originals')
  BY <1>1, <1>2, <1>5, <1>6, <1>8, QuietRows DEF OneRow, OriginalsThere, HasOriginal
<1>10. entered' \in Rows
  BY <1>1, <1>6 DEF BatchTyped
<1> QED BY <1>4, <1>5, <1>6, <1>7, <1>9, <1>10, UploadGoesOn

(* Its row is inserted, or changed.                                         *)
LEMMA OtherWrites ==
  ASSUME BatchInv, Batches!OtherParse \/ (Batches!OtherInsert /\ entered[Rival] = None)
  PROVE  BatchInv'
<1>1. BatchTyped /\ OneRow /\ UploadProgresses /\ OriginalsThere
  BY DEF BatchInv
<1>2. UNCHANGED <<archive, job, run, entered, originals>>
  BY DEF Batches!OtherParse, Batches!OtherInsert
<1>3. other.made \in Rows /\ entered' \in Rows /\ Rival \in Contents
  BY <1>1, <1>2, BatchesAssumption DEF BatchTyped
<1>4. PICK p \in {"parse", "parsed"}, r \in BatchRow :
        /\ other' = [other EXCEPT !.pc = p, !.made[Rival] = r]
        /\ r.by = "upload"
        /\ \/ p = "parse" /\ r.status = "processing" /\ run.made[Rival] = None
              /\ entered[Rival] = None
           \/ p = "parsed" /\ other.pc = "parse" /\ r.status \in {"parsed", "failed"}
              /\ (r.status = "parsed" => Rival \in originals)
  <2>1. CASE Batches!OtherInsert /\ entered[Rival] = None
    <3>1. [status |-> "processing", by |-> "upload"] \in BatchRow
      BY DEF BatchRow
    <3>2. /\ run.made[Rival] = None
          /\ other' = [other EXCEPT !.pc = "parse",
                              !.made[Rival] = [status |-> "processing", by |-> "upload"]]
      BY <2>1 DEF Batches!OtherInsert, Batches!Vacant, None
    <3> QED BY <2>1, <3>1, <3>2
  <2>2. CASE Batches!OtherParse
    <3>1. PICK v : v = Batches!Verdict(Rival)
      OBVIOUS
    <3>2. v \in {"parsed", "failed"} /\ (v = "parsed" => Rival \in originals)
      BY <3>1 DEF Batches!Verdict
    <3>3. other.pc = "parse" /\ other' = [other EXCEPT !.pc = "parsed", !.made[Rival].status = v]
      BY <2>2, <3>1 DEF Batches!OtherParse
    <3>4. other.made[Rival] \in BatchRow /\ other.made[Rival].by = "upload"
      BY <1>1, <1>3, <3>3, QuietRows DEF UploadProgresses, OneRow, Rows
    <3>5. PICK r : r = [status |-> v, by |-> "upload"]
      OBVIOUS
    <3>6. r \in BatchRow /\ r.status = v /\ r.by = "upload"
      BY <3>2, <3>5 DEF BatchRow
    <3>7. [other.made[Rival] EXCEPT !.status = v] = r
      BY <3>4, <3>5 DEF BatchRow
    <3>8. [other EXCEPT !.pc = "parsed", !.made[Rival].status = v]
            = [other EXCEPT !.pc = "parsed",
                !.made[Rival] = [other.made[Rival] EXCEPT !.status = v]]
      BY <1>1 DEF BatchTyped
    <3> QED BY <3>2, <3>3, <3>6, <3>7, <3>8
  <2> QED BY <2>1, <2>2
<1>5. PICK m : m = [other.made EXCEPT ![Rival] = r]
  OBVIOUS
<1>6. m \in Rows /\ m[Rival] = r /\ \A c \in Contents : c # Rival => m[c] = other.made[c]
  BY <1>3, <1>5 DEF Rows
<1>7. PICK x : x = [pc |-> p, made |-> m, report |-> <<>>]
  OBVIOUS
<1>8. other' = x
  <2>1. [other EXCEPT !.pc = p, !.made[Rival] = r] = [other EXCEPT !.pc = p, !.made = m]
    <3>1. [other EXCEPT !.pc = p, !.made[Rival] = r]
            = [other EXCEPT !.pc = p, !.made = [other.made EXCEPT ![Rival] = r]]
      OBVIOUS
    <3> QED BY <1>5, <3>1, Zenon
  <2>2. [other EXCEPT !.pc = p, !.made = m] = [pc |-> p, made |-> m, report |-> <<>>]
    BY <1>1, OtherChanges
  <2> QED BY <1>4, <1>7, <2>1, <2>2
<1>9. /\ x \in [pc : {"idle", "insert", "parse", "parsed", "raised"}, made : Rows, report : {<<>>}]
      /\ x.pc = p /\ x.made = m
  BY <1>6, <1>7
<1>10. UploadProgresses'
  BY <1>4, <1>6, <1>8, <1>9 DEF UploadProgresses
<1>11. entered[Rival] = None /\ run.made[Rival] = None
  BY <1>1, <1>3, <1>4, QuietRows DEF OneRow, UploadProgresses
<1>12. \A c \in Contents :
        /\ x.made[c] # None => /\ c = Rival /\ x.made[c].by = "upload"
                               /\ entered'[c] = None /\ run.made[c] = None
        /\ x.made[c].status = "parsed" => c \in originals'
  BY <1>1, <1>2, <1>4, <1>6, <1>9, <1>11 DEF OneRow, OriginalsThere, HasOriginal
<1> QED BY <1>2, <1>3, <1>8, <1>9, <1>10, <1>12, UploadGoesOn

LEMMA OtherIsOver ==
  ASSUME BatchInv, Batches!OtherEnds \/ (Batches!OtherInsert /\ entered[Rival] # None)
  PROVE  BatchInv'
<1>1. BatchTyped /\ OneRow /\ UploadProgresses /\ OriginalsThere
  BY DEF BatchInv
<1>2. /\ UNCHANGED <<archive, job, run, originals>> /\ other' = Batches!Quiet
      /\ \/ UNCHANGED entered
         \/ other.pc = "parsed" /\ entered' = Batches!Merged(other)
  BY DEF Batches!OtherEnds, Batches!OtherInsert, None
<1>3. PICK x : x = Batches!Quiet
  OBVIOUS
<1>4. /\ x \in [pc : {"idle", "insert", "parse", "parsed", "raised"}, made : Rows, report : {<<>>}]
      /\ \A c \in Contents : x.made[c] = None
  BY <1>3, QuietRows
<1>5. UploadProgresses'
  <2>1. other'.pc = "idle" /\ other' = Batches!Quiet
    BY <1>2, QuietRows
  <2> QED BY <2>1 DEF UploadProgresses, Batches!Quiet, Batches!NoRow
<1>6. CASE UNCHANGED entered
  <2>1. entered' \in Rows /\ \A c \in Contents : entered'[c] = entered[c]
    BY <1>1, <1>6 DEF BatchTyped
  <2>2. \A c \in Contents : x.made[c].status # "parsed" /\ originals' = originals
    BY <1>2, <1>4, QuietRows
  <2> QED BY <1>2, <1>3, <1>4, <1>5, <2>1, <2>2, UploadGoesOn
<1>7. CASE other.pc = "parsed" /\ entered' = Batches!Merged(other)
  <2>1. \A c \in Contents : entered'[c] = IF other.made[c] = None THEN entered[c] ELSE other.made[c]
    BY <1>7 DEF Batches!Merged, Batches!Sees, None
  <2>2. entered' \in Rows
    <3>1. entered' = [c \in Contents |-> Batches!Sees(other, c)]
      BY <1>7 DEF Batches!Merged
    <3>2. entered \in Rows /\ other.made \in Rows
      BY <1>1 DEF BatchTyped
    <3>3. \A c \in Contents : Batches!Sees(other, c) \in BatchRow
      BY <3>2 DEF Batches!Sees, Rows
    <3> QED BY <3>1, <3>3 DEF Rows
  <2>3. \A c \in Contents :
          \/ entered'[c] = entered[c]
          \/ /\ entered[c] = None /\ run.made[c] = None
             /\ entered'[c].by # "batch" /\ entered'[c].status # "processing"
             /\ entered'[c].status = "parsed" => c \in originals'
    BY <1>1, <1>2, <1>7, <2>1 DEF OneRow, UploadProgresses, OriginalsThere, HasOriginal
  <2>4. \A c \in Contents : x.made[c].status # "parsed" /\ originals' = originals
    BY <1>2, <1>4, QuietRows
  <2> QED BY <1>2, <1>3, <1>4, <1>5, <2>2, <2>3, <2>4, UploadGoesOn
<1> QED BY <1>2, <1>6, <1>7

BatchesHold == scope = "batches" => BatchInv

LEMMA BatchesScope ==
  ASSUME [Next]_vars, scope' = "batches"
  PROVE  scope = "batches" /\ [Batches!Next]_Batches!vars
BY DEF Next, vars, batches, Batches!vars, PracticesNext, PilotsNext, AccountsNext, ProfilesNext,
       BackupsNext, EditionNext, LimitsNext, ProtocolNext, ReadingsNext, BatchesNext

(* What holds of the archives in every behaviour.                           *)
LEMMA BatchesAlways == Spec => []BatchesHold
<1>1. Init => BatchesHold
  BY BatchStarts DEF Init, BatchesHold
<1>2. ASSUME BatchInv, [Batches!Next]_Batches!vars PROVE BatchInv'
  <2>1. CASE UNCHANGED Batches!vars
    <3>1. UNCHANGED <<archive, job, entered, originals, run, other>>
      BY <2>1 DEF Batches!vars
    <3> QED BY <1>2, <3>1 DEF BatchInv, BatchTyped, OneRow, Progresses, Tells, Unheard, Current,
          UploadProgresses, OriginalsThere, HasOriginal, Batches!ReportsAreTrue, Batches!Entries,
          Batches!AllOrNothing, Batches!NoneInProgress, None, Batches!NoRow, Batches!Quiet
  <2>2. CASE Batches!Look \/ Batches!Insert
    BY <1>2, <2>2, MemberSkipped, MemberInserted
  <2>3. CASE Batches!OtherInsert
    BY <1>2, <2>3, OtherWrites, OtherIsOver
  <2> QED
    BY <1>2, <2>1, <2>2, <2>3, BatchBegins, MemberSkipped, MemberRead, MemberRaises, BatchEnds,
       OtherMovesFile, OtherWrites, OtherIsOver
    DEF Batches!Next
<1>3. BatchesHold /\ [Next]_vars => BatchesHold'
  BY <1>2, BatchesScope DEF BatchesHold
<1> QED BY <1>1, <1>3, PTL DEF Spec

(* _process_batch and upload_batch ingest each member in a savepoint and    *)
(* commit members, report and the end of the job together: what is reported *)
(* is what was left, and a batch that failed has left nothing, while        *)
(* ingest_path of a member elsewhere holds or loses the same hash.          *)
THEOREM BatchReportsAreTrue == Spec => []BatchesAreTrue
<1>1. BatchesHold => BatchesAreTrue
  <2> SUFFICES ASSUME BatchInv PROVE Batches!BatchesAreTrue
    BY DEF BatchesHold, BatchesAreTrue
  <2>1. Batches!OriginalsStay
    BY DEF BatchInv, OriginalsThere, HasOriginal, Batches!OriginalsStay
  <2> QED BY <2>1 DEF BatchInv, Batches!BatchesAreTrue
<1> QED BY <1>1, BatchesAlways, PTL
-----------------------------------------------------------------------------
(* Practices, their documents and the originals.                           *)

PracticeTx ==
  [kind : {"idle", "upload", "status", "delete", "qualify", "download"},
   pc : {"idle", "copy", "insert", "parse", "fail", "commit", "move", "unlink", "seal", "read",
         "answer"},
   docs : SUBSET Uploads, moved : SUBSET Uploads,
   saw : {"none", "active", "archived", "deleted", "good", "altered"},
   sets : {"none", "active", "archived", "good", "parsed", "failed"}]

(* What a request knows of the evidence it seals or serves.                 *)
Seals(x) ==
  /\ x \in PracticeTx /\ x.moved \subseteq x.docs
  /\ x.kind = "idle" <=> x.pc = "idle"
  /\ x.kind = "status" => x.sets \in {"active", "archived"}
  /\ x.kind = "qualify" => x.saw = "good"
  /\ x.kind = "download" => /\ x.pc \in {"read", "answer"} /\ x.docs # {}
                            /\ x.pc = "read" => x.saw = "none"
                            /\ x.pc = "answer" /\ x.saw # "none" => x.sets = "good"

PracticesTyped ==
  /\ practice \in {"none", "active", "archived", "deleted"}
  /\ chained \in BOOLEAN /\ inPilot \in BOOLEAN
  /\ row \in [Uploads -> {"none", "linked", "elsewhere"}] /\ parsed \subseteq Uploads
  /\ file \in [Uploads -> Practices!Bytes] /\ staged \in [Uploads -> Practices!Bytes]
  /\ stranded \subseteq Uploads /\ erased \subseteq Uploads
  /\ snapshot \in [Uploads -> {"none", "good"}]
  /\ tx = [t \in PracticeRequests |-> tx[t]]

PracticesInv == PracticesTyped /\ \A t \in PracticeRequests : Seals(tx[t])
-----------------------------------------------------------------------------
LEMMA PracticeIdle ==
  /\ Practices!Idle \in PracticeTx /\ Seals(Practices!Idle)
  /\ Practices!Idle.kind = "idle" /\ Practices!Idle.pc = "idle"
BY DEF Practices!Idle, PracticeTx, Seals

LEMMA PracticesStart ==
  ASSUME Practices!Init PROVE PracticesInv
<1>1. PracticesTyped /\ \A t \in PracticeRequests : tx[t] = Practices!Idle
  BY DEF Practices!Init, PracticesTyped, Practices!Bytes
<1> QED BY <1>1, PracticeIdle DEF PracticesInv

(* What a request knows has nothing to do with what others change.          *)
LEMMA RequestKeepsSeals ==
  ASSUME PracticesInv, NEW t \in PracticeRequests, NEW x, tx' = [tx EXCEPT ![t] = x], Seals(x),
         PracticesTyped'
  PROVE  PracticesInv'
<1>1. \A u \in PracticeRequests : tx'[u] = IF u = t THEN x ELSE tx[u]
  BY DEF PracticesInv, PracticesTyped
<1> QED BY <1>1 DEF PracticesInv

LEMMA PracticeBegins ==
  ASSUME NEW t, NEW k, NEW p, NEW D, NEW w, NEW v,
         Practices!Begin(t, k, p, D, w, v),
         [kind |-> k, pc |-> p, docs |-> D, moved |-> {}, saw |-> w, sets |-> v] \in PracticeTx
  PROVE  \E x \in PracticeTx :
           /\ tx' = [tx EXCEPT ![t] = x] /\ x.kind = k /\ x.pc = p /\ x.docs = D
           /\ x.moved = {} /\ x.saw = w /\ x.sets = v
<1> DEFINE x == [Practices!Idle EXCEPT !.kind = k, !.pc = p, !.docs = D, !.saw = w, !.sets = v]
<1>1. /\ x.kind = k /\ x.pc = p /\ x.docs = D /\ x.moved = {} /\ x.saw = w /\ x.sets = v
  BY DEF Practices!Idle
<1>2. x \in PracticeTx
  BY ZenonT(40), PracticeIdle DEF PracticeTx
<1> QED BY <1>1, <1>2 DEF Practices!Begin

LEMMA PracticeGoes ==
  ASSUME PracticesInv, NEW t \in PracticeRequests, NEW p
  PROVE  \E x : /\ [tx EXCEPT ![t].pc = p] = [tx EXCEPT ![t] = x]
                /\ x = [kind |-> tx[t].kind, pc |-> p, docs |-> tx[t].docs,
                        moved |-> tx[t].moved, saw |-> tx[t].saw, sets |-> tx[t].sets]
<1>1. PICK x : x = [kind |-> tx[t].kind, pc |-> p, docs |-> tx[t].docs,
                    moved |-> tx[t].moved, saw |-> tx[t].saw, sets |-> tx[t].sets]
  OBVIOUS
<1>2. tx[t] \in PracticeTx
  BY DEF PracticesInv, Seals
<1>3. [tx[t] EXCEPT !.pc = p] = x
  BY <1>1, <1>2 DEF PracticeTx
<1>4. [tx EXCEPT ![t].pc = p] = [tx EXCEPT ![t] = [tx[t] EXCEPT !.pc = p]]
  BY DEF PracticesInv, PracticesTyped
<1> QED BY <1>1, <1>3, <1>4

(* Nobody is at work: practices, links, readings, somebody at the storage.  *)
LEMMA WorldKeepsSeals ==
  ASSUME PracticesInv,
         \/ Practices!CreatePractice \/ Practices!Enlist \/ UNCHANGED Practices!vars
         \/ \E d \in Uploads : Practices!Relink(d) \/ Practices!Reprocess(d) \/ Practices!Alter(d)
  PROVE  PracticesInv'
<1>1. UNCHANGED <<tx, chained, snapshot, staged, stranded, erased>>
  BY DEF Practices!CreatePractice, Practices!Enlist, Practices!vars, Practices!rows,
         Practices!disk, Practices!Relink, Practices!Reprocess, Practices!Alter
<1>2. PracticesTyped'
  BY <1>1 DEF PracticesInv, PracticesTyped, Practices!CreatePractice, Practices!Enlist,
              Practices!vars, Practices!rows, Practices!disk, Practices!Relink,
              Practices!Reprocess, Practices!Alter, Practices!Bytes
<1> QED BY <1>1, <1>2 DEF PracticesInv

LEMMA BeginningKeepsSeals ==
  ASSUME PracticesInv, NEW t \in PracticeRequests,
         \/ Practices!SetStatus(t) \/ Practices!Delete(t)
         \/ \E d \in Uploads :
              Practices!Upload(t, d) \/ Practices!Qualify(t, d) \/ Practices!Download(t, d)
  PROVE  PracticesInv'
<1>1. PracticesTyped'
  BY ZenonT(40) DEF PracticesInv, PracticesTyped, Practices!SetStatus, Practices!Delete, Practices!Upload,
         Practices!Qualify, Practices!Download, Practices!Begin, Practices!rows, Practices!disk
<1>2. CASE Practices!SetStatus(t)
  <2>1. PICK s \in {"active", "archived"}, D \in SUBSET {}, w \in {"active", "archived"} :
          Practices!Begin(t, "status", "commit", D, w, s)
    BY <1>2 DEF Practices!SetStatus
  <2>2. [kind |-> "status", pc |-> "commit", docs |-> D, moved |-> {}, saw |-> w,
         sets |-> s] \in PracticeTx
    BY DEF PracticeTx
  <2>3. PICK x \in PracticeTx :
          /\ tx' = [tx EXCEPT ![t] = x] /\ x.kind = "status" /\ x.pc = "commit" /\ x.docs = D
          /\ x.moved = {} /\ x.saw = w /\ x.sets = s
    BY <2>1, <2>2, PracticeBegins
  <2> QED BY <1>1, <2>3, RequestKeepsSeals DEF Seals
<1>3. CASE Practices!Delete(t)
  <2>0. {d \in Uploads : row[d] = "linked"} \in SUBSET Uploads
    OBVIOUS
  <2>1. PICK D \in SUBSET Uploads : Practices!Begin(t, "delete", "move", D, "none", "none")
    BY <1>3, <2>0 DEF Practices!Delete
  <2>2. [kind |-> "delete", pc |-> "move", docs |-> D, moved |-> {}, saw |-> "none",
         sets |-> "none"] \in PracticeTx
    BY DEF PracticeTx
  <2>3. PICK x \in PracticeTx :
          /\ tx' = [tx EXCEPT ![t] = x] /\ x.kind = "delete" /\ x.pc = "move" /\ x.docs = D
          /\ x.moved = {} /\ x.saw = "none" /\ x.sets = "none"
    BY <2>1, <2>2, PracticeBegins
  <2> QED BY <1>1, <2>3, RequestKeepsSeals DEF Seals
<1>4. ASSUME NEW d \in Uploads, Practices!Upload(t, d) PROVE PracticesInv'
  <2>1. Practices!Begin(t, "upload", "copy", {d}, "none", "none")
    BY <1>4 DEF Practices!Upload
  <2>2. [kind |-> "upload", pc |-> "copy", docs |-> {d}, moved |-> {}, saw |-> "none",
         sets |-> "none"] \in PracticeTx
    BY DEF PracticeTx
  <2>3. PICK x \in PracticeTx :
          /\ tx' = [tx EXCEPT ![t] = x] /\ x.kind = "upload" /\ x.pc = "copy" /\ x.docs = {d}
          /\ x.moved = {} /\ x.saw = "none" /\ x.sets = "none"
    BY <2>1, <2>2, PracticeBegins
  <2> QED BY <1>1, <2>3, RequestKeepsSeals DEF Seals
<1>5. ASSUME NEW d \in Uploads, Practices!Qualify(t, d) PROVE PracticesInv'
  <2>1. Practices!Begin(t, "qualify", "seal", {d}, "good", "none")
    BY <1>5 DEF Practices!Qualify
  <2>2. [kind |-> "qualify", pc |-> "seal", docs |-> {d}, moved |-> {}, saw |-> "good",
         sets |-> "none"] \in PracticeTx
    BY DEF PracticeTx
  <2>3. PICK x \in PracticeTx :
          /\ tx' = [tx EXCEPT ![t] = x] /\ x.kind = "qualify" /\ x.pc = "seal" /\ x.docs = {d}
          /\ x.moved = {} /\ x.saw = "good" /\ x.sets = "none"
    BY <2>1, <2>2, PracticeBegins
  <2> QED BY <1>1, <2>3, RequestKeepsSeals DEF Seals
<1>6. ASSUME NEW d \in Uploads, Practices!Download(t, d) PROVE PracticesInv'
  <2>1. PICK p, w, v : /\ Practices!Begin(t, "download", p, {d}, w, v)
                       /\ p = IF snapshot[d] # "none" THEN "answer" ELSE "read"
                       /\ w = snapshot[d] /\ v = Practices!Verified(snapshot[d])
    BY <1>6 DEF Practices!Download
  <2>2. /\ w \in {"none", "good"} /\ p \in {"answer", "read"} /\ v \in {"none", "good"}
        /\ p = "read" => w = "none"
        /\ w # "none" => v = "good"
    BY <2>1 DEF PracticesInv, PracticesTyped, Practices!Verified
  <2>3. [kind |-> "download", pc |-> p, docs |-> {d}, moved |-> {}, saw |-> w,
         sets |-> v] \in PracticeTx
    BY <2>2 DEF PracticeTx
  <2>4. PICK x \in PracticeTx :
          /\ tx' = [tx EXCEPT ![t] = x] /\ x.kind = "download" /\ x.pc = p /\ x.docs = {d}
          /\ x.moved = {} /\ x.saw = w /\ x.sets = v
    BY <2>1, <2>3, PracticeBegins
  <2> QED BY <1>1, <2>2, <2>4, RequestKeepsSeals DEF Seals
<1> QED BY <1>2, <1>3, <1>4, <1>5, <1>6

(* A request that ends, with or without its transaction.                    *)
RequestEnds(t) ==
  \/ Practices!UploadRollsBack(t) \/ Practices!CommitUpload(t) \/ Practices!CommitStatus(t)
  \/ Practices!DeletionFails(t) \/ Practices!UnlinkStaged(t) \/ Practices!Seal(t)
  \/ Practices!Answer(t) \/ Practices!Crash(t)

LEMMA EndingKeepsSeals ==
  ASSUME PracticesInv, NEW t \in PracticeRequests, RequestEnds(t)
  PROVE  PracticesInv'
<1>1. tx' = [tx EXCEPT ![t] = Practices!Idle]
  BY DEF RequestEnds, Practices!UploadRollsBack, Practices!CommitUpload, Practices!CommitStatus,
         Practices!DeletionFails, Practices!UnlinkStaged, Practices!Seal, Practices!Answer,
         Practices!Crash, Practices!End
<1>2. /\ chained' = chained /\ inPilot' = inPilot
      /\ stranded' \subseteq Uploads /\ erased' \subseteq Uploads
  <2>1. tx[t].moved \subseteq Uploads /\ stranded \subseteq Uploads /\ erased \subseteq Uploads
    BY DEF PracticesInv, PracticesTyped, Seals, PracticeTx
  <2> QED
    BY <2>1 DEF RequestEnds, Practices!UploadRollsBack, Practices!CommitUpload,
         Practices!CommitStatus, Practices!DeletionFails, Practices!UnlinkStaged, Practices!Seal,
         Practices!Answer, Practices!Crash, Practices!rows, Practices!disk
<1>3. practice' \in {"none", "active", "archived", "deleted"}
  <2>1. CASE Practices!CommitStatus(t)
    BY <2>1 DEF Practices!CommitStatus, Practices!At, PracticesInv, PracticesTyped, Seals
  <2>2. CASE ~Practices!CommitStatus(t)
    BY <2>2 DEF RequestEnds, Practices!UploadRollsBack, Practices!CommitUpload,
         Practices!DeletionFails, Practices!UnlinkStaged, Practices!Seal, Practices!Answer,
         Practices!Crash, Practices!rows, PracticesInv, PracticesTyped
  <2> QED BY <2>1, <2>2
<1>4. row' \in [Uploads -> {"none", "linked", "elsewhere"}] /\ parsed' \subseteq Uploads
  <2>1. CASE Practices!CommitUpload(t)
    <3>1. PICK place \in {"elsewhere", "linked"} :
            row' = [d \in Uploads |-> IF d \in tx[t].docs THEN place ELSE row[d]]
      BY <2>1 DEF Practices!CommitUpload
    <3>2. tx[t].docs \subseteq Uploads
      BY DEF PracticesInv, Seals, PracticeTx
    <3> QED BY <2>1, <3>1, <3>2 DEF Practices!CommitUpload, PracticesInv, PracticesTyped
  <2>2. CASE ~Practices!CommitUpload(t)
    BY <2>2 DEF RequestEnds, Practices!UploadRollsBack, Practices!CommitStatus,
         Practices!DeletionFails, Practices!UnlinkStaged, Practices!Seal, Practices!Answer,
         Practices!Crash, Practices!rows, PracticesInv, PracticesTyped
  <2> QED BY <2>1, <2>2
<1>5. file' \in [Uploads -> Practices!Bytes] /\ staged' \in [Uploads -> Practices!Bytes]
  <2>0. file \in [Uploads -> Practices!Bytes] /\ staged \in [Uploads -> Practices!Bytes]
        /\ "none" \in Practices!Bytes
    BY DEF PracticesInv, PracticesTyped, Practices!Bytes
  <2>1. CASE Practices!DeletionFails(t) \/ Practices!UnlinkStaged(t)
    BY <2>0, <2>1 DEF Practices!DeletionFails, Practices!UnlinkStaged, Practices!PutBack
  <2>2. CASE ~(Practices!DeletionFails(t) \/ Practices!UnlinkStaged(t))
    BY <2>0, <2>2 DEF RequestEnds, Practices!UploadRollsBack, Practices!CommitUpload,
         Practices!CommitStatus, Practices!Seal, Practices!Answer, Practices!Crash, Practices!disk
  <2> QED BY <2>1, <2>2
<1>6. snapshot' \in [Uploads -> {"none", "good"}]
  <2>1. CASE Practices!Seal(t)
    <3>1. tx[t].saw = "good"
      BY <2>1 DEF Practices!Seal, Practices!At, PracticesInv, Seals
    <3>2. snapshot' = snapshot \/ \E d \in tx[t].docs, s \in {"good", "none"} :
                                     snapshot' = [snapshot EXCEPT ![d] = s]
      BY <2>1, <3>1 DEF Practices!Seal, Practices!Payload
    <3> QED BY <3>2 DEF PracticesInv, PracticesTyped
  <2>2. CASE ~Practices!Seal(t)
    BY <2>2 DEF RequestEnds, Practices!UploadRollsBack, Practices!CommitUpload, Practices!CommitStatus,
         Practices!DeletionFails, Practices!UnlinkStaged, Practices!Answer, Practices!Crash,
         Practices!rows, PracticesInv, PracticesTyped
  <2> QED BY <2>1, <2>2
<1>7. PracticesTyped'
  BY <1>1, <1>2, <1>3, <1>4, <1>5, <1>6 DEF PracticesInv, PracticesTyped
<1> QED BY <1>1, <1>7, PracticeIdle, RequestKeepsSeals

(* A request that goes on.                                                  *)
LEMMA GoingOnKeepsSeals ==
  ASSUME PracticesInv, NEW t \in PracticeRequests,
         \/ Practices!CopyFile(t) \/ Practices!InsertRow(t) \/ Practices!Parse(t)
         \/ Practices!UploadRaises(t) \/ Practices!MoveFile(t) \/ Practices!CommitDeletion(t)
         \/ Practices!ReadStorage(t)
  PROVE  PracticesInv'
<1>1. PracticesTyped'
  <2>0. PracticesTyped /\ "none" \in Practices!Bytes /\ "good" \in Practices!Bytes
    BY DEF PracticesInv, Practices!Bytes
  <2>1. CASE Practices!CopyFile(t) \/ Practices!UploadRaises(t)
    BY <2>0, <2>1 DEF Practices!CopyFile, Practices!UploadRaises, Practices!Goto, Practices!rows,
                      PracticesTyped
  <2>2. CASE Practices!InsertRow(t) \/ Practices!Parse(t) \/ Practices!ReadStorage(t)
    BY <2>0, <2>2 DEF Practices!InsertRow, Practices!Parse, Practices!ReadStorage, Practices!Goto,
                      Practices!End, Practices!rows, Practices!disk, PracticesTyped
  <2>3. CASE Practices!MoveFile(t)
    <3>1. PICK d \in tx[t].docs \ tx[t].moved :
            /\ file[d] # "none" /\ staged' = [staged EXCEPT ![d] = file[d]]
            /\ file' = [file EXCEPT ![d] = "none"]
            /\ tx' = [tx EXCEPT ![t].moved = @ \cup {d}]
      BY <2>3 DEF Practices!MoveFile
    <3>2. file[d] \in Practices!Bytes
      BY <2>0, <3>1 DEF PracticesInv, PracticesTyped, Seals, PracticeTx
    <3>3. /\ file' \in [Uploads -> Practices!Bytes] /\ staged' \in [Uploads -> Practices!Bytes]
          /\ tx' = [u \in PracticeRequests |-> tx'[u]]
      BY <2>0, <3>1, <3>2 DEF PracticesTyped
    <3> QED BY <2>0, <2>3, <3>3 DEF Practices!MoveFile, Practices!rows, PracticesTyped
  <2>4. CASE Practices!CommitDeletion(t)
    BY <2>0, <2>4 DEF Practices!CommitDeletion, Practices!Goto, Practices!disk, PracticesTyped
  <2> QED BY <2>1, <2>2, <2>3, <2>4
<1>2. tx[t] \in PracticeTx /\ Seals(tx[t])
  BY DEF PracticesInv, Seals
<1>3. ASSUME NEW k \in {"upload", "delete"}, NEW p \in {"insert", "parse", "fail", "unlink"},
             tx[t].kind = k, tx' = [tx EXCEPT ![t].pc = p]
      PROVE  PracticesInv'
  <2>1. PICK x : /\ [tx EXCEPT ![t].pc = p] = [tx EXCEPT ![t] = x]
                 /\ x = [kind |-> tx[t].kind, pc |-> p, docs |-> tx[t].docs,
                         moved |-> tx[t].moved, saw |-> tx[t].saw, sets |-> tx[t].sets]
    BY PracticeGoes
  <2>2. Seals(x)
    BY <1>2, <1>3, <2>1 DEF Seals, PracticeTx
  <2> QED BY <1>1, <1>3, <2>1, <2>2, RequestKeepsSeals
<1>4. CASE Practices!CopyFile(t) \/ Practices!UploadRaises(t) \/ Practices!CommitDeletion(t)
  BY <1>3, <1>4 DEF Practices!CopyFile, Practices!UploadRaises, Practices!CommitDeletion,
                    Practices!At, Practices!Goto
<1>5. CASE Practices!InsertRow(t)
  <2>1. CASE Practices!End(t)
    BY <1>1, <2>1, PracticeIdle, RequestKeepsSeals DEF Practices!End
  <2> QED BY <1>3, <1>5, <2>1 DEF Practices!InsertRow, Practices!At, Practices!Goto
<1>6. CASE Practices!Parse(t)
  <2>1. PICK r \in {"parsed", "failed"} :
          tx[t].kind = "upload" /\ tx' = [tx EXCEPT ![t].pc = "commit", ![t].sets = r]
    BY <1>6 DEF Practices!Parse, Practices!Parses, Practices!At
  <2> DEFINE x == [tx[t] EXCEPT !.pc = "commit", !.sets = r]
  <2>2. /\ x.kind = "upload" /\ x.pc = "commit" /\ x.docs = tx[t].docs /\ x.moved = tx[t].moved
        /\ x \in PracticeTx
    BY <1>2, <2>1 DEF PracticeTx
  <2>3. [tx EXCEPT ![t].pc = "commit", ![t].sets = r] = [tx EXCEPT ![t] = x]
    BY DEF PracticesInv, PracticesTyped
  <2> HIDE DEF x
  <2> QED BY <1>1, <1>2, <2>1, <2>2, <2>3, RequestKeepsSeals DEF Seals
<1>7. CASE Practices!ReadStorage(t)
  <2>1. PICK r : /\ r = CHOOSE b \in Practices!Bytes :
                             \E d \in tx[t].docs : b = Practices!Verified(file[d])
                 /\ tx' = [tx EXCEPT ![t].pc = "answer", ![t].sets = r]
                 /\ tx[t].kind = "download" /\ tx[t].pc = "read"
    BY <1>7 DEF Practices!ReadStorage, Practices!At
  <2>2. r \in {"none", "good"}
    <3>1. PICK d \in tx[t].docs : d \in Uploads
      BY <1>2, <2>1 DEF Seals, PracticeTx
    <3>2. Practices!Verified(file[d]) \in Practices!Bytes
      BY DEF Practices!Verified, Practices!Bytes
    <3>3. \E e \in tx[t].docs : r = Practices!Verified(file[e])
      BY <2>1, <3>1, <3>2
    <3> QED BY <3>3 DEF Practices!Verified
  <2> DEFINE x == [tx[t] EXCEPT !.pc = "answer", !.sets = r]
  <2>3. /\ x.kind = "download" /\ x.pc = "answer" /\ x.docs = tx[t].docs
        /\ x.moved = tx[t].moved /\ x.saw = tx[t].saw /\ x.sets = r /\ x \in PracticeTx
    BY <1>2, <2>1, <2>2 DEF PracticeTx
  <2>4. [tx EXCEPT ![t].pc = "answer", ![t].sets = r] = [tx EXCEPT ![t] = x]
    BY DEF PracticesInv, PracticesTyped
  <2> HIDE DEF x
  <2> QED BY <1>1, <1>2, <2>1, <2>3, <2>4, RequestKeepsSeals DEF Seals
<1>8. CASE Practices!MoveFile(t)
  <2>1. PICK d \in tx[t].docs : /\ tx' = [tx EXCEPT ![t].moved = @ \cup {d}]
                                /\ tx[t].kind = "delete" /\ tx[t].pc = "move"
    BY <1>8 DEF Practices!MoveFile, Practices!At
  <2> DEFINE x == [tx[t] EXCEPT !.moved = @ \cup {d}]
  <2>2. /\ x.kind = "delete" /\ x.pc = "move" /\ x.docs = tx[t].docs
        /\ x.moved = tx[t].moved \cup {d} /\ x \in PracticeTx
    BY <1>2, <2>1 DEF PracticeTx
  <2>3. [tx EXCEPT ![t].moved = @ \cup {d}] = [tx EXCEPT ![t] = x]
    BY DEF PracticesInv, PracticesTyped
  <2> HIDE DEF x
  <2> QED BY ZenonT(40), <1>1, <1>2, <2>1, <2>2, <2>3, RequestKeepsSeals DEF Seals
<1> QED BY <1>4, <1>5, <1>6, <1>7, <1>8
-----------------------------------------------------------------------------
LEMMA PracticesHold ==
  ASSUME PracticesInv, [Practices!Next]_Practices!vars PROVE PracticesInv'
BY WorldKeepsSeals, BeginningKeepsSeals, EndingKeepsSeals, GoingOnKeepsSeals
   DEF Practices!Next, RequestEnds

(* Whatever else happens leaves the practices alone.                        *)
PracticesAlways == scope = "practices" => PracticesInv

LEMMA PracticesScope ==
  ASSUME [Next]_vars, scope' = "practices"
  PROVE  scope = "practices" /\ [Practices!Next]_Practices!vars
BY DEF Next, vars, practices, Practices!vars, Practices!rows, Practices!disk, PracticesNext,
       PilotsNext, AccountsNext, ProfilesNext, BackupsNext, EditionNext, LimitsNext, ProtocolNext,
       ReadingsNext, BatchesNext

(* What holds of the practices in every behaviour.                          *)
LEMMA PracticesAreAlways == Spec => []PracticesAlways
<1>1. Init => PracticesAlways
  BY PracticesStart DEF Init, PracticesAlways
<1>2. PracticesAlways /\ [Next]_vars => PracticesAlways'
  BY PracticesScope, PracticesHold DEF PracticesAlways
<1> QED BY <1>1, <1>2, PTL DEF Spec

(* Evidence that has been sealed is served as it was verified: no write to  *)
(* the storage after the bytes were read matters, nor one between their     *)
(* verification and their insertion, whatever deletions, uploads and        *)
(* judgments of the same document do (evidence_integrity.py).               *)
THEOREM SealedStaysServed == Spec => []SealedIsServed
<1>1. PracticesAlways => SealedIsServed
  BY DEF PracticesAlways, PracticesInv, PracticesTyped, Seals, SealedIsServed,
         Practices!SealedIsServed, Practices!At
<1> QED BY <1>1, PracticesAreAlways, PTL
-----------------------------------------------------------------------------
(* Originals.  Requests of one practice's deletion share its one staging    *)
(* directory, so they are assumed not to overlap.                           *)

OneDeleter == \A s, t \in Deleters : s = t

HasRow(x) == x.kind = "upload" /\ x.pc \in {"parse", "commit", "fail"}

(* An inserted row that is not committed keeps others of the same content   *)
(* out; a deletion holds the only copy of what it has moved until it puts   *)
(* it back or has deleted the rows.                                         *)
Secure(t, x) ==
  /\ x.kind = "upload" => \E d \in Uploads : x.docs = {d}
  /\ HasRow(x) => \A d \in x.docs : row[d] = "none"
  /\ x.kind = "upload" /\ x.pc = "commit" /\ x.sets = "parsed" =>
       \A d \in x.docs : file[d] # "none"
  /\ x.kind = "delete" => t \in Deleters /\ x.pc \in {"move", "unlink"}
  /\ x.kind = "delete" /\ x.pc = "move" => \A d \in x.docs : row[d] # "none"
  /\ x.kind = "delete" /\ x.pc = "unlink" => \A d \in x.moved \cap parsed : file[d] # "none"

KeptInv ==
  /\ \A t \in PracticeRequests : Secure(t, tx[t])
  /\ \A t, u \in PracticeRequests :
       HasRow(tx[t]) /\ HasRow(tx[u]) /\ t # u => tx[t].docs # tx[u].docs
  /\ \A d \in parsed : row[d] # "none"
  /\ Practices!OriginalsAreKept
-----------------------------------------------------------------------------
(* A step after which whatever was on the disk still is, and only a         *)
(* document with a row and a file has been read.                            *)
NothingLost ==
  /\ staged' = staged /\ stranded \subseteq stranded' /\ erased' = erased
  /\ \A d \in Uploads : row'[d] = "none" <=> row[d] = "none"
  /\ \A d \in Uploads : file[d] # "none" => file'[d] # "none"
  /\ parsed' \subseteq Uploads
  /\ \A d \in parsed' : d \in parsed \/ (row[d] # "none" /\ file[d] # "none")

LEMMA SecureStays ==
  ASSUME PracticesInv, NothingLost, NEW t, NEW x \in PracticeTx, Secure(t, x)
  PROVE  Secure(t, x)'
BY DEF PracticesInv, PracticesTyped, NothingLost, Secure, HasRow, PracticeTx

LEMMA NobodyKeepsOriginals ==
  ASSUME PracticesInv, KeptInv, NothingLost, tx' = tx
  PROVE  KeptInv'
<1>1. \A t \in PracticeRequests : Secure(t, tx[t])'
  BY SecureStays DEF KeptInv, PracticesInv, Seals
<1>2. Practices!OriginalsAreKept'
  BY DEF KeptInv, NothingLost, Practices!OriginalsAreKept, PracticesInv, PracticesTyped
<1> QED BY <1>1, <1>2 DEF KeptInv, NothingLost, HasRow, PracticesInv, PracticesTyped

(* A deletion that goes on to x still has what it has moved, or leaves it   *)
(* where it is found.                                                       *)
LeavesWhatItMoved(t, x) ==
  tx[t].kind = "delete" =>
    \/ x.kind = "delete" /\ x.moved = tx[t].moved
    \/ \A d \in tx[t].moved \cap parsed' : file'[d] # "none" \/ d \in stranded'

(* A request goes on to x, and takes no file with it.                       *)
LEMMA RequestKeepsOriginals ==
  ASSUME PracticesInv, KeptInv, NothingLost, NEW t \in PracticeRequests, NEW x \in PracticeTx,
         tx' = [tx EXCEPT ![t] = x], Secure(t, x),
         HasRow(x) => \A u \in PracticeRequests : u # t /\ HasRow(tx[u]) => tx[u].docs # x.docs,
         LeavesWhatItMoved(t, x)
  PROVE  KeptInv'
<1>1. \A u \in PracticeRequests : tx'[u] = IF u = t THEN x ELSE tx[u]
  BY DEF PracticesInv, PracticesTyped
<1>2. \A u \in PracticeRequests : Secure(u, tx[u])'
  <2> TAKE u \in PracticeRequests
  <2>1. CASE u = t
    BY <1>1, <2>1, SecureStays DEF Secure, HasRow
  <2>2. CASE u # t
    <3>1. Secure(u, tx[u]) /\ tx[u] \in PracticeTx
      BY DEF KeptInv, PracticesInv, Seals
    <3>2. PICK y \in PracticeTx : y = tx[u] /\ y = tx'[u] /\ Secure(u, y)
      BY <1>1, <2>2, <3>1
    <3>3. Secure(u, y)'
      BY <3>2, SecureStays
    <3> QED BY <3>2, <3>3 DEF Secure, HasRow
  <2> QED BY <2>1, <2>2
<1>3. Practices!OriginalsAreKept'
  <2> SUFFICES ASSUME NEW d \in parsed', file'[d] = "none", d \notin erased'
               PROVE  \/ staged'[d] # "none"
                         /\ \/ d \in stranded'
                            \/ \E u \in PracticeRequests :
                                 tx'[u].kind = "delete" /\ d \in tx'[u].moved
    BY DEF Practices!OriginalsAreKept
  <2>1. d \in parsed /\ file[d] = "none" /\ d \notin erased /\ staged'[d] = staged[d]
    BY DEF NothingLost
  <2>2. /\ staged[d] # "none"
        /\ \/ d \in stranded
           \/ \E u \in PracticeRequests : tx[u].kind = "delete" /\ d \in tx[u].moved
    BY <2>1 DEF KeptInv, Practices!OriginalsAreKept
  <2>3. CASE d \in stranded
    BY <2>1, <2>2, <2>3 DEF NothingLost
  <2>4. ASSUME NEW u \in PracticeRequests, tx[u].kind = "delete", d \in tx[u].moved
        PROVE  \/ d \in stranded'
               \/ \E v \in PracticeRequests : tx'[v].kind = "delete" /\ d \in tx'[v].moved
    BY <1>1, <2>4 DEF LeavesWhatItMoved
  <2> QED BY <2>1, <2>2, <2>3, <2>4
<1>4. (\A u, v \in PracticeRequests :
         HasRow(tx[u]) /\ HasRow(tx[v]) /\ u # v => tx[u].docs # tx[v].docs)'
  BY <1>1 DEF KeptInv, HasRow
<1> QED BY <1>2, <1>3, <1>4 DEF KeptInv, NothingLost, PracticesInv, PracticesTyped

LEMMA WorldKeepsOriginals ==
  ASSUME PracticesInv, PracticesInv', KeptInv,
         \/ Practices!CreatePractice \/ Practices!Enlist \/ UNCHANGED Practices!vars
         \/ \E d \in Uploads : Practices!Relink(d) \/ Practices!Reprocess(d) \/ Practices!Alter(d)
  PROVE  KeptInv'
<1>1. NothingLost /\ tx' = tx
  BY DEF NothingLost, PracticesInv, PracticesTyped, Practices!CreatePractice, Practices!Enlist,
         Practices!vars, Practices!rows, Practices!disk, Practices!Relink, Practices!Reprocess,
         Practices!Alter
<1> QED BY <1>1, NobodyKeepsOriginals

LEMMA BeginningKeepsOriginals ==
  ASSUME PracticesInv, PracticesInv', KeptInv, NEW t \in PracticeRequests,
         \/ Practices!SetStatus(t) \/ Practices!Delete(t)
         \/ \E d \in Uploads :
              Practices!Upload(t, d) \/ Practices!Qualify(t, d) \/ Practices!Download(t, d)
  PROVE  KeptInv'
<1>1. NothingLost
  BY DEF NothingLost, PracticesInv, PracticesTyped, Practices!SetStatus, Practices!Delete,
         Practices!Upload, Practices!Qualify, Practices!Download, Practices!Begin,
         Practices!rows, Practices!disk
<1>2. tx[t].kind = "idle"
  BY DEF Practices!SetStatus, Practices!Delete, Practices!Upload, Practices!Qualify,
         Practices!Download, Practices!Begin, PracticesInv, Seals
<1>3. ASSUME NEW k, NEW p, NEW D, NEW w, NEW v, Practices!Begin(t, k, p, D, w, v),
             \/ k \in {"status", "qualify", "download"}
             \/ k = "upload" /\ p = "copy" /\ \E d \in Uploads : D = {d}
             \/ /\ k = "delete" /\ p = "move" /\ t \in Deleters
                /\ \A d \in D : row[d] # "none"
      PROVE  KeptInv'
  <2>1. PICK x : x = [Practices!Idle EXCEPT !.kind = k, !.pc = p, !.docs = D, !.saw = w,
                                            !.sets = v]
    OBVIOUS
  <2>2. x.kind = k /\ x.pc = p /\ x.docs = D
    BY <2>1 DEF Practices!Idle
  <2>3. tx' = [tx EXCEPT ![t] = x]
    BY <1>3, <2>1 DEF Practices!Begin
  <2>4. x \in PracticeTx
    BY <2>3 DEF PracticesInv, PracticesTyped, Seals
  <2>5. Secure(t, x) /\ ~HasRow(x) /\ LeavesWhatItMoved(t, x)
    BY <1>2, <1>3, <2>2 DEF Secure, HasRow, LeavesWhatItMoved
  <2> QED BY <1>1, <2>3, <2>4, <2>5, RequestKeepsOriginals
<1>4. CASE Practices!SetStatus(t)
  <2>1. PICK s \in {"active", "archived"}, D \in SUBSET {}, w \in {"active", "archived"} :
          Practices!Begin(t, "status", "commit", D, w, s)
    BY <1>4 DEF Practices!SetStatus
  <2> QED BY <1>3, <2>1
<1>5. CASE Practices!Delete(t)
  <2>1. PICK D : D = {d \in Uploads : row[d] = "linked"}
    OBVIOUS
  <2>2. Practices!Begin(t, "delete", "move", D, "none", "none") /\ t \in Deleters
    BY <1>5, <2>1 DEF Practices!Delete
  <2>3. \A d \in D : row[d] # "none"
    BY <2>1
  <2> QED BY <1>3, <2>2, <2>3
<1>6. ASSUME NEW d \in Uploads, Practices!Upload(t, d) PROVE KeptInv'
  BY <1>3, <1>6 DEF Practices!Upload
<1>7. ASSUME NEW d \in Uploads, Practices!Qualify(t, d) PROVE KeptInv'
  <2>1. PICK b : Practices!Begin(t, "qualify", "seal", {d}, b, "none")
    BY <1>7 DEF Practices!Qualify
  <2> QED BY <1>3, <2>1
<1>8. ASSUME NEW d \in Uploads, Practices!Download(t, d) PROVE KeptInv'
  <2>1. PICK p, w, v : Practices!Begin(t, "download", p, {d}, w, v)
    BY <1>8 DEF Practices!Download
  <2> QED BY <1>3, <2>1
<1> QED BY <1>4, <1>5, <1>6, <1>7, <1>8

(* A request that goes on or ends without touching a file that counts.      *)
LEMMA GoingOnKeepsOriginals ==
  ASSUME PracticesInv, PracticesInv', KeptInv, NEW t \in PracticeRequests,
         \/ Practices!CopyFile(t) \/ Practices!InsertRow(t) \/ Practices!Parse(t)
         \/ Practices!ReadStorage(t) \/ Practices!UploadRollsBack(t) \/ Practices!CommitStatus(t)
         \/ Practices!Seal(t) \/ Practices!Answer(t) \/ Practices!Crash(t)
  PROVE  KeptInv'
<1>1. NothingLost
  <2>1. CASE Practices!CopyFile(t)
    BY <2>1 DEF NothingLost, PracticesInv, PracticesTyped, Practices!CopyFile, Practices!rows
  <2>2. CASE ~Practices!CopyFile(t)
    BY <2>2 DEF NothingLost, PracticesInv, PracticesTyped, Practices!InsertRow, Practices!Parse,
                Practices!ReadStorage, Practices!UploadRollsBack, Practices!CommitStatus,
                Practices!Seal, Practices!Answer, Practices!Crash, Practices!rows,
                Practices!disk
  <2> QED BY <2>1, <2>2
<1>2. tx[t] \in PracticeTx /\ Seals(tx[t]) /\ Secure(t, tx[t])
  BY DEF PracticesInv, KeptInv, Seals
<1>3. ASSUME tx' = [tx EXCEPT ![t] = Practices!Idle],
             tx[t].kind = "delete" =>
               \A d \in tx[t].moved \cap parsed' : file'[d] # "none" \/ d \in stranded'
      PROVE  KeptInv'
  <2>1. /\ Secure(t, Practices!Idle) /\ ~HasRow(Practices!Idle)
        /\ LeavesWhatItMoved(t, Practices!Idle)
    BY <1>3 DEF Secure, HasRow, Practices!Idle, LeavesWhatItMoved
  <2> QED BY <1>1, <1>3, <2>1, PracticeIdle, RequestKeepsOriginals
<1>4. ASSUME NEW x, tx' = [tx EXCEPT ![t] = x], tx[t].kind # "delete", Secure(t, x),
             HasRow(x) => \A u \in PracticeRequests : u # t /\ HasRow(tx[u]) => tx[u].docs # x.docs
      PROVE  KeptInv'
  <2>1. x \in PracticeTx /\ LeavesWhatItMoved(t, x)
    BY <1>4 DEF PracticesInv, PracticesTyped, Seals, LeavesWhatItMoved
  <2> QED BY <1>1, <1>4, <2>1, RequestKeepsOriginals
<1>5. CASE Practices!CopyFile(t)
  <2>1. PICK x : /\ [tx EXCEPT ![t].pc = "insert"] = [tx EXCEPT ![t] = x]
                 /\ x = [kind |-> tx[t].kind, pc |-> "insert", docs |-> tx[t].docs,
                         moved |-> tx[t].moved, saw |-> tx[t].saw, sets |-> tx[t].sets]
    BY PracticeGoes
  <2>2. Secure(t, x) /\ ~HasRow(x)
    BY <1>2, <1>5, <2>1 DEF Secure, HasRow, Practices!CopyFile, Practices!At
  <2> QED BY <1>4, <1>5, <2>1, <2>2 DEF Practices!CopyFile, Practices!At, Practices!Goto
<1>6. CASE Practices!InsertRow(t)
  <2>0. tx[t].kind = "upload" /\ tx[t].pc = "insert"
    BY <1>6 DEF Practices!InsertRow, Practices!At
  <2>1. CASE Practices!End(t)
    BY <1>3, <2>0, <2>1 DEF Practices!End
  <2>2. CASE Practices!Goto(t, "parse") /\ \A d \in tx[t].docs : row[d] = "none"
    <3>1. PICK x : /\ [tx EXCEPT ![t].pc = "parse"] = [tx EXCEPT ![t] = x]
                   /\ x = [kind |-> tx[t].kind, pc |-> "parse", docs |-> tx[t].docs,
                           moved |-> tx[t].moved, saw |-> tx[t].saw, sets |-> tx[t].sets]
      BY PracticeGoes
    <3>2. Secure(t, x)
      BY <1>2, <2>0, <2>2, <3>1 DEF Secure, HasRow
    <3>3. \A u \in PracticeRequests : HasRow(tx[u]) => tx[u].docs # x.docs
      BY <1>6, <3>1 DEF Practices!InsertRow, Practices!Inserted, HasRow
    <3> QED BY <1>4, <2>0, <2>2, <3>1, <3>2, <3>3 DEF Practices!Goto
  <2> QED BY <1>6, <2>1, <2>2 DEF Practices!InsertRow
<1>7. CASE Practices!Parse(t)
  <2>1. PICK r \in {"parsed", "failed"} :
          /\ tx[t].kind = "upload" /\ tx[t].pc = "parse"
          /\ r = "parsed" => \A d \in tx[t].docs : file[d] # "none"
          /\ tx' = [tx EXCEPT ![t].pc = "commit", ![t].sets = r]
    BY <1>7 DEF Practices!Parse, Practices!Parses, Practices!At
  <2> DEFINE x == [tx[t] EXCEPT !.pc = "commit", !.sets = r]
  <2>2. x.kind = "upload" /\ x.pc = "commit" /\ x.docs = tx[t].docs /\ x.sets = r
    BY <1>2, <2>1 DEF PracticeTx
  <2>3. [tx EXCEPT ![t].pc = "commit", ![t].sets = r] = [tx EXCEPT ![t] = x]
    BY DEF PracticesInv, PracticesTyped
  <2> HIDE DEF x
  <2>4. Secure(t, x)
    BY <1>2, <2>1, <2>2 DEF Secure, HasRow
  <2>5. \A u \in PracticeRequests : u # t /\ HasRow(tx[u]) => tx[u].docs # x.docs
    BY <2>1, <2>2 DEF KeptInv, HasRow
  <2> QED BY <1>4, <2>1, <2>3, <2>4, <2>5
<1>8. CASE Practices!ReadStorage(t)
  <2>1. PICK r : /\ tx' = [tx EXCEPT ![t].pc = "answer", ![t].sets = r]
                 /\ tx[t].kind = "download" /\ tx[t].pc = "read"
    BY <1>8 DEF Practices!ReadStorage, Practices!At
  <2> DEFINE x == [tx[t] EXCEPT !.pc = "answer", !.sets = r]
  <2>2. x.kind = "download"
    BY <1>2, <2>1 DEF PracticeTx
  <2>3. [tx EXCEPT ![t].pc = "answer", ![t].sets = r] = [tx EXCEPT ![t] = x]
    BY DEF PracticesInv, PracticesTyped
  <2> HIDE DEF x
  <2> QED BY <1>4, <2>1, <2>2, <2>3 DEF Secure, HasRow
<1>9. CASE \/ Practices!UploadRollsBack(t) \/ Practices!CommitStatus(t) \/ Practices!Seal(t)
           \/ Practices!Answer(t)
  BY <1>3, <1>9 DEF Practices!UploadRollsBack, Practices!CommitStatus, Practices!Seal,
                    Practices!Answer, Practices!At, Practices!End
<1>10. CASE Practices!Crash(t)
  <2>1. /\ tx' = [tx EXCEPT ![t] = Practices!Idle] /\ parsed' = parsed /\ file' = file
        /\ tx[t].kind = "delete" /\ tx[t].pc = "move" => tx[t].moved \subseteq stranded'
    BY <1>10 DEF Practices!Crash, Practices!End, Practices!At, Practices!rows
  <2>2. tx[t].kind = "delete" /\ tx[t].pc # "move" =>
          \A d \in tx[t].moved \cap parsed : file[d] # "none"
    BY <1>2 DEF Secure
  <2> QED BY <1>3, <2>1, <2>2
<1> QED BY <1>5, <1>6, <1>7, <1>8, <1>9, <1>10

LEMMA OthersAreElsewhere ==
  ASSUME KeptInv, NEW t \in PracticeRequests, HasRow(tx[t]), NEW d, tx[t].docs = {d},
         NEW u \in PracticeRequests, u # t, HasRow(tx[u])
  PROVE  d \notin tx[u].docs
<1>1. PICK e \in Uploads : tx[u].docs = {e}
  BY DEF KeptInv, Secure, HasRow
<1>2. tx[u].docs # tx[t].docs
  BY DEF KeptInv
<1> QED BY <1>1, <1>2

(* The file that an upload removes has no row, and its row no other upload. *)
LEMMA RaisingKeepsOriginals ==
  ASSUME PracticesInv, PracticesInv', KeptInv, NEW t \in PracticeRequests,
         Practices!UploadRaises(t)
  PROVE  KeptInv'
<1>1. PICK d \in Uploads : tx[t].docs = {d}
  BY DEF Practices!UploadRaises, Practices!At, KeptInv, Secure
<1>2. /\ HasRow(tx[t]) /\ row[d] = "none" /\ d \notin parsed
      /\ row' = row /\ parsed' = parsed /\ staged' = staged
      /\ stranded' = stranded /\ erased' = erased
      /\ \A e \in Uploads : e # d => file'[e] = file[e]
  BY <1>1 DEF Practices!UploadRaises, Practices!At, Practices!rows, KeptInv, Secure, HasRow
<1>3. PICK x : /\ tx' = [tx EXCEPT ![t] = x]
               /\ x = [kind |-> tx[t].kind, pc |-> "fail", docs |-> tx[t].docs,
                       moved |-> tx[t].moved, saw |-> tx[t].saw, sets |-> tx[t].sets]
  BY PracticeGoes DEF Practices!UploadRaises, Practices!Goto
<1>4. x.kind = "upload" /\ x.pc = "fail" /\ x.docs = {d} /\ x.moved = tx[t].moved
  BY <1>1, <1>3 DEF Practices!UploadRaises, Practices!At
<1>5. \A u \in PracticeRequests : tx'[u] = IF u = t THEN x ELSE tx[u]
  BY <1>3 DEF PracticesInv, PracticesTyped
<1>6. \A u \in PracticeRequests : u # t /\ HasRow(tx[u]) => d \notin tx[u].docs
  BY <1>1, <1>2, OthersAreElsewhere
<1>7. \A u \in PracticeRequests : Secure(u, tx[u])'
  <2> TAKE u \in PracticeRequests
  <2>1. CASE u = t
    BY <1>2, <1>4, <1>5, <2>1 DEF Secure, HasRow
  <2>2. CASE u # t
    <3>1. tx'[u] = tx[u] /\ Secure(u, tx[u]) /\ tx[u] \in PracticeTx
      BY <1>5, <2>2 DEF KeptInv, PracticesInv, Seals
    <3>2. HasRow(tx[u]) => \A e \in tx[u].docs : e \in Uploads /\ e # d
      BY <1>6, <2>2, <3>1 DEF PracticeTx
    <3> QED BY <1>2, <3>1, <3>2 DEF Secure, HasRow, PracticesInv, PracticesTyped
  <2> QED BY <2>1, <2>2
<1>8. (\A u, v \in PracticeRequests :
         HasRow(tx[u]) /\ HasRow(tx[v]) /\ u # v => tx[u].docs # tx[v].docs)'
  <2>1. \A u \in PracticeRequests : HasRow(tx'[u]) => HasRow(tx[u]) /\ tx'[u].docs = tx[u].docs
    BY <1>1, <1>2, <1>4, <1>5
  <2>2. \A u, v \in PracticeRequests :
          HasRow(tx[u]) /\ HasRow(tx[v]) /\ u # v => tx[u].docs # tx[v].docs
    BY DEF KeptInv
  <2>3. \A u, v \in PracticeRequests :
          HasRow(tx'[u]) /\ HasRow(tx'[v]) /\ u # v => tx'[u].docs # tx'[v].docs
    BY <2>1, <2>2
  <2> QED BY <2>3 DEF HasRow
<1>9. Practices!OriginalsAreKept'
  BY <1>2, <1>4, <1>5 DEF KeptInv, Practices!OriginalsAreKept, PracticesInv, PracticesTyped,
                          Practices!UploadRaises, Practices!At
<1> QED BY <1>2, <1>7, <1>8, <1>9 DEF KeptInv

(* The row is committed with the document's reading, if it has a file.      *)
LEMMA UploadKeepsOriginals ==
  ASSUME PracticesInv, PracticesInv', KeptInv, NEW t \in PracticeRequests,
         Practices!CommitUpload(t)
  PROVE  KeptInv'
<1>1. PICK d \in Uploads : tx[t].docs = {d}
  BY DEF Practices!CommitUpload, Practices!At, KeptInv, Secure
<1>2. /\ HasRow(tx[t]) /\ row'[d] # "none"
      /\ file' = file /\ staged' = staged /\ stranded' = stranded /\ erased' = erased
      /\ \A e \in Uploads : e # d => row'[e] = row[e]
      /\ \A e \in parsed' : e \in parsed \/ (e = d /\ file[d] # "none")
  BY <1>1 DEF Practices!CommitUpload, Practices!At, Practices!disk, KeptInv, Secure, HasRow
<1>3. /\ tx[t].kind = "upload"
      /\ \A u \in PracticeRequests : tx'[u] = IF u = t THEN Practices!Idle ELSE tx[u]
  BY DEF PracticesInv, PracticesTyped, Practices!CommitUpload, Practices!At, Practices!End
<1>4. \A u \in PracticeRequests : u # t /\ HasRow(tx[u]) => d \notin tx[u].docs
  BY <1>1, <1>2, OthersAreElsewhere
<1>5. \A u \in PracticeRequests : Secure(u, tx[u])'
  <2> TAKE u \in PracticeRequests
  <2>1. CASE u = t
    BY <1>3, <2>1, PracticeIdle DEF Secure, HasRow
  <2>2. CASE u # t
    <3>1. tx'[u] = tx[u] /\ Secure(u, tx[u]) /\ tx[u] \in PracticeTx
      BY <1>3, <2>2 DEF KeptInv, PracticesInv, Seals
    <3>2. HasRow(tx[u]) => \A e \in tx[u].docs : e \in Uploads /\ e # d
      BY <1>4, <2>2, <3>1 DEF PracticeTx
    <3> QED BY <1>2, <3>1, <3>2 DEF Secure, HasRow, PracticesInv, PracticesTyped, PracticeTx
  <2> QED BY <2>1, <2>2
<1>6. (\A u, v \in PracticeRequests :
         HasRow(tx[u]) /\ HasRow(tx[v]) /\ u # v => tx[u].docs # tx[v].docs)'
  BY <1>3, PracticeIdle DEF KeptInv, HasRow
<1>7. \A e \in parsed' : row'[e] # "none"
  BY <1>2 DEF KeptInv, PracticesInv, PracticesTyped
<1>8. Practices!OriginalsAreKept'
  BY <1>2, <1>3 DEF KeptInv, Practices!OriginalsAreKept
<1> QED BY <1>5, <1>6, <1>7, <1>8 DEF KeptInv
-----------------------------------------------------------------------------
(* The deletion.                                                           *)

LEMMA OnlyDeletion ==
  ASSUME KeptInv, OneDeleter, NEW t \in PracticeRequests, tx[t].kind = "delete",
         NEW u \in PracticeRequests, tx[u].kind = "delete"
  PROVE  u = t
BY DEF KeptInv, Secure, OneDeleter

LEMMA MovingKeepsOriginals ==
  ASSUME PracticesInv, PracticesInv', KeptInv, OneDeleter, NEW t \in PracticeRequests,
         Practices!MoveFile(t)
  PROVE  KeptInv'
<1>1. PICK d \in tx[t].docs :
        /\ file[d] # "none"
        /\ staged' = [staged EXCEPT ![d] = file[d]] /\ file' = [file EXCEPT ![d] = "none"]
        /\ stranded' = stranded \ {d} /\ erased' = erased \ {d}
        /\ tx' = [tx EXCEPT ![t].moved = @ \cup {d}]
  BY DEF Practices!MoveFile
<1>2. /\ tx[t].kind = "delete" /\ tx[t].pc = "move" /\ d \in Uploads /\ row[d] # "none"
      /\ row' = row /\ parsed' = parsed
      /\ stranded' = stranded \ {d} /\ erased' = erased \ {d}
  BY <1>1 DEF Practices!MoveFile, Practices!At, Practices!rows, KeptInv, Secure, PracticesInv, Seals,
         PracticeTx
<1> DEFINE x == [tx[t] EXCEPT !.moved = @ \cup {d}]
<1>3. /\ x.kind = "delete" /\ x.pc = "move" /\ x.docs = tx[t].docs
      /\ x.moved = tx[t].moved \cup {d}
  BY <1>2 DEF PracticesInv, Seals, PracticeTx
<1>4. \A u \in PracticeRequests : tx'[u] = IF u = t THEN x ELSE tx[u]
  BY <1>1 DEF PracticesInv, PracticesTyped
<1> HIDE DEF x
<1>5. \A u \in PracticeRequests : Secure(u, tx[u])'
  <2> TAKE u \in PracticeRequests
  <2>1. CASE u = t
    BY <1>2, <1>3, <1>4, <2>1 DEF KeptInv, Secure, HasRow
  <2>2. CASE u # t
    <3>1. tx'[u] = tx[u] /\ Secure(u, tx[u]) /\ tx[u] \in PracticeTx /\ tx[u].kind # "delete"
      BY <1>2, <1>4, <2>2, OnlyDeletion DEF KeptInv, PracticesInv, Seals
    <3>2. HasRow(tx[u]) => \A e \in tx[u].docs : e \in Uploads /\ e # d
      BY <1>2, <3>1 DEF PracticeTx, Secure
    <3>3. \A e \in Uploads : e # d => file'[e] = file[e]
      BY <1>1 DEF PracticesInv, PracticesTyped
    <3> QED BY <1>2, <3>1, <3>2, <3>3 DEF Secure, HasRow
  <2> QED BY <2>1, <2>2
<1>6. (\A u, v \in PracticeRequests :
         HasRow(tx[u]) /\ HasRow(tx[v]) /\ u # v => tx[u].docs # tx[v].docs)'
  BY <1>3, <1>4 DEF KeptInv, HasRow
<1>7. Practices!OriginalsAreKept'
  <2> SUFFICES ASSUME NEW e \in parsed
               PROVE  \/ file'[e] # "none"
                      \/ /\ staged'[e] # "none"
                         /\ \/ e \in stranded'
                            \/ \E u \in PracticeRequests :
                                 tx'[u].kind = "delete" /\ e \in tx'[u].moved
                      \/ e \in erased'
    BY <1>2 DEF Practices!OriginalsAreKept
  <2>1. CASE e = d
    BY <1>1, <1>2, <1>3, <1>4, <2>1 DEF PracticesInv, PracticesTyped
  <2>2. CASE e # d
    <3>1. file'[e] = file[e] /\ staged'[e] = staged[e]
      BY <1>1, <2>2 DEF PracticesInv, PracticesTyped
    <3>2. \A u \in PracticeRequests : tx[u].kind = "delete" /\ e \in tx[u].moved =>
                                     tx'[u].kind = "delete" /\ e \in tx'[u].moved
      BY <1>3, <1>4
    <3> QED BY <1>2, <2>2, <3>1, <3>2 DEF KeptInv, Practices!OriginalsAreKept
  <2> QED BY <2>1, <2>2
<1> QED BY <1>2, <1>5, <1>6, <1>7 DEF KeptInv

LEMMA DeletionKeepsOriginals ==
  ASSUME PracticesInv, PracticesInv', KeptInv, OneDeleter, NEW t \in PracticeRequests,
         Practices!CommitDeletion(t)
  PROVE  KeptInv'
<1>1. /\ tx[t].kind = "delete" /\ tx[t].moved \subseteq tx[t].docs
      /\ file' = file /\ staged' = staged
      /\ stranded' = stranded \ tx[t].docs /\ erased' = erased \ tx[t].docs
      /\ parsed' = parsed \ tx[t].docs
      /\ \A d \in Uploads : row'[d] = "none" <=> (d \in tx[t].docs \/ row[d] = "none")
  BY DEF Practices!CommitDeletion, Practices!At, Practices!disk, PracticesInv, PracticesTyped,
         Seals
<1>2. PICK x : /\ tx' = [tx EXCEPT ![t] = x]
               /\ x = [kind |-> tx[t].kind, pc |-> "unlink", docs |-> tx[t].docs,
                       moved |-> tx[t].moved, saw |-> tx[t].saw, sets |-> tx[t].sets]
  BY PracticeGoes DEF Practices!CommitDeletion, Practices!Goto
<1>3. x.kind = "delete" /\ x.pc = "unlink" /\ x.docs = tx[t].docs /\ x.moved = tx[t].moved
  BY <1>1, <1>2
<1>4. \A u \in PracticeRequests : tx'[u] = IF u = t THEN x ELSE tx[u]
  BY <1>2 DEF PracticesInv, PracticesTyped
<1>5. \A u \in PracticeRequests : Secure(u, tx[u])'
  <2> TAKE u \in PracticeRequests
  <2>1. CASE u = t
    BY <1>1, <1>3, <1>4, <2>1 DEF KeptInv, Secure, HasRow
  <2>2. CASE u # t
    <3>1. tx'[u] = tx[u] /\ Secure(u, tx[u]) /\ tx[u] \in PracticeTx /\ tx[u].kind # "delete"
      BY <1>1, <1>4, <2>2, OnlyDeletion DEF KeptInv, PracticesInv, Seals
    <3>2. \A e \in tx[u].docs : e \in Uploads
      BY <3>1 DEF PracticeTx
    <3> QED BY <1>1, <3>1, <3>2 DEF Secure, HasRow
  <2> QED BY <2>1, <2>2
<1>6. (\A u, v \in PracticeRequests :
         HasRow(tx[u]) /\ HasRow(tx[v]) /\ u # v => tx[u].docs # tx[v].docs)'
  BY <1>3, <1>4 DEF KeptInv, HasRow
<1>7. \A d \in parsed' : row'[d] # "none"
  BY <1>1 DEF KeptInv, PracticesInv, PracticesTyped
<1>8. Practices!OriginalsAreKept'
  <2> SUFFICES ASSUME NEW e \in parsed, e \notin tx[t].docs, file[e] = "none",
                      e \notin erased
               PROVE  staged[e] # "none" /\ e \in stranded
    BY <1>1 DEF Practices!OriginalsAreKept
  <2>1. \A u \in PracticeRequests : tx[u].kind = "delete" => e \notin tx[u].moved
    BY <1>1, OnlyDeletion
  <2> QED BY <2>1 DEF KeptInv, Practices!OriginalsAreKept
<1> QED BY <1>5, <1>6, <1>7, <1>8 DEF KeptInv

(* The files that it has moved go back, or their documents are gone.        *)
LEMMA DeletionEndsKeepingOriginals ==
  ASSUME PracticesInv, PracticesInv', KeptInv, OneDeleter, NEW t \in PracticeRequests,
         Practices!DeletionFails(t) \/ Practices!UnlinkStaged(t)
  PROVE  KeptInv'
<1>1. /\ tx[t].kind = "delete" /\ row' = row /\ parsed' = parsed
      /\ \A d \in Uploads : file[d] # "none" => file'[d] # "none"
  BY DEF Practices!DeletionFails, Practices!UnlinkStaged, Practices!At, Practices!rows,
         Practices!PutBack, PracticesInv, PracticesTyped
<1>2. \A u \in PracticeRequests : tx'[u] = IF u = t THEN Practices!Idle ELSE tx[u]
  BY DEF PracticesInv, PracticesTyped, Practices!DeletionFails, Practices!UnlinkStaged,
         Practices!End
<1>3. \A u \in PracticeRequests : Secure(u, tx[u])'
  <2> TAKE u \in PracticeRequests
  <2>1. CASE u = t
    BY <1>2, <2>1, PracticeIdle DEF Secure, HasRow
  <2>2. CASE u # t
    <3>1. tx'[u] = tx[u] /\ Secure(u, tx[u]) /\ tx[u] \in PracticeTx /\ tx[u].kind # "delete"
      BY <1>1, <1>2, <2>2, OnlyDeletion DEF KeptInv, PracticesInv, Seals
    <3>2. \A e \in tx[u].docs : e \in Uploads
      BY <3>1 DEF PracticeTx
    <3> QED BY <1>1, <3>1, <3>2 DEF Secure, HasRow
  <2> QED BY <2>1, <2>2
<1>4. (\A u, v \in PracticeRequests :
         HasRow(tx[u]) /\ HasRow(tx[v]) /\ u # v => tx[u].docs # tx[v].docs)'
  BY <1>2, PracticeIdle DEF KeptInv, HasRow
<1>5. Practices!OriginalsAreKept'
  <2> SUFFICES ASSUME NEW e \in parsed, file'[e] = "none", e \notin erased'
               PROVE  staged'[e] # "none" /\ e \in stranded'
    BY <1>1 DEF Practices!OriginalsAreKept
  <2>1. e \in Uploads /\ file[e] = "none" /\ e \notin erased
    BY <1>1 DEF PracticesInv, PracticesTyped, Practices!DeletionFails, Practices!UnlinkStaged
  <2>2. staged[e] # "none" /\ (e \in stranded \/ e \in tx[t].moved)
    BY <1>1, <2>1, OnlyDeletion DEF KeptInv, Practices!OriginalsAreKept
  <2>3. CASE Practices!DeletionFails(t)
    BY <2>1, <2>2, <2>3 DEF Practices!DeletionFails, Practices!PutBack
  <2>4. CASE Practices!UnlinkStaged(t)
    <3>1. tx[t].pc = "unlink" /\ file' = file /\ stranded' = stranded
      BY <2>4 DEF Practices!UnlinkStaged, Practices!At
    <3>2. e \notin tx[t].moved
      BY <1>1, <2>1, <3>1 DEF KeptInv, Secure
    <3> QED BY <2>1, <2>2, <2>4, <3>1, <3>2 DEF Practices!UnlinkStaged
  <2> QED BY <2>3, <2>4
<1> QED BY <1>1, <1>3, <1>4, <1>5 DEF KeptInv
-----------------------------------------------------------------------------
LEMMA OriginalsStart ==
  ASSUME Practices!Init PROVE KeptInv
BY PracticeIdle DEF Practices!Init, KeptInv, Secure, HasRow, Practices!OriginalsAreKept

(* No step of a request, a deletion or the world loses an original.         *)
LEMMA OriginalsHold ==
  ASSUME PracticesInv, PracticesInv', KeptInv, OneDeleter, [Practices!Next]_Practices!vars
  PROVE  KeptInv'
BY WorldKeepsOriginals, BeginningKeepsOriginals, GoingOnKeepsOriginals, RaisingKeepsOriginals,
   UploadKeepsOriginals, MovingKeepsOriginals, DeletionKeepsOriginals,
   DeletionEndsKeepingOriginals
   DEF Practices!Next

(* A failed upload unlinks its file (ingestion.py:336), a deletion of the   *)
(* practice moves files before its commit and puts them back if it fails    *)
(* (rc15.py:1165): neither, nor a crash, alone loses the original of a      *)
(* document that has been read.  One is lost only if a deletion dies after  *)
(* it has moved the file and a later one fails, which removes the staging   *)
(* directory (rc15.py:1191).  Two deletions that overlap could lose more.   *)
THEOREM OriginalsStay == ASSUME OneDeleter PROVE Spec => []OriginalsAreKept
<1> DEFINE I == scope = "practices" => PracticesInv /\ KeptInv
<1>1. Init => I
  BY PracticesStart, OriginalsStart DEF Init
<1>2. I /\ [Next]_vars => I'
  BY PracticesScope, PracticesHold, OriginalsHold
<1>3. I => OriginalsAreKept
  BY DEF OriginalsAreKept, KeptInv
<1> HIDE DEF I
<1> QED BY <1>1, <1>2, <1>3, PTL DEF Spec
=============================================================================
