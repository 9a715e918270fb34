------------------------------ MODULE MCEngine ------------------------------
(***************************************************************************)
(* The engine for TLC: the documents of the chains.                        *)
(***************************************************************************)
EXTENDS Engine, TLC

AlikeKeys == {{"a", "long|a"}}
KeyBars   == ("" :> 0) @@ [a |-> 0, b |-> 0] @@ ("long|a" :> 1)
KeyLength == ("" :> 0) @@ [a |-> 1, b |-> 1] @@ ("long|a" :> 6)
FeeKeys   == {"b"}
UnitTable ==
  [none |-> [dimension |-> "", factor |-> 1], each |-> [dimension |-> "count", factor |-> 1],
   pair |-> [dimension |-> "count", factor |-> 2], kg |-> [dimension |-> "mass", factor |-> 1]]
DueDays   == [order |-> 14, delivery |-> 30, invoice |-> 45, payment |-> 30, credit_note |-> 21]

Item(key, qty, unit, price, discount, total) ==
  [key |-> key, qty |-> qty, unit |-> unit, price |-> price, discount |-> discount, tax |-> 22,
   total |-> total, missing |-> {}, direct |-> TRUE]
Moved(key, qty, unit) == [Item(key, qty, unit, 0, 0, 0) EXCEPT !.missing = {"price", "total"}]
Money(total) == Item("", 1, "none", total, 0, total)
Doc(role, number, lines) ==
  [role |-> role, parsed |-> TRUE, archived |-> FALSE, currency |-> "EUR", number |-> number,
   reference |-> "", lines |-> lines, direct |-> TRUE, read |-> 0,
   age |-> 10, confidence |-> 95, nature |-> "", stated |-> 0]

(* What a chain may come to: units, similar and fee lines, discounts,       *)
(* prices and totals that disagree, an old order, a doubtful reading...     *)
DealingDocuments ==
  {Doc("order", 1, <<Item("a", 2, "each", 100, 0, 200)>>),
   [Doc("order", 2, <<Item("a", 2, "each", 100, 50, 100), Item("b", 1, "each", 100, 0, 100)>>)
      EXCEPT !.age = 50],
   Doc("confirmation", 1, <<Item("a", 2, "each", 80, 0, 160)>>),
   Doc("delivery", 1, <<Moved("a", 1, "pair")>>),
   Doc("delivery", 2, <<Moved("a", 1, "each")>>),
   [Doc("delivery", 3, <<Moved("long|a", 3, "kg")>>) EXCEPT !.confidence = 80],
   Doc("invoice", 1, <<Item("a", 2, "each", 100, 0, 200)>>),
   [Doc("invoice", 2, <<Item("long|a", 1, "pair", 201, 0, 201)>>) EXCEPT !.nature = "service"],
   Doc("invoice", 3, <<Item("a", 2, "each", 100, 0, 290)>>),
   Doc("payment", 1, <<Money(200)>>),
   [Doc("payment", 2, <<Money(203)>>) EXCEPT !.reference = "1"],
   [Doc("payment", 3, <<[Money(300) EXCEPT !.missing = {"total"}]>>) EXCEPT !.stated = 300],
   Doc("return", 1, <<Item("a", -1, "each", 100, 0, -100)>>),
   Doc("credit_note", 1, <<Item("a", 1, "each", 100, 0, 100)>>)}

(* What raises the findings that evidence is recorded for.                  *)
DisputeDocuments ==
  {Doc("order", 1, <<Item("a", 2, "each", 100, 0, 200)>>),
   Doc("confirmation", 1, <<Item("a", 2, "each", 80, 0, 160)>>),
   Doc("delivery", 1, <<Moved("a", 1, "pair")>>),
   Doc("delivery", 2, <<Moved("long|a", 3, "each")>>),
   Doc("invoice", 1, <<Item("a", 3, "each", 100, 0, 300)>>),
   [Doc("invoice", 1, <<Item("long|a", 2, "pair", 240, 0, 480)>>) EXCEPT !.currency = "USD"],
   Doc("payment", 1, <<Money(400)>>),
   Doc("return", 1, <<Item("a", 1, "each", 100, 0, 100)>>)}
NoCourse == <<>>
-----------------------------------------------------------------------------
(* What the engine learns, alone.                                           *)
LearningSpec == DiscoveryInit /\ [][DiscoveryNext]_vars

Symmetry == Permutations(Requests) \cup Permutations(Datasets)
=============================================================================
