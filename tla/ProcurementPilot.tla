-------------------------- MODULE ProcurementPilot --------------------------
(***************************************************************************)
(* The workspace of a blind pilot: files that the commands of the protocol *)
(* write and verify, and that people edit between the commands.            *)
(*                                                                         *)
(* A file is {} or the singleton of its content; a hash stands for the     *)
(* content it was taken of.  What people and commands write is told apart  *)
(* by its time, so no edit is undone; nobody edits a file while a command  *)
(* runs (bounds).                                                          *)
(***************************************************************************)
EXTENDS Naturals, FiniteSets

CONSTANTS
  Blind,      \* cases of the blind set
  Packs,      \* rule packs that may be in place, or that the matrix in place may be of
  Qualified,  \* case types whose provenance is complete in this release
  MaxClock    \* (a bound)

VARIABLES
  now,
  register,   \* case-register.csv
  filed,      \* whether every planned case has a document
  inventory,  \* private/document-inventory.json
  artefacts,  \* what is in place now: a pack, and the pack that the matrix was made of
  command,    \* the file that a freeze writes next
  locations,  \* private/frozen-artifact-locations.json
  manifest,
  seal,       \* pilot-manifest.seal.json: the manifest it was taken of
  truth,      \* per case: 0 without files, 1 templates, else when its files were completed
  truthSeal,
  results,    \* results/blind-results.csv; history: after which seal each was recorded
  evaluated   \* whether a report was written

vars == <<now, register, filed, inventory, artefacts, command, locations, manifest, seal,
          truth, truthSeal, results, evaluated>>

Init ==
  /\ now = 0 /\ artefacts \in Packs \X Packs /\ command = "none"
  /\ register = {} /\ filed = FALSE /\ inventory = {}
  /\ locations = {} /\ manifest = {} /\ seal = {}
  /\ truth = [c \in Blind |-> 0] /\ truthSeal = {}
  /\ results = {} /\ evaluated = FALSE

Tick == now < MaxClock /\ now' = now + 1
-----------------------------------------------------------------------------
(* prepare_workspace: the register, where nothing is authorized yet, and an *)
(* empty table of results.                                                  *)
Prepare ==
  /\ command = "none"
  /\ register' = {[at |-> 0, valid |-> FALSE]} /\ results' = {}
  /\ UNCHANGED <<now, filed, inventory, artefacts, command, locations, manifest, seal,
                 truth, truthSeal, evaluated>>

(* People fill the register in, file documents, replace the artefacts.      *)
EditRegister ==
  /\ command = "none" /\ register # {} /\ Tick
  /\ \E valid \in BOOLEAN : register' = {[at |-> now', valid |-> valid]}
  /\ UNCHANGED <<filed, inventory, artefacts, command, locations, manifest, seal,
                 truth, truthSeal, results, evaluated>>

FileDocuments ==
  /\ command = "none" /\ register # {} /\ filed' = TRUE
  /\ UNCHANGED <<now, register, inventory, artefacts, command, locations, manifest, seal,
                 truth, truthSeal, results, evaluated>>

Replace ==
  /\ command = "none" /\ artefacts' \in Packs \X Packs
  /\ UNCHANGED <<now, register, filed, inventory, command, locations, manifest, seal,
                 truth, truthSeal, results, evaluated>>

TakeInventory ==
  /\ command = "none" /\ register # {} /\ Tick
  /\ inventory' = {[at |-> now', complete |-> filed]}
  /\ UNCHANGED <<register, filed, artefacts, command, locations, manifest, seal,
                 truth, truthSeal, results, evaluated>>
-----------------------------------------------------------------------------
(* freeze_workspace                                                        *)

Types(p)         == UNION {p.families[f] : f \in DOMAIN p.families}
EmptyFamilies(p) == {f \in DOMAIN p.families : p.families[f] = {}}
Target(p)        == <<p.approved, p.included, p.excluded, p.excludedFamilies>>

(* procurement_provenance_matrix, of the rules of a pack; in version 1      *)
(* nothing is left out.                                                     *)
Matrix(p) ==
  LET blockers    == (IF p.schema = 1 THEN Types(p) ELSE p.included) \ Qualified
      unsupported == EmptyFamilies(p) \ (IF p.schema = 1 THEN {} ELSE p.excludedFamilies)
  IN [schema |-> p.schema, families |-> p.families, target |-> Target(p),
      complete |-> Types(p) \cap Qualified, unsupported |-> unsupported,
      ready |-> /\ p.schema = 1 \/ (p.approved /\ p.included # {})
                /\ blockers = {} /\ unsupported = {}]

(* What a pack leaves out, it leaves out explicitly.                        *)
TargetValid(p) ==
  /\ p.schema = 2
  /\ p.included # {} /\ p.included \cap p.excluded = {}
  /\ p.included \cup p.excluded = Types(p)
  /\ p.excludedFamilies = EmptyFamilies(p)

(* The readiness that follows from a matrix must be the one it declares.    *)
V1Valid(p, m) ==
  m.families = p.families /\ Types(p) \subseteq m.complete /\ m.unsupported = {} /\ m.ready

V2Valid(p, m) ==
  /\ m.target = Target(p) /\ m.families = p.families
  /\ p.approved /\ p.included \subseteq m.complete /\ m.unsupported = {} /\ m.ready

(* A pack that is edited may keep its version, which is compared too.       *)
MatrixValid(p, m) ==
  \/ m.schema = 1 /\ V1Valid(p, m)
  \/ m.schema = 2 /\ TargetValid(p) /\ V2Valid(p, m)

(* What is read and validated before anything is written.                   *)
Freeze ==
  /\ command = "none"
  /\ \E r \in register : r.valid
  /\ \E i \in inventory : i.complete
  /\ MatrixValid(artefacts[1], Matrix(artefacts[2]))
  /\ command' = "locations"
  /\ UNCHANGED <<now, register, filed, inventory, artefacts, locations, manifest, seal,
                 truth, truthSeal, results, evaluated>>

WriteLocations ==
  /\ command = "locations" /\ command' = "manifest"
  /\ locations' = {artefacts}
  /\ UNCHANGED <<now, register, filed, inventory, artefacts, manifest, seal,
                 truth, truthSeal, results, evaluated>>

WriteManifest ==
  /\ command = "manifest" /\ command' = "seal" /\ Tick
  /\ manifest' = {[at |-> now', register |-> register, inventory |-> inventory,
                   artefacts |-> artefacts]}
  /\ UNCHANGED <<register, filed, inventory, artefacts, locations, seal,
                 truth, truthSeal, results, evaluated>>

WriteSeal ==
  /\ command = "seal" /\ command' = "none"
  /\ seal' = manifest
  /\ UNCHANGED <<now, register, filed, inventory, artefacts, locations, manifest,
                 truth, truthSeal, results, evaluated>>

(* The command ends early; the file it was writing may be unreadable.       *)
Interrupt ==
  /\ command # "none" /\ command' = "none"
  /\ locations' \in {locations, IF command = "locations" THEN {} ELSE locations}
  /\ manifest' \in {manifest, IF command = "manifest" THEN {} ELSE manifest}
  /\ seal' \in {seal, IF command = "seal" THEN {} ELSE seal}
  /\ UNCHANGED <<now, register, filed, inventory, artefacts, truth, truthSeal, results,
                 evaluated>>

Frozen == manifest # {} /\ seal # {}
Intact ==
  /\ Frozen /\ seal = manifest
  /\ locations = {artefacts}
  /\ \A m \in manifest : /\ m.register = register /\ m.inventory = inventory
                         /\ m.artefacts = artefacts
-----------------------------------------------------------------------------
(* The ground truth.                                                       *)

CreateTemplates ==
  /\ command = "none" /\ Intact
  /\ truth' = [c \in Blind |-> IF truth[c] = 0 THEN 1 ELSE truth[c]]
  /\ UNCHANGED <<now, register, filed, inventory, artefacts, command, locations, manifest,
                 seal, truthSeal, results, evaluated>>

(* The reviews of a case and what came of them, at any time.                *)
Complete(c) ==
  /\ command = "none" /\ truth[c] # 0 /\ Tick
  /\ truth' = [truth EXCEPT ![c] = now']
  /\ UNCHANGED <<register, filed, inventory, artefacts, command, locations, manifest, seal,
                 truthSeal, results, evaluated>>

\* mutant: the results that are there already are not looked at
Anytime    == TRUE
Unrecorded == results = {}

(* seal_ground_truth; interrupted, it leaves a seal that cannot be read.    *)
SealTruth ==
  /\ command = "none" /\ Intact /\ Unrecorded
  /\ \A c \in Blind : truth[c] > 1
  /\ Tick
  /\ truthSeal' \in {{}, {[at |-> now', hashes |-> truth]}}
  /\ UNCHANGED <<register, filed, inventory, artefacts, command, locations, manifest, seal,
                 truth, results, evaluated>>
-----------------------------------------------------------------------------
(* The blind run.                                                          *)

(* check_ready                                                              *)
Ready == Intact /\ \E s \in truthSeal : s.hashes = truth

(* People write the results down, at any time.                              *)
RecordResult(c) ==
  /\ command = "none" /\ register # {} /\ Cardinality(results) < Cardinality(Blind)
  /\ results' = results \cup {[case |-> c, after |-> {s.at : s \in truthSeal}]}
  /\ UNCHANGED <<now, register, filed, inventory, artefacts, command, locations, manifest,
                 seal, truth, truthSeal, evaluated>>

ClearResults ==
  /\ command = "none" /\ results # {} /\ results' = {}
  /\ UNCHANGED <<now, register, filed, inventory, artefacts, command, locations, manifest,
                 seal, truth, truthSeal, evaluated>>

(* evaluate: check_ready, and one result of every case.                     *)
Evaluable ==
  /\ Ready
  /\ {entry.case : entry \in results} = Blind /\ Cardinality(results) = Cardinality(Blind)

Evaluate ==
  /\ command = "none" /\ Evaluable
  /\ evaluated' = TRUE
  /\ UNCHANGED <<now, register, filed, inventory, artefacts, command, locations, manifest,
                 seal, truth, truthSeal, results>>

Next ==
  \/ Prepare \/ EditRegister \/ FileDocuments \/ Replace \/ TakeInventory
  \/ Freeze \/ WriteLocations \/ WriteManifest \/ WriteSeal \/ Interrupt
  \/ CreateTemplates \/ SealTruth \/ ClearResults \/ Evaluate
  \/ \E c \in Blind : Complete(c) \/ RecordResult(c)

Spec == Init /\ [][Next]_vars
-----------------------------------------------------------------------------
(* Properties.                                                             *)

(* Results that are evaluated were all recorded after the ground truth they *)
(* are compared with was sealed, as it still is; and what is frozen now is  *)
(* what a freeze has validated: cases are authorized and documented, and a  *)
(* rule that is not proven is left out for a reason.                        *)
EvaluatedIsBlind ==
  command = "none" /\ Evaluable =>
    /\ \A s \in truthSeal : /\ \A entry \in results : entry.after = {s.at}
                            /\ \A c \in Blind : truth[c] < s.at
    /\ \A r \in register : r.valid
    /\ \A i \in inventory : i.complete
    /\ LET pack == artefacts[1]
       IN Types(pack) \subseteq Qualified \cup IF pack.schema = 2 THEN pack.excluded ELSE {}
=============================================================================
