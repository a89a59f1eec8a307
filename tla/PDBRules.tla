------------------------------ MODULE PDBRules ------------------------------
(***************************************************************************)
(* The decisions the PDB controller takes without calling the API server:  *)
(* what a ConfigMap or an annotation means, which pods a selector selects, *)
(* which budget a workload gets, and which budget is "poor".               *)
(*                                                                         *)
(* Data.  A label is a pair <<key, value>>; a pod template is a set of     *)
(* labels; a selector is a set of labels (matchExpressions are left out)   *)
(* or Nil.  A raw annotation or ConfigMap value is Nil (key absent) or a   *)
(* record [type, v]: an integer text ("int"), a percentage ("pct"), any    *)
(* other text that ends in a percent sign ("junk", such as "-5%" or "x%"), *)
(* or a text that is none of these ("bad").                                *)
(***************************************************************************)
EXTENDS Integers, FiniteSets

CONSTANTS
  Nil,                        \* a Go nil pointer, an absent key or object
  IntBits                     \* width of int32

\* What the proofs need of the width; the program's is 32.
ASSUME PDBIntBits ==
  /\ 2^IntBits \in Nat /\ 2^(IntBits - 1) \in Nat
  /\ 2^IntBits = 2 * 2^(IntBits - 1)
  /\ 2^(IntBits - 1) > 1

Int32     == -(2^(IntBits - 1)) .. (2^(IntBits - 1) - 1)
Texts     == [type : {"pct", "junk"}, v : Nat]
Raw       == [type : {"int"}, v : Int] \cup Texts \cup [type : {"bad"}, v : Nat]
Quantity  == [type : {"int"}, v : Int32] \cup Texts
Policy    == {"IfHealthyBudget", "AlwaysAllow"}
RawPolicy == Policy \cup {"bad"}

IntVal(i) == [type |-> "int", v |-> i]
Pct(i)    == [type |-> "pct", v |-> i]

(***************************************************************************)
(* Parsing.                                                                *)
(***************************************************************************)
\* Go's conversion of an int to int32 keeps the low bits.
ToInt32(n) ==
  LET m == n % 2^IntBits
  IN  IF m < 2^(IntBits - 1) THEN m ELSE m - 2^IntBits

\* Mutated form of parsePDBValue: what does not parse is passed on.
parsePDBValueUnchecked(raw) == raw

\* Whatever ends in a percent sign is taken as it stands and an integer, of
\* any sign, is cut to 32 bits.  Only what is neither counts as absent.
parsePDBValue(raw) ==
  IF raw = Nil \/ raw.type = "bad" THEN Nil
  ELSE IF raw.type = "int" THEN IntVal(ToInt32(raw.v))
  ELSE raw

\* An unknown policy is ignored with a warning.
parseUnhealthyPodEvictionPolicy(raw) == IF raw \in Policy THEN raw ELSE Nil

(***************************************************************************)
(* Exclusion rules.  A rule has three patterns.  A pattern is empty (no    *)
(* filter), does not compile ("bad"), or stands for the workloads that it  *)
(* matches; a rule's label patterns are one pattern, of the workloads that *)
(* carry every key with a matching value.                                  *)
(***************************************************************************)
Patterns(r)  == {r.namespaceRegex, r.nameRegex, r.labels}
ValidRule(r) == \A pat \in Patterns(r) : pat.type # "bad"

\* Some rule of which every pattern that is not empty matches.  A rule with
\* three empty patterns excludes everything.
isWorkloadExcluded(w, cfg) ==
  \E r \in cfg.exclusions :
    \A pat \in Patterns(r) :
      pat.type = "empty" \/ (pat.type = "regex" /\ w \in pat.matches)

\* defaultPDBConfig after resetDefaultPDBConfig.
ResetConfig ==
  [min |-> Nil, max |-> Nil, policy |-> Nil, fixPoor |-> FALSE,
   extraKeys |-> {}, exclusions |-> {}]

\* defaultPDBConfig after updateDefaultPDBConfig.  Two defaults at once are
\* both dropped.  An exclusion rule with a pattern that does not compile is
\* skipped; the others are kept.
ParseConfig(cm) ==
  LET min  == parsePDBValue(cm.min)
      max  == parsePDBValue(cm.max)
      both == min # Nil /\ max # Nil
  IN  [min        |-> IF both THEN Nil ELSE min,
       max        |-> IF both THEN Nil ELSE max,
       policy     |-> parseUnhealthyPodEvictionPolicy(cm.policy),
       fixPoor    |-> cm.fixPoor,
       extraKeys  |-> cm.extraKeys,
       exclusions |-> {r \in cm.exclusions : ValidRule(r)}]

(***************************************************************************)
(* Selectors.                                                              *)
(***************************************************************************)
\* Mutated form of enrichSelector: the workload's own labels are lost.
enrichSelectorAnew(sel, tmpl, keys) ==
  IF sel = Nil THEN Nil ELSE {l \in tmpl : l[1] \in keys}

\* The configured label keys are added when the template has them; a key the
\* selector already constrains is never overwritten.
enrichSelector(sel, tmpl, keys) ==
  IF sel = Nil
  THEN Nil
  ELSE sel \cup {l \in tmpl : l[1] \in keys /\ \A m \in sel : m[1] # l[1]}

\* A PDB covers a workload when its selector matches the pod template; a PDB
\* without a selector covers nothing.
pdbCovers(pdb, tmpl) ==
  /\ pdb # Nil
  /\ pdb.sel # Nil
  /\ pdb.sel \subseteq tmpl

(***************************************************************************)
(* Budgets.  A budget is [min, max, policy].                               *)
(***************************************************************************)
\* Annotations win over the ConfigMap's defaults as a pair: one annotation
\* that parses hides both defaults.
RequestedValues(ann, cfg) ==
  LET min == parsePDBValue(ann.min)
      max == parsePDBValue(ann.max)
  IN  IF min = Nil /\ max = Nil
      THEN [min |-> cfg.min, max |-> cfg.max]
      ELSE [min |-> min, max |-> max]

resolveUnhealthyPodEvictionPolicy(ann, cfg) ==
  LET own == parseUnhealthyPodEvictionPolicy(ann.policy)
  IN  IF own # Nil THEN own ELSE cfg.policy

\* createPDBForWorkload: two values are refused (Nil), none falls back to
\* minAvailable = 1.
CreateBudget(ann, cfg) ==
  LET r == RequestedValues(ann, cfg)
  IN  IF r.min # Nil /\ r.max # Nil
      THEN Nil
      ELSE [min    |-> IF r.min = Nil /\ r.max = Nil THEN IntVal(1) ELSE r.min,
            max    |-> r.max,
            policy |-> resolveUnhealthyPodEvictionPolicy(ann, cfg)]

\* updateExistingPDB: of two values minAvailable is kept; there is no fallback.
UpdateBudget(ann, cfg) ==
  LET r == RequestedValues(ann, cfg)
  IN  [min    |-> r.min,
       max    |-> IF r.min # Nil THEN Nil ELSE r.max,
       policy |-> resolveUnhealthyPodEvictionPolicy(ann, cfg)]

\* Mutated form of pdbSpecNeedsUpdate: maxUnavailable is forgotten.
pdbSpecNeedsUpdateMin(pdb, b) == pdb.min # b.min \/ pdb.policy # b.policy

\* pdbSpecNeedsUpdate: the selector is not compared.
pdbSpecNeedsUpdate(pdb, b) ==
  \/ pdb.min # b.min
  \/ pdb.max # b.max
  \/ pdb.policy # b.policy

\* What the API server accepts: nothing negative, no percentage above 100, no
\* text that is not a percentage, and not both fields.
ValidQuantity(q) ==
  \/ q = Nil
  \/ q.type = "int" /\ q.v >= 0
  \/ q.type = "pct" /\ q.v <= 100
ValidBudget(b) ==
  /\ ValidQuantity(b.min) /\ ValidQuantity(b.max)
  /\ b.min = Nil \/ b.max = Nil

\* The object sent to the API server.
MakePDB(sel, b) ==
  [sel |-> sel, min |-> b.min, max |-> b.max, policy |-> b.policy]

\* Mutated form of isPoorPDBConfig: one below the replica count is poor too.
isPoorPDBConfigOffByOne(pdb, replicas) ==
  \/ pdb.min \in {IntVal(replicas - 1), IntVal(replicas), Pct(100)}
  \/ pdb.max \in {IntVal(0), Pct(0)}

\* A budget that leaves no room for a voluntary disruption.
isPoorPDBConfig(pdb, replicas) ==
  \/ pdb.min \in {IntVal(replicas), Pct(100)}
  \/ pdb.max \in {IntVal(0), Pct(0)}

(***************************************************************************)
(* Workloads.  An object is [rep, ready, bypass, ann, tmpl].               *)
(***************************************************************************)
UnderReplicated(o) == o.rep < 2

\* ReadyReplicas and AvailableReplicas are abstracted to one flag: both have
\* reached spec.replicas.
workloadReadyForNewPDB(o) == o.rep >= 2 /\ o.ready

\* Present is enough: a value that does not parse counts as custom.
hasCustomPDBAnnotations(ann) ==
  ann.min # Nil \/ ann.max # Nil \/ ann.policy # Nil
=============================================================================
