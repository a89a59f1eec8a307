-------------------------------- MODULE MCPDB --------------------------------
(***************************************************************************)
(* Instances of PDBController for TLC.                                     *)
(***************************************************************************)
EXTENDS PDBController, TLC

DeployA == [kind |-> "deploy", name |-> "a"]
StsA    == [kind |-> "sts", name |-> "a"]

appA == <<"app", "a">>
appB == <<"app", "b">>
v1   == <<"version", "1">>
v2   == <<"version", "2">>

NoAnn == [min |-> Nil, max |-> Nil, policy |-> Nil]

Obj(rep, bypass, ann, tmpl) ==
  [rep |-> rep, ready |-> TRUE, bypass |-> bypass, ann |-> ann, tmpl |-> tmpl]

NotReady(o) == [o EXCEPT !.ready = FALSE]

CM(min, max, fixPoor, keys) ==
  [min |-> min, max |-> max, policy |-> Nil, fixPoor |-> fixPoor,
   extraKeys |-> keys, exclusions |-> {}]

NoPDBs == {[p \in PDBName |-> Nil]}


\* One Deployment: scaled, bypassed, not ready, deleted.
OneLabel     == {appA}
OneWorkload  == {DeployA}
OneSel       == [w \in {DeployA} |-> {appA}]
Two          == Obj(2, FALSE, NoAnn, {appA})
OneVersions  ==
  [w \in {DeployA} |->
     {Two, Obj(1, FALSE, NoAnn, {appA}), Obj(2, TRUE, NoAnn, {appA}),
      NotReady(Two)}]
OneInit      == {[w \in {DeployA} |-> Two]}
AnyInit      == [{DeployA} -> OneVersions[DeployA] \cup {Nil}]
Junk         == [type |-> "junk", v |-> 0]
MinOne       == CM(IntVal(1), Nil, FALSE, {})
MaxHalf      == CM(Nil, Pct(50), FALSE, {})
OneConfigs   == {MinOne, MaxHalf}
FixMinOne    == CM(IntVal(1), Nil, TRUE, {})
SomeConfigs  == {Nil, CM(Nil, Pct(50), TRUE, {}), CM(Nil, Junk, TRUE, {})}
NoConfigs    == {}
\* What an earlier release of the controller may have left.
PDBOf(sel, min, max) == [sel |-> sel, min |-> min, max |-> max, policy |-> Nil]
LeftPDBs     == [PDBName -> {Nil, PDBOf({appA}, Nil, Pct(30))}]

\* A Deployment and a StatefulSet that share a name, and so a PDB; a label
\* that can be added to the selector and changes with the template; both
\* annotations at once; an excluded workload; defaults of which one does not
\* parse and the other is refused by the API server.
TwoLabels    == {appA, appB, v1, v2}
TwoWorkloads == {DeployA, StsA}
TwoSel       == DeployA :> {appA} @@ StsA :> {appB}
BothAnn      == [min |-> IntVal(1), max |-> Pct(50), policy |-> "AlwaysAllow"]
TwoVersions  ==
  DeployA :> {Obj(2, FALSE, NoAnn, {appA, v1}), Obj(2, FALSE, BothAnn, {appA, v2})}
    @@ StsA :> {Obj(2, FALSE, NoAnn, {appB})}
TwoInit      == {DeployA :> Obj(2, FALSE, NoAnn, {appA, v1}) @@ StsA :> Nil}
\* 258 is 2 in eight bits, and so poor for two replicas.
AddVersion   == CM(IntVal(258), Nil, TRUE, {"version"})
NoFilter     == [type |-> "empty", matches |-> {}]
Only(w)      == [type |-> "regex", matches |-> {w}]
Bad          == [type |-> "bad", matches |-> {}]
Exclude(namespace, name, labels) ==
  [namespaceRegex |-> namespace, nameRegex |-> name, labels |-> labels]
ExcludeSts   ==
  [MinOne EXCEPT !.exclusions = {Exclude(NoFilter, NoFilter, Only(StsA)),
                                 Exclude(NoFilter, Bad, NoFilter)},
                 !.min = [type |-> "bad", v |-> 0], !.max = Pct(150),
                 !.policy = "bad"]
KeyConfigs   == {AddVersion, ExcludeSts}
\* A user writes castai-a-pdb without a selector.
BareWrites   == {<<CastaiPDB("a"), [sel |-> Nil, min |-> IntVal(1), max |-> Nil,
                                    policy |-> Nil]>>}

\* Poor budgets, and PDBs that other people own.
HelmA        == <<"helm", "a">>
UserA        == <<"user", "a">>
Foreigners   == {HelmA, UserA}
HelmFair     == PDBOf({appA}, IntVal(1), Nil)
UserPoor     == PDBOf({appA}, Pct(100), Nil)
UserFair     == PDBOf({appA}, Nil, IntVal(1))
ForeignWrites == {<<HelmA, HelmFair>>, <<HelmA, Nil>>, <<UserA, UserPoor>>,
                  <<UserA, UserFair>>}
AnyPDBs      ==
  {v \in [PDBName -> {Nil, HelmFair, UserPoor}] :
     v[HelmA] # UserPoor /\ v[UserA] # HelmFair /\ v[CastaiPDB("a")] # UserPoor}
MinTwoAnn    == [min |-> IntVal(2), max |-> Nil, policy |-> Nil]
Annotated    ==
  [w \in {DeployA} |-> {Two, Obj(3, FALSE, MinTwoAnn, {appA})}]
=============================================================================
