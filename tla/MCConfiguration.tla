--------------------------- MODULE MCConfiguration ---------------------------
(***************************************************************************)
(* One instance for the parts of Configuration: a behaviour is one of the  *)
(* module that `part` names, and the variables of the others stay as they  *)
(* were initially.                                                         *)
(***************************************************************************)
EXTENDS Configuration, TLC

VARIABLE part

\* A remote and a directory.
Kinds == "git" :> "git" @@ "dir" :> "local"
Configured == {<<>>, <<"git", "dir">>}

\* Two providers that name models of each other, lists of models with and without a
\* provider of the same name, and overrides.
ProviderNames == <<"a", "b">>
Unset == [role |-> "unset", format |-> "unset"]
Entry(id, name, window, compat) == [id |-> id, name |-> name, window |-> window, compat |-> compat]
Provider(base, compat, models, overrides) ==
  [base |-> base, compat |-> compat, models |-> models, overrides |-> overrides]
Listed(name, provider, id) ==
  [name |-> name, provider |-> provider, id |-> id, window |-> 1, base |-> "", compat |-> Unset]

Full == Provider("far", [role |-> "unset", format |-> "on"],
                 <<Entry("m1", "", 1, Unset), Entry("m2", "n", 2, [Unset EXCEPT !.format = "off"])>>,
                 "m1" :> Entry("m1", "", 2, Unset))
Small == Provider("", Unset, <<Entry("m2", "", 1, Unset)>>, <<>>)
Renamed == Provider("far", Unset, <<Entry("m1", "", 1, Unset), Entry("m2", "", 1, Unset)>>,
                    "m2" :> Entry("m2", "m1", 0, Unset))
\* An override of a model that is not there yet.
Awaited == Provider("far", Unset, <<Entry("m2", "n", 1, Unset)>>, "m3" :> Entry("m3", "m1", 0, Unset))

GlobalTried ==
  [legacy : {<<>>, <<Listed("m1", "a", "m1")>>,
             <<Listed("n", "b", "m2"), Listed("m1", "b", "m2")>>,
             <<Listed("n", "b", "m2"), Listed("n", "a", "m2")>>},
   providers : {<<>>, "a" :> Full, "b" :> Small, "a" :> Full @@ "b" :> Small, "a" :> Renamed, "a" :> Awaited}]

ProjectTried ==
  {[legacy |-> <<>>, providers |-> <<>>],
   [legacy |-> <<Listed("m1", "a", "m1")>>, providers |-> "b" :> Small]}

\* Models with a small, a large and no window, of this machine or not; keep limits at 0,
\* above and below half of the budget.
Conversation(window, local, reserve, maxOut, keep, system, auto) ==
  [window |-> window, local |-> local, reserve |-> reserve, maxOut |-> maxOut, keep |-> keep,
   system |-> system, auto |-> auto]
Tried ==
  {Conversation(0, TRUE, 0, 0, 0, 2, TRUE), Conversation(0, FALSE, 2, 5, 4, 2, TRUE),
   Conversation(8, FALSE, 2, 0, 20, 5, TRUE), Conversation(6, TRUE, 0, 1, 1, 1, TRUE),
   Conversation(6, TRUE, 0, 1, 1, 1, FALSE)}

InitParts ==
  /\ part \in {"packages", "settings", "models", "size"}
  /\ C!Init /\ (part # "size" => config.window = 8)
  /\ S!Init /\ (part # "settings" => settings = <<>> /\ ~custom /\ ~hasDir)
  /\ M!Init /\ (part # "models" => global = M!Empty /\ project = M!Empty)
  /\ Init
  /\ part # "packages" =>
       ~dir /\ configured = <<>> /\ \A s, t \in Sources : sources[s] = sources[t]

NextParts ==
  \/ part = "packages" /\ Next /\ changes' + faults' <= 1 /\ jobs' + changes' + faults' <= 3
       /\ UNCHANGED <<part, settingsVars, modelVars, sizeVars>>
  \/ part = "settings" /\ S!Next /\ UNCHANGED <<part, vars, modelVars, sizeVars>>
  \/ part = "models" /\ M!Next /\ UNCHANGED <<part, vars, settingsVars, sizeVars>>
  \/ part = "size" /\ C!Next /\ UNCHANGED <<part, vars, settingsVars, modelVars>>

SpecParts == InitParts /\ [][NextParts]_<<part, vars, settingsVars, modelVars, sizeVars>>

\* Programs are interchangeable, and so are the names of packages.
Symmetry == Permutations(Programs) \cup Permutations(Names)
=============================================================================
