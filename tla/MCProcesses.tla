------------------------------ MODULE MCProcesses ------------------------------
(***************************************************************************)
(* One instance for the parts of Processes: a behaviour is one of the      *)
(* module that `part` names ("hook" is ExtensionHost without requests),    *)
(* and the variables of the others stay as they were initially.            *)
(***************************************************************************)
EXTENDS Processes, Sequences, TLC

VARIABLE part

\* e1 declares both tools, e2 one of them or none.
Declared == [e \in Exts |-> IF e = "e1" THEN {{"t1", "t2"}} ELSE {{"t2"}, {}}]

\* Two models of the file, of which one has the name that the other has as its id; an
\* extension that brings a model of its own, and one that takes a provider over.
File(name, id) == [name |-> name, id |-> id, provider |-> "p", base |-> ""]
Offered(e, name, p) == [name |-> name, id |-> name, provider |-> p, base |-> e]
FilesTried == {<<File("m", "x")>>, <<File("m", "x"), File("x", "y")>>}
Offering == "e1" :> ("q" :> <<Offered("e1", "n", "q")>>)
         @@ "e2" :> ("p" :> <<>> @@ "q" :> <<Offered("e2", "o", "q")>>)
Maps == "m" :> ("high" :> "nil" @@ "max" :> "high" @@ "low" :> "")
     @@ "n" :> [l \in {"off", "minimal", "low", "medium", "high", "xhigh", "max"} |-> "nil"]

InitParts ==
  /\ Init /\ C!Init /\ R!Init /\ H!Init
  /\ part \in {"host", "hook", "client", "rpc", "choice"}
  /\ Len(snapshot) = 2

\* Levels are changed before lists are, and extensions choose models while only one provider
\* was registered.
ChoiceBounds ==
  /\ level' # "" => registered' = 0 /\ edited' = 0
  /\ (\E e \in Exts : pc'[e] \in {"set", "append"}) => registered' <= 1 /\ edited' = 0

\* Requests of extensions, hooks and overlapping reloads are explored apart: none of them
\* looks at the others.
NextParts ==
  \/ part = "host" /\ Next /\ hooks' = 0 /\ ~overlapped'
       /\ UNCHANGED <<part, clientVars, rpcVars, choiceVars>>
  \/ part = "hook" /\ Next /\ asks' = 0 /\ (hooks' = 0 \/ ~overlapped')
       /\ UNCHANGED <<part, clientVars, rpcVars, choiceVars>>
  \/ part = "client" /\ C!Next /\ UNCHANGED <<part, vars, rpcVars, choiceVars>>
  \/ part = "rpc" /\ R!Next /\ UNCHANGED <<part, vars, clientVars, choiceVars>>
  \/ part = "choice" /\ H!Next /\ ChoiceBounds /\ UNCHANGED <<part, vars, clientVars, rpcVars>>

SpecParts == InitParts /\ [][NextParts]_<<part, vars, clientVars, rpcVars, choiceVars>>
=============================================================================
