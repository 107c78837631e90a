------------------------------ MODULE MCTerminal ------------------------------
(***************************************************************************)
(* One instance for the parts of Terminal: a behaviour is one of the       *)
(* module that `part` names, and the variables of the others stay as they  *)
(* were initially.                                                         *)
(*                                                                         *)
(* The cards are checked twice, with the answers of runs alone and with    *)
(* commands of the user among them.                                        *)
(***************************************************************************)
EXTENDS Terminal, TLC

CONSTANT MaxCards

VARIABLE part

\* Two models of different providers; commands to complete of which one is proposed by an
\* extension; a name that no file matches.
ModelList == <<"m1", "m2">>
ProviderOf == "m1" :> "p1" @@ "m2" :> "p2"
OtherList == <<"t1">>
FileList == <<"s1", "s2">>
CommandMatches ==
  ("/h" :> {"/help", "/hotkeys", "/hi"}) @@ ("/help" :> {"/help"}) @@ ("/hi" :> {"/hi"})
FileMatches == ("@a" :> {"a", "ab"}) @@ ("@z" :> {})
CommandLists == {<<"/help", "/hotkeys">>, <<"/help", "/hotkeys", "/hi">>}
FileLists == {<<"a">>, <<"a", "ab">>}
Proposals == {<<>>, <<"x1", "x2">>}

First == CHOOSE c \in CommandSets : TRUE

InitParts ==
  /\ Init /\ C!Init /\ T!Init /\ O!Init /\ E!Init
  /\ part \in {"run", "answers", "commands", "tree", "overlays", "editor"}
  /\ part # "overlays" => ~desc
  /\ part # "editor" => commands = First /\ index = <<"a">>

\* The bounds of the two checks of the cards.
Bounded ==
  IF part = "answers" THEN bashPc'[1] = "none" /\ made' + infos' <= MaxCalls
  ELSE prompts' <= 1 /\ answer' <= 1 /\ made' = 0 /\ Len(lines') <= MaxCards

NextParts ==
  \/ part = "run" /\ Next /\ UNCHANGED <<part, chatVars, treeVars, overlayVars, editorVars>>
  \/ part \in {"answers", "commands"} /\ C!Next /\ Bounded
       /\ UNCHANGED <<part, vars, treeVars, overlayVars, editorVars>>
  \/ part = "tree" /\ T!Next /\ UNCHANGED <<part, vars, chatVars, overlayVars, editorVars>>
  \/ part = "overlays" /\ O!Next /\ UNCHANGED <<part, vars, chatVars, treeVars, editorVars>>
  \/ part = "editor" /\ E!Next /\ UNCHANGED <<part, vars, chatVars, treeVars, overlayVars>>

SpecParts ==
  /\ InitParts
  /\ [][NextParts]_<<part, vars, chatVars, treeVars, overlayVars, editorVars>>
=============================================================================
