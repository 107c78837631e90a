------------------------------- MODULE MCTurns -------------------------------
(***************************************************************************)
(* One instance for the parts of Turns: a behaviour is one of the module   *)
(* that `part` names, and the variables of the others stay as they were    *)
(* initially.                                                              *)
(***************************************************************************)
EXTENDS Turns

VARIABLE part

InitParts ==
  /\ Init /\ B!Init /\ SB!Init
  /\ \/ part = "turn"
     \/ part \in {"bash", "session"} /\ limit = 0

NextParts ==
  \/ part = "bash" /\ B!Next /\ UNCHANGED <<part, vars, sessionVars>>
  \/ part = "turn" /\ Next /\ UNCHANGED <<part, bashVars, sessionVars>>
  \/ part = "session" /\ SB!Next /\ UNCHANGED <<part, vars, bashVars>>

SpecParts == InitParts /\ [][NextParts]_<<part, vars, bashVars, sessionVars>>

\* User's commands and their aborters are interchangeable.
Symmetry == Permutations(Calls) \cup Permutations(Aborters)
=============================================================================
