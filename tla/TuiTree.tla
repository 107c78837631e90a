------------------------------- MODULE TuiTree -------------------------------
(***************************************************************************)
(* The tree of the session in the terminal UI (src/internal/tui:           *)
(* tree_overlay.go, tree_filters.go): which entries buildTreeItems shows   *)
(* and how deep, under a filter, a search and folded entries, and the      *)
(* cursor on them while the session grows or is replaced.                  *)
(*                                                                         *)
(* The search is the number of letters typed of "user": the first one is   *)
(* also found in the results of tools.                                     *)
(***************************************************************************)
EXTENDS Integers, SequencesExt

CONSTANTS MaxEntries,  \* bound on the entries of a session
          Grown,       \* kinds of the entries it gets from elsewhere
          MaxFolded    \* bound on the folded entries

Kinds == {"user", "assistant", "toolResult", "label"}

TreeAssumption == {MaxEntries, MaxFolded} \subseteq Nat \ {0} /\ Grown \subseteq Kinds

Filters == <<"default", "noTools", "userOnly", "labeledOnly", "all">>

VARIABLES
  entries,  \* the session: entries with their parent (0 for none), which came before, and kind
  leaf,     \* the entry the next one is appended to
  filter, search, folded,   \* Model.treeFilter, treeSearch, treeFolded
  items,    \* Model.treeItems: entries (0 for one of another session) with their depth, and
            \* whether they had children when the list was built
  cursor,   \* Model.overlayCursor, from 1
  open      \* the tree is on the screen

session == <<entries, leaf>>
vars == <<session, filter, search, folded, items, cursor, open>>

Ids == DOMAIN entries
Children(p) == SelectSeq([i \in Ids |-> i], LAMBDA i : entries[i].parent = p)

Init ==
  /\ entries = <<>> /\ leaf = 0
  /\ filter = "default" /\ search = 0 /\ folded = {}
  /\ items = <<>> /\ cursor = 1 /\ open = FALSE

-----------------------------------------------------------------------------
(* buildTreeItems.                                                         *)

PassesFilter(f, kind) ==
  CASE f = "userOnly" -> kind = "user"
    [] f = "noTools" -> kind # "toolResult"
    [] f = "labeledOnly" -> kind = "label"
    [] OTHER -> TRUE

MatchesSearch(n, kind) == kind \in (<<Kinds, {"user", "toolResult"}, {"user"}>>)[n + 1]

Shown(f, n, i) == PassesFilter(f, entries[i].kind) /\ MatchesSearch(n, entries[i].kind)

\* Where the children of an entry are drawn, and whether it has just branched.
ChildIndent(indent, branched, kids) ==
  CASE kids > 1 -> <<indent + 1, TRUE>>
    [] kids <= 1 /\ branched /\ indent > 0 -> <<indent + 1, FALSE>>
    [] OTHER -> <<indent, FALSE>>

Item(i, depth, kids) == [id |-> i, depth |-> depth, hasKids |-> kids # <<>>]

Roots == Children(0)
Root(i) == IF Len(Roots) > 1 THEN <<i, 1, TRUE>> ELSE <<i, 0, FALSE>>

\* Mutant: an entry that is not shown takes its subtree with it.
BuildPruned(f, n, fold) ==
  LET Walk[at \in Ids \X (0..MaxEntries) \X BOOLEAN] ==
        LET i == at[1]
            kids == Children(i)
            below == ChildIndent(at[2], at[3], Len(kids))
        IN IF ~Shown(f, n, i) THEN <<>>
           ELSE <<Item(i, at[2], kids)>> \o
                (IF i \in fold THEN <<>>
                 ELSE FlattenSeq([k \in DOMAIN kids |-> Walk[<<kids[k], below[1], below[2]>>]]))
  IN FlattenSeq([k \in DOMAIN Roots |-> Walk[Root(Roots[k])]])

\* The children of an entry that is not shown are drawn where it would have been, folded
\* or not.
Build(f, n, fold) ==
  LET Walk[at \in Ids \X (0..MaxEntries) \X BOOLEAN] ==
        LET i == at[1]
            kids == Children(i)
            shown == Shown(f, n, i)
            below == IF shown THEN ChildIndent(at[2], at[3], Len(kids)) ELSE <<at[2], at[3]>>
        IN (IF shown THEN <<Item(i, at[2], kids)>> ELSE <<>>) \o
           (IF shown /\ i \in fold THEN <<>>
            ELSE FlattenSeq([k \in DOMAIN kids |-> Walk[<<kids[k], below[1], below[2]>>]]))
  IN FlattenSeq([k \in DOMAIN Roots |-> Walk[Root(Roots[k])]])

-----------------------------------------------------------------------------
(* The session.                                                            *)

\* External: a run, or another goroutine, appends to the leaf, first a prompt; the tree is
\* not rebuilt.
Append1(kind) ==
  /\ Len(entries) < MaxEntries
  /\ entries' = Append(entries, [parent |-> leaf, kind |-> kind])
  /\ leaf' = Len(entries) + 1

Grow ==
  /\ \E kind \in IF entries = <<>> THEN {"user"} ELSE Grown : Append1(kind)
  /\ UNCHANGED <<filter, search, folded, items, cursor, open>>

\* A session command with the tree on the screen, which goes on showing the old session.
\* An imported file may have several entries without a parent.
Replace ==
  /\ open /\ \E i \in Ids : entries[i].parent # 0
  /\ \E n \in {0, 2} :
       /\ entries' = [i \in 1..n |-> [parent |-> 0, kind |-> "user"]]
       /\ leaf' = n
  /\ items' = [k \in DOMAIN items |-> [items[k] EXCEPT !.id = 0]] /\ folded' = {}
  /\ UNCHANGED <<filter, search, cursor, open>>

-----------------------------------------------------------------------------
(* The keys of the tree.                                                   *)

\* rebuildTreeView keeps the cursor in the list.
Rebuild(f, n, fold, at) ==
  LET built == Build(f, n, fold)
  IN /\ filter' = f /\ search' = n /\ folded' = fold
     /\ items' = built
     /\ cursor' = CASE at > Len(built) /\ built # <<>> -> Len(built)
                    [] built = <<>> -> 1
                    [] OTHER -> at

\* openTreeOverlay: what was folded stays folded.
OpenTree ==
  /\ ~open /\ open' = TRUE
  /\ items' = Build(filter, search, folded) /\ cursor' = 1
  /\ UNCHANGED <<session, filter, search, folded>>

\* clearOverlayState.
Closed == open' = FALSE /\ items' = <<>> /\ cursor' = 1 /\ search' = 0

Esc ==
  /\ open
  /\ \/ /\ search > 0 /\ Rebuild(filter, 0, folded, cursor) /\ UNCHANGED open
     \/ search = 0 /\ Closed /\ UNCHANGED <<filter, folded>>
  /\ UNCHANGED session

Up ==
  /\ open /\ cursor > 1 /\ cursor' = cursor - 1
  /\ UNCHANGED <<session, filter, search, folded, items, open>>

Down ==
  /\ open /\ cursor < Len(items) /\ cursor' = cursor + 1
  /\ UNCHANGED <<session, filter, search, folded, items, open>>

\* The filter's own key, the next or the previous filter: the cursor goes to the top.
SetTreeFilter ==
  /\ open
  /\ \E f \in ToSet(Filters) : f # filter /\ Rebuild(f, search, folded, 1)
  /\ UNCHANGED <<session, open>>

\* Letters go to the search, and backspace takes the last one away.
Search ==
  /\ open
  /\ \E n \in {search - 1, search + 1} \cap (0..2) : Rebuild(filter, n, folded, cursor)
  /\ UNCHANGED <<session, open>>

\* treeFoldOrUp.
FoldOrUp ==
  /\ open /\ items # <<>> /\ Cardinality(folded) < MaxFolded
  /\ LET i == items[cursor].id
     IN IF items[cursor].hasKids /\ i \notin folded THEN Rebuild(filter, search, folded \cup {i}, cursor)
        ELSE cursor > 1 /\ cursor' = cursor - 1 /\ UNCHANGED <<filter, search, folded, items>>
  /\ UNCHANGED <<session, open>>

\* treeUnfoldOrDown.
UnfoldOrDown ==
  /\ open /\ items # <<>>
  /\ LET i == items[cursor].id
     IN IF items[cursor].hasKids /\ i \in folded THEN Rebuild(filter, search, folded \ {i}, cursor)
        ELSE /\ cursor < Len(items) /\ cursor' = cursor + 1
             /\ UNCHANGED <<filter, search, folded, items>>
  /\ UNCHANGED <<session, open>>

\* editTreeLabel: the label becomes the leaf, and the tree is built again, from the
\* session with the label.
EditLabel ==
  /\ open /\ items # <<>> /\ Append1("label")
  /\ filter' = filter /\ search' = search /\ folded' = folded
  /\ items' = Build(filter, search, folded)' /\ open' = open
  /\ cursor' = IF cursor > Len(items') THEN Max({1, Len(items')}) ELSE cursor

\* Enter, "s" and shift+F: SwitchToEntry and ForkSession make the entry the leaf, if it is
\* still there; the tree is closed in any case.
SwitchTreeEntry ==
  /\ open
  /\ leaf' = IF items # <<>> /\ items[cursor].id \in Ids THEN items[cursor].id ELSE leaf
  /\ Closed
  /\ UNCHANGED <<entries, filter, folded>>

-----------------------------------------------------------------------------
Next ==
  \/ Grow \/ Replace \/ OpenTree \/ Esc \/ Up \/ Down \/ SetTreeFilter \/ Search
  \/ FoldOrUp \/ UnfoldOrDown \/ EditLabel \/ SwitchTreeEntry

Spec == Init /\ [][Next]_vars

-----------------------------------------------------------------------------
(* Properties.                                                             *)

\* The keys index the list with the cursor: outside of it the program would panic.
CursorInTree ==
  /\ \A i \in Ids : entries[i].parent \in 0..(i - 1) /\ entries[i].kind \in Kinds
  /\ cursor >= 1 /\ (items # <<>> => cursor <= Len(items))

Ancestors(i) ==
  LET up[j \in Ids] ==
        IF entries[j].parent = 0 THEN {} ELSE {entries[j].parent} \cup up[entries[j].parent]
  IN up[i]

ShownIds == {i \in Ids : Shown(filter, search, i)}

\* The list has every entry that passes the filter and the search, once, unless an entry
\* above it that is shown itself is folded; and an entry comes after those above it.
TreeComplete ==
  LET built == Build(filter, search, folded)
      ids == [k \in DOMAIN built |-> built[k].id]
  IN /\ ToSet(ids) = {i \in ShownIds : Ancestors(i) \cap ShownIds \cap folded = {}}
     /\ IsInjective(ids)
     /\ \A j, k \in DOMAIN ids : ids[j] \in Ancestors(ids[k]) => j < k

Above(i) == LET a == Ancestors(i) \cap ShownIds IN IF a = {} THEN 0 ELSE Max(a)

\* Entries under the same shown entry are drawn at the same depth, whatever is hidden
\* between them and it, and at most one step to the right of it.
TreeAligned ==
  LET built == Build(filter, search, folded)
  IN \A j, k \in DOMAIN built :
       LET a == built[j] b == built[k]
       IN /\ Above(a.id) = Above(b.id) => a.depth = b.depth
          /\ Above(b.id) = a.id => b.depth - a.depth \in {0, 1}

\* A branch is drawn to the right of where it begins, so that chains stay flat.
ChainsFlat ==
  (\A i, j \in Ids : entries[i].parent = entries[j].parent => i = j)
    => LET built == Build(filter, search, folded)
       IN \A k \in DOMAIN built : built[k].depth = 0


\* Folding and unfolding leave the cursor on the entry it was on, when the list was that of
\* the session.
FoldKeepsEntry ==
  [][UNCHANGED entries /\ folded' # folded /\ items = Build(filter, search, folded)
     => items'[cursor'].id = items[cursor].id]_vars

\* The rows are those of the session's tree, under the keys and in their places.
RowsOfTree == [](CursorInTree /\ TreeComplete /\ TreeAligned /\ ChainsFlat) /\ FoldKeepsEntry
=============================================================================
