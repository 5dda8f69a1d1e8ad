--------------------------- MODULE SelectionTree ---------------------------
(* The tree of a torrent's files in which the user of a client makes the    *)
(* selection (lib/treeModel.ts, components/FileTree.tsx).  A path is a      *)
(* sequence of names; the names, their order in a folder and the sizes are  *)
(* left out.  Search and expansion decide what is shown and never what is   *)
(* selected, so they are left out too.                                      *)
EXTENDS FiniteSets, SequencesExt

CONSTANTS Files,   \* the indexes of the torrent's files
          Path     \* Path[f]: the names from the torrent's root to the file f

ASSUME FilesAssumption == IsFiniteSet(Files)

ASSUME PathAssumption ==
  \A f \in Files : /\ Path[f] \in Seq(STRING) /\ Path[f] # <<>>
                   /\ \A g \in Files : IsPrefix(Path[f], Path[g]) => f = g

\* The nodes: every file and every folder above one.
Nodes == UNION {{SubSeq(Path[f], 1, n) : n \in 1..Len(Path[f])} : f \in Files}

IsFolder(n) == \A f \in Files : Path[f] # n

DescendantIndexes(n) == {f \in Files : IsPrefix(n, Path[f])}

Children(n) == {c \in Nodes : Len(c) = Len(n) + 1 /\ IsPrefix(n, c)}

\* The box of every node, from the leaves up: only a child that is checked
\* counts for its folder.
CheckState(selected) ==
  LET state[n \in Nodes] ==
        IF ~IsFolder(n)
        THEN IF DescendantIndexes(n) \subseteq selected THEN "checked" ELSE "unchecked"
        ELSE LET checked == {c \in Children(n) : state[c] = "checked"}
             IN  CASE checked = {}          -> "unchecked"
                   [] checked = Children(n) -> "checked"
                   [] OTHER                 -> "indeterminate"
  IN  state

\* Mutant: a click turns every file below the node over.
ToggleFlips(n, selected) ==
  (selected \ DescendantIndexes(n)) \union (DescendantIndexes(n) \ selected)

\* A click on a node: its files are cleared when all of them are selected, and
\* selected otherwise.
ToggleNode(n, selected) ==
  IF DescendantIndexes(n) \subseteq selected
  THEN selected \ DescendantIndexes(n)
  ELSE selected \union DescendantIndexes(n)
=============================================================================
