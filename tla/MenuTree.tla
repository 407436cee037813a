------------------------------- MODULE MenuTree -------------------------------
(***************************************************************************)
(* The menus as a tree (admin/models/menu.go): BuildTree, which MenuTree   *)
(* serves, and PathTo, which MenuBreadcrumb serves.  A row's parent is the *)
(* component of another row, of none, or empty, and nothing in the         *)
(* database forbids a cycle.  The tree is the set of its root-to-node      *)
(* branches, as indices of rows.                                           *)
(***************************************************************************)
EXTENDS Naturals, Sequences, FiniteSets, SequencesExt

CONSTANT MenuNames     \* the components, unique as REST's rule has them

ASSUME MenuAssumption == IsFiniteSet(MenuNames)

VARIABLE menuRows      \* sys_menus: component and parent

NoParent == ""

\* Every forest, with parents that are missing and parents in a circle.
MenusInit ==
    menuRows \in {[i \in 1..Len(order) |-> [component |-> order[i], parent |-> up[i]]] :
                     order \in {SetToSeq(MenuNames)},
                     up \in [1..Cardinality(MenuNames) -> MenuNames \cup {NoParent, "gone"}]}

\* byComponent.
RowsOf(component) == {i \in DOMAIN menuRows : menuRows[i].component = component}

\* Mutant of HasParent: a row with a missing parent waits for it.
HasParentNamed(i) == menuRows[i].parent # NoParent

HasParent(i) == menuRows[i].parent # NoParent /\ RowsOf(menuRows[i].parent) # {}

MenuChildren(i) ==
    {j \in DOMAIN menuRows : HasParent(j) /\ menuRows[j].parent = menuRows[i].component}

\* buildSubtree, from a root down: each row is followed by one of its children.
Branch(p) == ~HasParent(p[1]) /\ \A k \in 1..(Len(p) - 1) : p[k + 1] \in MenuChildren(p[k])

\* No branch is longer than the rows are many: it never meets a row twice.
BuildTree == {p \in UNION {[1..n -> DOMAIN menuRows] : n \in 1..Len(menuRows)} : Branch(p)}

\* One turn of PathTo's loop, which ends at a parent that is empty, was seen
\* before or is missing.
Ascend(w) ==
    IF w.cur = NoParent \/ w.cur \in Range(w.path) \/ RowsOf(w.cur) = {} THEN w
    ELSE LET i == CHOOSE r \in RowsOf(w.cur) : TRUE
         IN  [path |-> <<menuRows[i].component>> \o w.path, cur |-> menuRows[i].parent]

\* Each turn adds a row, so there are fewer turns than rows.
PathTo(i) ==
    LET walk[n \in 0..Len(menuRows)] ==
            IF n = 0 THEN [path |-> <<menuRows[i].component>>, cur |-> menuRows[i].parent]
            ELSE Ascend(walk[n - 1])
    IN  walk[Len(menuRows)].path

-----------------------------------------------------------------------------
(* Properties.                                                             *)

\* The rows above i, through any number of parents: those in every set that
\* holds i's parent and, with a row, the row's parent.
Parents(i) == {r \in DOMAIN menuRows : i \in MenuChildren(r)}
UpClosed(S) == \A j \in S : Parents(j) \subseteq S
Above(i) ==
    {r \in DOMAIN menuRows :
        \A S \in SUBSET DOMAIN menuRows : Parents(i) \subseteq S /\ UpClosed(S) => r \in S}

\* Circular: on a circle of parents, or below one.
Circular(i) == \E j \in Above(i) \cup {i} : j \in Above(j)

\* The tree shows every menu exactly once, but for those on or below a circle
\* of parents, which it leaves out; the breadcrumb of a menu it shows is its
\* place in the tree, and that of one it leaves out ends, without repetition,
\* in that menu.
MenusPlaced ==
    LET tree == BuildTree IN
    \A i \in DOMAIN menuRows :
        LET places == {p \in tree : Last(p) = i} IN
        /\ Cardinality(places) = IF Circular(i) THEN 0 ELSE 1
        /\ \A p \in places : PathTo(i) = [k \in 1..Len(p) |-> menuRows[p[k]].component]
        /\ Last(PathTo(i)) = menuRows[i].component
        /\ Cardinality(Range(PathTo(i))) = Len(PathTo(i))
        /\ Range(PathTo(i)) = {menuRows[j].component : j \in Above(i) \cup {i}}

===============================================================================
