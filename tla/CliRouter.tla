------------------------------ MODULE CliRouter ------------------------------
(***************************************************************************)
(* The command tree of the CLI transport (transport/cli/router.go): Handle *)
(* registers a path, Lookup finds the command for the words of a request,  *)
(* Completer offers the next ones.  A path is the sequence of its segments,*)
(* without empty ones; a node of the tree is the sequence of the names     *)
(* that lead to it.                                                        *)
(***************************************************************************)
EXTENDS Naturals, Sequences, FiniteSets, SequencesExt

CONSTANTS
    RoutePaths,      \* the paths to register
    RouteParams,     \* the segments that begin with ':'
    Words,           \* what a request may say
    StartsWith,      \* pairs of a name and a word it starts with
    MaxRoutes        \* bound: registrations, the built-in one included

HelpPath == <<"help">>

ASSUME RouterAssumption ==
    /\ RoutePaths \subseteq Seq(STRING) /\ HelpPath \in RoutePaths
    /\ "help" \notin RouteParams
    /\ MaxRoutes \in Nat

VARIABLES
    nodes,           \* the tree: each node's command (0: none) and parameters
    routes           \* history: the registrations, and whether each was accepted

routerVars == <<nodes, routes>>

NewNode == [command |-> 0, params |-> <<>>]

\* New registers the help command itself, first, in the fresh tree.
RouterInit ==
    /\ nodes = [p \in {<<>>, HelpPath} |-> IF p = <<>> THEN NewNode ELSE [NewNode EXCEPT !.command = 1]]
    /\ routes = <<[path |-> HelpPath, ok |-> TRUE]>>

NameOf(segment) == IF segment = "-" THEN "app" ELSE segment

\* The names of a path, before its first parameter, and the parameters.
NamesIn(path) ==
    LET cut == SelectInSeq(path, LAMBDA s : s \in RouteParams)
    IN  [i \in 1..(IF cut = 0 THEN Len(path) ELSE cut - 1) |-> NameOf(path[i])]
ParamsIn(path) == SubSeq(path, Len(NamesIn(path)) + 1, Len(path))

\* Mutant of Refuses: a registered command is overwritten.
RefusesNever(node) == FALSE

\* Handle's "already registered" error.
Refuses(node) == node.command # 0

\* Handle, name by name down from the root: a node below the root that has a
\* command refuses; the nodes down to it, or to the path's last name, are there
\* from then on, and if none refused the last one takes the command and the
\* parameters.
Handle(path, command) ==
    LET names == NamesIn(path)
        At(k) == SubSeq(names, 1, k)
        refusing == {k \in 1..Len(names) : At(k) \in DOMAIN nodes /\ Refuses(nodes[At(k)])}
        passed == {At(k) : k \in {j \in 1..Len(names) : \A r \in refusing : j <= r}}
        grown == [q \in DOMAIN nodes \cup passed |-> IF q \in DOMAIN nodes THEN nodes[q] ELSE NewNode]
    IN  [ok |-> refusing = {},
         tree |-> IF refusing # {} THEN grown
                  ELSE [grown EXCEPT ![names].command = command, ![names].params = @ \o ParamsIn(path)]]

\* How far down the tree the words lead, child by child.
Depth(words) == Max({k \in 0..Len(words) : \A j \in 0..k : SubSeq(words, 1, j) \in DOMAIN nodes})

\* Lookup: the deepest child the words lead to, with or without a command; the
\* words that are left are its arguments.
Lookup(words) ==
    [command |-> nodes[SubSeq(words, 1, Depth(words))].command,
     args |-> SubSeq(words, Depth(words) + 1, Len(words))]

Children(p) == {q \in DOMAIN nodes : Len(q) = Len(p) + 1 /\ Front(q) = p}

\* Completer: the children of the deepest one; if words are left, those that
\* start with the next.
Completer(words) ==
    LET d == Depth(words) IN
    {q \in Children(SubSeq(words, 1, d)) :
        d < Len(words) => <<Last(q), words[d + 1]>> \in StartsWith}

Register(path) ==
    LET result == Handle(path, Len(routes) + 1) IN
    /\ Len(routes) < MaxRoutes
    /\ nodes' = result.tree
    /\ routes' = Append(routes, [path |-> path, ok |-> result.ok])

RouterNext == \E path \in RoutePaths : Register(path)
RouterSpec == RouterInit /\ [][RouterNext]_routerVars

-----------------------------------------------------------------------------
(* Properties.                                                             *)

\* In whatever order commands are registered, one that was accepted keeps
\* answering its own words, with what follows them as its arguments, keeps its
\* parameters, and is offered by completion; only the root's command, and its
\* parameters, can be replaced without an error.  Words that lead to a node
\* below a command belong to that node, whether it has a command or not.
RoutesAnswer ==
    \A k \in 1..Len(routes) :
        LET p == NamesIn(routes[k].path) IN
        (routes[k].ok /\ p # <<>>) =>
            /\ \A word \in Words :
                  Lookup(Append(p, word)) =
                      IF Append(p, word) \in DOMAIN nodes
                      THEN [command |-> nodes[Append(p, word)].command, args |-> <<>>]
                      ELSE [command |-> k, args |-> <<word>>]
            /\ Lookup(p) = [command |-> k, args |-> <<>>]
            /\ nodes[p].params = ParamsIn(routes[k].path)
            /\ p \in Completer(Front(p))
            /\ \A word \in Words : <<Last(p), word>> \in StartsWith =>
                  p \in Completer(Append(Front(p), word)) \/ Append(Front(p), word) \in DOMAIN nodes

==============================================================================
