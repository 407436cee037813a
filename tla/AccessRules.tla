----------------------------- MODULE AccessRules -----------------------------
(***************************************************************************)
(* Which requests pass without a token or a grant: the allowlist of the    *)
(* JWT middleware (middleware/auth/jwt.go, isAllowed) and the allowlist of *)
(* the permission checker (admin/permission.go).  A pattern or a path is a *)
(* sequence of characters, since what is checked is where a match may end. *)
(***************************************************************************)
EXTENDS Naturals, Sequences, FiniteSets, SequencesExt

CONSTANTS
    Chars,           \* the characters of a path, "/" among them
    MaxPattern, MaxPath   \* bounds: lengths

ASSUME AccessAssumption == "/" \in Chars /\ "*" \notin Chars /\ {MaxPattern, MaxPath} \subseteq Nat

VARIABLE access      \* a request's path, and the entry of an allowlist

AccessInit ==
    access \in [path : BoundedSeq(Chars, MaxPath),
                pattern : {p \in BoundedSeq(Chars \cup {"*"}, MaxPattern) : "*" \notin Range(Front(p))},
                method : {"", "GET", "POST"}]

\* isAllowed with its allows.
IsAllowed(path, allows) ==
    \E k \in 1..Len(allows) :
        LET pattern == allows[k]
            prefix == Front(pattern) IN
        \/ pattern = path
        \/ pattern = <<"*">>
        \/ /\ Len(pattern) > 1 /\ Last(pattern) = "*"
           /\ IsPrefix(prefix, path)
           /\ \/ Last(prefix) = "/"
              \/ Len(path) > Len(prefix) /\ path[Len(prefix) + 1] = "/"

\* Mutant of MatchPattern: a prefix need not end at a segment.
MatchPatternPrefix(pattern, path) ==
    \/ pattern = path \/ pattern = <<"*">>
    \/ Len(pattern) > 1 /\ Last(pattern) = "*" /\ IsPrefix(Front(pattern), path)

\* matchPattern, which "mirrors" it.
MatchPattern(pattern, path) ==
    IF pattern = path \/ pattern = <<"*">> THEN TRUE
    ELSE IF Len(pattern) <= 1 \/ Last(pattern) # "*" \/ ~IsPrefix(Front(pattern), path) THEN FALSE
    ELSE \/ pattern[Len(pattern) - 1] = "/"
         \/ Len(path) >= Len(pattern) /\ path[Len(pattern)] = "/"

\* pathMatcher.match: entries of any method count once no exact one returned.
AllowlistMatch(entries, method, path) ==
    LET Hit(m) == \E k \in 1..Len(entries) :
                     entries[k].method = m /\ MatchPattern(entries[k].pattern, path)
    IN  Hit(method) \/ Hit("")

-----------------------------------------------------------------------------
(* Properties.                                                             *)

\* What a path lies strictly below, by whole segments: the path up to any of
\* its slashes.
Ancestors(path) == {SubSeq(path, 1, k - 1) : k \in {i \in 1..Len(path) : path[i] = "/"}}

\* What a pattern promises: itself; with "*" at the end, the paths strictly
\* below the one it names, by whole segments.
Promised(pattern, path) ==
    \/ pattern = path \/ pattern = <<"*">>
    \/ /\ Len(pattern) > 1 /\ Last(pattern) = "*"
       /\ LET prefix == Front(pattern)
              root == IF Last(prefix) = "/" THEN Front(prefix) ELSE prefix
          IN  root \in Ancestors(path)

\* Whether "/a*" opens "/a" itself: isAllowed's comment says so, its code and the
\* checker's documentation do not.
Disputed(pattern, path) == path # <<>> /\ Last(path) # "/" /\ pattern = Append(path, "*")

\* Both allowlists let through exactly the paths a pattern promises, segment
\* by segment ("/a*" never opens "/ab"), and a method in the checker's entry
\* restricts it.  No claim is made for the token allowlist where it is disputed.
AllowlistsExact ==
    LET p == access.path
        e == [method |-> access.method, pattern |-> access.pattern]
        other == [method |-> "POST", pattern |-> <<"*">>] IN
    /\ ~Disputed(access.pattern, p) =>
          IsAllowed(p, <<access.pattern>>) = Promised(access.pattern, p)
    /\ MatchPattern(access.pattern, p) = Promised(access.pattern, p)
    /\ AllowlistMatch(<<other, e>>, "GET", p) =
          (access.method # "POST" /\ Promised(access.pattern, p))

==============================================================================
