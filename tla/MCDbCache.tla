----------------------------- MODULE MCDbCache -----------------------------
(* Small instances of DbCache for TLC.                                     *)
EXTENDS DbCache, TLC

CONSTANTS r1, r2, r3, d1, d2, ops, dev

\* Two readers of one process, and a third in another process.
MCProcOf == [r \in Readers |-> IF r = r3 THEN 2 ELSE 1]
\* The two readers of one process are interchangeable.
Sym == Permutations(Readers \cap {r1, r2})

=============================================================================
