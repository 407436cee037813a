---------------------------- MODULE OneTimeToken ----------------------------
(***************************************************************************)
(* What refresh-token rotation promises: a token goes from live to claimed *)
(* to dead, or straight from live to dead, and never back; only the one    *)
(* claim of a token lets one pair of successors be issued from it.  A      *)
(* token is "unfenced" when the promise does not cover it: it carries no   *)
(* jti, or the denylist has lost its entry.                                *)
(***************************************************************************)
CONSTANTS Jti

VARIABLES
    life,   \* Jti -> the stage the token has reached
    heirs   \* Jti -> the tokens issued in exchange for it

absVars == <<life, heirs>>

Stage == {"unissued", "live", "claimed", "dead", "unfenced"}

AbsInit ==
    /\ life \in [Jti -> {"unissued", "unfenced"}]
    /\ heirs = [j \in Jti |-> {}]

In(stage) == {j \in Jti : life[j] = stage}

\* j stays where it is, or its entry is lost; only claimed and dead tokens
\* have one.
Settled(j) ==
    \/ life'[j] = life[j]
    \/ life[j] \in {"claimed", "dead"} /\ life'[j] = "unfenced"

Dies(j) == life[j] \in {"live", "claimed"} /\ life'[j] = "dead"

\* The tokens a step issues.
Born == {j \in In("unissued") : life'[j] # "unissued"}

\* A login issues a pair.
Issue == \E a, f \in Born :
    /\ a # f
    /\ life' = [life EXCEPT ![a] = "live", ![f] = "live"]
    /\ UNCHANGED heirs

\* An exchange claims one live token.
ClaimOne == \E j \in In("live") :
    /\ life' \in [Jti -> Stage]
    /\ life'[j] = "claimed"
    /\ \A k \in Jti \ {j} : Settled(k)
    /\ UNCHANGED heirs

\* A claimed token is exchanged for a pair and dies with that; an unfenced
\* one may be exchanged any number of times.
Exchange == \E a, f \in Born, j \in In("claimed") \cup In("unfenced") :
    /\ a # f
    /\ life' = [k \in Jti |-> IF k \in {a, f} THEN "live"
                              ELSE IF k = j /\ life[j] = "claimed" THEN "dead"
                              ELSE life[k]]
    /\ heirs' = [heirs EXCEPT ![j] = @ \cup {a, f}]

\* Logout, expiry, or an exchange given up after its claim.
Die ==
    /\ life' \in [Jti -> Stage]
    /\ \A j \in Jti : Settled(j) \/ Dies(j)
    /\ UNCHANGED heirs

AbsNext == Issue \/ ClaimOne \/ Exchange \/ Die

AbsSpec == AbsInit /\ [][AbsNext]_absVars

=============================================================================
