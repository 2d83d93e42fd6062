----------------------------- MODULE MCScheduler -----------------------------
(* Small instances of Scheduler: two requests share a batch key, a third does *)
(* not, and a shutdown competes with them for a one- or two-slot channel.     *)
EXTENDS Scheduler, TLC

CONSTANTS r1, r2, r3, s1, s2

KeysDef == {"short", "long"}
KeyDef == [r \in Requests |-> IF r = r2 THEN "long" ELSE "short"]
\* Requests with the same key can be exchanged.
Twins == Permutations({r1, r3})

BucketDef == [k \in Keys |-> IF k = "short" THEN 16 ELSE 64]

=============================================================================
