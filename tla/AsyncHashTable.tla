--------------------------- MODULE AsyncHashTable ---------------------------
(***************************************************************************)
(* What a caller of the bucket can rely on, without its queue, its blocks  *)
(* or its cleaning loop.                                                   *)
(*                                                                         *)
(* Every key has a value and a set of values that have been asked for it   *)
(* and may still surface.  A value surfaces only if it was asked for under *)
(* that very key, one key at a time, in no promised order, at most until   *)
(* it is dropped; and the whole table may be thrown away at once.          *)
(***************************************************************************)
CONSTANTS Keys, Values, NoValue

VARIABLES
    val,            \* the value under each key
    may             \* the values that may still surface under each key

hashVars == <<val, may>>

Init ==
    /\ val = [k \in Keys |-> NoValue]
    /\ may = [k \in Keys |-> {}]

\* Ask for a write of v under each key of K.
Ask(K, v) ==
    /\ may' = [k \in Keys |-> IF k \in K THEN may[k] \cup {v} ELSE may[k]]
    /\ UNCHANGED val

\* One of the values asked for under k surfaces; it may surface again.
Surface(k) ==
    /\ \E v \in may[k] :
        /\ val' = [val EXCEPT ![k] = v]
        /\ \E left \in {may[k], may[k] \ {v}} : may' = [may EXCEPT ![k] = left]

\* Some of what was asked for will not surface any more.
Fade ==
    /\ may' \in [Keys -> SUBSET Values]
    /\ \A k \in Keys : may'[k] \subseteq may[k]
    /\ UNCHANGED val

\* The table is thrown away; what is still on its way may be lost or not.
Wipe ==
    /\ val' = [k \in Keys |-> NoValue]
    /\ UNCHANGED may

Next ==
    \/ Fade
    \/ \E k \in Keys : Surface(k)
    \/ \E K \in SUBSET Keys, v \in Values : Ask(K, v)
    \/ Wipe

Spec == Init /\ [][Next]_hashVars
=============================================================================
