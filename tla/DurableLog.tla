----------------------------- MODULE DurableLog -----------------------------
(***************************************************************************)
(* What LevelDB promises about what it has on disk (options.h:170-182),    *)
(* without its logs, memtables, tables and manifest: the entries that      *)
(* opening the database would find only ever grow, by entries newer than   *)
(* all of them, and those that are out of the page cache survive a power   *)
(* cut.  A process crash, a flush, a log switch, the deletion of obsolete  *)
(* logs and a recovery change nothing here.                                *)
(***************************************************************************)
EXTENDS Naturals

VARIABLES
    content,        \* entries <<sequence number, batch>> a reopening finds
    safe            \* those of them that a power cut cannot take away

Init == content = {} /\ safe = {}

\* A group of writes reaches the operating system, newer than everything
\* there and each with a sequence number of its own.
Append ==
    /\ content \subseteq content'
    /\ \A e \in content' \ content :
        /\ \A f \in content : e[1] > f[1]
        /\ \A f \in content' \ content : f[1] = e[1] => f = e
    /\ UNCHANGED safe

\* More of it reaches the disk.
Harden ==
    /\ UNCHANGED content
    /\ safe \subseteq safe' /\ safe' \subseteq content

\* The machine loses power.
PowerCut ==
    /\ safe \subseteq content' /\ content' \subseteq content
    /\ safe' = content'

Next == Append \/ Harden \/ PowerCut

Spec == Init /\ [][Next]_<<content, safe>>
=============================================================================
