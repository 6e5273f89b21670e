--------------------------- MODULE ReliableQueue ---------------------------
(***************************************************************************)
(* What src/src/core/jobs/jobQueue.ts promises, without its two Redis      *)
(* lists: one waiting line, oldest id last, of which the last `taken` ids  *)
(* are with a consumer.  Ids are taken oldest first; an id that is given   *)
(* back keeps its place; nothing but Discard ever takes an id out of the    *)
(* line.  A crash of the consumers is therefore a stuttering step.         *)
(***************************************************************************)
EXTENDS SequencesExt

CONSTANT Ids

VARIABLES line,   \* every id in the system, newest first
          taken   \* how many of the oldest ones are with a consumer

Init == line = <<>> /\ taken = 0

\* A producer adds an id behind all the others.
Put(id) ==
    /\ line' = <<id>> \o line
    /\ UNCHANGED taken

\* A consumer takes the oldest id that no consumer has.
Take ==
    /\ taken < Len(line)
    /\ taken' = taken + 1
    /\ UNCHANGED line

\* An id that was taken becomes available again, at its old place.
GiveBack ==
    /\ taken > 0
    /\ taken' = taken - 1
    /\ UNCHANGED line

\* A taken id is done with: one occurrence of it leaves the line.
Discard(id) ==
    /\ \E i \in (Len(line) - taken + 1) .. Len(line) :
          line[i] = id /\ line' = RemoveAt(line, i)
    /\ taken' = taken - 1

Next ==
    \/ \E id \in Ids : Put(id) \/ Discard(id)
    \/ Take
    \/ GiveBack

Spec == Init /\ [][Next]_<<line, taken>>
=============================================================================
