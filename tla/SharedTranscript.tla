-------------------------- MODULE SharedTranscript --------------------------
(***************************************************************************)
(* What chat2 promises, without sockets, sequence numbers, cursors or      *)
(* checkpoints: every device holds a set of updates, the room stores a set *)
(* of updates that only grows, a device learns what is stored, and a       *)
(* device that dies forgets nothing that exists nowhere else.              *)
(***************************************************************************)
CONSTANTS Devices, Batches

VARIABLES
    written,   \* updates that were ever made
    stored,    \* updates the room can still hand to a new reader
    held       \* held[d]: updates device d holds

tvars == <<written, stored, held>>

TranscriptInit ==
    /\ written = {}
    /\ stored = {}
    /\ held = [d \in Devices |-> {}]

HeldElsewhere(d) == UNION {held[e] : e \in Devices \ {d}}

\* A device makes an update; it holds it at once, online or not.
Write(d, b) ==
    /\ b \notin written
    /\ written' = written \cup {b}
    /\ held' = [held EXCEPT ![d] = @ \cup {b}]
    /\ UNCHANGED stored

\* The room receives updates that somebody holds: a pushed row, or a checkpoint.
Publish(S) ==
    /\ S \subseteq written
    /\ stored' = stored \cup S
    /\ UNCHANGED <<written, held>>

\* A device receives updates the room stores or another device holds (the latter
\* inside a checkpoint that ran ahead of the rows).
Learn(d, S) ==
    /\ S \subseteq stored \cup HeldElsewhere(d)
    /\ held' = [held EXCEPT ![d] = @ \cup S]
    /\ UNCHANGED <<written, stored>>

\* A device dies and comes back with less, but loses only what exists elsewhere.
Restart(d, S) ==
    /\ S \subseteq stored \cup HeldElsewhere(d)
    /\ held' = [held EXCEPT ![d] = @ \ S]
    /\ UNCHANGED <<written, stored>>

TranscriptNext ==
    \/ \E d \in Devices, b \in Batches : Write(d, b)
    \/ \E S \in SUBSET Batches : Publish(S)
    \/ \E d \in Devices, S \in SUBSET Batches : Learn(d, S) \/ Restart(d, S)

TranscriptSpec == TranscriptInit /\ [][TranscriptNext]_tvars

-----------------------------------------------------------------------------
\* Every update ever made is held by some device or stored in the room, and
\* nobody holds an update that was never made (the promise behind the outbox
\* of store.rs and the checkpoint of chat-log.ts).
NothingIsLost ==
    /\ \A b \in written : b \in stored \/ \E d \in Devices : b \in held[d]
    /\ stored \subseteq written
    /\ \A d \in Devices : held[d] \subseteq written
=============================================================================
