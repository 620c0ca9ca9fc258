--------------------------- MODULE TranscriptProofs ---------------------------
(***************************************************************************)
(* The abstract transcript keeps every update, for any devices and updates. *)
(* Whatever implements TranscriptSpec inherits the theorem.                *)
(***************************************************************************)
EXTENDS SharedTranscript, TLAPS

TranscriptInv == held \in [Devices -> SUBSET Batches] /\ NothingIsLost

\* The empty transcript has lost nothing.
LEMMA TranscriptStart == TranscriptInit => TranscriptInv
BY DEF TranscriptInit, TranscriptInv, NothingIsLost

\* No step of the transcript loses an update: what a restart forgets is stored
\* in the room or held by another device.
LEMMA TranscriptStep == TranscriptInv /\ [TranscriptNext]_tvars => TranscriptInv'
<1> SUFFICES ASSUME TranscriptInv, [TranscriptNext]_tvars PROVE TranscriptInv'
  OBVIOUS
<1>1. ASSUME NEW d \in Devices, NEW b \in Batches, Write(d, b) PROVE TranscriptInv'
  BY <1>1 DEF Write, TranscriptInv, NothingIsLost
<1>2. ASSUME NEW S \in SUBSET Batches, Publish(S) PROVE TranscriptInv'
  BY <1>2 DEF Publish, TranscriptInv, NothingIsLost
<1>3. ASSUME NEW d \in Devices PROVE HeldElsewhere(d) \subseteq written
  BY DEF HeldElsewhere, TranscriptInv, NothingIsLost
<1>4. ASSUME NEW d \in Devices, NEW S \in SUBSET Batches, Learn(d, S) PROVE TranscriptInv'
  BY <1>3, <1>4 DEF Learn, TranscriptInv, NothingIsLost
<1>5. ASSUME NEW d \in Devices, NEW S \in SUBSET Batches, Restart(d, S) PROVE TranscriptInv'
  <2>1. \A e \in Devices : e # d => held'[e] = held[e]
    BY <1>5 DEF Restart, TranscriptInv
  <2>2. held' \in [Devices -> SUBSET Batches] /\ \A e \in Devices : held'[e] \subseteq held[e]
    BY <1>5 DEF Restart, TranscriptInv
  <2>3. \A b \in held[d] : b \in held'[d] \/ b \in stored \cup HeldElsewhere(d)
    BY <1>5 DEF Restart, TranscriptInv
  <2>4. \A b \in HeldElsewhere(d) : \E e \in Devices : b \in held'[e]
    BY <2>1 DEF HeldElsewhere
  <2>5. written' = written /\ stored' = stored
    BY <1>5 DEF Restart
  <2>6. ASSUME NEW b \in written PROVE b \in stored \/ \E e \in Devices : b \in held'[e]
    <3>1. b \in stored \/ \E e \in Devices : b \in held[e]
      BY DEF TranscriptInv, NothingIsLost
    <3>2. QED
      BY <2>1, <2>3, <2>4, <3>1
  <2>7. QED
    BY <2>2, <2>5, <2>6 DEF TranscriptInv, NothingIsLost
<1>6. CASE UNCHANGED tvars
  BY <1>6 DEF tvars, TranscriptInv, NothingIsLost
<1>7. QED
  BY <1>1, <1>2, <1>4, <1>5, <1>6 DEF TranscriptNext

\* An update is never lost, and none is held or stored that was never made.
THEOREM TranscriptKeepsAll == TranscriptSpec => []NothingIsLost
<1>1. TranscriptInv => NothingIsLost
  BY DEF TranscriptInv
<1>2. QED
  BY <1>1, TranscriptStart, TranscriptStep, PTL DEF TranscriptSpec
=============================================================================
