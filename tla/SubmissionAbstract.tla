------------------------- MODULE SubmissionAbstract -------------------------
(***************************************************************************)
(* What the DA submission path promises (spec 4.1, 4.3.2), seen from the   *)
(* outside: the DA layer and the store's metadata.  Goroutines, the        *)
(* in-memory lastSubmittedHeight, failed calls and restarts are hidden.    *)
(*                                                                         *)
(*  - the store grows one block at a time;                                  *)
(*  - a blob set of stored blocks lo..hi lands at the next DA height, and  *)
(*    it starts at 1 or right after a height already on the DA, so the     *)
(*    landed heights are always a prefix (resubmissions repeat heights);   *)
(*  - only a height that is stored and on the DA is ever persisted as the  *)
(*    last submitted one (at-least-once: it may be persisted lower than a  *)
(*    height persisted before, and blocks may land twice).                 *)
(***************************************************************************)
EXTENDS Naturals, Sequences

CONSTANTS
  MaxHeight,    \* bound on the store height
  NoMeta        \* the metadata key is absent

VARIABLES
  height,       \* store.Height()
  daChain,      \* daChain[d]: the heights [lo, hi] of the blob set at DA height d
  meta          \* the persisted last-submitted height, or NoMeta

avars == <<height, daChain, meta>>

Batches == [lo : 1..MaxHeight, hi : 1..MaxHeight]

(* Height n is carried by some blob set on the DA. *)
OnDA(n) == \E d \in 1..Len(daChain) : daChain[d].lo <= n /\ n <= daChain[d].hi

Init ==
  /\ height = 0
  /\ daChain = << >>
  /\ meta = NoMeta

Produce ==
  /\ height < MaxHeight
  /\ height' = height + 1
  /\ UNCHANGED <<daChain, meta>>

(* Blob set b of stored blocks lands, continuing the landed prefix.        *)
Land(b) ==
  /\ b.lo <= b.hi /\ b.hi <= height
  /\ b.lo = 1 \/ OnDA(b.lo - 1)
  /\ daChain' = Append(daChain, b)
  /\ UNCHANGED <<height, meta>>

(* A stored height that is on the DA is persisted as the last submitted.  *)
Persist ==
  /\ \E n \in 1..height : OnDA(n) /\ meta' = n
  /\ UNCHANGED <<height, daChain>>

Next == Produce \/ (\E b \in Batches : Land(b)) \/ Persist

(* A landing that carries a block not on the DA yet.                       *)
LandNew == \E b \in Batches : Land(b) /\ ~OnDA(b.hi)

SafeSpec == Init /\ [][Next]_avars

(* The submission loop keeps landing new blocks while some stored block is *)
(* not on the DA.                                                           *)
Spec == SafeSpec /\ WF_avars(LandNew)

=============================================================================
