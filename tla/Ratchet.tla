------------------------------ MODULE Ratchet ------------------------------
(***************************************************************************)
(* What the gates over a list of decisions promise, whatever they measure: *)
(* a candidate has gaps, and decisions on gaps that its developer has      *)
(* recorded.  Where it can be read in several ways it has the gaps of each *)
(* reading.  A gate may fail any candidate, for want of a file or of a     *)
(* program that loads, and passes one only if its decisions cover the gaps *)
(* of a reading and, where it is strict, cover nothing else.  What passes  *)
(* may land, and is the past of the candidate after it.                    *)
(*                                                                         *)
(* WalkGate and CrdGate implement it.                                      *)
(***************************************************************************)

CONSTANT Candidates  \* records of readings, which are sets of gaps, decided and strict

VARIABLES
  candidate,  \* what is under the gate
  landed,     \* what passed it last and landed
  verdict     \* "none" until the gate has one

vars == <<candidate, landed, verdict>>

Nothing == [readings |-> {{}}, decided |-> {}, strict |-> TRUE]

Kept(c) == \E gaps \in c.readings : gaps \subseteq c.decided /\ (c.strict => c.decided \subseteq gaps)

Init == candidate \in Candidates /\ landed = Nothing /\ verdict = "none"

Judge ==
  /\ verdict = "none"
  /\ verdict' = "fail" \/ (verdict' = "pass" /\ Kept(candidate))
  /\ UNCHANGED <<candidate, landed>>

Propose ==
  /\ verdict # "none"
  /\ landed' = IF verdict = "pass" THEN candidate ELSE landed
  /\ candidate' \in Candidates
  /\ verdict' = "none"

Next == Judge \/ Propose

Spec == Init /\ [][Next]_vars

-----------------------------------------------------------------------------

\* Where the last landing was strict, no gap of the next one that it did not have
\* is one that it had a decision for: no decision is older than its gap.
GapsAreDecidedAnew ==
  [][landed' # landed /\ landed.strict => ((UNION landed'.readings) \ (UNION landed.readings)) \cap landed.decided = {}]_vars
=============================================================================
