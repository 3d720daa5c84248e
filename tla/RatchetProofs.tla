--------------------------- MODULE RatchetProofs ---------------------------
(***************************************************************************)
(* What follows of any gate over decisions, and so of what implements one. *)
(***************************************************************************)
EXTENDS Ratchet, TLAPS

\* What landed kept its decisions.
LandedKept == Kept(landed) /\ (verdict = "pass" => Kept(candidate))

\* Whatever is proposed, no decision is older than its gap.
THEOREM DecidedAnew == Spec => GapsAreDecidedAnew
<1>1. Init => LandedKept BY DEF Init, Nothing, Kept, LandedKept
<1>2. LandedKept /\ [Next]_vars => LandedKept'
  BY DEF LandedKept, Next, Judge, Propose, Kept, vars
<1>3. LandedKept /\ [Next]_vars =>
        [landed' # landed /\ landed.strict => ((UNION landed'.readings) \ (UNION landed.readings)) \cap landed.decided = {}]_vars
  BY DEF LandedKept, Kept
<1> QED BY <1>1, <1>2, <1>3, PTL DEF Spec, GapsAreDecidedAnew
=============================================================================
