----------------------------- MODULE RoundTrip ------------------------------
(***************************************************************************)
(* The commands `delta`, `patch` and `verify` on the same files: a patch   *)
(* is made and applied, then the output is compared with the new file, or  *)
(* with the old one.                                                       *)
(***************************************************************************)
EXTENDS DeltaPatch, Verify

(* All three commands read the same files.                                  *)
ASSUME OctetAssumption == Octet = Byte

allVars == <<vars, verifyVars>>

RoundTripInit == Init /\ VerifyInit

(* `verify` is run once, on finished files.                                 *)
Compare ==
    /\ pc = "done" /\ verdict = "none"
    /\ \E f \in {new, old.bytes} : VerifyStart(f, out)
    /\ UNCHANGED vars

RoundTripNext ==
    \/ Next /\ UNCHANGED verifyVars
    \/ Compare
    \/ VerifyRead /\ UNCHANGED vars

RoundTripSpec == RoundTripInit /\ [][RoundTripNext]_allVars
-----------------------------------------------------------------------------
(* Safety: what the applier wrote is never reported to differ from the new  *)
(* file, unless a read fell short (`delta`, `patch` and `verify` together:  *)
(* README, Original == Recreated).                                          *)
RecreatedVerifies ==
    pc = "done" /\ fileA = new /\ verdict = "differ" => short
=============================================================================
