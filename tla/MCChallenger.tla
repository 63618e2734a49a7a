---------------------------- MODULE MCChallenger ----------------------------
(***************************************************************************)
(* Instances of Challenger: either a browser that requests anything from   *)
(* two addresses, or a patient visitor.                                    *)
(***************************************************************************)
EXTENDS Challenger, TLC

VARIABLE patient   \* is the browser used by a patient visitor?

Ch(type, threshold, white) ==
    [type |-> type, fail_tolerance_threshold |-> threshold,
     challenge_validity_period |-> 2, white_listed_ips |-> white]

Mixed == {<<Ch("captcha", 3, {})>>,
          <<Ch("sha_inverse", 2, {}), Ch("captcha", 0, {"ip2"})>>,
          <<Ch("auth", 0, {}), Ch("captcha", 2, {})>>,
          <<Ch("auth", 3, {}), Ch("sha_inverse", 0, {})>>}
Switching == {<<Ch("captcha", 0, {})>>, <<Ch("sha_inverse", 0, {})>>, <<Ch("auth", 0, {})>>}
MixedAndSwitching == Mixed \cup Switching

IpStrings == {"ip1", "ip2"}
TextStrings == {"text1", "text2"}
LastIp == {"ip2"}

Offered == IF patient THEN Switching ELSE Mixed
MixedReloads == 1   \* the constant bounds the reloads of a visit

MCVars == <<vars, patient>>
MCInit == Init /\ patient \in BOOLEAN /\ challenges \in Offered

VisitorTurn(b) == patient /\ VisitorStep(b, "ip1") /\ UNCHANGED patient
MCNext ==
    \/ \E b \in Browsers : VisitorTurn(b)
    \/ ~patient /\ BrowserStep /\ UNCHANGED patient
    \/ /\ patient \/ budget.reloads > MaxReloads - MixedReloads
       /\ Reload /\ challenges' \in Offered /\ UNCHANGED patient
    \/ Tick /\ UNCHANGED patient

\* The server and the visitor keep going; nobody else does anything during a
\* visit but reload the configuration and wait.
MCSpec == /\ MCInit /\ [][MCNext]_MCVars
          /\ \A b \in Browsers : WF_MCVars(VisitorTurn(b))

\* A visitor who does what the pages ask for gets the content again and again, also
\* when the host changes from one kind of challenge to another meanwhile: the
\* old cookie must not keep the new challenge from storing its solution.
EventuallyServed ==
    patient => \A b \in Browsers : []<>(shown[b].what \in {"content", "fresh"})
=============================================================================
