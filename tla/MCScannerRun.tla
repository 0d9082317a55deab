---------------------------- MODULE MCScannerRun ----------------------------
(* Plans of one program, for the operator's stop.                           *)
EXTENDS ScannerRun

MCScanPlans == {<<"gitleaks">>, <<"yara">>}
MCScanTargets == {{"text"}}
=============================================================================
