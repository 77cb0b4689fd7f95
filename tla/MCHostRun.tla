------------------------------ MODULE MCHostRun ------------------------------
(* HostRun on the built-in workflows, with the small sets its runs draw from. *)
EXTENDS HostRun

PassOrFail == {"pass", "fail"}
EveryOutcome == {"pass", "fail", "mutate", "refused", "missing", "required"}

NoEdits == {}
PlainEdits == {"plain"}
EveryEdit == {"plain", "sensitive"}

ApprovedOrFixes == {"approved", "needs_fixes"}
EveryVerdict == {"approved", "needs_fixes", "blocked"}

NoArtifacts == {None}
EveryArtifact == {None, "good", "bad"}
=============================================================================
