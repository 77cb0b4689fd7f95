------------------------------ MODULE MCHeadless ------------------------------
(* Headless on the built-in workflows, with the small sets its runs draw from. *)
EXTENDS Headless

Ready == {"ready"}
EveryStart == {"ready", "refused", "noadapter"}
PlainEnds == {"ok", "failed"}
EveryEnd == {"ok", "failed", "invalid", "unaudited", "unstarted"}
PassOrFail == {"pass", "fail"}
EveryOutcome == {"pass", "fail", "mutate", "refused", "missing", "required"}
Approved == {"approved"}
EveryVerdict == {"approved", "needs_fixes", "blocked", "none"}
=============================================================================
