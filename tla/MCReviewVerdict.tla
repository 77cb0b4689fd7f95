--------------------------- MODULE MCReviewVerdict ---------------------------
(* ReviewVerdict on a verdict of each sort, and what may surround one. *)
EXTENDS ReviewVerdict, TLC

Says(status, findings, reason) == [status |-> status, findings |-> findings, reason |-> reason]
Found(severity) == [severity |-> severity, message |-> TRUE]

MCVerdicts ==
  [ok      |-> Says("approved", {Found("minor")}, FALSE),
   notOk   |-> Says("approved", {Found("minor"), Found("major")}, FALSE),
   fix     |-> Says("needs_fixes", {Found("minor"), Found("blocker")}, FALSE),
   vague   |-> Says("needs_fixes", {[severity |-> "major", message |-> FALSE]}, FALSE),
   nothing |-> Says("needs_fixes", {Found("minor")}, TRUE),
   odd     |-> Says("needs_fixes", {Found("unknown"), Found("major")}, TRUE),
   stuck   |-> Says("blocked", {}, TRUE),
   mute    |-> Says("blocked", {}, FALSE),
   maybe   |-> Says("maybe", {}, TRUE),
   plain   |-> Says(None, {}, FALSE)]

MCData == {None, "fix", "maybe"}

String(chars) == <<Quote>> \o chars \o <<Quote>>
\* A summary, one with a brace and an escaped quote in it, and a nested approval.
MCBodies == {String(<<"word">>), String(<<"}", "escape", Quote>>), Object("ok", String(<<"word">>))}
MCTidy == {<<"word">>, <<"}">>, <<"{", "word", "}">>, String(<<"{">>)}
MCOther == {<<Quote>>, <<"{">>}
NoOther == {}
=============================================================================
