---------------------------- MODULE ReviewVerdict ----------------------------
(***************************************************************************)
(* How a reviewer's answer becomes a branch of the run                     *)
(* (internal/core/verdict.go, and persistReviewVerdict and                 *)
(* decideFromVerdict of internal/engine/stage.go): the JSON objects are    *)
(* scanned out of the text, the last one with a status is the verdict, a   *)
(* verdict that contradicts itself is none, and the persisted one decides. *)
(*                                                                         *)
(* A text is a sequence of characters, of which the scan tells apart       *)
(* braces, quotes and escapes; an envelope's fields are one more           *)
(* character, the name of the verdict they say.                            *)
(***************************************************************************)
EXTENDS Naturals, Sequences, FiniteSets, SequencesExt

CONSTANTS
  Verdicts,   \* Verdicts[v]: the status, findings and reason of the envelope named v
  Bodies,     \* what else an envelope may hold
  TidyProse,  \* what a reviewer may write around it, with closed quotes and braces
  OtherProse, \* and with open ones
  Data,       \* the structured output: the name of an envelope, or None without a status
  MaxPieces,  \* bound on the pieces of a text
  Budget      \* reviewIterationBudget, 0 for no limit

VARIABLES
  iteration,  \* which review of the run this is
  data,       \* Result.Data
  pieces,     \* what the reviewer wrote: Result.Markdown is its concatenation
  verdict,    \* reviews/<stage>/iteration-N/verdict.json
  branch      \* how the review ended: "open", "next", "fix" or "blocked"

vars == <<iteration, data, pieces, verdict, branch>>

None == "none"
Quote == "quote"

\* The envelope named v, as it is written.
Object(v, body) == <<"{", Quote, v, Quote>> \o body \o <<"}">>

Envelopes == {[kind |-> "object", says |-> v, text |-> Object(v, b)] : v \in DOMAIN Verdicts, b \in Bodies}
Prose == {[kind |-> "prose", says |-> None, text |-> t] : t \in TidyProse \cup OtherProse}

Markdown == FlattenSeq([i \in DOMAIN pieces |-> pieces[i].text])

-----------------------------------------------------------------------------
(* Reading a text *)

\* The closing quote of the string that opens at i, or the end of the text.
SkipString(text, i) ==
  LET skip[j \in 1 .. Len(text) + 2] ==
        IF j > Len(text) THEN Len(text)
        ELSE CASE text[j] = "escape" -> skip[j + 2]
               [] text[j] = Quote    -> j
               [] OTHER              -> skip[j + 1]
  IN skip[i + 1]

\* The outermost objects.
JsonObjects(text) ==
  LET scan[i \in 1 .. Len(text) + 1, depth \in 0 .. Len(text), start \in 0 .. Len(text)] ==
        IF i > Len(text) THEN <<>>
        ELSE CASE text[i] = Quote -> scan[SkipString(text, i) + 1, depth, start]
               [] text[i] = "{"   -> scan[i + 1, depth + 1, IF depth = 0 THEN i ELSE start]
               [] text[i] = "}" /\ depth = 1 -> <<SubSeq(text, start, i)>> \o scan[i + 1, 0, start]
               [] text[i] = "}" /\ depth > 1 -> scan[i + 1, depth - 1, start]
               [] OTHER           -> scan[i + 1, depth, start]
  IN scan[1, 0, 0]

\* json.Unmarshal: what else stands between two braces is no JSON.
Unmarshal(candidate) ==
  LET is == {e \in Envelopes : e.text = candidate} IN IF is = {} THEN None ELSE (CHOOSE e \in is : TRUE).says

HasStatus(v) == v # None /\ Verdicts[v].status # None

\* Mutant: the first one wins.
FirstVerdictObject(text) ==
  LET found == SelectSeq(JsonObjects(text), LAMBDA c : HasStatus(Unmarshal(c))) IN
  IF found = <<>> THEN None ELSE Unmarshal(Head(found))

ExtractVerdictObject(text) ==
  LET found == SelectSeq(JsonObjects(text), LAMBDA c : HasStatus(Unmarshal(c))) IN
  IF found = <<>> THEN None ELSE Unmarshal(Last(found))

-----------------------------------------------------------------------------
(* ValidateVerdict *)

Actionable(v) == {f \in Verdicts[v].findings : f.severity \in {"blocker", "major"}}

\* Mutant: what an approval says beside itself is not looked at.
ValidateStatusOnly(v) == Verdicts[v].status \in {"approved", "needs_fixes", "blocked"}

ValidateVerdict(v) ==
  /\ \A f \in Verdicts[v].findings : f.severity \in {"blocker", "major", "minor"} /\ f.message
  /\ \/ Verdicts[v].status = "approved" /\ Actionable(v) = {}
     \/ Verdicts[v].status = "needs_fixes" /\ Actionable(v) # {}
     \/ Verdicts[v].status = "blocked" /\ Verdicts[v].reason

ParseVerdict(v) == IF ValidateVerdict(v) THEN v ELSE None

\* The structured output is authoritative when it has a status, a wrong one too.
ParseVerdictFromResult ==
  LET v == IF HasStatus(data) THEN data ELSE ExtractVerdictObject(Markdown) IN
  IF v = None THEN None ELSE ParseVerdict(v)

-----------------------------------------------------------------------------
(* The review's end *)

Init ==
  /\ iteration \in 1 .. Budget + 1
  /\ data \in Data
  /\ pieces \in BoundedSeq(Envelopes \cup Prose, MaxPieces)
  /\ verdict = None /\ branch = "open"

PersistReviewVerdict ==
  /\ branch = "open" /\ verdict = None
  /\ verdict' = ParseVerdictFromResult
  /\ branch' = IF verdict' = None THEN "blocked" ELSE "open"
  /\ UNCHANGED <<iteration, data, pieces>>

DecideFromVerdict ==
  /\ branch = "open" /\ verdict # None
  /\ branch' = CASE Verdicts[verdict].status = "approved" -> "next"
                 [] Verdicts[verdict].status = "needs_fixes" ->
                      IF Budget > 0 /\ iteration >= Budget THEN "blocked" ELSE "fix"
                 [] OTHER -> "blocked"
  /\ UNCHANGED <<iteration, data, pieces, verdict>>

Next == PersistReviewVerdict \/ DecideFromVerdict

Spec == Init /\ [][Next]_vars

-----------------------------------------------------------------------------
(* Properties *)

Tidy == \A i \in DOMAIN pieces : pieces[i] \in Prose => pieces[i].text \in TidyProse

\* The last thing with a status that the reviewer wrote, None without one.
LastSaid ==
  LET said == {i \in DOMAIN pieces : HasStatus(pieces[i].says)} IN
  IF said = {} THEN None ELSE pieces[CHOOSE i \in said : \A j \in said : j <= i].says

\* What a reader takes the answer for.
Meant == IF HasStatus(data) THEN data ELSE LastSaid

Consistent(v) ==
  v # None /\
  CASE Verdicts[v].status = "approved" -> \A f \in Verdicts[v].findings : f = [severity |-> "minor", message |-> TRUE]
    [] Verdicts[v].status = "needs_fixes" ->
         /\ \E f \in Verdicts[v].findings : f.severity \in {"blocker", "major"}
         /\ \A f \in Verdicts[v].findings : f.message /\ f.severity # "unknown"
    [] Verdicts[v].status = "blocked" ->
         Verdicts[v].reason /\ \A f \in Verdicts[v].findings : f.message /\ f.severity # "unknown"
    [] OTHER -> FALSE

\* extractVerdictObject: the branch is the one of the reviewer's last word, however many
\* verdicts, nested objects, braces and quotes stand around it; when that one contradicts
\* itself no earlier one takes its place.
LastVerdictDecides ==
  Tidy /\ branch # "open" =>
    branch = IF ~Consistent(Meant) THEN "blocked"
             ELSE CASE Verdicts[Meant].status = "approved" -> "next"
                    [] Verdicts[Meant].status = "needs_fixes" /\ (iteration < Budget \/ Budget = 0) -> "fix"
                    [] OTHER -> "blocked"

\* The same of every text, tidy or not, as the comment of extractVerdictObject has it.
LastObjectIsTheVerdict ==
  branch = "next" /\ ~HasStatus(data) => LastSaid # None /\ Verdicts[LastSaid].status = "approved"

\* ParseVerdictFromResult: whatever the text, a run passes its review only if the reviewer
\* wrote an approval without defects somewhere, and the structured output has no other.
ApprovalWasGiven ==
  branch = "next" =>
    IF HasStatus(data) THEN Verdicts[data].status = "approved" /\ Consistent(data)
    ELSE \E i \in DOMAIN pieces :
           LET v == pieces[i].says IN HasStatus(v) /\ Verdicts[v].status = "approved" /\ Consistent(v)
=============================================================================
