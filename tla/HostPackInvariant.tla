-------------------------- MODULE HostPackInvariant --------------------------
(***************************************************************************)
(* The invariant of HostPack: what a command has still to change, what it  *)
(* can put back, and what the rest of the project has become.              *)
(* HostPackProofs proves that every step keeps it.                         *)
(***************************************************************************)
EXTENDS HostPack

-----------------------------------------------------------------------------
(* Plans *)

\* The paths that a sequence of writes has still to change.
Pending(s) == {x.path : x \in Range(s)}

\* No path twice, and none of some paths before another one.
Distinct(s) == \A i, j \in DOMAIN s : s[i].path = s[j].path => i = j
GoLast(s, some) == \A i, j \in DOMAIN s : i <= j /\ s[i].path \in some => s[j].path \in some

\* What the command saw when it planned.
StrangersSeen == {d \in Files : seen[d] # Absent /\ ~Owns(cmd.v, seen[d])}
MissingSeen == Declared[cmd.v] \ RulesSeen
StaleSeen == (ClaimsSeen \cap Catalog[cmd.v]) \ Declared[cmd.v]
NewRules == (RulesSeen \ StaleSeen) \cup MissingSeen
NewClaims == ((ClaimsSeen \cap Catalog[cmd.v]) \cup MissingSeen) \ StaleSeen

\* A rule that every release that is used knows for its own.
Known(r) == \A v \in Versions : r \in Catalog[v]

-----------------------------------------------------------------------------
(* The invariant *)

\* A command plans on what it sees, and overwrites strangers only by force.
PlanHolds ==
  /\ cmd.op = "none" => cmd = Idle /\ todo = <<>> /\ undo = <<>>
  /\ cmd.op # "none" => cmd.v \in Versions /\ (StrangersSeen # {} => cmd.force)
  /\ cmd.op \in {"install", "rollback"} => cmd.replaced = StrangersSeen
  /\ cmd.op \in {"install", "uninstall"} => todo # <<>>
  /\ cmd.op = "rollback" => todo = <<>>
  /\ cmd.op = "uninstall" => cmd.claims = ClaimsSeen \cap Catalog[cmd.v]
  /\ Distinct(todo)
  /\ \A x \in Range(todo) : x.path \notin touched => disk[x.path] = seen[x.path]

\* What an install has still to write, and what the rest has become.
InstallGoesOn ==
  cmd.op = "install" =>
    /\ Range(todo) \subseteq
         {Put(d, Pack(cmd.v)) : d \in Files}
         \cup {Put("settings", Allow(NewRules)), Put("ledger", Claims(NewClaims)), Put("portable", Record("ours")),
               Put("legacy", Absent)}
    /\ "legacy" \in Pending(todo) /\ GoLast(todo, {"legacy"})
    /\ \A d \in Files \ touched : d \in Pending(todo) \/ disk[d] = Pack(cmd.v)
    /\ "settings" \in Pending(todo) \cup touched \/ (disk["settings"] # Symlink /\ RulesAt("settings") = NewRules)
    /\ "ledger" \in Pending(todo) \cup touched \/ disk["ledger"] = Claims(NewClaims)
    /\ "portable" \in Pending(todo) \cup touched \/ disk["portable"] = Record("ours")

\* What an uninstall has still to remove, and what the rest has become.
UninstallGoesOn ==
  cmd.op = "uninstall" =>
    /\ "portable" \in Pending(todo) /\ GoLast(todo, {"legacy", "portable"}) /\ GoLast(todo, {"portable"})
    /\ \A p \in Files \cup {"ledger"} : p \in Pending(todo) \cup touched \/ disk[p] = Absent
    /\ "settings" \in Pending(todo) => cmd.withdraw
    /\ cmd.withdraw => "settings" \in Pending(todo) \cup touched \/ RulesAt("settings") \cap cmd.claims = {}

\* An install can put back whatever it has changed.
UndoHolds ==
  /\ Distinct(undo) /\ Pending(undo) \cap Pending(todo) = {}
  /\ cmd.op = "install" => out = "running"
  /\ cmd.op = "rollback" => out = "running" \/ (out = "half undone" /\ lost)
  /\ cmd.op \in {"install", "rollback"} =>
       /\ \A x \in Range(undo) : x.path \notin touched => x.entry = seen[x.path]
       /\ \A p \in Paths \ touched : disk[p] = seen[p] \/ p \in Pending(undo) \/ out = "half undone"
       /\ \A d \in Files \ touched : disk[d] \in {seen[d], Pack(cmd.v)}

\* The rules that installs added and the ledger does not claim are those that this install
\* is about to claim, or to take back.
TakesBack(r) == \E x \in Range(undo) : x.path = "settings" /\ r \notin RulesIn(x.entry)

RulesAreClaimed ==
  ~lost =>
    \A r \in put : Known(r) =>
      /\ cmd.op \in {"none", "uninstall"} => r \in RulesAt("ledger")
      /\ cmd.op \in {"install", "rollback"} => r \in ClaimsSeen \/ TakesBack(r)
      /\ cmd.op = "install" =>
           IF "settings" \in Pending(todo) THEN r \in ClaimsSeen ELSE r \in NewClaims \cap Declared[cmd.v]

LedgerIsUntouched == ~lost /\ cmd.op \in {"install", "rollback"} => "ledger" \notin touched

PackInv ==
  /\ TypeOK /\ PlanHolds /\ InstallGoesOn /\ UninstallGoesOn /\ UndoHolds /\ RulesAreClaimed /\ LedgerIsUntouched
=============================================================================
