------------------------------ MODULE HostPack ------------------------------
(***************************************************************************)
(* Installing, upgrading and uninstalling a host pack                      *)
(* (cmd/vichu/hostpack.go): the pack's files, the permission rules merged  *)
(* into the host's settings, the ledger of the rules an install added, and *)
(* the record that says a pack is installed.                               *)
(*                                                                         *)
(* A command plans first and then changes one path at a time; it may die   *)
(* or fail to write between any two. The user, or an agent, may edit any   *)
(* of the paths in between. The host-pack lock (RunLock) lets one command  *)
(* run at a time.                                                          *)
(***************************************************************************)
EXTENDS Naturals, Sequences, SequencesExt, FiniteSets

CONSTANTS
  Dests,      \* the pack's files, in the order of its manifest
  Sorted,     \* and sorted by their names
  Versions,   \* the releases of the program, 1 .. n
  Declared,   \* Declared[v]: the permission rules the pack of v asks for
  Catalog,    \* Catalog[v]: vichuAuthoredRules of v
  OwnRules,   \* rules only the user writes
  Projects,   \* the projects a history may start from
  MaxCommands, \* bound on the commands
  MaxEdits,   \* bound on the edits of the user or the agent
  MaxCrashes, \* bound on the commands killed
  MaxFails    \* bound on the failing writes

Files == Range(Dests)
Others == {"settings", "ledger", "portable", "legacy"}
Paths == Files \cup Others

\* hostpacks.ValidateDests: no destination twice; and no manifest names the settings or a record.
ASSUME DestsAssumption ==
  /\ Dests \in Seq(Files) /\ Sorted \in Seq(Files) /\ Range(Sorted) = Files
  /\ \A order \in {Dests, Sorted} : \A i, j \in DOMAIN order : order[i] = order[j] => i = j
  /\ Files \cap Others = {}

\* vichuAuthoredRules has every rule its release asks for.
ASSUME CatalogAssumption ==
  Versions \subseteq Nat /\ \A v \in Versions : Declared[v] \subseteq Catalog[v]

VARIABLES
  disk,    \* what is at each path
  cmd,     \* the running command, or Idle
  todo,    \* the paths it still has to change, and to what
  undo,    \* undoLog.restore, the latest first
  out,     \* how the last command ended
  seen,    \* history: disk when the command planned
  touched, \* history: the paths edited since
  put,     \* history: the rules that installs added to the settings
  lost,    \* history: a command left the ledger behind the settings, or somebody edited it
  spent    \* how much of the bounds is used

vars == <<disk, cmd, todo, undo, out, seen, touched, put, lost, spent>>

Rules == OwnRules \cup UNION {Catalog[v] : v \in Versions}

Absent == [kind |-> "absent"]
Pack(v) == [kind |-> "pack", version |-> v]
Foreign == [kind |-> "foreign"]
Symlink == [kind |-> "symlink"]
Allow(rules) == [kind |-> "allow", rules |-> rules]
Claims(rules) == [kind |-> "claims", rules |-> rules]
Record(host) == [kind |-> "record", host |-> host]

\* What may be at a path.
EntriesAt(p) ==
  CASE p \in Files -> {Absent, Foreign, Symlink} \cup {Pack(v) : v \in Versions}
    [] p = "settings" -> {Absent, Symlink} \cup {Allow(rules) : rules \in SUBSET Rules}
    [] p = "ledger" -> {Absent} \cup {Claims(rules) : rules \in SUBSET Rules}
    [] p = "portable" -> {Absent, Symlink} \cup {Record(host) : host \in {"ours", "other"}}
    [] p = "legacy" -> {Absent} \cup {Record(host) : host \in {"ours", "other"}}

IsDisk(d) == d = [p \in Paths |-> d[p]] /\ \A p \in Paths : d[p] \in EntriesAt(p)

ASSUME ProjectsAssumption == \A d \in Projects : IsDisk(d)

\* The rules of the settings or of the ledger, none where there is no file.
RulesIn(e) == IF e.kind \in {"allow", "claims"} THEN e.rules ELSE {}
RulesAt(p) == RulesIn(disk[p])

Idle == [op |-> "none", v |-> 1, force |-> FALSE, withdraw |-> FALSE, claims |-> {}, replaced |-> {}]

Init ==
  /\ disk \in Projects
  /\ cmd = Idle /\ todo = <<>> /\ undo = <<>> /\ out = "none"
  /\ seen = disk /\ touched = {}
  /\ put = {} /\ lost = FALSE
  /\ spent = [commands |-> 0, edits |-> 0, crashes |-> 0, fails |-> 0]

-----------------------------------------------------------------------------
(* Whose is it? *)

\* packOwnership.owns: what v ships, or what a release before it shipped.
Owns(v, e) == e.kind = "pack" /\ e.version <= v

\* Mutant: what a symlink points at is taken for the file.
StrangersFollowingLinks(v) == {d \in Files : disk[d] = Foreign}

Strangers(v) == {d \in Files : disk[d] # Absent /\ ~Owns(v, disk[d])}

\* Mutant: every rule the ledger claims is taken for ours.
OurRulesUnbounded(v, claims) == claims

OurRules(v, claims) == claims \cap Catalog[v]

\* Mutant: what the pack no longer declares is left where it is.
StaleOwnedRulesNone(v) == {}

StaleOwnedRules(v) == OurRules(v, RulesAt("ledger")) \ Declared[v]

Missing(v) == Declared[v] \ RulesAt("settings")

\* Mutant: an install claims only what it adds itself.
OwnershipOfThisInstall(v) == Missing(v)

\* installPlan.ownership
Ownership(v) == (OurRules(v, RulesAt("ledger")) \cup Missing(v)) \ StaleOwnedRules(v)

\* loadInstalledHost: the portable record, else the legacy one; a symlink is refused.
RecordReadable == disk["portable"].kind # "symlink"
InstalledHost == IF disk["portable"] # Absent THEN disk["portable"] ELSE disk["legacy"]

-----------------------------------------------------------------------------
(* Install *)

Put(p, e) == [path |-> p, entry |-> e]

\* The files of the pack that are among some, in an order.
InOrder(order, some) ==
  LET first[n \in 0 .. Len(order)] ==
        IF n = 0 THEN <<>>
        ELSE IF order[n] \in some THEN Append(first[n - 1], order[n]) ELSE first[n - 1]
  IN first[Len(order)]

\* Mutant: what an earlier release wrote is taken for current.
FilesToCopyIfForeign(v) == InOrder(Dests, {d \in Files : ~Owns(v, disk[d])})

\* copyHostPack skips what is already what it would write.
FilesToCopy(v) == InOrder(Dests, {d \in Files : disk[d] # Pack(v)})

SettingsToSave(v) ==
  IF Missing(v) = {} /\ StaleOwnedRules(v) = {} THEN <<>>
  ELSE <<Put("settings", Allow((RulesAt("settings") \ StaleOwnedRules(v)) \cup Missing(v)))>>

\* applyHostInstall: the files, the settings, the ledger, the record, and the legacy record away.
InstallSteps(v) ==
  LET files == FilesToCopy(v) IN
  [i \in DOMAIN files |-> Put(files[i], Pack(v))]
  \o SettingsToSave(v)
  \o <<Put("ledger", Claims(Ownership(v))), Put("portable", Record("ours")), Put("legacy", Absent)>>

Begin(c, steps) ==
  /\ cmd' = c /\ todo' = steps /\ undo' = <<>> /\ out' = "running"
  /\ seen' = disk /\ touched' = {}
  /\ UNCHANGED <<disk, put, lost>>

Refuse(why) == out' = why /\ UNCHANGED <<disk, cmd, todo, undo, seen, touched, put, lost>>

CountCommand ==
  /\ cmd = Idle
  /\ spent.commands < MaxCommands
  /\ spent' = [spent EXCEPT !.commands = @ + 1]

\* installHostPack and planHostInstall, which changes nothing.
Install ==
  /\ CountCommand
  /\ \E v \in Versions, force \in BOOLEAN :
       IF ~RecordReadable \/ disk["settings"] = Symlink THEN Refuse("unreadable")
       ELSE IF Strangers(v) # {} /\ ~force THEN Refuse("yours")
       ELSE Begin([Idle EXCEPT !.op = "install", !.v = v, !.force = force, !.replaced = Strangers(v)],
                  InstallSteps(v))

Finish(how) == cmd' = Idle /\ undo' = <<>> /\ todo' = <<>> /\ out' = how

RulesSeen == RulesIn(seen["settings"])

\* What the write of the settings adds, and what is still there.
PutWith(p, e) ==
  IF p = "settings" THEN (put \cup (e.rules \ (RulesSeen \cup RulesAt(p)))) \cap e.rules ELSE put

\* Mutant: the ledger is not put back.
LoggedWithoutLedger(step) == IF step.path = "ledger" THEN undo ELSE <<Put(step.path, disk[step.path])>> \o undo

\* undoLog.before; the legacy record goes last and is not logged.
Logged(step) == IF step.path = "legacy" THEN undo ELSE <<Put(step.path, disk[step.path])>> \o undo

\* One path is written.
InstallStep ==
  /\ cmd.op = "install" /\ todo # <<>>
  /\ ~(Head(todo).path = "portable" /\ disk["portable"] = Symlink)
  /\ LET step == Head(todo) IN
     /\ disk' = [disk EXCEPT ![step.path] = step.entry]
     /\ put' = PutWith(step.path, step.entry)
     /\ IF Len(todo) = 1 THEN Finish("installed")
        ELSE cmd' = cmd /\ todo' = Tail(todo) /\ undo' = Logged(step) /\ out' = out
  /\ UNCHANGED <<seen, touched, lost, spent>>

\* The path cannot be inspected or written, or the record has become a symlink.
InstallFails ==
  /\ cmd.op = "install" /\ todo # <<>>
  /\ IF Head(todo).path = "portable" /\ disk["portable"] = Symlink THEN spent' = spent
     ELSE spent.fails < MaxFails /\ spent' = [spent EXCEPT !.fails = @ + 1]
  /\ cmd' = [cmd EXCEPT !.op = "rollback"]
  /\ todo' = <<>>
  /\ UNCHANGED <<disk, undo, out, seen, touched, put, lost>>

\* undoLog.rollback, one path, which may fail.
RollBackStep ==
  /\ cmd.op = "rollback" /\ undo # <<>>
  /\ LET step == Head(undo) IN
     \/ /\ disk' = [disk EXCEPT ![step.path] = step.entry]
        /\ put' = IF step.path = "settings" THEN put \cap RulesIn(step.entry) ELSE put
        /\ UNCHANGED <<out, lost, spent>>
     \/ /\ spent.fails < MaxFails
        /\ spent' = [spent EXCEPT !.fails = @ + 1]
        /\ out' = "half undone" /\ lost' = TRUE
        /\ UNCHANGED <<disk, put>>
  /\ undo' = Tail(undo)
  /\ UNCHANGED <<cmd, todo, seen, touched>>

RollBackEnds ==
  /\ cmd.op = "rollback" /\ undo = <<>>
  /\ Finish(IF out = "half undone" THEN out ELSE "undone")
  /\ UNCHANGED <<disk, seen, touched, put, lost, spent>>

-----------------------------------------------------------------------------
(* Uninstall *)

\* Mutant: the record that says an uninstall is owed goes first.
RecordsToRemovePortableFirst == <<Put("portable", Absent), Put("legacy", Absent), Put("ledger", Absent)>>

\* removeUninstallRecords
RecordsToRemove == <<Put("ledger", Absent), Put("legacy", Absent), Put("portable", Absent)>>

\* removeOwnedFiles, by name, the permissions if they are to be withdrawn, the records.
UninstallSteps(withdraw) ==
  LET files == InOrder(Sorted, {d \in Files : disk[d] # Absent}) IN
  [i \in DOMAIN files |-> Put(files[i], Absent)]
  \o (IF withdraw THEN <<Put("settings", Allow({}))>> ELSE <<>>)
  \o RecordsToRemove

\* uninstallHostPack, up to its first change.
Uninstall ==
  /\ CountCommand
  /\ \E v \in Versions, force \in BOOLEAN, withdraw \in BOOLEAN :
       IF ~RecordReadable THEN Refuse("unreadable")
       ELSE IF InstalledHost # Record("ours") THEN Refuse("not installed")
       ELSE IF Strangers(v) # {} /\ ~force THEN Refuse("yours")
       ELSE Begin([Idle EXCEPT !.op = "uninstall", !.v = v, !.force = force, !.withdraw = withdraw,
                               !.claims = OurRules(v, RulesAt("ledger"))],
                  UninstallSteps(withdraw))

\* dropHostPermissions reads the settings again, and refuses a symlink.
Withdrawn == IF disk["settings"] = Absent THEN Absent ELSE Allow(RulesAt("settings") \ cmd.claims)
CannotWithdraw == Head(todo).path = "settings" /\ cmd.claims # {} /\ disk["settings"] = Symlink

UninstallStep ==
  /\ cmd.op = "uninstall" /\ todo # <<>> /\ ~CannotWithdraw
  /\ LET step == Head(todo) IN
     /\ disk' = IF step.path # "settings" THEN [disk EXCEPT ![step.path] = Absent]
                ELSE IF cmd.claims = {} THEN disk
                ELSE [disk EXCEPT !["settings"] = Withdrawn]
     /\ put' = IF step.path = "ledger" THEN {}
               ELSE IF step.path = "settings" THEN put \ cmd.claims ELSE put
     /\ lost' = (lost /\ step.path # "ledger")
     /\ IF Len(todo) = 1 THEN Finish("uninstalled")
        ELSE cmd' = cmd /\ todo' = Tail(todo) /\ UNCHANGED <<undo, out>>
  /\ UNCHANGED <<seen, touched, spent>>

\* The first failure ends the command; what was removed stays removed.
UninstallFails ==
  /\ cmd.op = "uninstall" /\ todo # <<>>
  /\ IF CannotWithdraw THEN spent' = spent
     ELSE spent.fails < MaxFails /\ spent' = [spent EXCEPT !.fails = @ + 1]
  /\ Finish("failed")
  /\ UNCHANGED <<disk, seen, touched, put, lost>>

-----------------------------------------------------------------------------
(* Everybody else *)

\* SIGKILL: no rollback.
Crash ==
  /\ cmd # Idle /\ spent.crashes < MaxCrashes
  /\ spent' = [spent EXCEPT !.crashes = @ + 1]
  /\ Finish("killed")
  /\ lost' = (lost \/ cmd.op # "uninstall")
  /\ UNCHANGED <<disk, seen, touched, put>>

\* What somebody may make of a path.
EditsOf(p) ==
  CASE p \in Files -> {Absent, Foreign, Symlink}
    [] p = "settings" ->
         {Symlink} \cup {Allow(RulesAt(p) \cup {r}) : r \in Rules} \cup {Allow(RulesAt(p) \ {r}) : r \in Rules}
    [] p = "ledger" -> {Absent} \cup {Claims(RulesAt(p) \cup {r}) : r \in Rules}
    [] p = "portable" -> {Absent, Symlink, Record("other")}
    [] p = "legacy" -> {Absent}

Edit ==
  /\ spent.edits < MaxEdits
  /\ spent' = [spent EXCEPT !.edits = @ + 1]
  /\ \E p \in DOMAIN disk : \E e \in EditsOf(p) \ {disk[p]} :
       /\ disk' = [disk EXCEPT ![p] = e]
       /\ touched' = touched \cup {p}
       /\ put' = IF p = "settings" THEN put \cap RulesIn(e) ELSE put
       /\ lost' = (lost \/ p = "ledger")
  /\ UNCHANGED <<cmd, todo, undo, out, seen>>

Next ==
  \/ Install \/ InstallStep \/ InstallFails \/ RollBackStep \/ RollBackEnds
  \/ Uninstall \/ UninstallStep \/ UninstallFails
  \/ Crash \/ Edit

Spec == Init /\ [][Next]_vars

-----------------------------------------------------------------------------
(* doctor, which only reads *)

\* loadInstalledHost and detectUnrecordedPack: a pack without its record, or with the
\* record of a host it does not know, is a failure.
HostRecordCheck == RecordReadable /\ InstalledHost = Record("ours")

\* Intact is what this release ships; a file of an earlier release is outdated.
HostFilesCheck(v) == \A d \in Files : disk[d] = Pack(v)

\* Rules the program has authored and asks for no more.
RetiredRules(v) == (RulesAt("settings") \cap Catalog[v]) \ Declared[v]

HostPermissionsCheck(v) ==
  /\ disk["settings"] # Symlink
  /\ Declared[v] \subseteq RulesAt("settings") /\ RetiredRules(v) = {}

-----------------------------------------------------------------------------
(* Properties *)

Writes == {x \in [path : Paths, entry : UNION {EntriesAt(p) : p \in Paths}] : x.entry \in EntriesAt(x.path)}

TypeOK ==
  /\ IsDisk(disk) /\ IsDisk(seen) /\ touched \subseteq Paths
  /\ cmd \in [op : {"none", "install", "rollback", "uninstall"}, v : Versions \cup {1}, force : BOOLEAN,
               withdraw : BOOLEAN, claims : SUBSET Rules, replaced : SUBSET Files]
  /\ todo \in Seq(Writes) /\ undo \in Seq(Writes)
  /\ out \in {"none", "running", "unreadable", "yours", "not installed", "installed", "uninstalled", "failed",
              "killed", "undone", "half undone"}
  /\ put \subseteq Rules /\ lost \in BOOLEAN
  /\ spent \in [commands : Nat, edits : Nat, crashes : Nat, fails : Nat]
  /\ (cmd = Idle => todo = <<>> /\ undo = <<>>)

Stepping == cmd # Idle /\ spent'.edits = spent.edits

\* preflightDest and removeOwnedFiles: no command destroys a file or a symlink the program
\* cannot have written, unless --force was given and an install said so, or it came after
\* the plan.
UserFilesSurvive ==
  [][Stepping => \A d \in Files \ touched :
       disk[d].kind \in {"foreign", "symlink"} /\ disk'[d] # disk[d] =>
         cmd.force /\ (cmd.op = "install" => d \in cmd.replaced)]_vars

\* undoLog: an install that failed and could be undone leaves every path as it found it.
FailedInstallChangesNothing ==
  [][out' = "undone" /\ out # "undone" => \A p \in DOMAIN disk \ touched : disk'[p] = seen[p]]_vars

RulesLeft == RulesIn(disk'["settings"])
ClaimsSeen == RulesIn(seen["ledger"])

\* ourRules, staleOwnedRules and dropHostPermissions: a rule the user had is only ever
\* withdrawn if the program once asked for it and the ledger claims it, and by an uninstall
\* only when told to.
UserRulesSurvive ==
  [][Stepping /\ "settings" \notin touched =>
       \A r \in (RulesSeen \cap RulesAt("settings")) \ RulesLeft :
         r \in Catalog[cmd.v] \cap ClaimsSeen /\ (cmd.op = "uninstall" => cmd.withdraw)]_vars

\* installPlan.ownership: between commands the ledger claims every rule that installs added
\* and that is still there, however often they were repeated, upgraded or undone, unless a
\* release was used that does not know the rule.
AddedRulesAreClaimed ==
  cmd = Idle /\ ~lost => \A r \in put : (\A v \in Versions : r \in Catalog[v]) => r \in RulesAt("ledger")

\* staleOwnedRules: an install leaves no rule that an earlier one added and that it does not
\* ask for, unless a release was used that does not know the rule.
RetiredRulesGo ==
  [][out' = "installed" /\ out # "installed" /\ ~lost =>
       {r \in put' : \A v \in Versions : r \in Catalog[v]} \subseteq Declared[cmd.v]]_vars

\* hostPermissionsCheck advises to "re-run `vichu init --host`" to withdraw a retired rule.
InstallWithdrawsRetired ==
  [][out' = "installed" /\ out # "installed" /\ touched = {} =>
       RulesLeft \cap Catalog[cmd.v] \subseteq Declared[cmd.v]]_vars

\* applyHostInstall: what an install reports as installed, doctor finds to be so, but for
\* retired rules that the ledger did not claim.
InstalledMeansUsable ==
  [][out' = "installed" /\ out # "installed" /\ touched = {} =>
       \A v \in Versions : v = cmd.v =>
         /\ HostRecordCheck' /\ HostFilesCheck(v)'
         /\ Declared[v] \subseteq RulesLeft
         /\ HostPermissionsCheck(v)' \/ RetiredRules(v)' \cap ClaimsSeen = {}]_vars

NoRecord == disk["portable"] = Absent /\ disk["legacy"] = Absent

\* removeUninstallRecords: the last record goes when nothing is left to uninstall.
MarkerGoesLast ==
  [][cmd.op = "uninstall" /\ Stepping /\ ~NoRecord /\ NoRecord' =>
       /\ \A d \in Files \ touched : disk'[d] = Absent
       /\ "ledger" \in touched \/ disk'["ledger"] = Absent
       /\ cmd.withdraw /\ "settings" \notin touched => RulesLeft \cap cmd.claims = {}]_vars
=============================================================================
