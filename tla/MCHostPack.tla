----------------------------- MODULE MCHostPack -----------------------------
(* HostPack with two files and two releases, the second of which retires a rule. *)
EXTENDS HostPack, TLC

MCDests == <<"skill", "agent">>
MCSorted == <<"agent", "skill">>
MCDeclared == <<{"any", "step"}, {"step", "observe"}>>
MCCatalog == <<{"any", "step"}, {"any", "step", "observe"}>>
Fresh == [agent |-> Absent, skill |-> Absent, settings |-> Allow({"own"}),
          ledger |-> Absent, portable |-> Absent, legacy |-> Absent]
\* The files and the settings are committed, .vichu/ is not.
Clone == [agent |-> Pack(1), skill |-> Foreign, settings |-> Allow({"own", "any", "step"}),
          ledger |-> Absent, portable |-> Record("ours"), legacy |-> Absent]
\* Installed by a release that kept its record under .vichu/.
Legacy == [agent |-> Pack(1), skill |-> Pack(1), settings |-> Allow({"step", "any"}),
           ledger |-> Claims({"step", "any"}), portable |-> Absent, legacy |-> Record("ours")]
MCProjects == {Fresh, Clone, Legacy}
=============================================================================
