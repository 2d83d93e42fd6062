----------------------------- MODULE EdgeControl -----------------------------
(***************************************************************************)
(* install-macos.sh from its cut-over on, marian-edgectl and               *)
(* uninstall-macos.sh, run one after another on one machine.  A script is a *)
(* sequence of commands, each of which may fail, and a signal may arrive    *)
(* between any two of them.  The installer undoes its cut-over from a trap, *)
(* the return to the legacy service recovers from one, and a rollback of    *)
(* the release undoes its own steps when one fails, without a trap.         *)
(*                                                                         *)
(* What a script verifies before it changes anything only decides whether   *)
(* it runs: a refusal is no step.                                          *)
(***************************************************************************)
EXTENDS EdgeService

CONSTANTS
    Machines,     \* what the first command may find
    MaxCommands,  \* bounds: commands of the user,
    MaxFailures,  \*    commands of the scripts that fail,
    MaxSignals    \*    and signals

ASSUME EdgeControlAssumption ==
    /\ None \in Origins /\ Origins \subseteq Seq(STRING)
    /\ {MaxCommands, MaxFailures, MaxSignals} \subseteq Nat

\* A link leads to a release, if it is there.
Targets == {None} \cup {<<release>> : release \in Releases}

\* What the first command finds: links to releases, an origin as an installation writes
\* it, a legacy service that launchd has loaded from its plist, nothing disabled that
\* runs (every script stops a service before it disables it, and bootstrap refuses a
\* disabled one), and metadata that do not outlive the legacy plist and the archive.
ASSUME MachinesAssumption ==
    \A m \in Machines :
        /\ m = [link |-> [l \in Links |-> m.link[l]], file |-> [f \in Files |-> m.file[f]],
                legacy |-> m.legacy, archives |-> m.archives,
                process |-> [s \in Services |-> m.process[s]], disabled |-> m.disabled]
        /\ \A l \in Links : m.link[l] \in Targets
        /\ m.file["cors"] \in Origins
        /\ m.legacy \in BOOLEAN
        /\ m.process["legacy"] \in {None, <<"legacy">>}
        /\ Loaded(m, "legacy") => m.legacy
        /\ \A s \in Services : Loaded(m, s) => s \notin m.disabled
        /\ Configured(m) => m.legacy \/ Loadable(m)

VARIABLES
    machine,
    found,        \* the machine when the user's command began: the backups in $TMP
    command,      \* what the user typed
    given,        \* its release, cors origin and archive name
    script,       \* the part of a script that runs, or "none"
    line,         \* the next line of it
    sound,        \* ROLLBACK_OK, RECOVERY_OK
    outcome,      \* how the last command ended: "done"; "unchanged", before its first step;
                  \* "restored", all undone; "interrupted", where it was; or "manual", the
                  \* undo itself failed
    hadLegacy,    \* there was a legacy service before the first command
    failures, signals, commands

vars == <<machine, found, command, given, script, line, sound, outcome, hadLegacy,
           failures, signals, commands>>

Init ==
    /\ machine \in Machines
    /\ found = machine
    /\ command = "none"
    /\ given = [release |-> None, cors |-> None, archive |-> None]
    /\ script = "none"
    /\ line = 0
    /\ sound = TRUE
    /\ outcome = "none"
    /\ hadLegacy = (machine.legacy \/ Configured(machine))
    /\ failures = 0
    /\ signals = 0
    /\ commands = 0

-----------------------------------------------------------------------------
(* The scripts. *)

Start(s) == << <<"enable", s>>, <<"load", s>>, <<"kickstart", s>>, <<"ready", s>> >>

Install ==
    (IF found.link["current"] \in {None, given.release} THEN <<>> ELSE << <<"link", "previous">> >>)
    \o << <<"link", "current">>, <<"stop", "new">>, <<"stop", "legacy">>, <<"port", "any">>,
          <<"file", "plist">> >>
    \o Start("new")
    \o << <<"file", "ctl">>, <<"file", "alias">>, <<"file", "uninstall">>, <<"file", "port">>,
          <<"file", "cors">> >>
    \o (IF found.legacy
        THEN << <<"disable", "legacy">>, <<"archive", "legacy">>, <<"file", "label">>,
                <<"file", "archive">> >>
        ELSE <<>>)

UndoInstall ==
    << <<"stop", "new">>, <<"port", "any">>, <<"link", "current">>, <<"link", "previous">>,
       <<"file", "plist">>, <<"file", "ctl">>, <<"file", "alias">>, <<"file", "uninstall">>,
       <<"file", "port">>, <<"file", "cors">>, <<"file", "label">>, <<"file", "archive">>,
       <<"unarchive", "legacy">> >>
    \o Start("new") \o Start("legacy")
    \o << <<"flag", "new">>, <<"flag", "legacy">> >>

Restart == << <<"stop", "new">>, <<"port", "any">> >> \o Start("new")

Rollback == << <<"link", "current">>, <<"link", "previous">>, <<"file", "plist">> >> \o Restart

\* Nobody waits for the release that is put back.
UndoRollback == SubSeq(Rollback, 1, Len(Rollback) - 1)

\* Whether the legacy service runs already decides between two ways.
Restore ==
    IF Loaded(found, "legacy")
    THEN << <<"stop", "new">>, <<"ready", "legacy">>, <<"disable", "new">> >>
    ELSE << <<"stop", "new">>, <<"port", "any">>, <<"copy", "legacy">> >>
         \o Start("legacy") \o << <<"disable", "new">> >>

Recover ==
    << <<"stop", "legacy">>, <<"disable", "legacy">> >>
    \o (IF Loaded(found, "legacy") THEN <<>> ELSE << <<"uncopy", "legacy">> >>)
    \o << <<"port", "any">> >>
    \o (IF Loaded(found, "new") THEN Start("new") ELSE <<>>)

Uninstall == << <<"stop", "new">>, <<"remove", "tools">>, <<"remove", "base">> >>

Text ==
    [install |-> Install, undoInstall |-> UndoInstall, rollback |-> Rollback,
     undoRollback |-> UndoRollback, restore |-> Restore, recover |-> Recover,
     uninstall |-> Uninstall, start |-> SubSeq(Start("new"), 1, 3),
     stop |-> << <<"stop", "new">> >>]

\* What the links and files become.  An undo puts back what was found.
GoalLink(l) ==
    CASE script = "install" -> IF l = "current" THEN given.release ELSE found.link["current"]
      [] script = "rollback" -> found.link[IF l = "current" THEN "previous" ELSE "current"]
      [] OTHER -> found.link[l]

InstalledFile(f) ==
    CASE f = "plist" -> given.release \o given.cors
      [] f = "port" -> <<"port">>
      [] f = "cors" -> given.cors
      [] f = "label" -> <<"legacy">>
      [] f = "archive" -> given.archive
      [] OTHER -> given.release

\* Mutant of GoalFile: the undo of an installation keeps the new plist.
GoalFileKeepsPlist(f) ==
    CASE script = "install" \/ (script = "undoInstall" /\ f = "plist") -> InstalledFile(f)
      [] script = "rollback" -> found.link["previous"] \o found.file["cors"]
      [] OTHER -> found.file[f]

GoalFile(f) ==
    CASE script = "install" -> InstalledFile(f)
      [] script = "rollback" -> found.link["previous"] \o found.file["cors"]
      [] OTHER -> found.file[f]

-----------------------------------------------------------------------------
(* How a script goes on. *)

Enter(next) ==
    /\ script' = next
    /\ line' = 1
    /\ sound' = TRUE
    /\ UNCHANGED outcome

End(result) ==
    /\ script' = "none"
    /\ line' = 0
    /\ outcome' = result
    /\ UNCHANGED sound

GoOn(ok) ==
    /\ line' = line + 1
    /\ sound' = (sound /\ ok)
    /\ UNCHANGED <<script, outcome>>

\* With || true, || ROLLBACK_OK=false, or as a condition, under which set -e is off.
Tolerated(op) ==
    \/ script \in {"undoInstall", "recover", "stop"}
    \/ script \in {"rollback", "undoRollback"} /\ op \in {"enable", "load"}
    \/ script = "undoRollback" /\ op = "file"

\* There is something to recover from, unless the current service did not run.
Recovers == ~Loaded(found, "legacy") \/ Loaded(found, "new")

GiveUp(op) ==
    CASE script = "install" -> Enter("undoInstall")
      [] script = "rollback" -> IF op = "link" THEN End("interrupted") ELSE Enter("undoRollback")
      [] script = "undoRollback" -> End("manual")
      [] script = "restore" -> IF op # "stop" /\ Recovers THEN Enter("recover") ELSE End("unchanged")
      [] script = "uninstall" -> End(IF op = "stop" THEN "unchanged" ELSE "interrupted")
      [] OTHER -> End("interrupted")

Performs(op, subject) ==
    /\ script # "none"
    /\ line \in 1..Len(Text[script])
    /\ Text[script][line] = <<op, subject>>

\* A command that is needed succeeds if it can, and may always fail; a failed one
\* leaves one of the machines in left.
Attempt(op, needed, possible, after, left) ==
    /\ \/ ~needed /\ GoOn(TRUE) /\ UNCHANGED <<machine, failures>>
       \/ needed /\ possible /\ GoOn(TRUE) /\ machine' = after /\ UNCHANGED failures
       \/ /\ needed
          /\ IF possible THEN failures < MaxFailures /\ failures' = failures + 1
                         ELSE UNCHANGED failures
          /\ machine' \in left
          /\ IF Tolerated(op) THEN GoOn(FALSE) ELSE GiveUp(op)
    /\ UNCHANGED <<found, command, given, hadLegacy, signals, commands>>

-----------------------------------------------------------------------------
(* The commands of the scripts. *)

StopService == \E s \in Services :
    /\ Performs("stop", s)
    /\ Attempt("stop", Loaded(machine, s), TRUE, Stopped(machine, s), {machine})

\* The undo of an installation does not wait for a port that the legacy service still has.
AwaitPort ==
    /\ Performs("port", "any")
    /\ Attempt("port", script = "undoInstall" => ~(Loaded(found, "legacy") /\ Loaded(machine, "legacy")),
               Running(machine) = {}, machine, {machine})

SwitchLink == \E l \in Links :
    /\ Performs("link", l)
    /\ Attempt("link", TRUE, TRUE, Linked(machine, l, GoalLink(l)), {machine})

\* install(1) unlinks the file before it creates it anew.
InstallFile == \E f \in Files :
    /\ Performs("file", f)
    /\ Attempt("file", TRUE, TRUE, Written(machine, f, GoalFile(f)),
               {machine, Written(machine, f, None)})

\* The service that the undo of an installation starts, if any.
Original ==
    IF Loaded(found, "new") /\ HasPlist(machine, "new") THEN {"new"}
    ELSE {s \in {"legacy"} : Loaded(found, s) /\ HasPlist(machine, s)}

Starts(s) ==
    /\ script = "undoInstall" => s \in Original
    /\ script = "recover" => sound

EnableService == \E s \in Services :
    /\ Performs("enable", s)
    /\ Attempt("enable", Starts(s), TRUE, Enabled(machine, s), {machine})

LoadService == \E s \in Services :
    /\ Performs("load", s)
    /\ Attempt("load", Starts(s) /\ ~Loaded(machine, s), CanLoad(machine, s),
               WithLoaded(machine, s), {machine})

Kickstart == \E s \in Services :
    /\ Performs("kickstart", s)
    /\ Attempt("kickstart", Starts(s), Loaded(machine, s), Kicked(machine, s), {machine})

\* What wait_for_original_service looks for.
Awaited(s) ==
    /\ script = "undoInstall" => Loaded(found, s) /\ (s = "legacy" => ~Loaded(found, "new"))
    /\ script = "recover" => sound

AwaitReady == \E s \in Services :
    /\ Performs("ready", s)
    /\ Attempt("ready", Awaited(s),
               Loaded(machine, s) /\ (script = "restore" => ~Loaded(machine, "new")),
               machine, {machine})

DisableService == \E s \in Services :
    /\ Performs("disable", s)
    /\ Attempt("disable", TRUE, TRUE, Disabled(machine, s), {machine})

RestoreFlag == \E s \in Services :
    /\ Performs("flag", s)
    /\ Attempt("flag", s \in found.disabled \/ Loaded(found, s), TRUE,
               IF s \in found.disabled THEN Disabled(machine, s) ELSE Enabled(machine, s),
               {machine})

ArchiveLegacy ==
    /\ Performs("archive", "legacy")
    /\ Attempt("archive", TRUE, machine.legacy, Archived(machine, given.archive[1]), {machine})

UnarchiveLegacy ==
    /\ Performs("unarchive", "legacy")
    /\ Attempt("unarchive", \E name \in machine.archives : given.archive = <<name>>,
               ~machine.legacy, Unarchived(machine, given.archive[1]), {machine})

CopyLegacy ==
    /\ Performs("copy", "legacy")
    /\ Attempt("copy", TRUE, Loadable(machine), Copied(machine), {machine})

RemoveCopy ==
    /\ Performs("uncopy", "legacy")
    /\ Attempt("uncopy", ~Loaded(machine, "legacy"), TRUE, CopyRemoved(machine), {machine})

RemoveFiles ==
    \/ /\ Performs("remove", "tools")
       /\ Attempt("remove", TRUE, TRUE, ToolsRemoved(machine), {machine})
    \/ /\ Performs("remove", "base")
       /\ Attempt("remove", TRUE, TRUE, BaseRemoved(machine, command = "purge"), {machine})

\* The last line: the commit of an installation, or what the command answers.
Finish ==
    /\ script # "none"
    /\ line = Len(Text[script]) + 1
    /\ IF script = "restore" /\ command \in {"uninstall", "purge"} THEN Enter("uninstall")
       ELSE End(CASE script \in {"undoInstall", "undoRollback", "recover"} ->
                         IF sound THEN "restored" ELSE "manual"
                  [] OTHER -> "done")
    /\ UNCHANGED <<machine, found, command, given, hadLegacy, failures, signals, commands>>

\* HUP, INT or TERM.  A recovery ignores it; an undo has given up its trap.
Signal ==
    /\ script \notin {"none", "recover"}
    /\ signals < MaxSignals
    /\ signals' = signals + 1
    /\ CASE script = "install" -> Enter("undoInstall")
         [] script = "restore" -> IF Recovers THEN Enter("recover") ELSE End("interrupted")
         [] script \in {"undoInstall", "undoRollback"} -> End("manual")
         [] OTHER -> End("interrupted")
    /\ UNCHANGED <<machine, found, command, given, hadLegacy, failures, commands>>

-----------------------------------------------------------------------------
(* The commands of the user. *)

\* A machine that the scripts have left to the user is repaired before it is used again.
Begin(typed, first, settings) ==
    /\ script = "none"
    /\ outcome # "manual"
    /\ commands < MaxCommands
    /\ commands' = commands + 1
    /\ found' = machine
    /\ command' = typed
    /\ given' = settings
    /\ Enter(first)
    /\ UNCHANGED <<machine, hadLegacy, failures, signals>>

Nothing == [release |-> None, cors |-> None, archive |-> None]

\* The name is made of the date and the process number.
FreshNames ==
    LET fresh == ArchiveNames \ machine.archives
    IN  {name \in fresh : \A other \in fresh : name <= other}

\* A legacy plist must belong to a loaded service and the other way round.
BeginInstall == \E release \in Releases, cors \in Origins, name \in FreshNames :
    /\ machine.legacy = Loaded(machine, "legacy")
    /\ Begin("install", "install", [release |-> <<release>>, cors |-> cors, archive |-> <<name>>])

\* update hands the installer the settings that it found.
BeginUpdate == \E release \in Releases, name \in FreshNames :
    /\ machine.file["ctl"] # None
    /\ Configured(machine) => Loadable(machine)
    /\ machine.legacy = Loaded(machine, "legacy")
    /\ Begin("install", "install",
             [release |-> <<release>>, cors |-> machine.file["cors"], archive |-> <<name>>])

CanRestore == Loadable(machine) /\ (Loaded(machine, "legacy") \/ ~machine.legacy)

BeginRollback ==
    /\ machine.file["ctl"] # None
    /\ IF machine.link["previous"] # None
       THEN /\ machine.link["current"] # None
            /\ machine.file["plist"] # None
            /\ Begin("rollback", "rollback", Nothing)
       ELSE /\ CanRestore
            /\ Begin("rollback", "restore", Nothing)

BeginRestore ==
    /\ machine.file["ctl"] # None
    /\ CanRestore
    /\ Begin("restore", "restore", Nothing)

BeginUninstall == \E typed \in {"uninstall", "purge"} :
    /\ machine.file["uninstall"] # None
    /\ IF Configured(machine)
       THEN /\ machine.file["ctl"] # None
            /\ CanRestore
            /\ Begin(typed, "restore", Nothing)
       ELSE Begin(typed, "uninstall", Nothing)

BeginStartOrStop == \E typed \in {"start", "stop"} :
    /\ machine.file["ctl"] # None
    /\ Begin(typed, typed, Nothing)

\* The end of the run, not of the program.
Rest == script = "none" /\ UNCHANGED vars

Next ==
    \/ BeginInstall \/ BeginUpdate \/ BeginRollback \/ BeginRestore \/ BeginUninstall
    \/ BeginStartOrStop
    \/ StopService \/ AwaitPort \/ SwitchLink \/ InstallFile
    \/ EnableService \/ LoadService \/ Kickstart \/ AwaitReady
    \/ DisableService \/ RestoreFlag
    \/ ArchiveLegacy \/ UnarchiveLegacy \/ CopyLegacy \/ RemoveCopy \/ RemoveFiles
    \/ Finish \/ Signal \/ Rest

Spec == Init /\ [][Next]_vars

-----------------------------------------------------------------------------
(* Properties. *)

Contents(m) == <<m.link, m.file, m.legacy, m.archives>>

\* Both services are loaded: start was typed after a return to the legacy one.
Contended(m) == Running(m) = Services

\* Only the installer notes whether a stopped service was enabled: the undo of a
\* rollback starts and enables it, and a signal between marian-edgectl 268 and 269
\* leaves it disabled.
LoginAsFound ==
    \/ AtLogin(machine) = AtLogin(found)
    \/ /\ command # "install" /\ ~Loaded(found, "new")
       /\ AtLogin(machine) \ {"new"} = AtLogin(found) \ {"new"}

AsFound ==
    /\ Contents(machine) = Contents(found)
    /\ LoginAsFound
    /\ \A s \in Running(found) : machine.process[s] = StartedFrom(found, s)
    /\ command # "rollback" => Running(machine) = Running(found)

Serves(s) == Running(machine) = {s} /\ machine.process[s] = StartedFrom(machine, s)

Runs(s) == Serves(s) /\ AtLogin(machine) = {s}

Reached ==
    CASE command = "install" ->
             /\ Runs("new")
             /\ machine.link["current"] = given.release
             /\ machine.link["previous"] # found.link["previous"]
                    => machine.link["previous"] = found.link["current"]
             /\ machine.file["plist"] = given.release \o given.cors
             /\ found.legacy => Loadable(machine)
      [] command = "rollback" /\ found.link["previous"] # None ->
             /\ Serves("new")
             /\ AtLogin(machine) = AtLogin(found) \cup {"new"}
             /\ machine.link["current"] = found.link["previous"]
             /\ machine.link["previous"] = found.link["current"]
             /\ machine.file["plist"][1] = found.link["previous"][1]
      [] command = "restore" \/ (command = "rollback" /\ found.link["previous"] = None) ->
             Runs("legacy")
      [] command \in {"uninstall", "purge"} ->
             /\ "new" \notin Running(machine) \cup AtLogin(machine)
             /\ Configured(found) => Runs("legacy")
      [] OTHER -> TRUE

\* A command that ends has either done all of its work, with the right service
\* running now and at the next login, or, however far a failure or a signal let
\* it come, left everything as it was: the trap of install-macos.sh (322), the
\* recovery of marian-edgectl (176) and the undo of its rollback (438).  A
\* machine on which an earlier command was cut short is no exception.  A rollback
\* lets the legacy plist be: it is in place, and comes up again at login, when both
\* services were loaded and an installation was undone, which starts only one.
ScriptsAreAtomic ==
    script = "none" =>
        /\ outcome = "unchanged" => machine = found
        /\ outcome = "restored" /\ ~Contended(found) => AsFound
        /\ outcome = "done" => Reached

\* The legacy service never gets lost: between two commands its plist is in
\* place or the metadata lead to an archive of it (install-macos.sh 595 to 605,
\* marian-edgectl 262), unless the scripts have said that the user must look.
LegacyStaysReachable ==
    script = "none" /\ outcome # "manual" /\ hadLegacy => machine.legacy \/ Loadable(machine)

=============================================================================
