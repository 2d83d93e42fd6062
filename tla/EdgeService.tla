----------------------------- MODULE EdgeService -----------------------------
(***************************************************************************)
(* What the release scripts work on: the links, files and archives of one  *)
(* user's installation, and launchd with two services on one port, "new"   *)
(* (io.github.malusama.marian-edge) and "legacy" (the one it replaced).     *)
(* The operators say what one command does to a machine when it succeeds.   *)
(*                                                                         *)
(* A link, a file or a process that is not there is <<>>.  A plist is       *)
(* <<template, cors origin>>, another file what it was written from, and a  *)
(* process what it was started from.  launchd itself is not under src/: it  *)
(* is modelled by what the scripts rely on.                                *)
(***************************************************************************)
EXTENDS Naturals, Sequences

CONSTANTS
    Releases,     \* release directories under versions/
    Origins,      \* what cors-origin may hold: <<>> or <<origin>>
    ArchiveNames  \* bound: names under legacy/ that installations make up

Services == {"new", "legacy"}
Links == {"current", "previous"}
Tools == {"plist", "ctl", "alias"}
Files == Tools \cup {"uninstall", "port", "cors", "label", "archive"}
None == <<>>

Bare ==
    [link |-> [l \in Links |-> None], file |-> [f \in Files |-> None],
     legacy |-> FALSE,                            \* the legacy plist is in LaunchAgents
     archives |-> {},                             \* copies of it under legacy/
     process |-> [s \in Services |-> None],       \* what launchd has loaded
     disabled |-> {}]

Loaded(m, s) == m.process[s] # None
Running(m) == {s \in Services : Loaded(m, s)}
HasPlist(m, s) == IF s = "new" THEN m.file["plist"] # None ELSE m.legacy

\* What launchd loads when the user logs in.
AtLogin(m) == {s \in Services \ m.disabled : HasPlist(m, s)}

\* The program of the plist is current/marian-edge-server.
StartedFrom(m, s) == IF s = "new" THEN <<m.file["plist"], m.link["current"]>> ELSE <<"legacy">>

-----------------------------------------------------------------------------
(* launchctl. *)

Stopped(m, s) == [m EXCEPT !.process[s] = None]
Enabled(m, s) == [m EXCEPT !.disabled = @ \ {s}]
Disabled(m, s) == [m EXCEPT !.disabled = @ \cup {s}]
CanLoad(m, s) == s \in AtLogin(m)
WithLoaded(m, s) == [m EXCEPT !.process[s] = StartedFrom(m, s)]

\* kickstart -k: launchd keeps the plist that it has read, not the binary.
Kicked(m, s) == IF s = "new" THEN [m EXCEPT !.process[s] = <<@[1], m.link["current"]>>] ELSE m

-----------------------------------------------------------------------------
(* Files. *)

Linked(m, l, target) == [m EXCEPT !.link[l] = target]
Written(m, f, content) == [m EXCEPT !.file[f] = content]

\* The legacy plist is moved to the archive, and back.
Archived(m, name) == [m EXCEPT !.legacy = FALSE, !.archives = @ \cup {name}]
Unarchived(m, name) == [m EXCEPT !.legacy = TRUE, !.archives = @ \ {name}]

\* Mutant of Copied: the archive itself is moved back.
CopyMoves(m) ==
    [m EXCEPT !.legacy = TRUE, !.archives = {a \in @ : <<a>> # m.file["archive"]}]

\* The archive is copied into LaunchAgents, and the copy removed.
Copied(m) == [m EXCEPT !.legacy = TRUE]

CopyRemoved(m) == [m EXCEPT !.legacy = FALSE]

ToolsRemoved(m) == [m EXCEPT !.file = [f \in Files |-> IF f \in Tools THEN None ELSE @[f]]]
BaseRemoved(m, purge) ==
    [m EXCEPT !.link = Bare.link,
              !.file = [f \in Files |-> IF f \in Tools THEN @[f] ELSE None],
              !.archives = IF purge THEN {} ELSE @]

-----------------------------------------------------------------------------
(* The way back to the legacy service. *)

Configured(m) == m.file["label"] # None \/ m.file["archive"] # None
Loadable(m) ==
    /\ m.file["label"] # None
    /\ \E name \in m.archives : m.file["archive"] = <<name>>

=============================================================================
