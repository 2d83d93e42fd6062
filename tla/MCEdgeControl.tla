---------------------------- MODULE MCEdgeControl ----------------------------
(* EdgeControl for TLC: two releases, and a user who begins with nothing,    *)
(* with the legacy service, with a release that has replaced it, or with both *)
(* services loaded.                                                         *)
EXTENDS EdgeControl

OriginsDef == {None, <<"site">>}

BeforeDef == WithLoaded([Bare EXCEPT !.legacy = TRUE], "legacy")

AfterDef ==
    WithLoaded([link |-> [current |-> <<"v2">>, previous |-> <<"v1">>],
                file |-> [plist |-> <<"v2">>, ctl |-> <<"v2">>, alias |-> <<"v2">>,
                          uninstall |-> <<"v2">>, port |-> <<"port">>, cors |-> None,
                          label |-> <<"legacy">>, archive |-> <<1>>],
                legacy |-> FALSE, archives |-> {1}, process |-> Bare.process,
                disabled |-> {"legacy"}], "new")

BothDef == WithLoaded([AfterDef EXCEPT !.legacy = TRUE, !.disabled = {}], "legacy")

MachinesDef == {Bare, BeforeDef, AfterDef, BothDef}

=============================================================================
