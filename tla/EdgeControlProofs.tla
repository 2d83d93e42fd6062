-------------------------- MODULE EdgeControlProofs --------------------------
(* The legacy service stays within reach, and a command that ends has done its   *)
(* work or left everything as it was, for every set of machines, releases,       *)
(* origins and archive names, and any number of commands, failures and signals.  *)
EXTENDS EdgeControl, TLAPS

-----------------------------------------------------------------------------
(* The scripts, line by line. *)

Ops == {"enable", "load", "kickstart", "ready", "stop", "port", "link", "file", "disable", "flag",
        "archive", "unarchive", "copy", "uncopy", "remove"}

Lines == {<<op, s>> : op \in Ops, s \in Services \cup Links \cup Files \cup {"any", "tools", "base"}}

\* u is s, of m lines, and then t, of n lines.
Joined(X, s, t, u, m, n) ==
    /\ u \in Seq(X)
    /\ Len(u) = m + n
    /\ \A i \in 1 .. m : u[i] = s[i]
    /\ \A i \in 1 .. n : u[m + i] = t[i]

LEMMA JoinFacts ==
    ASSUME NEW X, NEW s \in Seq(X), NEW t \in Seq(X), NEW m \in Nat, NEW n \in Nat,
           Len(s) = m, Len(t) = n
    PROVE  Joined(X, s, t, s \o t, m, n)
  BY DEF Joined

LEMMA StartText ==
    ASSUME NEW s \in Services
    PROVE  /\ Start(s) \in Seq(Lines) /\ Len(Start(s)) = 4
           /\ Start(s)[1] = <<"enable", s>> /\ Start(s)[2] = <<"load", s>>
           /\ Start(s)[3] = <<"kickstart", s>> /\ Start(s)[4] = <<"ready", s>>
  <1>1. /\ <<"enable", s>> \in Lines /\ <<"load", s>> \in Lines
        /\ <<"kickstart", s>> \in Lines /\ <<"ready", s>> \in Lines
    BY DEF Lines, Ops, Services, Links, Files, Tools
  <1>2. QED
    BY <1>1 DEF Start

\* The installation stops the legacy service 16 lines before its end, and the
\* last four lines are about its plist.
InstallIs(k) ==
    /\ Len(Install) = k + (IF found.legacy THEN 18 ELSE 14)
    /\ \A i \in 1 .. k : Install[i] = <<"link", "previous">>
    /\ Install[k + 1] = <<"link", "current">>
    /\ Install[k + 2] = <<"stop", "new">>
    /\ Install[k + 3] = <<"stop", "legacy">>
    /\ Install[k + 4] = <<"port", "any">>
    /\ Install[k + 5] = <<"file", "plist">>
    /\ \A i \in 1 .. 4 : Install[k + 5 + i] = Start("new")[i]
    /\ Install[k + 10] = <<"file", "ctl">>
    /\ Install[k + 11] = <<"file", "alias">>
    /\ Install[k + 12] = <<"file", "uninstall">>
    /\ Install[k + 13] = <<"file", "port">>
    /\ Install[k + 14] = <<"file", "cors">>
    /\ found.legacy =>
           /\ Install[k + 15] = <<"disable", "legacy">>
           /\ Install[k + 16] = <<"archive", "legacy">>
           /\ Install[k + 17] = <<"file", "label">>
           /\ Install[k + 18] = <<"file", "archive">>

\* Whether an installation keeps the link to the release that was there.
Kept == IF found.link["current"] \in {None, given.release} THEN 0 ELSE 1

LEMMA InstallText == Kept \in {0, 1} /\ InstallIs(Kept)
  <1> DEFINE a == IF found.link["current"] \in {None, given.release} THEN <<>>
                  ELSE << <<"link", "previous">> >>
             b == << <<"link", "current">>, <<"stop", "new">>, <<"stop", "legacy">>,
                     <<"port", "any">>, <<"file", "plist">> >>
             c == Start("new")
             d == << <<"file", "ctl">>, <<"file", "alias">>, <<"file", "uninstall">>,
                     <<"file", "port">>, <<"file", "cors">> >>
             e == IF found.legacy
                  THEN << <<"disable", "legacy">>, <<"archive", "legacy">>, <<"file", "label">>,
                          <<"file", "archive">> >>
                  ELSE <<>>
             k == Len(a)
  <1>1. /\ a \in Seq(Lines) /\ k \in {0, 1} /\ k = Kept
        /\ \A i \in 1 .. k : a[i] = <<"link", "previous">>
    <2>1. <<"link", "previous">> \in Lines
      BY DEF Lines, Ops, Services, Links, Files, Tools
    <2>2. QED
      BY <2>1 DEF Kept
  <1>2. /\ b \in Seq(Lines) /\ Len(b) = 5
        /\ b[1] = <<"link", "current">> /\ b[2] = <<"stop", "new">> /\ b[3] = <<"stop", "legacy">>
        /\ b[4] = <<"port", "any">> /\ b[5] = <<"file", "plist">>
    <2>1. /\ <<"link", "current">> \in Lines /\ <<"stop", "new">> \in Lines
          /\ <<"stop", "legacy">> \in Lines /\ <<"port", "any">> \in Lines
          /\ <<"file", "plist">> \in Lines
      BY DEF Lines, Ops, Services, Links, Files, Tools
    <2>2. QED
      BY <2>1
  <1>3. c \in Seq(Lines) /\ Len(c) = 4
    BY StartText DEF Services
  <1>4. /\ d \in Seq(Lines) /\ Len(d) = 5
        /\ d[1] = <<"file", "ctl">> /\ d[2] = <<"file", "alias">> /\ d[3] = <<"file", "uninstall">>
        /\ d[4] = <<"file", "port">> /\ d[5] = <<"file", "cors">>
    <2>1. /\ <<"file", "ctl">> \in Lines /\ <<"file", "alias">> \in Lines
          /\ <<"file", "uninstall">> \in Lines /\ <<"file", "port">> \in Lines
          /\ <<"file", "cors">> \in Lines
      BY DEF Lines, Ops, Services, Links, Files, Tools
    <2>2. QED
      BY <2>1
  <1>5. /\ e \in Seq(Lines) /\ Len(e) = IF found.legacy THEN 4 ELSE 0
        /\ found.legacy =>
               /\ e[1] = <<"disable", "legacy">> /\ e[2] = <<"archive", "legacy">>
               /\ e[3] = <<"file", "label">> /\ e[4] = <<"file", "archive">>
    <2>1. /\ <<"disable", "legacy">> \in Lines /\ <<"archive", "legacy">> \in Lines
          /\ <<"file", "label">> \in Lines /\ <<"file", "archive">> \in Lines
      BY DEF Lines, Ops, Services, Links, Files, Tools
    <2>2. QED
      BY <2>1
  <1>6. Install = (((a \o b) \o c) \o d) \o e
    BY DEF Install
  <1> HIDE DEF a, b, c, d, e
  <1> HIDE DEF k
  <1>0. Len(a) = k /\ k \in Nat /\ k + 5 \in Nat /\ k + 9 \in Nat /\ k + 14 \in Nat
    BY <1>1 DEF k
  <1>7. PICK ab : Joined(Lines, a, b, ab, k, 5) /\ ab = a \o b
    BY <1>0, <1>1, <1>2, JoinFacts
  <1>8. PICK abc : Joined(Lines, ab, c, abc, k + 5, 4) /\ abc = ab \o c
    <2>1. ab \in Seq(Lines) /\ Len(ab) = k + 5
      BY <1>7 DEF Joined
    <2>2. QED
      BY <1>0, <1>3, <2>1, JoinFacts
  <1>9. PICK abcd : Joined(Lines, abc, d, abcd, k + 9, 5) /\ abcd = abc \o d
    <2>1. abc \in Seq(Lines) /\ Len(abc) = k + 9
      BY <1>0, <1>8 DEF Joined
    <2>2. QED
      BY <1>0, <1>4, <2>1, JoinFacts
  <1>10. PICK n \in Nat : n = Len(e) /\ n = IF found.legacy THEN 4 ELSE 0
    BY <1>5
  <1>11. Joined(Lines, abcd, e, Install, k + 14, n)
    <2>1. abcd \in Seq(Lines) /\ Len(abcd) = k + 14
      BY <1>0, <1>9 DEF Joined
    <2>2. Install = abcd \o e
      BY <1>6, <1>7, <1>8, <1>9
    <2>3. QED
      BY <1>0, <1>5, <1>10, <2>1, <2>2, JoinFacts
  <1>12. InstallIs(k)
    <2>1. /\ Len(Install) = k + 14 + n
          /\ \A i \in 1 .. k + 14 : Install[i] = abcd[i]
          /\ \A i \in 1 .. n : Install[k + 14 + i] = e[i]
      BY <1>11 DEF Joined
    <2>2. /\ \A i \in 1 .. k + 9 : abcd[i] = abc[i]
          /\ \A i \in 1 .. 5 : abcd[k + 9 + i] = d[i]
      BY <1>9 DEF Joined
    <2>3. /\ \A i \in 1 .. k + 5 : abc[i] = ab[i]
          /\ \A i \in 1 .. 4 : abc[k + 5 + i] = c[i]
      BY <1>8 DEF Joined
    <2>4. /\ \A i \in 1 .. k : ab[i] = a[i]
          /\ \A i \in 1 .. 5 : ab[k + i] = b[i]
      BY <1>7 DEF Joined
    <2>5. \A i \in 1 .. k : Install[i] = <<"link", "previous">>
      <3> SUFFICES ASSUME NEW i \in 1 .. k PROVE Install[i] = a[i]
        BY <1>1
      <3>1. i \in 1 .. k + 5 /\ i \in 1 .. k + 9 /\ i \in 1 .. k + 14
        BY <1>0
      <3>2. QED
        BY <2>1, <2>2, <2>3, <2>4, <3>1
    <2>6. \A i \in 1 .. 5 : Install[k + i] = b[i]
      <3> SUFFICES ASSUME NEW i \in 1 .. 5 PROVE Install[k + i] = b[i]
        OBVIOUS
      <3>1. k + i \in 1 .. k + 5 /\ k + i \in 1 .. k + 9 /\ k + i \in 1 .. k + 14
        BY <1>0
      <3>2. Install[k + i] = abcd[k + i] /\ abcd[k + i] = abc[k + i] /\ abc[k + i] = ab[k + i]
        BY <2>1, <2>2, <2>3, <3>1
      <3>3. QED
        BY <2>4, <3>2
    <2>7. \A i \in 1 .. 4 : Install[k + 5 + i] = Start("new")[i]
      <3> SUFFICES ASSUME NEW i \in 1 .. 4 PROVE Install[k + 5 + i] = c[i]
        BY DEF c
      <3>1. k + 5 + i \in 1 .. k + 9 /\ k + 5 + i \in 1 .. k + 14
        BY <1>0
      <3>2. Install[k + 5 + i] = abcd[k + 5 + i] /\ abcd[k + 5 + i] = abc[k + 5 + i]
        BY <2>1, <2>2, <3>1
      <3>3. QED
        BY <2>3, <3>2
    <2>8. \A i \in 1 .. 5 : Install[k + 9 + i] = d[i]
      <3> SUFFICES ASSUME NEW i \in 1 .. 5 PROVE Install[k + 9 + i] = d[i]
        OBVIOUS
      <3>1. k + 9 + i \in 1 .. k + 14
        BY <1>0
      <3>2. Install[k + 9 + i] = abcd[k + 9 + i]
        BY <2>1, <3>1
      <3>3. QED
        BY <2>2, <3>2
    <2>9. /\ Install[k + 1] = b[1] /\ Install[k + 2] = b[2] /\ Install[k + 3] = b[3]
          /\ Install[k + 4] = b[4] /\ Install[k + 5] = b[5]
      BY <2>6
    <2>10. /\ Install[k + 10] = d[1] /\ Install[k + 11] = d[2] /\ Install[k + 12] = d[3]
           /\ Install[k + 13] = d[4] /\ Install[k + 14] = d[5]
      <3>1. /\ k + 9 + 1 = k + 10 /\ k + 9 + 2 = k + 11 /\ k + 9 + 3 = k + 12
            /\ k + 9 + 4 = k + 13 /\ k + 9 + 5 = k + 14
        BY <1>0
      <3>2. QED
        BY <2>8, <3>1
    <2>11. ASSUME found.legacy
           PROVE  /\ Install[k + 15] = e[1] /\ Install[k + 16] = e[2] /\ Install[k + 17] = e[3]
                  /\ Install[k + 18] = e[4]
      <3>1. /\ k + 14 + 1 = k + 15 /\ k + 14 + 2 = k + 16 /\ k + 14 + 3 = k + 17
            /\ k + 14 + 4 = k + 18
        BY <1>0
      <3>2. n = 4
        BY <1>10, <2>11
      <3>3. QED
        BY <2>1, <3>1, <3>2
    <2>12. Len(Install) = k + (IF found.legacy THEN 18 ELSE 14)
      BY <1>0, <1>10, <2>1
    <2>13. QED
      BY <1>2, <1>4, <1>5, <2>5, <2>7, <2>9, <2>10, <2>11, <2>12 DEF InstallIs
  <1>13. QED
    BY <1>1, <1>12

\* What an installation says: nothing but its last lines is about the legacy plist.
PlainInstall ==
    {<<"link", "previous">>, <<"link", "current">>, <<"stop", "new">>, <<"stop", "legacy">>,
     <<"port", "any">>, <<"file", "plist">>, <<"enable", "new">>, <<"load", "new">>,
     <<"kickstart", "new">>, <<"ready", "new">>, <<"file", "ctl">>, <<"file", "alias">>,
     <<"file", "uninstall">>, <<"file", "port">>, <<"file", "cors">>, <<"disable", "legacy">>}

LEMMA InstallFacts ==
    /\ Len(Install) \in Nat /\ Len(Install) > 0
    /\ found.legacy =>
           /\ Len(Install) > 15
           /\ Install[Len(Install) - 15] = <<"stop", "legacy">>
           /\ Install[Len(Install) - 2] = <<"archive", "legacy">>
           /\ Install[Len(Install) - 1] = <<"file", "label">>
           /\ Install[Len(Install)] = <<"file", "archive">>
           /\ \A i \in 1 .. Len(Install) - 3 : Install[i] \in PlainInstall
    /\ ~found.legacy => \A i \in 1 .. Len(Install) : Install[i] \in PlainInstall
  <1>1. PICK k \in {0, 1} : InstallIs(k)
    BY InstallText
  <1>2. k \in Nat
    BY <1>1
  <1>3. \A i \in 1 .. k + 14 : Install[i] \in PlainInstall
    <2> SUFFICES ASSUME NEW i \in 1 .. k + 14 PROVE Install[i] \in PlainInstall
      OBVIOUS
    <2>1. CASE i \in 1 .. k
      BY <1>1, <2>1 DEF InstallIs, PlainInstall
    <2>2. CASE i \in k + 1 .. k + 5
      <3>1. i = k + 1 \/ i = k + 2 \/ i = k + 3 \/ i = k + 4 \/ i = k + 5
        BY <1>2, <2>2
      <3>2. QED
        BY <1>1, <3>1 DEF InstallIs, PlainInstall
    <2>3. CASE i \in k + 6 .. k + 9
      <3>1. PICK j \in {1, 2, 3, 4} : i = k + 5 + j
        <4>1. i = k + 5 + 1 \/ i = k + 5 + 2 \/ i = k + 5 + 3 \/ i = k + 5 + 4
          BY <1>2, <2>3
        <4>2. QED
          BY <4>1
      <3>2. Install[i] = Start("new")[j]
        <4>1. j \in 1 .. 4
          BY <3>1
        <4>2. QED
          BY <1>1, <3>1, <4>1 DEF InstallIs
      <3>3. Start("new")[j] \in PlainInstall
        <4>1. "new" \in Services
          BY DEF Services
        <4>2. QED
          BY <3>1, <4>1, StartText DEF PlainInstall
      <3>4. QED
        BY <3>2, <3>3
    <2>4. CASE i \in k + 10 .. k + 14
      <3>1. i = k + 10 \/ i = k + 11 \/ i = k + 12 \/ i = k + 13 \/ i = k + 14
        BY <1>2, <2>4
      <3>2. QED
        BY <1>1, <3>1 DEF InstallIs, PlainInstall
    <2>5. QED
      BY <1>2, <2>1, <2>2, <2>3, <2>4
  <1>4. CASE found.legacy
    <2>1. Len(Install) = k + 18
      BY <1>1, <1>4 DEF InstallIs
    <2>2. /\ k + 18 - 15 = k + 3 /\ k + 18 - 2 = k + 16 /\ k + 18 - 1 = k + 17
          /\ k + 18 - 3 = k + 15 /\ k + 18 > 15 /\ k + 18 \in Nat
          /\ \A i \in 1 .. k + 15 : i \in 1 .. k + 14 \/ i = k + 15
      BY <1>2
    <2>3. /\ Install[k + 3] = <<"stop", "legacy">> /\ Install[k + 15] = <<"disable", "legacy">>
          /\ Install[k + 16] = <<"archive", "legacy">> /\ Install[k + 17] = <<"file", "label">>
          /\ Install[k + 18] = <<"file", "archive">>
      BY <1>1, <1>4 DEF InstallIs
    <2>4. \A i \in 1 .. k + 15 : Install[i] \in PlainInstall
      BY <1>3, <2>2, <2>3 DEF PlainInstall
    <2>5. QED
      BY <1>4, <2>1, <2>2, <2>3, <2>4
  <1>5. CASE ~found.legacy
    <2>1. Len(Install) = k + 14
      BY <1>1, <1>5 DEF InstallIs
    <2>2. QED
      BY <1>2, <1>3, <1>5, <2>1
  <1>6. QED
    BY <1>4, <1>5

\* An undo puts back the papers of the legacy service in lines 11 to 13.
LEMMA UndoInstallText ==
    /\ Len(UndoInstall) = 23
    /\ UndoInstall[11] = <<"file", "label">>
    /\ UndoInstall[12] = <<"file", "archive">>
    /\ UndoInstall[13] = <<"unarchive", "legacy">>
    /\ \A i \in 1 .. 23 : i \notin 11 .. 13 =>
           UndoInstall[i] \in PlainInstall \cup
               {<<"enable", "legacy">>, <<"load", "legacy">>, <<"kickstart", "legacy">>,
                <<"ready", "legacy">>, <<"flag", "new">>, <<"flag", "legacy">>}
  <1> DEFINE a == << <<"stop", "new">>, <<"port", "any">>, <<"link", "current">>,
                     <<"link", "previous">>, <<"file", "plist">>, <<"file", "ctl">>,
                     <<"file", "alias">>, <<"file", "uninstall">>, <<"file", "port">>,
                     <<"file", "cors">>, <<"file", "label">>, <<"file", "archive">>,
                     <<"unarchive", "legacy">> >>
             b == Start("new")
             c == Start("legacy")
             d == << <<"flag", "new">>, <<"flag", "legacy">> >>
             X == PlainInstall \cup
                      {<<"enable", "legacy">>, <<"load", "legacy">>, <<"kickstart", "legacy">>,
                       <<"ready", "legacy">>, <<"flag", "new">>, <<"flag", "legacy">>}
  <1>1. /\ a \in Seq(Lines) /\ Len(a) = 13
        /\ \A i \in 1 .. 10 : a[i] \in X
        /\ a[11] = <<"file", "label">> /\ a[12] = <<"file", "archive">>
        /\ a[13] = <<"unarchive", "legacy">>
    <2>1. /\ <<"stop", "new">> \in Lines /\ <<"port", "any">> \in Lines
          /\ <<"link", "current">> \in Lines /\ <<"link", "previous">> \in Lines
          /\ <<"file", "plist">> \in Lines /\ <<"file", "ctl">> \in Lines
          /\ <<"file", "alias">> \in Lines /\ <<"file", "uninstall">> \in Lines
          /\ <<"file", "port">> \in Lines /\ <<"file", "cors">> \in Lines
          /\ <<"file", "label">> \in Lines /\ <<"file", "archive">> \in Lines
          /\ <<"unarchive", "legacy">> \in Lines
      BY DEF Lines, Ops, Services, Links, Files, Tools
    <2>2. a \in Seq(Lines) /\ Len(a) = 13
      BY <2>1
    <2>3. /\ a[1] \in X /\ a[2] \in X /\ a[3] \in X /\ a[4] \in X /\ a[5] \in X
          /\ a[6] \in X /\ a[7] \in X /\ a[8] \in X /\ a[9] \in X /\ a[10] \in X
      BY DEF PlainInstall
    <2>4. \A i \in 1 .. 10 : i = 1 \/ i = 2 \/ i = 3 \/ i = 4 \/ i = 5 \/ i = 6 \/ i = 7
                                \/ i = 8 \/ i = 9 \/ i = 10
      OBVIOUS
    <2>5. a[11] = <<"file", "label">> /\ a[12] = <<"file", "archive">> /\ a[13] = <<"unarchive", "legacy">>
      OBVIOUS
    <2> HIDE DEF a, X
    <2>6. \A i \in 1 .. 10 : a[i] \in X
      BY <2>3, <2>4
    <2>7. QED
      BY <2>2, <2>5, <2>6
  <1>2. /\ b \in Seq(Lines) /\ Len(b) = 4 /\ c \in Seq(Lines) /\ Len(c) = 4
        /\ \A i \in 1 .. 4 : b[i] \in X /\ c[i] \in X
    <2>1. "new" \in Services /\ "legacy" \in Services
      BY DEF Services
    <2>2. /\ b \in Seq(Lines) /\ Len(b) = 4 /\ c \in Seq(Lines) /\ Len(c) = 4
          /\ b[1] \in X /\ b[2] \in X /\ b[3] \in X /\ b[4] \in X
          /\ c[1] \in X /\ c[2] \in X /\ c[3] \in X /\ c[4] \in X
      BY <2>1, StartText DEF PlainInstall
    <2>3. \A i \in 1 .. 4 : i = 1 \/ i = 2 \/ i = 3 \/ i = 4
      OBVIOUS
    <2> HIDE DEF b, c, X
    <2>4. QED
      BY <2>2, <2>3
  <1>3. d \in Seq(Lines) /\ Len(d) = 2 /\ \A i \in 1 .. 2 : d[i] \in X
    <2>1. <<"flag", "new">> \in Lines /\ <<"flag", "legacy">> \in Lines
      BY DEF Lines, Ops, Services
    <2>2. \A i \in 1 .. 2 : i = 1 \/ i = 2
      OBVIOUS
    <2>3. QED
      BY <2>1, <2>2
  <1>4. UndoInstall = ((a \o b) \o c) \o d
    BY DEF UndoInstall
  <1> HIDE DEF a, b, c, d, X
  <1>5. Joined(Lines, a, b, a \o b, 13, 4)
    BY <1>1, <1>2, JoinFacts
  <1>6. Joined(Lines, a \o b, c, (a \o b) \o c, 17, 4)
    <2>1. a \o b \in Seq(Lines) /\ Len(a \o b) = 17
      BY <1>5 DEF Joined
    <2>2. QED
      BY <1>2, <2>1, JoinFacts
  <1>7. Joined(Lines, (a \o b) \o c, d, UndoInstall, 21, 2)
    <2>1. (a \o b) \o c \in Seq(Lines) /\ Len((a \o b) \o c) = 21
      BY <1>6 DEF Joined
    <2>2. QED
      BY <1>3, <1>4, <2>1, JoinFacts
  <1>8. /\ \A i \in 1 .. 4 : UndoInstall[13 + i] = b[i]
        /\ \A i \in 1 .. 13 : UndoInstall[i] = a[i]
        /\ \A i \in 1 .. 4 : UndoInstall[17 + i] = c[i]
        /\ \A i \in 1 .. 2 : UndoInstall[21 + i] = d[i]
        /\ Len(UndoInstall) = 23
    <2>1. PICK ab : Joined(Lines, a, b, ab, 13, 4) /\ ab = a \o b
      BY <1>5
    <2>2. PICK abc : Joined(Lines, ab, c, abc, 17, 4) /\ Joined(Lines, abc, d, UndoInstall, 21, 2)
      BY <1>6, <1>7, <2>1
    <2>3. \A i \in 1 .. 13 : ab[i] = a[i]
      BY <2>1 DEF Joined
    <2>4. \A i \in 1 .. 4 : ab[13 + i] = b[i]
      BY <2>1 DEF Joined
    <2>5. \A i \in 1 .. 17 : abc[i] = ab[i]
      BY <2>2 DEF Joined
    <2>6. \A i \in 1 .. 4 : abc[17 + i] = c[i]
      BY <2>2 DEF Joined
    <2>7. \A i \in 1 .. 21 : UndoInstall[i] = abc[i]
      BY <2>2 DEF Joined
    <2>8. (\A i \in 1 .. 2 : UndoInstall[21 + i] = d[i]) /\ Len(UndoInstall) = 23
      BY <2>2 DEF Joined
    <2>9. QED
      BY <2>3, <2>4, <2>5, <2>6, <2>7, <2>8
  <1>9. \A i \in 1 .. 13 : UndoInstall[i] = a[i]
    BY <1>8
  <1>10. \A i \in 14 .. 17 : UndoInstall[i] = b[i - 13]
    BY <1>8
  <1>11. \A i \in 18 .. 21 : UndoInstall[i] = c[i - 17]
    BY <1>8
  <1>12. \A i \in 22 .. 23 : UndoInstall[i] = d[i - 21]
    BY <1>8
  <1>13. ASSUME NEW i \in 1 .. 23, i \notin 11 .. 13 PROVE UndoInstall[i] \in X
    <2>1. i \in 1 .. 10 \/ i \in 14 .. 17 \/ i \in 18 .. 21 \/ i \in 22 .. 23
      BY <1>13
    <2>2. CASE i \in 1 .. 10
      BY <1>1, <1>9, <2>2
    <2>3. CASE i \in 14 .. 17
      BY <1>2, <1>10, <2>3
    <2>4. CASE i \in 18 .. 21
      BY <1>2, <1>11, <2>4
    <2>5. CASE i \in 22 .. 23
      BY <1>3, <1>12, <2>5
    <2>6. QED
      BY <2>1, <2>2, <2>3, <2>4, <2>5
  <1>14. QED
    BY <1>1, <1>8, <1>9, <1>13 DEF X

LEMMA JoinWithin ==
    ASSUME NEW X, NEW s \in Seq(X), NEW t \in Seq(X)
    PROVE  s \o t \in Seq(X) /\ Len(s) \in Nat /\ Len(t) \in Nat
  OBVIOUS

\* The beginning of a sequence.
LEMMA PrefixWithin ==
    ASSUME NEW X, NEW s \in Seq(X), NEW m \in Nat, NEW n \in Nat, Len(s) = m, n <= m
    PROVE  SubSeq(s, 1, n) \in Seq(X)
  OBVIOUS

\* What the scripts say that are not about the legacy service.
PlainLines ==
    {<<"link", "current">>, <<"link", "previous">>, <<"file", "plist">>, <<"stop", "new">>,
     <<"port", "any">>, <<"enable", "new">>, <<"load", "new">>, <<"kickstart", "new">>,
     <<"ready", "new">>}

LEMMA PlainTexts ==
    /\ Rollback \in Seq(PlainLines)
    /\ UndoRollback \in Seq(PlainLines)
    /\ SubSeq(Start("new"), 1, 3) \in Seq(PlainLines)
    /\ << <<"stop", "new">> >> \in Seq(PlainLines)
  <1>1. Start("new") \in Seq(PlainLines) /\ Len(Start("new")) = 4
    BY DEF Start, PlainLines
  <1>2. Restart \in Seq(PlainLines)
    <2>1. << <<"stop", "new">>, <<"port", "any">> >> \in Seq(PlainLines)
      BY DEF PlainLines
    <2>2. QED
      BY <1>1, <2>1, JoinWithin DEF Restart
  <1>3. Rollback \in Seq(PlainLines) /\ Len(Rollback) \in Nat /\ Len(Rollback) >= 3
    <2> DEFINE a == << <<"link", "current">>, <<"link", "previous">>, <<"file", "plist">> >>
    <2>1. a \in Seq(PlainLines) /\ Len(a) = 3
      BY DEF PlainLines
    <2>2. Rollback = a \o Restart
      BY DEF Rollback
    <2> HIDE DEF a
    <2>3. PICK n \in Nat : Len(Restart) = n
      BY <1>2, JoinWithin
    <2>4. Joined(PlainLines, a, Restart, Rollback, 3, n)
      BY <1>2, <2>1, <2>2, <2>3, JoinFacts
    <2>5. QED
      BY <2>3, <2>4 DEF Joined
  <1>4. UndoRollback \in Seq(PlainLines)
    <2>1. PICK n \in Nat : Len(Rollback) = n /\ n >= 3
      BY <1>3
    <2>2. n - 1 \in Nat /\ n - 1 <= n
      BY <2>1
    <2>3. SubSeq(Rollback, 1, n - 1) \in Seq(PlainLines)
      BY <1>3, <2>1, <2>2, PrefixWithin
    <2>4. QED
      BY <2>1, <2>3 DEF UndoRollback
  <1>5. SubSeq(Start("new"), 1, 3) \in Seq(PlainLines)
    <2>1. 3 \in Nat /\ 4 \in Nat /\ 3 <= 4
      OBVIOUS
    <2>2. QED
      BY <1>1, <2>1, PrefixWithin
  <1>6. << <<"stop", "new">> >> \in Seq(PlainLines)
    BY DEF PlainLines
  <1>7. QED
    BY <1>3, <1>4, <1>5, <1>6

RestoreLines ==
    {<<"stop", "new">>, <<"ready", "legacy">>, <<"disable", "new">>, <<"port", "any">>,
     <<"copy", "legacy">>, <<"enable", "legacy">>, <<"load", "legacy">>, <<"kickstart", "legacy">>}

\* A way back on which the legacy service is started copies its plist first.
LEMMA RestoreText ==
    /\ Restore \in Seq(RestoreLines)
    /\ ~Loaded(found, "legacy") => Len(Restore) > 3 /\ Restore[3] = <<"copy", "legacy">>
  <1> DEFINE a == << <<"stop", "new">>, <<"ready", "legacy">>, <<"disable", "new">> >>
             b == << <<"stop", "new">>, <<"port", "any">>, <<"copy", "legacy">> >>
             c == << <<"disable", "new">> >>
             s == Start("legacy")
  <1>1. a \in Seq(RestoreLines) /\ b \in Seq(RestoreLines) /\ c \in Seq(RestoreLines)
        /\ s \in Seq(RestoreLines) /\ Len(s) = 4 /\ Len(b) = 3 /\ b[3] = <<"copy", "legacy">>
    BY DEF RestoreLines, Start
  <1>2. Restore = IF Loaded(found, "legacy") THEN a ELSE (b \o s) \o c
    BY DEF Restore
  <1> HIDE DEF a, b, c, s
  <1>3. PICK n \in Nat : Len(c) = n
    BY <1>1, JoinWithin
  <1>4. PICK bs : Joined(RestoreLines, b, s, bs, 3, 4) /\ bs = b \o s
    BY <1>1, JoinFacts
  <1>5. bs \in Seq(RestoreLines) /\ Len(bs) = 7 /\ bs[3] = <<"copy", "legacy">>
    BY <1>1, <1>4 DEF Joined
  <1>6. PICK bsc : Joined(RestoreLines, bs, c, bsc, 7, n) /\ bsc = bs \o c
    BY <1>1, <1>3, <1>5, JoinFacts
  <1>7. bsc \in Seq(RestoreLines) /\ Len(bsc) > 3 /\ bsc[3] = <<"copy", "legacy">>
    BY <1>3, <1>5, <1>6 DEF Joined
  <1>8. Restore = IF Loaded(found, "legacy") THEN a ELSE bsc
    BY <1>2, <1>4, <1>6
  <1>9. QED
    BY <1>1, <1>7, <1>8

RecoverLines ==
    {<<"stop", "legacy">>, <<"disable", "legacy">>, <<"uncopy", "legacy">>, <<"port", "any">>,
     <<"enable", "new">>, <<"load", "new">>, <<"kickstart", "new">>, <<"ready", "new">>}

LEMMA RecoverText == Recover \in Seq(RecoverLines)
  <1> DEFINE a == << <<"stop", "legacy">>, <<"disable", "legacy">> >>
             b == IF Loaded(found, "legacy") THEN <<>> ELSE << <<"uncopy", "legacy">> >>
             c == << <<"port", "any">> >>
             d == IF Loaded(found, "new") THEN Start("new") ELSE <<>>
  <1>1. a \in Seq(RecoverLines) /\ c \in Seq(RecoverLines)
    BY DEF RecoverLines
  <1>2. b \in Seq(RecoverLines)
    BY DEF RecoverLines
  <1>3. d \in Seq(RecoverLines)
    <2>1. Start("new") \in Seq(RecoverLines) /\ <<>> \in Seq(RecoverLines)
      BY DEF RecoverLines, Start
    <2>2. QED
      BY <2>1
  <1>4. Recover = ((a \o b) \o c) \o d
    BY DEF Recover
  <1> HIDE DEF a, b, c, d
  <1>5. QED
    BY <1>1, <1>2, <1>3, <1>4, JoinWithin

UninstallLines == {<<"stop", "new">>, <<"remove", "tools">>, <<"remove", "base">>}

LEMMA UninstallText == Uninstall \in Seq(UninstallLines)
  BY DEF Uninstall, UninstallLines

\* The scripts by name.
Plain == {"rollback", "undoRollback", "start", "stop"}

LEMMA ScriptTexts ==
    /\ Text["install"] = Install
    /\ Text["undoInstall"] = UndoInstall
    /\ \A n \in Plain : Text[n] \in Seq(PlainLines)
    /\ Text["restore"] = Restore
    /\ Text["recover"] = Recover
    /\ Text["uninstall"] = Uninstall
  <1>1. /\ Text["rollback"] = Rollback /\ Text["undoRollback"] = UndoRollback
        /\ Text["start"] = SubSeq(Start("new"), 1, 3) /\ Text["stop"] = << <<"stop", "new">> >>
        /\ Text["install"] = Install /\ Text["undoInstall"] = UndoInstall
        /\ Text["restore"] = Restore /\ Text["recover"] = Recover /\ Text["uninstall"] = Uninstall
    BY DEF Text
  <1>2. QED
    BY <1>1, PlainTexts DEF Plain

-----------------------------------------------------------------------------
(* What the commands make of a machine. *)

IsMachine(m) ==
    /\ m = [link |-> m.link, file |-> [f \in Files |-> m.file[f]], legacy |-> m.legacy,
            archives |-> m.archives, process |-> [s \in Services |-> m.process[s]],
            disabled |-> m.disabled]
    /\ m.legacy \in BOOLEAN

Parts(l, f, y, a, p, d) ==
    [link |-> l, file |-> f, legacy |-> y, archives |-> a, process |-> p, disabled |-> d]

\* The plist of the legacy service and the metadata that lead to it.
SamePapers(m, n) ==
    /\ n.legacy = m.legacy
    /\ n.archives = m.archives
    /\ n.file["label"] = m.file["label"]
    /\ n.file["archive"] = m.file["archive"]

SameService(m, n) == n.process["legacy"] = m.process["legacy"]

LEMMA MachineParts ==
    ASSUME NEW m, IsMachine(m)
    PROVE  \E l, f, y, a, p, d :
               /\ m = Parts(l, f, y, a, p, d) /\ y \in BOOLEAN
               /\ f = [g \in Files |-> f[g]] /\ p = [s \in Services |-> p[s]]
  <1> DEFINE f == [g \in Files |-> m.file[g]]
             p == [s \in Services |-> m.process[s]]
  <1>1. m = Parts(m.link, f, m.legacy, m.archives, p, m.disabled) /\ m.legacy \in BOOLEAN
    BY DEF IsMachine, Parts
  <1>2. f = [g \in Files |-> f[g]] /\ p = [s \in Services |-> p[s]]
    OBVIOUS
  <1> HIDE DEF f, p
  <1>3. QED
    BY <1>1, <1>2

LEMMA PartsFacts ==
    ASSUME NEW l, NEW f, NEW y \in BOOLEAN, NEW a, NEW p, NEW d,
           f = [g \in Files |-> f[g]], p = [s \in Services |-> p[s]]
    PROVE  /\ IsMachine(Parts(l, f, y, a, p, d))
           /\ Parts(l, f, y, a, p, d).link = l
           /\ Parts(l, f, y, a, p, d).file = f
           /\ Parts(l, f, y, a, p, d).legacy = y
           /\ Parts(l, f, y, a, p, d).archives = a
           /\ Parts(l, f, y, a, p, d).process = p
           /\ Parts(l, f, y, a, p, d).disabled = d
  BY DEF IsMachine, Parts

LEMMA ProcessEdit ==
    ASSUME NEW m, IsMachine(m), NEW s \in Services, NEW v
    PROVE  LET n == [m EXCEPT !.process[s] = v]
           IN  /\ IsMachine(n) /\ SamePapers(m, n)
               /\ n.process[s] = v
               /\ \A t \in Services \ {s} : n.process[t] = m.process[t]
  <1>1. PICK l, f, y, a, p, d :
            /\ m = Parts(l, f, y, a, p, d) /\ y \in BOOLEAN
            /\ f = [g \in Files |-> f[g]] /\ p = [t \in Services |-> p[t]]
    BY MachineParts
  <1> DEFINE q == [p EXCEPT ![s] = v]
  <1>2. [Parts(l, f, y, a, p, d) EXCEPT !.process[s] = v] = Parts(l, f, y, a, q, d)
    BY DEF Parts
  <1>3. q = [t \in Services |-> q[t]] /\ q[s] = v /\ \A t \in Services \ {s} : q[t] = p[t]
    BY <1>1
  <1> HIDE DEF q
  <1>4. QED
    BY <1>1, <1>2, <1>3, PartsFacts DEF SamePapers

LEMMA FileEdit ==
    ASSUME NEW m, IsMachine(m), NEW s \in Files, NEW v
    PROVE  LET n == [m EXCEPT !.file[s] = v]
           IN  /\ IsMachine(n) /\ SameService(m, n)
               /\ n.legacy = m.legacy /\ n.archives = m.archives
               /\ n.file[s] = v
               /\ \A t \in Files \ {s} : n.file[t] = m.file[t]
  <1>1. PICK l, f, y, a, p, d :
            /\ m = Parts(l, f, y, a, p, d) /\ y \in BOOLEAN
            /\ f = [g \in Files |-> f[g]] /\ p = [t \in Services |-> p[t]]
    BY MachineParts
  <1> DEFINE q == [f EXCEPT ![s] = v]
  <1>2. [Parts(l, f, y, a, p, d) EXCEPT !.file[s] = v] = Parts(l, q, y, a, p, d)
    BY DEF Parts
  <1>3. q = [t \in Files |-> q[t]] /\ q[s] = v /\ \A t \in Files \ {s} : q[t] = f[t]
    BY <1>1
  <1> HIDE DEF q
  <1>4. QED
    BY <1>1, <1>2, <1>3, PartsFacts DEF SameService

LEMMA OtherEdits ==
    ASSUME NEW m, IsMachine(m), NEW s, NEW v
    PROVE  /\ LET n == [m EXCEPT !.link[s] = v]
              IN  IsMachine(n) /\ SamePapers(m, n) /\ SameService(m, n)
           /\ LET n == [m EXCEPT !.disabled = v]
              IN  IsMachine(n) /\ SamePapers(m, n) /\ SameService(m, n)
  <1>1. PICK l, f, y, a, p, d :
            /\ m = Parts(l, f, y, a, p, d) /\ y \in BOOLEAN
            /\ f = [g \in Files |-> f[g]] /\ p = [t \in Services |-> p[t]]
    BY MachineParts
  <1>2. [Parts(l, f, y, a, p, d) EXCEPT !.link[s] = v] = Parts([l EXCEPT ![s] = v], f, y, a, p, d)
    BY DEF Parts
  <1>3. [Parts(l, f, y, a, p, d) EXCEPT !.disabled = v] = Parts(l, f, y, a, p, v)
    BY DEF Parts
  <1>4. QED
    BY <1>1, <1>2, <1>3, PartsFacts DEF SamePapers, SameService

\* The plist of the legacy service or its archives change, no file of the metadata.
LEMMA PlistEdit ==
    ASSUME NEW m, IsMachine(m), NEW v \in BOOLEAN
    PROVE  LET n == [m EXCEPT !.legacy = v]
           IN  /\ IsMachine(n) /\ SameService(m, n)
               /\ n.legacy = v /\ n.archives = m.archives /\ n.file = m.file
  <1>1. PICK l, f, y, a, p, d :
            /\ m = Parts(l, f, y, a, p, d) /\ y \in BOOLEAN
            /\ f = [g \in Files |-> f[g]] /\ p = [t \in Services |-> p[t]]
    BY MachineParts
  <1>2. [Parts(l, f, y, a, p, d) EXCEPT !.legacy = v] = Parts(l, f, v, a, p, d)
    BY DEF Parts
  <1>3. QED
    BY <1>1, <1>2, PartsFacts DEF SameService

LEMMA ArchivesEdit ==
    ASSUME NEW m, IsMachine(m), NEW v
    PROVE  LET n == [m EXCEPT !.archives = v]
           IN  /\ IsMachine(n) /\ SameService(m, n)
               /\ n.legacy = m.legacy /\ n.archives = v /\ n.file = m.file
  <1>1. PICK l, f, y, a, p, d :
            /\ m = Parts(l, f, y, a, p, d) /\ y \in BOOLEAN
            /\ f = [g \in Files |-> f[g]] /\ p = [t \in Services |-> p[t]]
    BY MachineParts
  <1>2. [Parts(l, f, y, a, p, d) EXCEPT !.archives = v] = Parts(l, f, y, v, p, d)
    BY DEF Parts
  <1>3. QED
    BY <1>1, <1>2, PartsFacts DEF SameService

LEMMA LaunchctlFacts ==
    ASSUME NEW m, IsMachine(m), NEW s \in Services
    PROVE  /\ IsMachine(Stopped(m, s)) /\ SamePapers(m, Stopped(m, s))
           /\ ~Loaded(Stopped(m, s), s)
           /\ Loaded(Stopped(m, s), "legacy") => Loaded(m, "legacy")
           /\ IsMachine(Enabled(m, s)) /\ SamePapers(m, Enabled(m, s))
           /\ SameService(m, Enabled(m, s))
           /\ IsMachine(Disabled(m, s)) /\ SamePapers(m, Disabled(m, s))
           /\ SameService(m, Disabled(m, s))
           /\ IsMachine(WithLoaded(m, s)) /\ SamePapers(m, WithLoaded(m, s))
           /\ s = "new" => SameService(m, WithLoaded(m, s))
           /\ IsMachine(Kicked(m, s)) /\ SamePapers(m, Kicked(m, s))
           /\ SameService(m, Kicked(m, s))
  <1>1. s = "new" \/ s = "legacy"
    BY DEF Services
  <1>2. /\ IsMachine(Stopped(m, s)) /\ SamePapers(m, Stopped(m, s))
        /\ ~Loaded(Stopped(m, s), s)
        /\ Loaded(Stopped(m, s), "legacy") => Loaded(m, "legacy")
    <2> DEFINE n == [m EXCEPT !.process[s] = None]
    <2>1. /\ IsMachine(n) /\ SamePapers(m, n) /\ n.process[s] = None
          /\ \A t \in Services \ {s} : n.process[t] = m.process[t]
      BY ProcessEdit
    <2> HIDE DEF n
    <2>2. n = Stopped(m, s)
      BY DEF n, Stopped
    <2>3. QED
      BY <1>1, <2>1, <2>2 DEF Loaded, Services
  <1>3. /\ IsMachine(Enabled(m, s)) /\ SamePapers(m, Enabled(m, s))
        /\ SameService(m, Enabled(m, s))
        /\ IsMachine(Disabled(m, s)) /\ SamePapers(m, Disabled(m, s))
        /\ SameService(m, Disabled(m, s))
    BY OtherEdits DEF Enabled, Disabled
  <1>4. /\ IsMachine(WithLoaded(m, s)) /\ SamePapers(m, WithLoaded(m, s))
        /\ s = "new" => SameService(m, WithLoaded(m, s))
    <2> DEFINE n == [m EXCEPT !.process[s] = StartedFrom(m, s)]
    <2>1. /\ IsMachine(n) /\ SamePapers(m, n)
          /\ \A t \in Services \ {s} : n.process[t] = m.process[t]
      BY ProcessEdit
    <2> HIDE DEF n
    <2>2. n = WithLoaded(m, s)
      BY DEF n, WithLoaded
    <2>3. QED
      BY <2>1, <2>2 DEF SameService, Services
  <1>5. /\ IsMachine(Kicked(m, s)) /\ SamePapers(m, Kicked(m, s))
        /\ SameService(m, Kicked(m, s))
    <2>1. CASE s = "new"
      <3> DEFINE n == [m EXCEPT !.process[s] = <<m.process[s][1], m.link["current"]>>]
      <3>1. /\ IsMachine(n) /\ SamePapers(m, n)
            /\ \A t \in Services \ {s} : n.process[t] = m.process[t]
        BY ProcessEdit
      <3>2. n = Kicked(m, s)
        BY <2>1 DEF Kicked
      <3> HIDE DEF n
      <3>3. QED
        BY <2>1, <3>1, <3>2 DEF SameService, Services
    <2>2. CASE s # "new"
      <3>1. Kicked(m, s) = m
        BY <2>2 DEF Kicked
      <3>2. QED
        BY <3>1 DEF SamePapers, SameService
    <2>3. QED
      BY <2>1, <2>2
  <1>6. QED
    BY <1>2, <1>3, <1>4, <1>5

LEMMA RemovalFacts ==
    ASSUME NEW m, IsMachine(m), NEW purge
    PROVE  /\ IsMachine(ToolsRemoved(m)) /\ ToolsRemoved(m).legacy = m.legacy
           /\ SameService(m, ToolsRemoved(m))
           /\ IsMachine(BaseRemoved(m, purge)) /\ BaseRemoved(m, purge).legacy = m.legacy
           /\ SameService(m, BaseRemoved(m, purge))
  <1>1. PICK l, f, y, a, p, d :
            /\ m = Parts(l, f, y, a, p, d) /\ y \in BOOLEAN
            /\ f = [g \in Files |-> f[g]] /\ p = [t \in Services |-> p[t]]
    BY MachineParts
  <1> DEFINE g == [t \in Files |-> IF t \in Tools THEN None ELSE f[t]]
             h == [t \in Files |-> IF t \in Tools THEN f[t] ELSE None]
             b == IF purge THEN {} ELSE a
  <1>2. m.file = f /\ m.archives = a
    BY <1>1, PartsFacts
  <1>3. [Parts(l, f, y, a, p, d) EXCEPT !.file = g] = Parts(l, g, y, a, p, d)
    BY DEF Parts
  <1>4. [Parts(l, f, y, a, p, d) EXCEPT !.link = Bare.link, !.file = h, !.archives = b]
          = Parts(Bare.link, h, y, b, p, d)
    <2> DEFINE o == Parts(l, f, y, a, p, d)
    <2>1. [o EXCEPT !.link = Bare.link, !.file = h, !.archives = b]
            = [[[o EXCEPT !.link = Bare.link] EXCEPT !.file = h] EXCEPT !.archives = b]
      <3> HIDE DEF o, h, b
      <3>1. QED
        OBVIOUS
    <2>2. [o EXCEPT !.link = Bare.link] = Parts(Bare.link, f, y, a, p, d)
      BY DEF Parts
    <2>3. [Parts(Bare.link, f, y, a, p, d) EXCEPT !.file = h] = Parts(Bare.link, h, y, a, p, d)
      BY DEF Parts
    <2>4. [Parts(Bare.link, h, y, a, p, d) EXCEPT !.archives = b] = Parts(Bare.link, h, y, b, p, d)
      <3> HIDE DEF h, b
      <3>1. QED
        BY DEF Parts
    <2>5. QED
      BY <2>1, <2>2, <2>3, <2>4
  <1>5. ToolsRemoved(m) = Parts(l, g, y, a, p, d)
    BY <1>1, <1>2, <1>3 DEF ToolsRemoved
  <1>6. BaseRemoved(m, purge) = Parts(Bare.link, h, y, b, p, d)
    BY <1>1, <1>2, <1>4 DEF BaseRemoved
  <1>7. g = [t \in Files |-> g[t]] /\ h = [t \in Files |-> h[t]]
    OBVIOUS
  <1> HIDE DEF g, h, b
  <1>8. QED
    BY <1>1, <1>5, <1>6, <1>7, PartsFacts DEF SameService

LEMMA ArchivedFacts ==
    ASSUME NEW m, IsMachine(m), NEW name
    PROVE  /\ IsMachine(Archived(m, name)) /\ SameService(m, Archived(m, name))
           /\ Archived(m, name).file = m.file
           /\ Archived(m, name).legacy = FALSE
           /\ Archived(m, name).archives = m.archives \cup {name}
  <1> DEFINE n == [m EXCEPT !.legacy = FALSE]
             w == m.archives \cup {name}
  <1>1. TRUE \in BOOLEAN /\ FALSE \in BOOLEAN
    OBVIOUS
  <1>2. /\ IsMachine(n) /\ SameService(m, n) /\ n.file = m.file /\ n.legacy = FALSE
    BY <1>1, PlistEdit
  <1>3. Archived(m, name) = [n EXCEPT !.archives = w]
    BY DEF Archived
  <1> HIDE DEF n, w
  <1>4. LET o == [n EXCEPT !.archives = w]
        IN  /\ IsMachine(o) /\ SameService(n, o) /\ o.file = n.file
            /\ o.legacy = n.legacy /\ o.archives = w
    BY <1>2, ArchivesEdit
  <1>5. QED
    BY <1>2, <1>3, <1>4 DEF SameService, w

LEMMA UnarchivedFacts ==
    ASSUME NEW m, IsMachine(m), NEW name
    PROVE  /\ IsMachine(Unarchived(m, name)) /\ SameService(m, Unarchived(m, name))
           /\ Unarchived(m, name).file = m.file
           /\ Unarchived(m, name).legacy = TRUE
           /\ Unarchived(m, name).archives = m.archives \ {name}
  <1> DEFINE n == [m EXCEPT !.legacy = TRUE]
             w == m.archives \ {name}
  <1>1. TRUE \in BOOLEAN /\ FALSE \in BOOLEAN
    OBVIOUS
  <1>2. /\ IsMachine(n) /\ SameService(m, n) /\ n.file = m.file /\ n.legacy = TRUE
    BY <1>1, PlistEdit
  <1>3. Unarchived(m, name) = [n EXCEPT !.archives = w]
    BY DEF Unarchived
  <1> HIDE DEF n, w
  <1>4. LET o == [n EXCEPT !.archives = w]
        IN  /\ IsMachine(o) /\ SameService(n, o) /\ o.file = n.file
            /\ o.legacy = n.legacy /\ o.archives = w
    BY <1>2, ArchivesEdit
  <1>5. QED
    BY <1>2, <1>3, <1>4 DEF SameService, w

LEMMA CopyFacts ==
    ASSUME NEW m, IsMachine(m)
    PROVE  /\ IsMachine(Copied(m)) /\ SameService(m, Copied(m)) /\ Copied(m).file = m.file
           /\ Copied(m).legacy = TRUE /\ Copied(m).archives = m.archives
           /\ IsMachine(CopyRemoved(m)) /\ SameService(m, CopyRemoved(m))
           /\ CopyRemoved(m).file = m.file /\ CopyRemoved(m).archives = m.archives
  <1>1. TRUE \in BOOLEAN /\ FALSE \in BOOLEAN
    OBVIOUS
  <1>2. QED
    BY <1>1, PlistEdit DEF Copied, CopyRemoved

-----------------------------------------------------------------------------
(* One line of a script. *)

\* The lines about the plist of the legacy service, its archives and metadata.
PaperLines ==
    {<<"file", "label">>, <<"file", "archive">>, <<"archive", "legacy">>, <<"unarchive", "legacy">>,
     <<"copy", "legacy">>, <<"uncopy", "legacy">>, <<"remove", "tools">>, <<"remove", "base">>}

\* What a line has done that did its work, or had none to do.
Did(op, s) ==
    /\ IsMachine(machine')
    /\ <<op, s>> \notin PaperLines => SamePapers(machine, machine')
    /\ Loaded(machine', "legacy") =>
           Loaded(machine, "legacy") \/ (<<op, s>> = <<"load", "legacy">> /\ machine.legacy)
    /\ <<op, s>> = <<"stop", "legacy">> => ~Loaded(machine', "legacy")
    /\ <<op, s>> \in {<<"file", "label">>, <<"file", "archive">>} =>
           /\ machine'.legacy = machine.legacy /\ machine'.archives = machine.archives
           /\ machine'.file[s] = GoalFile(s)
           /\ \A f \in {"label", "archive"} \ {s} : machine'.file[f] = machine.file[f]
    /\ op \in {"archive", "unarchive", "copy", "uncopy"} => machine'.file = machine.file
    /\ op = "archive" =>
           machine'.legacy = FALSE /\ machine'.archives = machine.archives \cup {given.archive[1]}
    /\ op = "unarchive" =>
           \/ /\ \A name \in machine.archives : given.archive # <<name>>
              /\ machine' = machine
           \/ /\ \E name \in machine.archives : given.archive = <<name>>
              /\ machine'.legacy = TRUE /\ machine'.archives = machine.archives \ {given.archive[1]}
    /\ op \in {"copy", "uncopy"} => machine'.archives = machine.archives
    /\ op = "copy" => machine'.legacy = TRUE
    /\ op = "uncopy" => (Loaded(machine, "legacy") => machine' = machine)
    /\ op = "remove" => machine'.legacy = machine.legacy

\* What a line leaves behind that failed: at most a file that is gone.
Left(op, s) ==
    /\ IsMachine(machine') /\ SameService(machine, machine')
    /\ machine'.legacy = machine.legacy /\ machine'.archives = machine.archives
    /\ \A f \in {"label", "archive"} :
           <<op, s>> # <<"file", f>> => machine'.file[f] = machine.file[f]

Fails(op) == IF Tolerated(op) THEN GoOn(FALSE) ELSE GiveUp(op)

Says(op, s) ==
    /\ Performs(op, s)
    /\ UNCHANGED <<found, command, given, hadLegacy>>
    /\ \/ GoOn(TRUE) /\ Did(op, s)
       \/ Fails(op) /\ Left(op, s)

LEMMA Unmoved ==
    ASSUME IsMachine(machine), machine' = machine, NEW op, NEW s
    PROVE  Left(op, s)
  BY DEF Left, SameService

\* An attempt is a line of the script when its two ends are.
LEMMA AttemptIs ==
    ASSUME NEW op, NEW s, NEW needed, NEW possible, NEW after, NEW left,
           Performs(op, s), Attempt(op, needed, possible, after, left),
           ~needed /\ machine' = machine => Did(op, s),
           needed /\ possible /\ machine' = after => Did(op, s),
           machine' \in left => Left(op, s)
    PROVE  Says(op, s)
  <1>1. UNCHANGED <<found, command, given, hadLegacy>>
    BY DEF Attempt
  <1>2. CASE ~needed /\ GoOn(TRUE) /\ UNCHANGED <<machine, failures>>
    BY <1>1, <1>2 DEF Says
  <1>3. CASE needed /\ possible /\ GoOn(TRUE) /\ machine' = after /\ UNCHANGED failures
    BY <1>1, <1>3 DEF Says
  <1>4. CASE machine' \in left /\ (IF Tolerated(op) THEN GoOn(FALSE) ELSE GiveUp(op))
    BY <1>1, <1>4 DEF Says, Fails
  <1>5. QED
    BY <1>2, <1>3, <1>4 DEF Attempt

\* A line that says nothing about the papers, in the words of Did.
LEMMA QuietDid ==
    ASSUME NEW op \in Ops, NEW s,
           op \notin {"archive", "unarchive", "copy", "uncopy", "remove"},
           op = "file" => s \notin {"label", "archive"},
           <<op, s>> = <<"stop", "legacy">> => ~Loaded(machine', "legacy"),
           IsMachine(machine'), SamePapers(machine, machine'),
           Loaded(machine', "legacy") =>
               Loaded(machine, "legacy") \/ (<<op, s>> = <<"load", "legacy">> /\ machine.legacy)
    PROVE  Did(op, s)
  <1>1. <<op, s>> \notin {<<"file", "label">>, <<"file", "archive">>}
    OBVIOUS
  <1>2. QED
    BY <1>1 DEF Did

LEMMA StopIs == ASSUME IsMachine(machine), StopService PROVE \E op \in Ops : \E s : Says(op, s)
  <1>1. PICK s \in Services :
            /\ Performs("stop", s)
            /\ Attempt("stop", Loaded(machine, s), TRUE, Stopped(machine, s), {machine})
    BY DEF StopService
  <1>2. "stop" \in Ops
    BY DEF Ops
  <1>3. ASSUME ~Loaded(machine, s), machine' = machine PROVE Did("stop", s)
    BY <1>2, <1>3, QuietDid DEF SamePapers
  <1>4. ASSUME machine' = Stopped(machine, s) PROVE Did("stop", s)
    BY <1>2, <1>4, LaunchctlFacts, QuietDid
  <1>5. ASSUME machine' \in {machine} PROVE Left("stop", s)
    BY <1>5, Unmoved
  <1>6. Says("stop", s)
    BY <1>1, <1>3, <1>4, <1>5, AttemptIs
  <1>7. QED
    BY <1>2, <1>6

LEMMA PortIs == ASSUME IsMachine(machine), AwaitPort PROVE \E op \in Ops : \E s : Says(op, s)
  <1> DEFINE n == script = "undoInstall" => ~(Loaded(found, "legacy") /\ Loaded(machine, "legacy"))
             p == Running(machine) = {}
  <1>1. Performs("port", "any") /\ Attempt("port", n, p, machine, {machine})
    BY DEF AwaitPort
  <1>2. "port" \in Ops
    BY DEF Ops
  <1>3. ASSUME machine' = machine PROVE Did("port", "any") /\ Left("port", "any")
    BY <1>2, <1>3, QuietDid, Unmoved DEF SamePapers
  <1> HIDE DEF n, p
  <1>4. Says("port", "any")
    BY <1>1, <1>3, AttemptIs
  <1>5. QED
    BY <1>2, <1>4

LEMMA LinkIs == ASSUME IsMachine(machine), SwitchLink PROVE \E op \in Ops : \E s : Says(op, s)
  <1>1. PICK l \in Links :
            /\ Performs("link", l)
            /\ Attempt("link", TRUE, TRUE, Linked(machine, l, GoalLink(l)), {machine})
    BY DEF SwitchLink
  <1>2. "link" \in Ops
    BY DEF Ops
  <1>3. ASSUME machine' = Linked(machine, l, GoalLink(l)) PROVE Did("link", l)
    <2> DEFINE v == GoalLink(l)
    <2>1. LET n == [machine EXCEPT !.link[l] = v]
          IN  IsMachine(n) /\ SamePapers(machine, n) /\ SameService(machine, n)
      <3> HIDE DEF v
      <3>1. QED
        BY OtherEdits
    <2>2. machine' = [machine EXCEPT !.link[l] = v]
      BY <1>3 DEF Linked
    <2> HIDE DEF v
    <2>3. IsMachine(machine') /\ SamePapers(machine, machine') /\ SameService(machine, machine')
      BY <2>1, <2>2
    <2>4. QED
      BY <1>2, <2>3, QuietDid DEF Loaded, SameService
  <1>4. ASSUME machine' \in {machine} PROVE Left("link", l)
    BY <1>4, Unmoved
  <1>5. Says("link", l)
    BY <1>1, <1>3, <1>4, AttemptIs
  <1>6. QED
    BY <1>2, <1>5

LEMMA FileIs == ASSUME IsMachine(machine), InstallFile PROVE \E op \in Ops : \E s : Says(op, s)
  <1>1. PICK f \in Files :
            /\ Performs("file", f)
            /\ Attempt("file", TRUE, TRUE, Written(machine, f, GoalFile(f)),
                       {machine, Written(machine, f, None)})
    BY DEF InstallFile
  <1>2. "file" \in Ops
    BY DEF Ops
  <1>3. ASSUME NEW v, machine' = Written(machine, f, v)
        PROVE  /\ IsMachine(machine') /\ SameService(machine, machine')
               /\ machine'.legacy = machine.legacy /\ machine'.archives = machine.archives
               /\ machine'.file[f] = v
               /\ \A t \in Files \ {f} : machine'.file[t] = machine.file[t]
    <2>1. machine' = [machine EXCEPT !.file[f] = v]
      BY <1>3 DEF Written
    <2>2. QED
      BY <1>1, <2>1, FileEdit
  <1>4. "label" \in Files /\ "archive" \in Files
    BY DEF Files
  <1>5. ASSUME machine' = Written(machine, f, GoalFile(f)) PROVE Did("file", f)
    <2>1. /\ IsMachine(machine') /\ SameService(machine, machine')
          /\ machine'.legacy = machine.legacy /\ machine'.archives = machine.archives
          /\ machine'.file[f] = GoalFile(f)
          /\ \A t \in Files \ {f} : machine'.file[t] = machine.file[t]
      BY <1>3, <1>5
    <2>2. Loaded(machine', "legacy") => Loaded(machine, "legacy")
      BY <2>1 DEF Loaded, SameService
    <2>3. CASE f \in {"label", "archive"}
      BY <1>4, <2>1, <2>2, <2>3 DEF Did, PaperLines
    <2>4. CASE f \notin {"label", "archive"}
      <3>1. SamePapers(machine, machine')
        BY <1>4, <2>1, <2>4 DEF SamePapers
      <3>2. QED
        BY <1>2, <2>1, <2>2, <2>4, <3>1, QuietDid
    <2>5. QED
      BY <2>3, <2>4
  <1>6. ASSUME machine' \in {machine, Written(machine, f, None)} PROVE Left("file", f)
    <2>1. CASE machine' = machine
      BY <2>1, Unmoved
    <2>2. CASE machine' = Written(machine, f, None)
      <3>1. /\ IsMachine(machine') /\ SameService(machine, machine')
            /\ machine'.legacy = machine.legacy /\ machine'.archives = machine.archives
            /\ \A t \in Files \ {f} : machine'.file[t] = machine.file[t]
        BY <1>3, <2>2
      <3>2. QED
        BY <1>4, <3>1 DEF Left
    <2>3. QED
      BY <1>6, <2>1, <2>2
  <1>7. Says("file", f)
    BY <1>1, <1>5, <1>6, AttemptIs
  <1>8. QED
    BY <1>2, <1>7

LEMMA EnableIs == ASSUME IsMachine(machine), EnableService PROVE \E op \in Ops : \E s : Says(op, s)
  <1>1. PICK s \in Services :
            /\ Performs("enable", s)
            /\ Attempt("enable", Starts(s), TRUE, Enabled(machine, s), {machine})
    BY DEF EnableService
  <1>2. "enable" \in Ops
    BY DEF Ops
  <1>3. ASSUME machine' = machine PROVE Did("enable", s) /\ Left("enable", s)
    BY <1>2, <1>3, QuietDid, Unmoved DEF SamePapers
  <1>4. ASSUME machine' = Enabled(machine, s) PROVE Did("enable", s)
    BY <1>2, <1>4, LaunchctlFacts, QuietDid DEF Loaded, SameService
  <1>5. Says("enable", s)
    <2>1. machine' \in {machine} => Left("enable", s)
      BY <1>3
    <2>2. machine' = machine => Did("enable", s)
      BY <1>3
    <2>3. QED
      BY <1>1, <1>4, <2>1, <2>2, AttemptIs
  <1>6. QED
    BY <1>2, <1>5

LEMMA LoadIs == ASSUME IsMachine(machine), LoadService PROVE \E op \in Ops : \E s : Says(op, s)
  <1>1. PICK s \in Services :
            /\ Performs("load", s)
            /\ Attempt("load", Starts(s) /\ ~Loaded(machine, s), CanLoad(machine, s),
                       WithLoaded(machine, s), {machine})
    BY DEF LoadService
  <1>2. "load" \in Ops
    BY DEF Ops
  <1>3. ASSUME machine' = machine PROVE Did("load", s) /\ Left("load", s)
    BY <1>2, <1>3, QuietDid, Unmoved DEF SamePapers
  <1>4. ASSUME CanLoad(machine, s), machine' = WithLoaded(machine, s) PROVE Did("load", s)
    <2>1. IsMachine(machine') /\ SamePapers(machine, machine')
      BY <1>4, LaunchctlFacts
    <2>2. CASE s = "new"
      <3>1. SameService(machine, machine')
        BY <1>4, <2>2, LaunchctlFacts
      <3>2. QED
        BY <1>2, <2>1, <3>1, QuietDid DEF Loaded, SameService
    <2>3. CASE s = "legacy"
      <3>1. machine.legacy
        BY <1>4, <2>3 DEF CanLoad, AtLogin, HasPlist
      <3>2. QED
        BY <1>2, <2>1, <2>3, <3>1, QuietDid
    <2>4. QED
      BY <2>2, <2>3 DEF Services
  <1>5. Says("load", s)
    BY <1>1, <1>3, <1>4, AttemptIs
  <1>6. QED
    BY <1>2, <1>5

LEMMA KickIs == ASSUME IsMachine(machine), Kickstart PROVE \E op \in Ops : \E s : Says(op, s)
  <1>1. PICK s \in Services :
            /\ Performs("kickstart", s)
            /\ Attempt("kickstart", Starts(s), Loaded(machine, s), Kicked(machine, s), {machine})
    BY DEF Kickstart
  <1>2. "kickstart" \in Ops
    BY DEF Ops
  <1>3. ASSUME machine' = machine PROVE Did("kickstart", s) /\ Left("kickstart", s)
    BY <1>2, <1>3, QuietDid, Unmoved DEF SamePapers
  <1>4. ASSUME machine' = Kicked(machine, s) PROVE Did("kickstart", s)
    BY <1>2, <1>4, LaunchctlFacts, QuietDid DEF Loaded, SameService
  <1>5. Says("kickstart", s)
    BY <1>1, <1>3, <1>4, AttemptIs
  <1>6. QED
    BY <1>2, <1>5

LEMMA ReadyIs == ASSUME IsMachine(machine), AwaitReady PROVE \E op \in Ops : \E s : Says(op, s)
  <1> DEFINE p(s) == Loaded(machine, s) /\ (script = "restore" => ~Loaded(machine, "new"))
  <1>1. PICK s \in Services :
            Performs("ready", s) /\ Attempt("ready", Awaited(s), p(s), machine, {machine})
    BY DEF AwaitReady
  <1>2. "ready" \in Ops
    BY DEF Ops
  <1>3. ASSUME machine' = machine PROVE Did("ready", s) /\ Left("ready", s)
    BY <1>2, <1>3, QuietDid, Unmoved DEF SamePapers
  <1> HIDE DEF p
  <1>4. Says("ready", s)
    BY <1>1, <1>3, AttemptIs
  <1>5. QED
    BY <1>2, <1>4

LEMMA DisableIs == ASSUME IsMachine(machine), DisableService PROVE \E op \in Ops : \E s : Says(op, s)
  <1>1. PICK s \in Services :
            /\ Performs("disable", s)
            /\ Attempt("disable", TRUE, TRUE, Disabled(machine, s), {machine})
    BY DEF DisableService
  <1>2. "disable" \in Ops
    BY DEF Ops
  <1>3. ASSUME machine' = Disabled(machine, s) PROVE Did("disable", s)
    BY <1>2, <1>3, LaunchctlFacts, QuietDid DEF Loaded, SameService
  <1>4. ASSUME machine' \in {machine} PROVE Left("disable", s)
    BY <1>4, Unmoved
  <1>5. Says("disable", s)
    BY <1>1, <1>3, <1>4, AttemptIs
  <1>6. QED
    BY <1>2, <1>5

LEMMA FlagIs == ASSUME IsMachine(machine), RestoreFlag PROVE \E op \in Ops : \E s : Says(op, s)
  <1> DEFINE n(s) == s \in found.disabled \/ Loaded(found, s)
             t(s) == IF s \in found.disabled THEN Disabled(machine, s) ELSE Enabled(machine, s)
  <1>1. PICK s \in Services :
            Performs("flag", s) /\ Attempt("flag", n(s), TRUE, t(s), {machine})
    BY DEF RestoreFlag
  <1>2. "flag" \in Ops
    BY DEF Ops
  <1>3. ASSUME machine' = machine PROVE Did("flag", s) /\ Left("flag", s)
    BY <1>2, <1>3, QuietDid, Unmoved DEF SamePapers
  <1>4. ASSUME machine' = t(s) PROVE Did("flag", s)
    <2>1. machine' = Disabled(machine, s) \/ machine' = Enabled(machine, s)
      BY <1>4
    <2>2. IsMachine(machine') /\ SamePapers(machine, machine') /\ SameService(machine, machine')
      BY <2>1, LaunchctlFacts
    <2>3. QED
      BY <1>2, <2>2, QuietDid DEF Loaded, SameService
  <1> HIDE DEF n, t
  <1>5. Says("flag", s)
    <2>1. machine' \in {machine} => Left("flag", s)
      BY <1>3
    <2>2. machine' = machine => Did("flag", s)
      BY <1>3
    <2>3. QED
      BY <1>1, <1>4, <2>1, <2>2, AttemptIs
  <1>6. QED
    BY <1>2, <1>5

LEMMA ArchiveIs ==
    ASSUME IsMachine(machine), ArchiveLegacy PROVE \E op \in Ops : \E s : Says(op, s)
  <1> DEFINE t == Archived(machine, given.archive[1])
  <1>1. Performs("archive", "legacy") /\ Attempt("archive", TRUE, machine.legacy, t, {machine})
    BY DEF ArchiveLegacy
  <1>2. "archive" \in Ops
    BY DEF Ops
  <1>3. ASSUME machine' = t PROVE Did("archive", "legacy")
    <2>1. /\ IsMachine(machine') /\ SameService(machine, machine') /\ machine'.file = machine.file
          /\ machine'.legacy = FALSE
          /\ machine'.archives = machine.archives \cup {given.archive[1]}
      <3>1. PICK name : name = given.archive[1]
        OBVIOUS
      <3>2. machine' = Archived(machine, name)
        BY <1>3, <3>1
      <3>3. /\ IsMachine(Archived(machine, name)) /\ SameService(machine, Archived(machine, name))
            /\ Archived(machine, name).file = machine.file
            /\ Archived(machine, name).legacy = FALSE
            /\ Archived(machine, name).archives = machine.archives \cup {name}
        BY ArchivedFacts
      <3>4. QED
        BY <3>1, <3>2, <3>3
    <2>2. QED
      BY <2>1 DEF Did, PaperLines, Loaded, SameService
  <1>4. ASSUME machine' \in {machine} PROVE Left("archive", "legacy")
    BY <1>4, Unmoved
  <1> HIDE DEF t
  <1>5. Says("archive", "legacy")
    BY <1>1, <1>3, <1>4, AttemptIs
  <1>6. QED
    BY <1>2, <1>5

LEMMA UnarchiveIs ==
    ASSUME IsMachine(machine), UnarchiveLegacy PROVE \E op \in Ops : \E s : Says(op, s)
  <1> DEFINE t == Unarchived(machine, given.archive[1])
             n == \E name \in machine.archives : given.archive = <<name>>
             p == ~machine.legacy
  <1>1. Performs("unarchive", "legacy") /\ Attempt("unarchive", n, p, t, {machine})
    BY DEF UnarchiveLegacy
  <1>2. "unarchive" \in Ops
    BY DEF Ops
  <1>3. ASSUME n, machine' = t PROVE Did("unarchive", "legacy")
    <2>1. /\ IsMachine(machine') /\ SameService(machine, machine') /\ machine'.file = machine.file
          /\ machine'.legacy = TRUE
          /\ machine'.archives = machine.archives \ {given.archive[1]}
      <3>1. PICK name : name = given.archive[1]
        OBVIOUS
      <3>2. machine' = Unarchived(machine, name)
        BY <1>3, <3>1
      <3>3. /\ IsMachine(Unarchived(machine, name)) /\ SameService(machine, Unarchived(machine, name))
            /\ Unarchived(machine, name).file = machine.file
            /\ Unarchived(machine, name).legacy = TRUE
            /\ Unarchived(machine, name).archives = machine.archives \ {name}
        BY UnarchivedFacts
      <3>4. QED
        BY <3>1, <3>2, <3>3
    <2>2. QED
      BY <1>3, <2>1 DEF Did, PaperLines, Loaded, SameService
  <1>4. ASSUME ~n, machine' = machine PROVE Did("unarchive", "legacy")
    BY <1>4 DEF Did, PaperLines
  <1>5. ASSUME machine' \in {machine} PROVE Left("unarchive", "legacy")
    BY <1>5, Unmoved
  <1> HIDE DEF n, p, t
  <1>6. Says("unarchive", "legacy")
    BY <1>1, <1>3, <1>4, <1>5, AttemptIs
  <1>7. QED
    BY <1>2, <1>6

LEMMA CopyIs == ASSUME IsMachine(machine), CopyLegacy PROVE \E op \in Ops : \E s : Says(op, s)
  <1> DEFINE p == Loadable(machine)
  <1>1. Performs("copy", "legacy") /\ Attempt("copy", TRUE, p, Copied(machine), {machine})
    BY DEF CopyLegacy
  <1>2. "copy" \in Ops
    BY DEF Ops
  <1>3. ASSUME machine' = Copied(machine) PROVE Did("copy", "legacy")
    <2>1. /\ IsMachine(machine') /\ SameService(machine, machine') /\ machine'.file = machine.file
          /\ machine'.legacy = TRUE /\ machine'.archives = machine.archives
      BY <1>3, CopyFacts
    <2>2. QED
      BY <2>1 DEF Did, PaperLines, Loaded, SameService
  <1>4. ASSUME machine' \in {machine} PROVE Left("copy", "legacy")
    BY <1>4, Unmoved
  <1> HIDE DEF p
  <1>5. Says("copy", "legacy")
    BY <1>1, <1>3, <1>4, AttemptIs
  <1>6. QED
    BY <1>2, <1>5

LEMMA UncopyIs == ASSUME IsMachine(machine), RemoveCopy PROVE \E op \in Ops : \E s : Says(op, s)
  <1> DEFINE n == ~Loaded(machine, "legacy")
  <1>1. Performs("uncopy", "legacy") /\ Attempt("uncopy", n, TRUE, CopyRemoved(machine), {machine})
    BY DEF RemoveCopy
  <1>2. "uncopy" \in Ops
    BY DEF Ops
  <1>3. ASSUME n, machine' = CopyRemoved(machine) PROVE Did("uncopy", "legacy")
    <2>1. /\ IsMachine(machine') /\ SameService(machine, machine') /\ machine'.file = machine.file
          /\ machine'.archives = machine.archives
      BY <1>3, CopyFacts
    <2>2. QED
      BY <1>3, <2>1 DEF Did, PaperLines, Loaded, SameService
  <1>4. ASSUME machine' = machine PROVE Did("uncopy", "legacy") /\ Left("uncopy", "legacy")
    BY <1>4, Unmoved DEF Did, PaperLines
  <1> HIDE DEF n
  <1>5. Says("uncopy", "legacy")
    BY <1>1, <1>3, <1>4, AttemptIs
  <1>6. QED
    BY <1>2, <1>5

LEMMA RemoveIs == ASSUME IsMachine(machine), RemoveFiles PROVE \E op \in Ops : \E s : Says(op, s)
  <1> DEFINE purge == command = "purge"
  <1>1. "remove" \in Ops
    BY DEF Ops
  <1>2. ASSUME NEW s \in {"tools", "base"}, NEW t, Performs("remove", s),
               Attempt("remove", TRUE, TRUE, t, {machine}),
               IsMachine(t), t.legacy = machine.legacy, SameService(machine, t)
        PROVE  Says("remove", s)
    <2>1. ASSUME machine' = t PROVE Did("remove", s)
      BY <1>2, <2>1 DEF Did, PaperLines, Loaded, SameService
    <2>2. ASSUME machine' \in {machine} PROVE Left("remove", s)
      BY <2>2, Unmoved
    <2>3. QED
      BY <1>2, <2>1, <2>2, AttemptIs
  <1>3. CASE /\ Performs("remove", "tools")
             /\ Attempt("remove", TRUE, TRUE, ToolsRemoved(machine), {machine})
    BY <1>1, <1>2, <1>3, RemovalFacts
  <1>4. CASE /\ Performs("remove", "base")
             /\ Attempt("remove", TRUE, TRUE, BaseRemoved(machine, purge), {machine})
    <2> HIDE DEF purge
    <2>1. QED
      BY <1>1, <1>2, <1>4, RemovalFacts
  <1>5. QED
    BY <1>3, <1>4 DEF RemoveFiles

ScriptStep ==
    \/ StopService \/ AwaitPort \/ SwitchLink \/ InstallFile
    \/ EnableService \/ LoadService \/ Kickstart \/ AwaitReady
    \/ DisableService \/ RestoreFlag
    \/ ArchiveLegacy \/ UnarchiveLegacy \/ CopyLegacy \/ RemoveCopy \/ RemoveFiles

LEMMA ScriptStepSays ==
    ASSUME IsMachine(machine), ScriptStep PROVE \E op \in Ops : \E s : Says(op, s)
  BY StopIs, PortIs, LinkIs, FileIs, EnableIs, LoadIs, KickIs, ReadyIs, DisableIs, FlagIs,
     ArchiveIs, UnarchiveIs, CopyIs, UncopyIs, RemoveIs DEF ScriptStep

\* How the scripts go on after a line that failed.
LEMMA FailsIs ==
    ASSUME NEW op, Fails(op)
    PROVE  /\ script = "install" => Enter("undoInstall")
           /\ script \in {"undoInstall", "recover"} => GoOn(FALSE)
           /\ script = "restore" => Enter("recover") \/ End("unchanged")
           /\ script = "uninstall" => End("unchanged") \/ End("interrupted")
           /\ script \in Plain =>
                  GoOn(FALSE) \/ Enter("undoRollback") \/ End("interrupted") \/ End("manual")
  <1>1. CASE Tolerated(op)
    <2>1. GoOn(FALSE)
      BY <1>1 DEF Fails
    <2>2. script \notin {"install", "restore", "uninstall"}
      BY <1>1 DEF Tolerated
    <2>3. QED
      BY <2>1, <2>2
  <1>2. CASE ~Tolerated(op)
    <2>1. GiveUp(op)
      BY <1>2 DEF Fails
    <2>2. script \notin {"undoInstall", "recover", "stop"}
      BY <1>2 DEF Tolerated
    <2>3. CASE script = "install"
      BY <2>1, <2>3 DEF GiveUp, Plain
    <2>4. CASE script = "restore"
      BY <2>1, <2>4 DEF GiveUp, Plain
    <2>5. CASE script = "uninstall"
      BY <2>1, <2>5 DEF GiveUp, Plain
    <2>6. CASE script = "rollback"
      BY <2>1, <2>6 DEF GiveUp
    <2>7. CASE script = "undoRollback"
      BY <2>1, <2>7 DEF GiveUp
    <2>8. CASE script = "start"
      BY <2>1, <2>8 DEF GiveUp
    <2>9. QED
      BY <2>2, <2>3, <2>4, <2>5, <2>6, <2>7, <2>8 DEF Plain
  <1>3. QED
    BY <1>1, <1>2

-----------------------------------------------------------------------------
(* The inductive invariant. *)

Reach(m) == m.legacy \/ Loadable(m)

Shape ==
    /\ IsMachine(machine)
    /\ found.legacy \in BOOLEAN
    /\ script \in Plain \cup {"none", "install", "undoInstall", "restore", "recover", "uninstall"}

LoadedHasPlist == Loaded(machine, "legacy") => machine.legacy

\* Between two commands, and where a script leaves the papers alone.
PlainInv ==
    script \in Plain \/ (script = "none" /\ outcome # "manual") => (hadLegacy => Reach(machine))

\* The archive stays on the way back, and the plist is in place once it is copied.
RestoreInv ==
    /\ script \in {"restore", "recover"} => Loadable(machine)
    /\ script = "restore" => (Loaded(found, "legacy") \/ line > 3 => machine.legacy)

UninstallInv == script = "uninstall" => (hadLegacy => machine.legacy)

Began ==
    script \in {"install", "undoInstall"} =>
        /\ hadLegacy => Reach(found)
        /\ \E name : given.archive = <<name>> /\ name \notin found.archives

ArchivedNow ==
    found.legacy /\ machine.legacy = FALSE /\ machine.archives = found.archives \cup {given.archive[1]}

InPlace == machine.legacy = found.legacy /\ machine.archives = found.archives

\* The last lines of an installation move the plist and then write where it went.
InstallInv ==
    script = "install" =>
        /\ line \in 1 .. Len(Install) + 1
        /\ ~found.legacy \/ line <= Len(Install) - 2 => SamePapers(found, machine)
        /\ found.legacy =>
               /\ line > Len(Install) - 15 => ~Loaded(machine, "legacy")
               /\ line > Len(Install) - 2 => ArchivedNow
               /\ line > Len(Install) - 1 => machine.file["label"] # None
               /\ line > Len(Install) => machine.file["archive"] = given.archive

\* An undo puts back one paper after the other, unless a line of it fails.
UndoInv ==
    script = "undoInstall" =>
        /\ line \in 1 .. 24
        /\ InPlace \/ ArchivedNow
        /\ sound /\ line > 11 => machine.file["label"] = found.file["label"]
        /\ sound /\ line > 12 => machine.file["archive"] = found.file["archive"]
        /\ sound /\ line > 13 => InPlace

WayInv ==
    /\ Shape /\ LoadedHasPlist /\ PlainInv /\ RestoreInv /\ UninstallInv
    /\ Began /\ InstallInv /\ UndoInv

LEMMA SameReach ==
    ASSUME NEW m, NEW n, SamePapers(m, n)
    PROVE  Loadable(n) = Loadable(m) /\ Reach(n) = Reach(m)
  BY DEF SamePapers, Loadable, Reach

LEMMA SaysFacts ==
    ASSUME NEW op, NEW s, Says(op, s)
    PROVE  /\ line \in 1 .. Len(Text[script]) /\ Text[script][line] = <<op, s>>
           /\ found' = found /\ given' = given /\ hadLegacy' = hadLegacy
           /\ IsMachine(machine')
  BY DEF Says, Performs, Did, Left

\* A line that is not about the papers.
LEMMA QuietLine ==
    ASSUME NEW op, NEW s, Says(op, s), <<op, s>> \notin PaperLines
    PROVE  SamePapers(machine, machine') /\ (LoadedHasPlist => LoadedHasPlist')
  <1>1. CASE Did(op, s)
    BY <1>1 DEF Did, SamePapers, LoadedHasPlist
  <1>2. CASE Left(op, s)
    BY <1>2 DEF Left, PaperLines, SamePapers, SameService, LoadedHasPlist, Loaded
  <1>3. QED
    BY <1>1, <1>2 DEF Says

LEMMA LinesWithin ==
    ASSUME NEW X, NEW t \in Seq(X), NEW i \in 1 .. Len(t)
    PROVE  t[i] \in X
  OBVIOUS

LEMMA PlainKeeps ==
    ASSUME WayInv, script \in Plain, NEW op, NEW s, Says(op, s)
    PROVE  WayInv'
  <1>1. <<op, s>> \in PlainLines
    BY SaysFacts, ScriptTexts, LinesWithin
  <1>2. SamePapers(machine, machine') /\ LoadedHasPlist'
    BY <1>1, QuietLine DEF WayInv, PlainLines, PaperLines
  <1>3. Reach(machine') = Reach(machine)
    BY <1>2, SameReach
  <1>4. \/ script' \in Plain
        \/ script' = "none"
    <2>1. CASE GoOn(TRUE)
      BY <2>1 DEF GoOn
    <2>2. CASE Fails(op)
      BY <2>2, FailsIs DEF GoOn, Enter, End, Plain
    <2>3. QED
      BY <2>1, <2>2 DEF Says
  <1>5. QED
    BY <1>2, <1>3, <1>4, SaysFacts
       DEF WayInv, Shape, PlainInv, RestoreInv, UninstallInv, Began, InstallInv, UndoInv, Plain

LEMMA UninstallKeeps ==
    ASSUME WayInv, script = "uninstall", NEW op, NEW s, Says(op, s)
    PROVE  WayInv'
  <1>1. <<op, s>> \in UninstallLines
    BY SaysFacts, ScriptTexts, UninstallText, LinesWithin
  <1>2. machine'.legacy = machine.legacy /\ LoadedHasPlist'
    <2>1. CASE op = "remove"
      <3>1. CASE Did(op, s)
        BY <2>1, <3>1 DEF Did, WayInv, LoadedHasPlist
      <3>2. CASE Left(op, s)
        BY <3>2 DEF Left, SameService, WayInv, LoadedHasPlist, Loaded
      <3>3. QED
        BY <3>1, <3>2 DEF Says
    <2>2. CASE <<op, s>> = <<"stop", "new">>
      BY <2>2, QuietLine DEF WayInv, PaperLines, SamePapers
    <2>3. QED
      BY <1>1, <2>1, <2>2 DEF UninstallLines
  <1>3. script' = "uninstall" \/ script' = "none"
    <2>1. CASE GoOn(TRUE)
      BY <2>1 DEF GoOn
    <2>2. CASE Fails(op)
      BY <2>2, FailsIs DEF End
    <2>3. QED
      BY <2>1, <2>2 DEF Says
  <1>4. hadLegacy => machine'.legacy
    BY <1>2 DEF WayInv, UninstallInv
  <1>5. QED
    BY <1>2, <1>3, <1>4, SaysFacts
       DEF WayInv, Shape, PlainInv, RestoreInv, UninstallInv, Began, InstallInv, UndoInv, Plain, Reach

LEMMA RecoverKeeps ==
    ASSUME WayInv, script = "recover", NEW op, NEW s, Says(op, s)
    PROVE  WayInv'
  <1>1. <<op, s>> \in RecoverLines
    BY SaysFacts, ScriptTexts, RecoverText, LinesWithin
  <1>2. Loadable(machine') /\ LoadedHasPlist'
    <2>1. Loadable(machine) /\ LoadedHasPlist
      BY DEF WayInv, RestoreInv
    <2>2. CASE op = "uncopy"
      <3>1. CASE Did(op, s)
        <4>1. machine'.file = machine.file /\ machine'.archives = machine.archives
          BY <2>2, <3>1 DEF Did
        <4>2. Loaded(machine', "legacy") => Loaded(machine, "legacy") /\ machine' = machine
          BY <2>2, <3>1 DEF Did
        <4>3. QED
          BY <2>1, <4>1, <4>2 DEF Loadable, LoadedHasPlist
      <3>2. CASE Left(op, s)
        <4>1. SamePapers(machine, machine') /\ SameService(machine, machine')
          BY <2>2, <3>2 DEF Left, SamePapers
        <4>2. QED
          BY <2>1, <4>1, SameReach DEF SameService, SamePapers, LoadedHasPlist, Loaded
      <3>3. QED
        BY <3>1, <3>2 DEF Says
    <2>3. CASE op # "uncopy"
      <3>1. <<op, s>> \notin PaperLines
        BY <1>1, <2>3 DEF RecoverLines, PaperLines
      <3>2. QED
        BY <2>1, <3>1, QuietLine, SameReach
    <2>4. QED
      BY <2>2, <2>3
  <1>3. script' = "recover"
    <2>1. CASE GoOn(TRUE)
      BY <2>1 DEF GoOn
    <2>2. CASE Fails(op)
      BY <2>2, FailsIs DEF GoOn
    <2>3. QED
      BY <2>1, <2>2 DEF Says
  <1>4. QED
    BY <1>2, <1>3, SaysFacts
       DEF WayInv, Shape, PlainInv, RestoreInv, UninstallInv, Began, InstallInv, UndoInv, Plain

LEMMA RestoreKeeps ==
    ASSUME WayInv, script = "restore", NEW op, NEW s, Says(op, s)
    PROVE  WayInv'
  <1>1. <<op, s>> \in RestoreLines
    BY SaysFacts, ScriptTexts, RestoreText, LinesWithin
  <1>2. Loadable(machine) /\ LoadedHasPlist /\ (Loaded(found, "legacy") \/ line > 3 => machine.legacy)
    BY DEF WayInv, RestoreInv
  <1>3. /\ Loadable(machine') /\ LoadedHasPlist' /\ (machine.legacy => machine'.legacy)
        /\ <<op, s>> = <<"copy", "legacy">> /\ GoOn(TRUE) => machine'.legacy \/ Fails(op)
    <2>1. CASE op = "copy"
      <3>1. CASE Did(op, s)
        <4>1. /\ machine'.file = machine.file /\ machine'.archives = machine.archives
              /\ machine'.legacy = TRUE
          BY <2>1, <3>1 DEF Did
        <4>2. QED
          BY <1>2, <4>1 DEF Loadable, LoadedHasPlist
      <3>2. CASE Left(op, s) /\ Fails(op)
        <4>1. SamePapers(machine, machine') /\ SameService(machine, machine')
          BY <2>1, <3>2 DEF Left, SamePapers
        <4>2. QED
          BY <1>2, <3>2, <4>1, SameReach DEF SameService, SamePapers, LoadedHasPlist, Loaded
      <3>3. QED
        BY <3>1, <3>2 DEF Says
    <2>2. CASE op # "copy"
      <3>1. <<op, s>> \notin PaperLines
        BY <1>1, <2>2 DEF RestoreLines, PaperLines
      <3>2. QED
        BY <1>2, <2>2, <3>1, QuietLine, SameReach DEF SamePapers
    <2>3. QED
      BY <2>1, <2>2
  <1>4. CASE Fails(op)
    <2>1. script' = "recover" \/ script' = "none"
      BY <1>4, FailsIs DEF Enter, End
    <2>2. Reach(machine')
      BY <1>3 DEF Reach
    <2>3. QED
      BY <1>3, <2>1, <2>2, SaysFacts
         DEF WayInv, Shape, PlainInv, RestoreInv, UninstallInv, Began, InstallInv, UndoInv, Plain
  <1>5. CASE GoOn(TRUE) /\ ~Fails(op)
    <2>1. script' = "restore" /\ line' = line + 1
      BY <1>5 DEF GoOn
    <2>2. Loaded(found, "legacy") \/ line' > 3 => machine'.legacy
      <3>1. CASE Loaded(found, "legacy") \/ line > 3
        BY <1>2, <1>3, <3>1
      <3>2. CASE ~Loaded(found, "legacy") /\ line = 3
        <4>1. <<op, s>> = <<"copy", "legacy">>
          BY <3>2, SaysFacts, ScriptTexts, RestoreText
        <4>2. QED
          BY <1>3, <1>5, <4>1
      <3>3. CASE ~Loaded(found, "legacy") /\ line < 3
        <4>1. line \in Nat
          <5>1. PICK n : n = Len(Text[script]) /\ line \in 1 .. n
            BY SaysFacts
          <5>2. QED
            BY <5>1
        <4>2. QED
          BY <2>1, <3>3, <4>1
      <3>4. line \in Nat
        BY SaysFacts
      <3>5. QED
        BY <3>1, <3>2, <3>3, <3>4
    <2>3. QED
      BY <1>3, <2>1, <2>2, SaysFacts
         DEF WayInv, Shape, PlainInv, RestoreInv, UninstallInv, Began, InstallInv, UndoInv, Plain
  <1>6. QED
    BY <1>4, <1>5 DEF Says

\* What an undo needs to find.
LEMMA UndoBegins ==
    ASSUME WayInv, script = "install", Enter("undoInstall"), IsMachine(machine'), LoadedHasPlist',
           found' = found, given' = given, hadLegacy' = hadLegacy, (InPlace \/ ArchivedNow)'
    PROVE  WayInv'
  <1>1. script' = "undoInstall" /\ line' = 1
    BY DEF Enter
  <1>2. Began'
    BY <1>1 DEF WayInv, Began
  <1>3. UndoInv'
    <2>1. 1 \in 1 .. 24 /\ ~(1 > 11) /\ ~(1 > 12) /\ ~(1 > 13)
      OBVIOUS
    <2>2. QED
      BY <1>1, <2>1 DEF UndoInv
  <1>4. Shape'
    BY <1>1 DEF WayInv, Shape
  <1>5. QED
    BY <1>1, <1>2, <1>3, <1>4
       DEF WayInv, PlainInv, RestoreInv, UninstallInv, InstallInv, Plain

\* An installation that goes on.
LEMMA InstallGoesOn ==
    ASSUME WayInv, script = "install", GoOn(TRUE), IsMachine(machine'), LoadedHasPlist',
           found' = found, given' = given, hadLegacy' = hadLegacy, InstallInv'
    PROVE  WayInv'
  <1>1. script' = "install"
    BY DEF GoOn
  <1>2. Began' /\ Shape'
    BY <1>1 DEF WayInv, Began, Shape
  <1>3. QED
    BY <1>1, <1>2 DEF WayInv, PlainInv, RestoreInv, UninstallInv, UndoInv, Plain

LEMMA InstallKeeps ==
    ASSUME WayInv, script = "install", NEW op, NEW s, Says(op, s)
    PROVE  WayInv'
  <1>1. PICK n \in Nat : n = Len(Install)
    BY InstallFacts
  <1>2. /\ line \in 1 .. n /\ Install[line] = <<op, s>>
        /\ found' = found /\ given' = given /\ hadLegacy' = hadLegacy /\ IsMachine(machine')
    BY <1>1, SaysFacts, ScriptTexts
  <1>3. Len(Install)' = n
    BY <1>1, <1>2 DEF Install
  <1>4. /\ LoadedHasPlist
        /\ ~found.legacy \/ line <= n - 2 => SamePapers(found, machine)
        /\ found.legacy =>
               /\ line > n - 15 => ~Loaded(machine, "legacy")
               /\ line > n - 2 => ArchivedNow
               /\ line > n - 1 => machine.file["label"] # None
    BY <1>1 DEF WayInv, InstallInv
  <1>6. CASE <<op, s>> \in PlainInstall /\ (~found.legacy \/ line <= n - 3)
    <2>1. <<op, s>> \notin PaperLines /\ <<op, s>> # <<"load", "legacy">>
      BY <1>6 DEF PlainInstall, PaperLines
    <2>2. SamePapers(machine, machine') /\ LoadedHasPlist'
      BY <1>4, <2>1, QuietLine
    <2>3. SamePapers(found, machine)
      BY <1>1, <1>2, <1>4, <1>6
    <2>4. SamePapers(found, machine')
      BY <2>2, <2>3 DEF SamePapers
    <2>5. CASE GoOn(TRUE) /\ Did(op, s)
      <3>1. line' = line + 1
        BY <2>5 DEF GoOn
      <3>2. found.legacy /\ line' > n - 15 => ~Loaded(machine', "legacy")
        <4> SUFFICES ASSUME found.legacy, line' > n - 15 PROVE ~Loaded(machine', "legacy")
          OBVIOUS
        <4>1. line > n - 15 \/ line = n - 15
          BY <1>1, <1>2, <3>1
        <4>2. CASE line > n - 15
          BY <1>4, <2>1, <2>5, <4>2 DEF Did
        <4>3. CASE line = n - 15
          <5>1. <<op, s>> = <<"stop", "legacy">>
            BY <1>1, <1>2, <4>3, InstallFacts
          <5>2. QED
            BY <2>5, <5>1 DEF Did
        <4>4. QED
          BY <4>1, <4>2, <4>3
      <3>3. line' \in 1 .. n + 1 /\ (found.legacy => ~(line' > n - 2) /\ ~(line' > n - 1) /\ ~(line' > n))
        BY <1>1, <1>2, <1>6, <3>1
      <3>4. InstallInv'
        BY <1>1, <1>2, <1>3, <2>4, <3>2, <3>3 DEF InstallInv
      <3>5. QED
        BY <1>2, <2>2, <2>5, <3>4, InstallGoesOn
    <2>6. CASE Fails(op)
      <3>1. Enter("undoInstall")
        BY <2>6, FailsIs
      <3>2. InPlace'
        BY <1>2, <2>4 DEF InPlace, SamePapers
      <3>3. QED
        BY <1>2, <2>2, <3>1, <3>2, UndoBegins
    <2>7. QED
      BY <2>5, <2>6 DEF Says
  <1>7. CASE found.legacy /\ line = n - 2
    <2>1. op = "archive" /\ s = "legacy"
      BY <1>1, <1>2, <1>7, InstallFacts
    <2>2. n > 15 /\ line > n - 15 /\ line <= n - 2
      BY <1>1, <1>7, InstallFacts
    <2>3. SamePapers(found, machine) /\ ~Loaded(machine, "legacy")
      BY <1>4, <1>7, <2>2
    <2>4. CASE GoOn(TRUE) /\ Did(op, s)
      <3>1. line' = n - 1
        BY <1>1, <1>7, <2>4 DEF GoOn
      <3>2. /\ machine'.legacy = FALSE
            /\ machine'.archives = machine.archives \cup {given.archive[1]}
            /\ ~Loaded(machine', "legacy")
        BY <2>1, <2>3, <2>4 DEF Did
      <3>3. ArchivedNow'
        BY <1>2, <1>7, <2>3, <3>2 DEF ArchivedNow, SamePapers
      <3>4. line' \in 1 .. n + 1 /\ ~(line' <= n - 2) /\ ~(line' > n - 1) /\ ~(line' > n)
        BY <1>1, <2>2, <3>1
      <3>5. InstallInv'
        BY <1>2, <1>3, <1>7, <3>2, <3>3, <3>4 DEF InstallInv
      <3>6. QED
        BY <1>2, <2>4, <3>2, <3>5, InstallGoesOn DEF LoadedHasPlist
    <2>5. CASE Fails(op) /\ Left(op, s)
      <3>1. Enter("undoInstall")
        BY <2>5, FailsIs
      <3>2. InPlace' /\ LoadedHasPlist'
        BY <1>2, <1>4, <2>3, <2>5
           DEF InPlace, SamePapers, Left, SameService, LoadedHasPlist, Loaded
      <3>3. QED
        BY <1>2, <3>1, <3>2, UndoBegins
    <2>6. QED
      BY <2>4, <2>5 DEF Says
  <1>8. CASE found.legacy /\ line \in {n - 1, n}
    <2>1. op = "file" /\ (line = n - 1 => s = "label") /\ (line = n => s = "archive")
      BY <1>1, <1>2, <1>8, InstallFacts
    <2>2. n > 15 /\ line > n - 15 /\ line > n - 2
      BY <1>1, <1>8, InstallFacts
    <2>3. ArchivedNow /\ ~Loaded(machine, "legacy")
      BY <1>4, <1>8, <2>2
    <2>4. <<op, s>> \in {<<"file", "label">>, <<"file", "archive">>}
      BY <1>8, <2>1
    <2>5. CASE GoOn(TRUE) /\ Did(op, s)
      <3>1. line' = line + 1
        BY <2>5 DEF GoOn
      <3>2. /\ machine'.legacy = machine.legacy /\ machine'.archives = machine.archives
            /\ machine'.file[s] = GoalFile(s)
            /\ \A f \in {"label", "archive"} \ {s} : machine'.file[f] = machine.file[f]
            /\ ~Loaded(machine', "legacy")
        BY <2>1, <2>3, <2>4, <2>5 DEF Did
      <3>3. ArchivedNow'
        BY <1>2, <2>3, <3>2 DEF ArchivedNow
      <3>4. GoalFile("label") = <<"legacy">> /\ GoalFile("archive") = given.archive
        BY DEF GoalFile, InstalledFile
      <3>5. machine'.file["label"] # None
        <4>1. CASE line = n - 1
          <5>1. machine'.file["label"] = <<"legacy">>
            BY <2>1, <3>2, <3>4, <4>1
          <5>2. Len(<<"legacy">>) = 1 /\ Len(<<>>) = 0
            OBVIOUS
          <5>3. QED
            BY <5>1, <5>2 DEF None
        <4>2. CASE line = n
          <5>1. machine.file["label"] # None
            BY <1>1, <1>4, <1>8, <4>2
          <5>2. s = "archive"
            BY <2>1, <4>2
          <5>3. QED
            BY <3>2, <5>1, <5>2
        <4>3. QED
          BY <1>8, <4>1, <4>2
      <3>6. line' > n => machine'.file["archive"] = given.archive
        <4> SUFFICES ASSUME line' > n PROVE machine'.file["archive"] = given.archive
          OBVIOUS
        <4>1. line = n
          BY <1>1, <1>8, <3>1
        <4>2. QED
          BY <2>1, <3>2, <3>4, <4>1
      <3>7. line' \in 1 .. n + 1 /\ ~(line' <= n - 2)
        BY <1>1, <1>2, <2>2, <3>1
      <3>8. InstallInv'
        BY <1>2, <1>3, <1>8, <3>2, <3>3, <3>5, <3>6, <3>7 DEF InstallInv
      <3>9. QED
        BY <1>2, <2>5, <3>2, <3>8, InstallGoesOn DEF LoadedHasPlist
    <2>6. CASE Fails(op) /\ Left(op, s)
      <3>1. Enter("undoInstall")
        BY <2>6, FailsIs
      <3>2. ArchivedNow' /\ LoadedHasPlist'
        BY <1>2, <1>4, <2>3, <2>6
           DEF ArchivedNow, Left, SameService, LoadedHasPlist, Loaded
      <3>3. QED
        BY <1>2, <3>1, <3>2, UndoBegins
    <2>7. QED
      BY <2>5, <2>6 DEF Says
  <1>9. QED
    <2>1. CASE ~found.legacy
      BY <1>1, <1>2, <1>6, <2>1, InstallFacts
    <2>2. CASE found.legacy
      <3>1. line \in 1 .. n - 3 \/ line = n - 2 \/ line \in {n - 1, n}
        BY <1>1, <1>2
      <3>2. CASE line \in 1 .. n - 3
        <4>1. line <= n - 3
          BY <1>1, <3>2
        <4>2. QED
          BY <1>1, <1>2, <1>6, <2>2, <3>2, <4>1, InstallFacts
      <3>3. QED
        BY <1>7, <1>8, <2>2, <3>1, <3>2
    <2>3. QED
      BY <2>1, <2>2

LEMMA UndoKeeps ==
    ASSUME WayInv, script = "undoInstall", NEW op, NEW s, Says(op, s)
    PROVE  WayInv'
  <1>1. /\ line \in 1 .. 23 /\ UndoInstall[line] = <<op, s>>
        /\ found' = found /\ given' = given /\ hadLegacy' = hadLegacy /\ IsMachine(machine')
    BY SaysFacts, ScriptTexts, UndoInstallText
  <1>2. script' = "undoInstall" /\ line' = line + 1
    <2>1. GoOn(TRUE) \/ GoOn(FALSE)
      BY FailsIs DEF Says
    <2>2. QED
      BY <2>1 DEF GoOn
  <1>3. /\ InPlace \/ ArchivedNow
        /\ sound /\ line > 11 => machine.file["label"] = found.file["label"]
        /\ sound /\ line > 12 => machine.file["archive"] = found.file["archive"]
        /\ sound /\ line > 13 => InPlace
        /\ LoadedHasPlist
    BY DEF WayInv, UndoInv
  <1>4. line' \in 1 .. 24
    BY <1>1, <1>2
  <1>5. ASSUME LoadedHasPlist', (InPlace \/ ArchivedNow)',
               sound' /\ line' > 11 => machine'.file["label"] = found.file["label"],
               sound' /\ line' > 12 => machine'.file["archive"] = found.file["archive"],
               sound' /\ line' > 13 => InPlace'
        PROVE  WayInv'
    <2>1. UndoInv'
      BY <1>1, <1>4, <1>5 DEF UndoInv
    <2>2. Began' /\ Shape'
      BY <1>1, <1>2 DEF WayInv, Began, Shape
    <2>3. QED
      BY <1>2, <1>5, <2>1, <2>2
         DEF WayInv, PlainInv, RestoreInv, UninstallInv, InstallInv, Plain
  <1>6. CASE line \notin 11 .. 13
    <2>1. <<op, s>> \notin PaperLines
      BY <1>1, <1>6, UndoInstallText DEF PlainInstall, PaperLines
    <2>2. SamePapers(machine, machine') /\ LoadedHasPlist'
      BY <1>3, <2>1, QuietLine
    <2>3. (InPlace' = InPlace) /\ (ArchivedNow' = ArchivedNow)
      BY <1>1, <2>2 DEF SamePapers, InPlace, ArchivedNow
    <2>4. sound' => sound
      BY FailsIs DEF Says, GoOn
    <2>5. /\ line' > 11 => line > 11
          /\ line' > 12 => line > 12
          /\ line' > 13 => line > 13
      BY <1>1, <1>2, <1>6
    <2>6. QED
      BY <1>3, <1>5, <2>2, <2>3, <2>4, <2>5 DEF SamePapers
  <1>7. CASE line \in {11, 12}
    <2>1. op = "file" /\ (line = 11 => s = "label") /\ (line = 12 => s = "archive")
      BY <1>1, <1>7, UndoInstallText
    <2>2. /\ (line = 11 => line' = 12) /\ (line = 12 => line' = 13) /\ ~(line' > 13)
      BY <1>2, <1>7
    <2>3. CASE GoOn(TRUE) /\ Did(op, s)
      <3>1. <<op, s>> \in {<<"file", "label">>, <<"file", "archive">>}
        BY <1>7, <2>1
      <3>2. /\ machine'.legacy = machine.legacy /\ machine'.archives = machine.archives
            /\ machine'.file[s] = GoalFile(s)
            /\ \A f \in {"label", "archive"} \ {s} : machine'.file[f] = machine.file[f]
            /\ Loaded(machine', "legacy") => Loaded(machine, "legacy")
        BY <2>1, <2>3, <3>1 DEF Did
      <3>3. GoalFile("label") = found.file["label"] /\ GoalFile("archive") = found.file["archive"]
        BY DEF GoalFile
      <3>4. (InPlace \/ ArchivedNow)' /\ LoadedHasPlist'
        BY <1>1, <1>3, <3>2 DEF InPlace, ArchivedNow, LoadedHasPlist
      <3>5. sound' => sound
        BY <2>3 DEF GoOn
      <3>6. CASE line = 11
        <4>1. machine'.file["label"] = found.file["label"]
          BY <2>1, <3>2, <3>3, <3>6
        <4>2. ~(line' > 12)
          BY <2>2, <3>6
        <4>3. QED
          BY <1>5, <2>2, <3>4, <4>1, <4>2
      <3>7. CASE line = 12
        <4>1. machine'.file["archive"] = found.file["archive"]
          BY <2>1, <3>2, <3>3, <3>7
        <4>2. sound' => machine'.file["label"] = found.file["label"]
          <5>1. s = "archive" /\ line > 11
            BY <2>1, <3>7
          <5>2. machine'.file["label"] = machine.file["label"]
            BY <3>2, <5>1
          <5>3. QED
            BY <1>3, <3>5, <5>1, <5>2
        <4>3. QED
          BY <1>5, <2>2, <3>4, <4>1, <4>2
      <3>8. QED
        BY <1>7, <3>6, <3>7
    <2>4. CASE Fails(op) /\ Left(op, s)
      <3>1. sound' = FALSE
        BY <2>4, FailsIs DEF GoOn
      <3>2. (InPlace \/ ArchivedNow)' /\ LoadedHasPlist'
        BY <1>1, <1>3, <2>4
           DEF Left, InPlace, ArchivedNow, SameService, LoadedHasPlist, Loaded
      <3>3. QED
        BY <1>5, <3>1, <3>2
    <2>5. QED
      BY <2>3, <2>4 DEF Says
  <1>8. CASE line = 13
    <2>1. op = "unarchive" /\ s = "legacy" /\ line' = 14 /\ line > 11 /\ line > 12
      BY <1>1, <1>2, <1>8, UndoInstallText
    <2>2. PICK name : given.archive = <<name>> /\ name \notin found.archives
      BY DEF WayInv, Began
    <2>3. given.archive[1] = name
      BY <2>2
    <2>4. CASE GoOn(TRUE) /\ Did(op, s)
      <3>1. machine'.file = machine.file
        BY <2>1, <2>4 DEF Did
      <3>2. InPlace'
        <4>1. CASE /\ \A other \in machine.archives : given.archive # <<other>>
                   /\ machine' = machine
          <5>1. name \notin machine.archives
            BY <2>2, <4>1
          <5>2. ~ArchivedNow
            BY <2>3, <5>1 DEF ArchivedNow
          <5>3. QED
            BY <1>1, <1>3, <4>1, <5>2 DEF InPlace
        <4>2. CASE /\ \E other \in machine.archives : given.archive = <<other>>
                   /\ machine'.legacy = TRUE
                   /\ machine'.archives = machine.archives \ {given.archive[1]}
          <5>1. name \in machine.archives
            BY <2>2, <4>2
          <5>2. ~InPlace
            BY <2>2, <5>1 DEF InPlace
          <5>3. ArchivedNow
            BY <1>3, <5>2
          <5>4. found.legacy = TRUE
            BY <5>3 DEF ArchivedNow, WayInv, Shape
          <5>5. machine'.archives = found.archives
            BY <2>2, <2>3, <4>2, <5>3 DEF ArchivedNow
          <5>6. QED
            BY <1>1, <4>2, <5>4, <5>5 DEF InPlace
        <4>3. QED
          BY <2>1, <2>4, <4>1, <4>2 DEF Did
      <3>3. LoadedHasPlist'
        <4>1. Loaded(machine', "legacy") => Loaded(machine, "legacy")
          BY <2>1, <2>4 DEF Did
        <4>2. machine' = machine \/ machine'.legacy = TRUE
          BY <2>1, <2>4 DEF Did
        <4>3. QED
          BY <1>3, <4>1, <4>2 DEF LoadedHasPlist
      <3>4. sound' => sound
        BY <2>4 DEF GoOn
      <3>5. QED
        BY <1>3, <1>5, <2>1, <3>1, <3>2, <3>3, <3>4
    <2>5. CASE Fails(op) /\ Left(op, s)
      <3>1. sound' = FALSE
        BY <2>5, FailsIs DEF GoOn
      <3>2. (InPlace \/ ArchivedNow)' /\ LoadedHasPlist'
        BY <1>1, <1>3, <2>5
           DEF Left, InPlace, ArchivedNow, SameService, LoadedHasPlist, Loaded
      <3>3. QED
        BY <1>5, <3>1, <3>2
    <2>6. QED
      BY <2>4, <2>5 DEF Says
  <1>9. QED
    <2>1. line \notin 11 .. 13 \/ line \in {11, 12} \/ line = 13
      BY <1>1
    <2>2. QED
      BY <1>6, <1>7, <1>8, <2>1

-----------------------------------------------------------------------------
(* The end of a script, and the commands of the user. *)

LEMMA FinishKeeps == ASSUME WayInv, Finish PROVE WayInv'
  <1>1. /\ machine' = machine /\ found' = found /\ given' = given /\ hadLegacy' = hadLegacy
        /\ command' = command /\ script # "none" /\ line = Len(Text[script]) + 1
    BY DEF Finish
  <1>2. Shape /\ LoadedHasPlist
    BY DEF WayInv
  <1>3. CASE script = "restore" /\ command \in {"uninstall", "purge"}
    <2>1. script' = "uninstall"
      BY <1>3 DEF Finish, Enter
    <2>2. machine.legacy
      <3>1. CASE Loaded(found, "legacy")
        BY <1>3, <3>1 DEF WayInv, RestoreInv
      <3>2. CASE ~Loaded(found, "legacy")
        <4>1. Len(Restore) > 3 /\ Restore \in Seq(RestoreLines)
          BY <3>2, RestoreText
        <4>2. PICK n \in Nat : n = Len(Restore)
          BY <4>1
        <4>3. line = n + 1 /\ n > 3
          BY <1>1, <1>3, <4>1, <4>2, ScriptTexts
        <4>4. line > 3
          BY <4>3
        <4>5. QED
          BY <1>3, <4>4 DEF WayInv, RestoreInv
      <3>3. QED
        BY <3>1, <3>2
    <2>3. QED
      BY <1>1, <1>2, <2>1, <2>2
         DEF WayInv, Shape, LoadedHasPlist, PlainInv, RestoreInv, UninstallInv, Began, InstallInv,
             UndoInv, Plain
  <1>4. CASE ~(script = "restore" /\ command \in {"uninstall", "purge"})
    <2>1. /\ script' = "none"
          /\ script \in {"undoInstall", "undoRollback", "recover"} =>
                 outcome' = IF sound THEN "restored" ELSE "manual"
      BY <1>4 DEF Finish, End
    <2>2. ASSUME hadLegacy, outcome' # "manual" PROVE Reach(machine)
      <3>1. CASE script \in Plain
        BY <2>2, <3>1 DEF WayInv, PlainInv
      <3>2. CASE script \in {"restore", "recover"}
        BY <3>2 DEF WayInv, RestoreInv, Reach
      <3>3. CASE script = "uninstall"
        BY <2>2, <3>3 DEF WayInv, UninstallInv, Reach
      <3>4. CASE script = "install"
        <4>1. PICK n \in Nat : n = Len(Install)
          BY InstallFacts
        <4>2. line = n + 1
          BY <1>1, <3>4, <4>1, ScriptTexts
        <4>3. CASE ~found.legacy
          <5>1. SamePapers(found, machine) /\ Reach(found)
            BY <2>2, <3>4, <4>3 DEF WayInv, InstallInv, Began
          <5>2. QED
            BY <5>1, SameReach
        <4>4. CASE found.legacy
          <5>1. line > n - 2 /\ line > n - 1 /\ line > n
            BY <4>1, <4>2
          <5>2. /\ ArchivedNow /\ machine.file["label"] # None
                /\ machine.file["archive"] = given.archive
            BY <3>4, <4>1, <4>4, <5>1 DEF WayInv, InstallInv
          <5>3. PICK name : given.archive = <<name>>
            BY <3>4 DEF WayInv, Began
          <5>4. name \in machine.archives
            BY <5>2, <5>3 DEF ArchivedNow
          <5>5. QED
            BY <5>2, <5>3, <5>4 DEF Reach, Loadable
        <4>5. QED
          BY <4>3, <4>4
      <3>5. CASE script = "undoInstall"
        <4>1. sound
          BY <2>1, <2>2, <3>5
        <4>2. line = 24
          BY <1>1, <3>5, ScriptTexts, UndoInstallText
        <4>3. SamePapers(found, machine)
          BY <3>5, <4>1, <4>2 DEF WayInv, UndoInv, InPlace, SamePapers
        <4>4. Reach(found)
          BY <2>2, <3>5 DEF WayInv, Began
        <4>5. QED
          BY <4>3, <4>4, SameReach
      <3>6. QED
        BY <1>1, <1>2, <3>1, <3>2, <3>3, <3>4, <3>5 DEF Shape
    <2>3. QED
      BY <1>1, <1>2, <2>1, <2>2
         DEF WayInv, Shape, LoadedHasPlist, PlainInv, RestoreInv, UninstallInv, Began, InstallInv,
             UndoInv, Plain, Reach, Loadable
  <1>5. QED
    BY <1>3, <1>4

LEMMA SignalKeeps == ASSUME WayInv, Signal PROVE WayInv'
  <1>1. /\ machine' = machine /\ found' = found /\ given' = given /\ hadLegacy' = hadLegacy
        /\ script \notin {"none", "recover"}
    BY DEF Signal
  <1>2. Shape /\ LoadedHasPlist
    BY DEF WayInv
  <1>3. CASE script = "install"
    <2>1. Enter("undoInstall")
      BY <1>3 DEF Signal
    <2>2. (InPlace \/ ArchivedNow)'
      <3>1. PICK n \in Nat : n = Len(Install)
        BY InstallFacts
      <3>2. line \in 1 .. n + 1
        BY <1>3, <3>1 DEF WayInv, InstallInv
      <3>3. CASE ~found.legacy \/ line <= n - 2
        <4>1. SamePapers(found, machine)
          BY <1>3, <3>1, <3>3 DEF WayInv, InstallInv
        <4>2. QED
          BY <1>1, <4>1 DEF SamePapers, InPlace
      <3>4. CASE found.legacy /\ ~(line <= n - 2)
        <4>1. line > n - 2
          BY <3>1, <3>2, <3>4
        <4>2. ArchivedNow
          BY <1>3, <3>1, <3>4, <4>1 DEF WayInv, InstallInv
        <4>3. QED
          BY <1>1, <4>2 DEF ArchivedNow
      <3>5. QED
        BY <3>3, <3>4
    <2>3. IsMachine(machine') /\ LoadedHasPlist'
      BY <1>1, <1>2 DEF Shape, LoadedHasPlist
    <2>4. QED
      BY <1>1, <1>3, <2>1, <2>2, <2>3, UndoBegins
  <1>4. CASE script = "restore"
    <2>1. script' = "recover" \/ script' = "none"
      BY <1>4 DEF Signal, Enter, End
    <2>2. Loadable(machine)
      BY <1>4 DEF WayInv, RestoreInv
    <2>3. QED
      BY <1>1, <1>2, <2>1, <2>2
         DEF WayInv, Shape, LoadedHasPlist, PlainInv, RestoreInv, UninstallInv, Began, InstallInv,
             UndoInv, Plain, Reach, Loadable
  <1>5. CASE script \in {"undoInstall", "undoRollback"}
    <2>1. script' = "none" /\ outcome' = "manual"
      BY <1>5 DEF Signal, End
    <2>2. QED
      BY <1>1, <1>2, <2>1
         DEF WayInv, Shape, LoadedHasPlist, PlainInv, RestoreInv, UninstallInv, Began, InstallInv,
             UndoInv, Plain
  <1>6. CASE script \in {"rollback", "start", "stop", "uninstall"}
    <2>1. script' = "none"
      BY <1>6 DEF Signal, End
    <2>2. hadLegacy => Reach(machine)
      BY <1>6 DEF WayInv, PlainInv, UninstallInv, Plain, Reach
    <2>3. QED
      BY <1>1, <1>2, <2>1, <2>2
         DEF WayInv, Shape, LoadedHasPlist, PlainInv, RestoreInv, UninstallInv, Began, InstallInv,
             UndoInv, Plain, Reach, Loadable
  <1>7. QED
    BY <1>1, <1>2, <1>3, <1>4, <1>5, <1>6 DEF Shape, Plain

\* A command that begins a script.
LEMMA BeginFacts ==
    ASSUME WayInv, NEW typed, NEW first, NEW settings, Begin(typed, first, settings)
    PROVE  /\ machine' = machine /\ found' = machine /\ given' = settings /\ hadLegacy' = hadLegacy
           /\ script' = first /\ line' = 1 /\ sound' = TRUE
           /\ IsMachine(machine') /\ found'.legacy \in BOOLEAN
           /\ LoadedHasPlist /\ LoadedHasPlist'
           /\ hadLegacy => Reach(machine)
  <1>1. /\ machine' = machine /\ found' = machine /\ given' = settings /\ hadLegacy' = hadLegacy
        /\ script' = first /\ line' = 1 /\ sound' = TRUE /\ script = "none" /\ outcome # "manual"
    BY DEF Begin, Enter
  <1>2. IsMachine(machine) /\ LoadedHasPlist /\ (hadLegacy => Reach(machine))
    BY <1>1 DEF WayInv, Shape, PlainInv
  <1>3. QED
    BY <1>1, <1>2 DEF IsMachine, LoadedHasPlist

InstallIsLong ==
    Len(Install) \in Nat /\ Len(Install) > 0 /\ (found.legacy => Len(Install) > 15)

\* Whatever the next state, what it has to install is as long.
LEMMA NextInstallIsLong == InstallIsLong'
  <1>1. InstallIsLong
    BY InstallFacts DEF InstallIsLong
  <1>2. QED
    BY <1>1, PTL

LEMMA InstallBegins ==
    ASSUME WayInv, NEW release, NEW cors, NEW name \in FreshNames,
           Begin("install", "install", [release |-> release, cors |-> cors, archive |-> <<name>>])
    PROVE  WayInv'
  <1> DEFINE settings == [release |-> release, cors |-> cors, archive |-> <<name>>]
  <1>1. /\ machine' = machine /\ found' = machine /\ given' = settings /\ hadLegacy' = hadLegacy
        /\ script' = "install" /\ line' = 1 /\ sound' = TRUE
        /\ IsMachine(machine') /\ found'.legacy \in BOOLEAN
        /\ LoadedHasPlist' /\ (hadLegacy => Reach(machine))
    BY BeginFacts
  <1>2. given'.archive = <<name>> /\ name \notin machine.archives
    BY <1>1 DEF FreshNames
  <1>3. Began'
    <2>1. hadLegacy' => Reach(found')
      BY <1>1
    <2>2. given'.archive = <<name>> /\ name \notin found'.archives
      BY <1>1, <1>2
    <2>3. QED
      BY <2>1, <2>2 DEF Began, Reach, Loadable
  <1>4. PICK n \in Nat : n = Len(Install)' /\ n > 0 /\ (found'.legacy => n > 15)
    BY NextInstallIsLong DEF InstallIsLong
  <1>5. SamePapers(found, machine)'
    BY <1>1 DEF SamePapers
  <1>6. InstallInv'
    <2>1. 1 \in 1 .. n + 1 /\ ~(1 > n)
      BY <1>4
    <2>2. found'.legacy => ~(1 > n - 15) /\ ~(1 > n - 2) /\ ~(1 > n - 1)
      BY <1>4
    <2>3. QED
      BY <1>1, <1>4, <1>5, <2>1, <2>2 DEF InstallInv
  <1>7. Shape'
    BY <1>1 DEF Shape
  <1>8. QED
    BY <1>1, <1>3, <1>6, <1>7
       DEF WayInv, PlainInv, RestoreInv, UninstallInv, UndoInv, Plain

LEMMA PlainBegins ==
    ASSUME WayInv, NEW typed, NEW first \in Plain, NEW settings, Begin(typed, first, settings)
    PROVE  WayInv'
  BY BeginFacts
     DEF WayInv, Shape, LoadedHasPlist, PlainInv, RestoreInv, UninstallInv, Began, InstallInv,
         UndoInv, Plain, Reach, Loadable

LEMMA RestoreBegins ==
    ASSUME WayInv, CanRestore, NEW typed, NEW settings, Begin(typed, "restore", settings)
    PROVE  WayInv'
  <1>1. /\ machine' = machine /\ found' = machine /\ script' = "restore" /\ line' = 1
        /\ IsMachine(machine') /\ found'.legacy \in BOOLEAN /\ LoadedHasPlist'
    BY BeginFacts
  <1>2. Loadable(machine') /\ (Loaded(found', "legacy") => machine'.legacy)
    BY <1>1, BeginFacts DEF CanRestore, LoadedHasPlist
  <1>3. RestoreInv'
    <2>1. ~(1 > 3)
      OBVIOUS
    <2>2. QED
      BY <1>1, <1>2, <2>1 DEF RestoreInv
  <1>4. Shape'
    BY <1>1 DEF Shape
  <1>5. QED
    BY <1>1, <1>3, <1>4
       DEF WayInv, PlainInv, UninstallInv, Began, InstallInv, UndoInv, Plain

LEMMA UninstallBegins ==
    ASSUME WayInv, ~Configured(machine), NEW typed, NEW settings, Begin(typed, "uninstall", settings)
    PROVE  WayInv'
  <1>1. ~Loadable(machine)
    BY DEF Configured, Loadable
  <1>2. hadLegacy => machine.legacy
    BY <1>1, BeginFacts DEF Reach
  <1>3. /\ machine' = machine /\ hadLegacy' = hadLegacy /\ script' = "uninstall"
        /\ IsMachine(machine') /\ found'.legacy \in BOOLEAN /\ LoadedHasPlist'
    BY BeginFacts
  <1>4. Shape' /\ UninstallInv'
    BY <1>2, <1>3 DEF Shape, UninstallInv
  <1>5. QED
    BY <1>3, <1>4
       DEF WayInv, PlainInv, RestoreInv, Began, InstallInv, UndoInv, Plain

LEMMA UserKeeps ==
    ASSUME WayInv,
           \/ BeginInstall \/ BeginUpdate \/ BeginRollback \/ BeginRestore \/ BeginUninstall
           \/ BeginStartOrStop
    PROVE  WayInv'
  <1>1. CASE BeginInstall
    BY <1>1, InstallBegins DEF BeginInstall
  <1>2. CASE BeginUpdate
    BY <1>2, InstallBegins DEF BeginUpdate
  <1>3. CASE BeginRollback
    BY <1>3, PlainBegins, RestoreBegins DEF BeginRollback, Plain
  <1>4. CASE BeginRestore
    BY <1>4, RestoreBegins DEF BeginRestore
  <1>5. CASE BeginUninstall
    BY <1>5, RestoreBegins, UninstallBegins DEF BeginUninstall
  <1>6. CASE BeginStartOrStop
    <2>1. PICK typed \in {"start", "stop"} : Begin(typed, typed, Nothing)
      BY <1>6 DEF BeginStartOrStop
    <2>2. typed \in Plain
      BY <2>1 DEF Plain
    <2>3. QED
      BY <2>1, <2>2, PlainBegins
  <1>7. QED
    BY <1>1, <1>2, <1>3, <1>4, <1>5, <1>6

LEMMA LineKeeps == ASSUME WayInv, ScriptStep PROVE WayInv'
  <1>1. PICK op, s : Says(op, s)
    BY ScriptStepSays DEF WayInv, Shape
  <1>2. script # "none"
    BY <1>1 DEF Says, Performs
  <1>3. script \in Plain \/ script \in {"install", "undoInstall", "restore", "recover", "uninstall"}
    BY <1>2 DEF WayInv, Shape
  <1>4. QED
    BY <1>1, <1>3, PlainKeeps, InstallKeeps, UndoKeeps, RestoreKeeps, RecoverKeeps, UninstallKeeps

LEMMA WayHolds == Spec => []WayInv
  <1>1. Init => WayInv
    <2> SUFFICES ASSUME Init PROVE WayInv
      OBVIOUS
    <2>1. /\ machine \in Machines /\ found = machine /\ script = "none"
          /\ hadLegacy = (machine.legacy \/ Configured(machine))
      BY DEF Init
    <2>2. /\ machine.legacy \in BOOLEAN
          /\ Loaded(machine, "legacy") => machine.legacy
          /\ Configured(machine) => machine.legacy \/ Loadable(machine)
      BY <2>1, MachinesAssumption
    <2>3. IsMachine(machine)
      <3>1. machine = [link |-> [l \in Links |-> machine.link[l]],
                       file |-> [f \in Files |-> machine.file[f]], legacy |-> machine.legacy,
                       archives |-> machine.archives,
                       process |-> [s \in Services |-> machine.process[s]],
                       disabled |-> machine.disabled]
        BY <2>1, MachinesAssumption
      <3>2. machine.link = [l \in Links |-> machine.link[l]]
        BY <3>1
      <3>3. QED
        BY <2>2, <3>1, <3>2 DEF IsMachine
    <2>4. hadLegacy => Reach(machine)
      BY <2>1, <2>2 DEF Reach
    <2>5. QED
      BY <2>1, <2>2, <2>3, <2>4
         DEF WayInv, Shape, LoadedHasPlist, PlainInv, RestoreInv, UninstallInv, Began, InstallInv,
             UndoInv, Plain
  <1>2. WayInv /\ [Next]_vars => WayInv'
    <2> SUFFICES ASSUME WayInv, [Next]_vars PROVE WayInv'
      OBVIOUS
    <2>1. CASE UNCHANGED vars
      BY <2>1
         DEF vars, WayInv, Shape, LoadedHasPlist, PlainInv, RestoreInv, UninstallInv, Began,
             InstallInv, UndoInv, ArchivedNow, InPlace, SamePapers, IsMachine, Reach, Loadable,
             Loaded, Install
    <2>2. CASE Next
      BY <2>1, <2>2, UserKeeps, LineKeeps, FinishKeeps, SignalKeeps DEF Next, ScriptStep, Rest
    <2>3. QED
      BY <2>1, <2>2
  <1>3. QED
    BY <1>1, <1>2, PTL DEF Spec

\* Between two commands the legacy service has its plist in place, or an archive of it that
\* the metadata lead to, unless the scripts have told the user to look: whatever the machine
\* was like, whichever command of a script failed and wherever a signal fell, in any number.
THEOREM LegacyIsNeverLost == Spec => []LegacyStaysReachable
  <1>1. WayInv => LegacyStaysReachable
    BY DEF WayInv, PlainInv, LegacyStaysReachable, Reach
  <1>2. QED
    BY <1>1, WayHolds, PTL

-----------------------------------------------------------------------------
(* The scripts in full. *)

LEMMA RollbackText ==
    /\ Len(Rollback) = 9
    /\ Rollback[1] = <<"link", "current">> /\ Rollback[2] = <<"link", "previous">>
    /\ Rollback[3] = <<"file", "plist">> /\ Rollback[4] = <<"stop", "new">>
    /\ Rollback[5] = <<"port", "any">> /\ Rollback[6] = <<"enable", "new">>
    /\ Rollback[7] = <<"load", "new">> /\ Rollback[8] = <<"kickstart", "new">>
    /\ Rollback[9] = <<"ready", "new">>
  <1> DEFINE a == << <<"link", "current">>, <<"link", "previous">>, <<"file", "plist">> >>
             b == << <<"stop", "new">>, <<"port", "any">> >>
             c == Start("new")
  <1>1. /\ a \in Seq(Lines) /\ Len(a) = 3
        /\ a[1] = <<"link", "current">> /\ a[2] = <<"link", "previous">>
        /\ a[3] = <<"file", "plist">>
    <2>1. /\ <<"link", "current">> \in Lines /\ <<"link", "previous">> \in Lines
          /\ <<"file", "plist">> \in Lines
      BY DEF Lines, Ops, Services, Links, Files, Tools
    <2>2. QED
      BY <2>1
  <1>2. /\ b \in Seq(Lines) /\ Len(b) = 2 /\ b[1] = <<"stop", "new">> /\ b[2] = <<"port", "any">>
    <2>1. <<"stop", "new">> \in Lines /\ <<"port", "any">> \in Lines
      BY DEF Lines, Ops, Services
    <2>2. QED
      BY <2>1
  <1>3. /\ c \in Seq(Lines) /\ Len(c) = 4 /\ c[1] = <<"enable", "new">> /\ c[2] = <<"load", "new">>
        /\ c[3] = <<"kickstart", "new">> /\ c[4] = <<"ready", "new">>
    BY StartText DEF Services
  <1>4. Rollback = a \o (b \o c)
    BY DEF Rollback, Restart
  <1> HIDE DEF a, b, c
  <1>5. PICK bc : Joined(Lines, b, c, bc, 2, 4) /\ bc = b \o c
    BY <1>2, <1>3, JoinFacts
  <1>6. /\ bc \in Seq(Lines) /\ Len(bc) = 6 /\ bc[1] = b[1] /\ bc[2] = b[2]
        /\ bc[3] = c[1] /\ bc[4] = c[2] /\ bc[5] = c[3] /\ bc[6] = c[4]
    BY <1>5 DEF Joined
  <1>7. Joined(Lines, a, bc, Rollback, 3, 6)
    BY <1>1, <1>4, <1>5, <1>6, JoinFacts
  <1>8. /\ Len(Rollback) = 9
        /\ Rollback[1] = a[1] /\ Rollback[2] = a[2] /\ Rollback[3] = a[3]
        /\ Rollback[4] = bc[1] /\ Rollback[5] = bc[2] /\ Rollback[6] = bc[3]
        /\ Rollback[7] = bc[4] /\ Rollback[8] = bc[5] /\ Rollback[9] = bc[6]
    BY <1>7 DEF Joined
  <1>9. QED
    BY <1>1, <1>2, <1>3, <1>6, <1>8

LEMMA UndoRollbackText ==
    /\ Len(UndoRollback) = 8
    /\ \A i \in 1 .. 8 : UndoRollback[i] = Rollback[i]
  <1>1. Rollback \in Seq(PlainLines) /\ Len(Rollback) = 9
    BY PlainTexts, RollbackText
  <1>2. UndoRollback = SubSeq(Rollback, 1, 8)
    BY <1>1 DEF UndoRollback
  <1>3. QED
    BY <1>1, <1>2

LEMMA RestoreFull ==
    /\ Loaded(found, "legacy") =>
           /\ Len(Restore) = 3
           /\ Restore[1] = <<"stop", "new">> /\ Restore[2] = <<"ready", "legacy">>
           /\ Restore[3] = <<"disable", "new">>
    /\ ~Loaded(found, "legacy") =>
           /\ Len(Restore) = 8
           /\ Restore[1] = <<"stop", "new">> /\ Restore[2] = <<"port", "any">>
           /\ Restore[3] = <<"copy", "legacy">> /\ Restore[4] = <<"enable", "legacy">>
           /\ Restore[5] = <<"load", "legacy">> /\ Restore[6] = <<"kickstart", "legacy">>
           /\ Restore[7] = <<"ready", "legacy">> /\ Restore[8] = <<"disable", "new">>
  <1>1. CASE Loaded(found, "legacy")
    BY <1>1 DEF Restore
  <1>2. CASE ~Loaded(found, "legacy")
    <2> DEFINE a == << <<"stop", "new">>, <<"port", "any">>, <<"copy", "legacy">> >>
               b == Start("legacy")
               c == << <<"disable", "new">> >>
    <2>1. /\ a \in Seq(RestoreLines) /\ Len(a) = 3
          /\ a[1] = <<"stop", "new">> /\ a[2] = <<"port", "any">> /\ a[3] = <<"copy", "legacy">>
      BY DEF RestoreLines
    <2>2. /\ b \in Seq(RestoreLines) /\ Len(b) = 4 /\ b[1] = <<"enable", "legacy">>
          /\ b[2] = <<"load", "legacy">> /\ b[3] = <<"kickstart", "legacy">>
          /\ b[4] = <<"ready", "legacy">>
      BY DEF RestoreLines, Start
    <2>3. c \in Seq(RestoreLines) /\ Len(c) = 1 /\ c[1] = <<"disable", "new">>
      BY DEF RestoreLines
    <2>4. Restore = (a \o b) \o c
      BY <1>2 DEF Restore
    <2> HIDE DEF a, b, c
    <2>5. PICK ab : Joined(RestoreLines, a, b, ab, 3, 4) /\ ab = a \o b
      BY <2>1, <2>2, JoinFacts
    <2>6. /\ ab \in Seq(RestoreLines) /\ Len(ab) = 7
          /\ ab[1] = a[1] /\ ab[2] = a[2] /\ ab[3] = a[3]
          /\ ab[4] = b[1] /\ ab[5] = b[2] /\ ab[6] = b[3] /\ ab[7] = b[4]
      BY <2>5 DEF Joined
    <2>7. Joined(RestoreLines, ab, c, Restore, 7, 1)
      BY <2>3, <2>4, <2>5, <2>6, JoinFacts
    <2>8. /\ Len(Restore) = 8
          /\ Restore[1] = ab[1] /\ Restore[2] = ab[2] /\ Restore[3] = ab[3] /\ Restore[4] = ab[4]
          /\ Restore[5] = ab[5] /\ Restore[6] = ab[6] /\ Restore[7] = ab[7] /\ Restore[8] = c[1]
      BY <2>7 DEF Joined
    <2>9. QED
      BY <1>2, <2>1, <2>2, <2>3, <2>6, <2>8
  <1>3. QED
    BY <1>1, <1>2

LEMMA RecoverFull ==
    /\ Recover[1] = <<"stop", "legacy">>
    /\ ~Loaded(found, "legacy") =>
           /\ Len(Recover) = IF Loaded(found, "new") THEN 8 ELSE 4
           /\ Recover[2] = <<"disable", "legacy">> /\ Recover[3] = <<"uncopy", "legacy">>
           /\ Recover[4] = <<"port", "any">>
           /\ Loaded(found, "new") =>
                  /\ Recover[5] = <<"enable", "new">> /\ Recover[6] = <<"load", "new">>
                  /\ Recover[7] = <<"kickstart", "new">> /\ Recover[8] = <<"ready", "new">>
  <1> DEFINE a == << <<"stop", "legacy">>, <<"disable", "legacy">> >>
             b == IF Loaded(found, "legacy") THEN <<>> ELSE << <<"uncopy", "legacy">> >>
             c == << <<"port", "any">> >>
             d == IF Loaded(found, "new") THEN Start("new") ELSE <<>>
  <1>1. /\ a \in Seq(RecoverLines) /\ Len(a) = 2
        /\ a[1] = <<"stop", "legacy">> /\ a[2] = <<"disable", "legacy">>
    BY DEF RecoverLines
  <1>2. /\ b \in Seq(RecoverLines)
        /\ ~Loaded(found, "legacy") => Len(b) = 1 /\ b[1] = <<"uncopy", "legacy">>
    BY DEF RecoverLines
  <1>3. c \in Seq(RecoverLines) /\ Len(c) = 1 /\ c[1] = <<"port", "any">>
    BY DEF RecoverLines
  <1>4. /\ d \in Seq(RecoverLines) /\ Len(d) = IF Loaded(found, "new") THEN 4 ELSE 0
        /\ Loaded(found, "new") =>
               /\ d[1] = <<"enable", "new">> /\ d[2] = <<"load", "new">>
               /\ d[3] = <<"kickstart", "new">> /\ d[4] = <<"ready", "new">>
    <2>1. /\ Start("new") \in Seq(RecoverLines) /\ <<>> \in Seq(RecoverLines)
          /\ Len(Start("new")) = 4 /\ Len(<<>>) = 0
      BY DEF RecoverLines, Start
    <2>2. /\ Start("new")[1] = <<"enable", "new">> /\ Start("new")[2] = <<"load", "new">>
          /\ Start("new")[3] = <<"kickstart", "new">> /\ Start("new")[4] = <<"ready", "new">>
      BY StartText DEF Services
    <2>3. CASE Loaded(found, "new")
      <3>1. d = Start("new")
        BY <2>3
      <3>2. QED
        BY <2>1, <2>2, <2>3, <3>1
    <2>4. CASE ~Loaded(found, "new")
      <3>1. d = <<>>
        BY <2>4
      <3>2. QED
        BY <2>1, <2>4, <3>1
    <2>5. QED
      BY <2>3, <2>4
  <1>5. Recover = ((a \o b) \o c) \o d
    BY DEF Recover
  <1> HIDE DEF a, b, c, d
  <1>6. PICK m : m \in Nat /\ Len(b) = m /\ (~Loaded(found, "legacy") => m = 1)
    BY <1>2, JoinWithin
  <1>7. PICK n : n \in Nat /\ Len(d) = n /\ n = IF Loaded(found, "new") THEN 4 ELSE 0
    BY <1>4
  <1>8. PICK ab : Joined(RecoverLines, a, b, ab, 2, m) /\ ab = a \o b
    BY <1>1, <1>2, <1>6, JoinFacts
  <1>9. m + 2 \in Nat /\ 2 + m \in Nat /\ 2 + m + 1 \in Nat
    BY <1>6
  <1>10. PICK abc : Joined(RecoverLines, ab, c, abc, 2 + m, 1) /\ abc = ab \o c
    <2>1. ab \in Seq(RecoverLines) /\ Len(ab) = 2 + m
      BY <1>8 DEF Joined
    <2>2. QED
      BY <1>3, <1>9, <2>1, JoinFacts
  <1>11. Joined(RecoverLines, abc, d, Recover, 2 + m + 1, n)
    <2>1. abc \in Seq(RecoverLines) /\ Len(abc) = 2 + m + 1
      BY <1>10 DEF Joined
    <2>2. Recover = abc \o d
      BY <1>5, <1>8, <1>10
    <2>3. QED
      BY <1>4, <1>7, <1>9, <2>1, <2>2, JoinFacts
  <1>12. Recover[1] = a[1] /\ Recover[2] = a[2]
    <2>1. ab[1] = a[1] /\ ab[2] = a[2]
      <3>1. \A i \in 1 .. 2 : ab[i] = a[i]
        BY <1>8 DEF Joined
      <3>2. QED
        BY <3>1
    <2>2. 1 \in 1 .. 2 + m /\ 2 \in 1 .. 2 + m /\ 1 \in 1 .. 2 + m + 1 /\ 2 \in 1 .. 2 + m + 1
      BY <1>6
    <2>3. abc[1] = ab[1] /\ abc[2] = ab[2]
      BY <1>10, <2>2 DEF Joined
    <2>4. Recover[1] = abc[1] /\ Recover[2] = abc[2]
      BY <1>11, <2>2 DEF Joined
    <2>5. QED
      BY <2>1, <2>3, <2>4
  <1>13. ASSUME ~Loaded(found, "legacy")
         PROVE  /\ Len(Recover) = 4 + n /\ Recover[3] = b[1] /\ Recover[4] = c[1]
                /\ \A i \in 1 .. n : Recover[4 + i] = d[i]
    <2>1. m = 1 /\ 2 + m = 3 /\ 2 + m + 1 = 4
      BY <1>6, <1>13
    <2>2. ab[3] = b[1]
      BY <1>8, <2>1 DEF Joined
    <2>3. abc[3] = ab[3] /\ abc[4] = c[1]
      BY <1>10, <2>1 DEF Joined
    <2>4. /\ Recover[3] = abc[3] /\ Recover[4] = abc[4] /\ Len(Recover) = 4 + n
          /\ \A i \in 1 .. n : Recover[4 + i] = d[i]
      BY <1>11, <2>1 DEF Joined
    <2>5. QED
      BY <2>2, <2>3, <2>4
  <1>14. ASSUME ~Loaded(found, "legacy"), Loaded(found, "new")
         PROVE  /\ Recover[5] = d[1] /\ Recover[6] = d[2] /\ Recover[7] = d[3] /\ Recover[8] = d[4]
    <2>1. n = 4 /\ \A i \in 1 .. 4 : Recover[4 + i] = d[i]
      BY <1>7, <1>13, <1>14
    <2>2. 4 + 1 = 5 /\ 4 + 2 = 6 /\ 4 + 3 = 7 /\ 4 + 4 = 8
      OBVIOUS
    <2>3. QED
      BY <2>1, <2>2
  <1>15. QED
    BY <1>1, <1>2, <1>3, <1>4, <1>7, <1>12, <1>13, <1>14

LEMMA ShortTexts ==
    /\ Len(Uninstall) = 3
    /\ Uninstall[1] = <<"stop", "new">> /\ Uninstall[2] = <<"remove", "tools">>
    /\ Uninstall[3] = <<"remove", "base">>
    /\ Len(Text["start"]) = 3
    /\ Text["start"][1] = <<"enable", "new">> /\ Text["start"][2] = <<"load", "new">>
    /\ Text["start"][3] = <<"kickstart", "new">>
    /\ Len(Text["stop"]) = 1 /\ Text["stop"][1] = <<"stop", "new">>
  <1>1. Text["start"] = SubSeq(Start("new"), 1, 3) /\ Text["stop"] = << <<"stop", "new">> >>
    BY DEF Text
  <1>2. /\ Start("new") \in Seq(Lines) /\ Len(Start("new")) = 4
        /\ Start("new")[1] = <<"enable", "new">> /\ Start("new")[2] = <<"load", "new">>
        /\ Start("new")[3] = <<"kickstart", "new">>
    BY StartText DEF Services
  <1>3. /\ Len(SubSeq(Start("new"), 1, 3)) = 3
        /\ \A i \in 1 .. 3 : SubSeq(Start("new"), 1, 3)[i] = Start("new")[i]
    BY <1>2
  <1>4. QED
    BY <1>1, <1>2, <1>3 DEF Uninstall

LEMMA UndoInstallFull ==
    /\ Len(UndoInstall) = 23
    /\ UndoInstall[1] = <<"stop", "new">> /\ UndoInstall[2] = <<"port", "any">>
    /\ UndoInstall[3] = <<"link", "current">> /\ UndoInstall[4] = <<"link", "previous">>
    /\ UndoInstall[5] = <<"file", "plist">> /\ UndoInstall[6] = <<"file", "ctl">>
    /\ UndoInstall[7] = <<"file", "alias">> /\ UndoInstall[8] = <<"file", "uninstall">>
    /\ UndoInstall[9] = <<"file", "port">> /\ UndoInstall[10] = <<"file", "cors">>
    /\ UndoInstall[11] = <<"file", "label">> /\ UndoInstall[12] = <<"file", "archive">>
    /\ UndoInstall[13] = <<"unarchive", "legacy">>
    /\ UndoInstall[14] = <<"enable", "new">> /\ UndoInstall[15] = <<"load", "new">>
    /\ UndoInstall[16] = <<"kickstart", "new">> /\ UndoInstall[17] = <<"ready", "new">>
    /\ UndoInstall[18] = <<"enable", "legacy">> /\ UndoInstall[19] = <<"load", "legacy">>
    /\ UndoInstall[20] = <<"kickstart", "legacy">> /\ UndoInstall[21] = <<"ready", "legacy">>
    /\ UndoInstall[22] = <<"flag", "new">> /\ UndoInstall[23] = <<"flag", "legacy">>
  <1> DEFINE a == << <<"stop", "new">>, <<"port", "any">>, <<"link", "current">>,
                     <<"link", "previous">>, <<"file", "plist">>, <<"file", "ctl">>,
                     <<"file", "alias">>, <<"file", "uninstall">>, <<"file", "port">>,
                     <<"file", "cors">>, <<"file", "label">>, <<"file", "archive">>,
                     <<"unarchive", "legacy">> >>
             b == Start("new")
             c == Start("legacy")
             d == << <<"flag", "new">>, <<"flag", "legacy">> >>
  <1>1. a \in Seq(Lines) /\ Len(a) = 13
    <2>1. /\ <<"stop", "new">> \in Lines /\ <<"port", "any">> \in Lines
          /\ <<"link", "current">> \in Lines /\ <<"link", "previous">> \in Lines
          /\ <<"file", "plist">> \in Lines /\ <<"file", "ctl">> \in Lines
          /\ <<"file", "alias">> \in Lines /\ <<"file", "uninstall">> \in Lines
          /\ <<"file", "port">> \in Lines /\ <<"file", "cors">> \in Lines
          /\ <<"file", "label">> \in Lines /\ <<"file", "archive">> \in Lines
          /\ <<"unarchive", "legacy">> \in Lines
      BY DEF Lines, Ops, Services, Links, Files, Tools
    <2>2. QED
      BY <2>1
  <1>2. /\ a[1] = <<"stop", "new">> /\ a[2] = <<"port", "any">>
        /\ a[3] = <<"link", "current">> /\ a[4] = <<"link", "previous">>
        /\ a[5] = <<"file", "plist">> /\ a[6] = <<"file", "ctl">>
        /\ a[7] = <<"file", "alias">> /\ a[8] = <<"file", "uninstall">>
        /\ a[9] = <<"file", "port">> /\ a[10] = <<"file", "cors">>
        /\ a[11] = <<"file", "label">> /\ a[12] = <<"file", "archive">>
        /\ a[13] = <<"unarchive", "legacy">>
    OBVIOUS
  <1>3. /\ b \in Seq(Lines) /\ Len(b) = 4 /\ c \in Seq(Lines) /\ Len(c) = 4
        /\ b[1] = <<"enable", "new">> /\ b[2] = <<"load", "new">>
        /\ b[3] = <<"kickstart", "new">> /\ b[4] = <<"ready", "new">>
        /\ c[1] = <<"enable", "legacy">> /\ c[2] = <<"load", "legacy">>
        /\ c[3] = <<"kickstart", "legacy">> /\ c[4] = <<"ready", "legacy">>
    BY StartText DEF Services
  <1>4. /\ d \in Seq(Lines) /\ Len(d) = 2
        /\ d[1] = <<"flag", "new">> /\ d[2] = <<"flag", "legacy">>
    <2>1. <<"flag", "new">> \in Lines /\ <<"flag", "legacy">> \in Lines
      BY DEF Lines, Ops, Services
    <2>2. QED
      BY <2>1
  <1>5. UndoInstall = ((a \o b) \o c) \o d
    BY DEF UndoInstall
  <1> HIDE DEF a, b, c, d
  <1>6. PICK ab : Joined(Lines, a, b, ab, 13, 4) /\ ab = a \o b
    BY <1>1, <1>3, JoinFacts
  <1>7. ab \in Seq(Lines) /\ Len(ab) = 17
    BY <1>6 DEF Joined
  <1>8. PICK abc : Joined(Lines, ab, c, abc, 17, 4) /\ abc = ab \o c
    BY <1>3, <1>7, JoinFacts
  <1>9. abc \in Seq(Lines) /\ Len(abc) = 21
    BY <1>8 DEF Joined
  <1>10. Joined(Lines, abc, d, UndoInstall, 21, 2)
    BY <1>4, <1>5, <1>6, <1>8, <1>9, JoinFacts
  <1>11. /\ \A i \in 1 .. 13 : ab[i] = a[i]
         /\ ab[14] = b[1] /\ ab[15] = b[2] /\ ab[16] = b[3] /\ ab[17] = b[4]
    <2>1. (\A i \in 1 .. 13 : ab[i] = a[i]) /\ (\A i \in 1 .. 4 : ab[13 + i] = b[i])
      BY <1>6 DEF Joined
    <2>2. QED
      BY <2>1
  <1>12. /\ \A i \in 1 .. 17 : abc[i] = ab[i]
         /\ abc[18] = c[1] /\ abc[19] = c[2] /\ abc[20] = c[3] /\ abc[21] = c[4]
    <2>1. (\A i \in 1 .. 17 : abc[i] = ab[i]) /\ (\A i \in 1 .. 4 : abc[17 + i] = c[i])
      BY <1>8 DEF Joined
    <2>2. QED
      BY <2>1
  <1>13. /\ \A i \in 1 .. 21 : UndoInstall[i] = abc[i]
         /\ UndoInstall[22] = d[1] /\ UndoInstall[23] = d[2] /\ Len(UndoInstall) = 23
    <2>1. /\ \A i \in 1 .. 21 : UndoInstall[i] = abc[i]
          /\ \A i \in 1 .. 2 : UndoInstall[21 + i] = d[i]
          /\ Len(UndoInstall) = 23
      BY <1>10 DEF Joined
    <2>2. QED
      BY <2>1
  <1>14. \A i \in 1 .. 13 : UndoInstall[i] = a[i]
    <2> SUFFICES ASSUME NEW i \in 1 .. 13 PROVE UndoInstall[i] = a[i]
      OBVIOUS
    <2>1. i \in 1 .. 17 /\ i \in 1 .. 21
      OBVIOUS
    <2>2. QED
      BY <1>11, <1>12, <1>13, <2>1
  <1>15. /\ UndoInstall[14] = ab[14] /\ UndoInstall[15] = ab[15] /\ UndoInstall[16] = ab[16]
         /\ UndoInstall[17] = ab[17] /\ UndoInstall[18] = abc[18] /\ UndoInstall[19] = abc[19]
         /\ UndoInstall[20] = abc[20] /\ UndoInstall[21] = abc[21]
    BY <1>12, <1>13
  <1>16. /\ UndoInstall[1] = a[1] /\ UndoInstall[2] = a[2] /\ UndoInstall[3] = a[3]
         /\ UndoInstall[4] = a[4] /\ UndoInstall[5] = a[5] /\ UndoInstall[6] = a[6]
         /\ UndoInstall[7] = a[7] /\ UndoInstall[8] = a[8] /\ UndoInstall[9] = a[9]
         /\ UndoInstall[10] = a[10] /\ UndoInstall[11] = a[11] /\ UndoInstall[12] = a[12]
         /\ UndoInstall[13] = a[13]
    BY <1>14
  <1>17. QED
    BY <1>2, <1>3, <1>4, <1>11, <1>12, <1>13, <1>15, <1>16

-----------------------------------------------------------------------------
(* What the commands make of a machine, piece by piece. *)

IsWhole(m) == IsMachine(m) /\ m.link = [l \in Links |-> m.link[l]]

LEMMA WholeParts ==
    ASSUME NEW m, IsWhole(m)
    PROVE  \E l, f, y, a, p, d :
               /\ m = Parts(l, f, y, a, p, d) /\ y \in BOOLEAN /\ l = [k \in Links |-> l[k]]
               /\ f = [g \in Files |-> f[g]] /\ p = [s \in Services |-> p[s]]
  <1> DEFINE l == [k \in Links |-> m.link[k]]
             f == [g \in Files |-> m.file[g]]
             p == [s \in Services |-> m.process[s]]
  <1>1. m = Parts(l, f, m.legacy, m.archives, p, m.disabled) /\ m.legacy \in BOOLEAN
    BY DEF IsWhole, IsMachine, Parts
  <1>2. /\ f = [g \in Files |-> f[g]] /\ p = [s \in Services |-> p[s]]
        /\ l = [k \in Links |-> l[k]]
    OBVIOUS
  <1> HIDE DEF l, f, p
  <1>3. QED
    BY <1>1, <1>2

LEMMA WholeFacts ==
    ASSUME NEW l, NEW f, NEW y \in BOOLEAN, NEW a, NEW p, NEW d, l = [k \in Links |-> l[k]],
           f = [g \in Files |-> f[g]], p = [s \in Services |-> p[s]]
    PROVE  /\ IsWhole(Parts(l, f, y, a, p, d))
           /\ Parts(l, f, y, a, p, d).link = l
           /\ Parts(l, f, y, a, p, d).file = f
           /\ Parts(l, f, y, a, p, d).legacy = y
           /\ Parts(l, f, y, a, p, d).archives = a
           /\ Parts(l, f, y, a, p, d).process = p
           /\ Parts(l, f, y, a, p, d).disabled = d
  BY PartsFacts DEF IsWhole

\* Two machines are alike but for the links, the files, and so on.
SaveLinks(m, n) ==
    /\ n.file = m.file /\ n.legacy = m.legacy /\ n.archives = m.archives
    /\ n.process = m.process /\ n.disabled = m.disabled

SaveFiles(m, n) ==
    /\ n.link = m.link /\ n.legacy = m.legacy /\ n.archives = m.archives
    /\ n.process = m.process /\ n.disabled = m.disabled

SaveProcesses(m, n) ==
    /\ n.link = m.link /\ n.file = m.file /\ n.legacy = m.legacy /\ n.archives = m.archives
    /\ n.disabled = m.disabled

SaveFlags(m, n) ==
    /\ n.link = m.link /\ n.file = m.file /\ n.legacy = m.legacy /\ n.archives = m.archives
    /\ n.process = m.process

SavePlist(m, n) ==
    /\ n.link = m.link /\ n.file = m.file /\ n.process = m.process /\ n.disabled = m.disabled

LEMMA LinkEdited ==
    ASSUME NEW m, IsWhole(m), NEW s \in Links, NEW v
    PROVE  LET n == [m EXCEPT !.link[s] = v]
           IN  /\ IsWhole(n) /\ SaveLinks(m, n) /\ n.link[s] = v
               /\ \A t \in Links \ {s} : n.link[t] = m.link[t]
  <1>1. PICK l, f, y, a, p, d :
            /\ m = Parts(l, f, y, a, p, d) /\ y \in BOOLEAN /\ l = [k \in Links |-> l[k]]
            /\ f = [g \in Files |-> f[g]] /\ p = [t \in Services |-> p[t]]
    BY WholeParts
  <1> DEFINE q == [l EXCEPT ![s] = v]
  <1>2. [Parts(l, f, y, a, p, d) EXCEPT !.link[s] = v] = Parts(q, f, y, a, p, d)
    BY DEF Parts
  <1>3. q = [t \in Links |-> q[t]] /\ q[s] = v /\ \A t \in Links \ {s} : q[t] = l[t]
    BY <1>1
  <1> HIDE DEF q
  <1>4. QED
    BY <1>1, <1>2, <1>3, WholeFacts DEF SaveLinks

LEMMA FileEdited ==
    ASSUME NEW m, IsWhole(m), NEW s \in Files, NEW v
    PROVE  LET n == [m EXCEPT !.file[s] = v]
           IN  /\ IsWhole(n) /\ SaveFiles(m, n) /\ n.file[s] = v
               /\ \A t \in Files \ {s} : n.file[t] = m.file[t]
  <1>1. PICK l, f, y, a, p, d :
            /\ m = Parts(l, f, y, a, p, d) /\ y \in BOOLEAN /\ l = [k \in Links |-> l[k]]
            /\ f = [g \in Files |-> f[g]] /\ p = [t \in Services |-> p[t]]
    BY WholeParts
  <1> DEFINE q == [f EXCEPT ![s] = v]
  <1>2. [Parts(l, f, y, a, p, d) EXCEPT !.file[s] = v] = Parts(l, q, y, a, p, d)
    BY DEF Parts
  <1>3. q = [t \in Files |-> q[t]] /\ q[s] = v /\ \A t \in Files \ {s} : q[t] = f[t]
    BY <1>1
  <1> HIDE DEF q
  <1>4. QED
    BY <1>1, <1>2, <1>3, WholeFacts DEF SaveFiles

LEMMA ProcessEdited ==
    ASSUME NEW m, IsWhole(m), NEW s \in Services, NEW v
    PROVE  LET n == [m EXCEPT !.process[s] = v]
           IN  /\ IsWhole(n) /\ SaveProcesses(m, n) /\ n.process[s] = v
               /\ \A t \in Services \ {s} : n.process[t] = m.process[t]
  <1>1. PICK l, f, y, a, p, d :
            /\ m = Parts(l, f, y, a, p, d) /\ y \in BOOLEAN /\ l = [k \in Links |-> l[k]]
            /\ f = [g \in Files |-> f[g]] /\ p = [t \in Services |-> p[t]]
    BY WholeParts
  <1> DEFINE q == [p EXCEPT ![s] = v]
  <1>2. [Parts(l, f, y, a, p, d) EXCEPT !.process[s] = v] = Parts(l, f, y, a, q, d)
    BY DEF Parts
  <1>3. q = [t \in Services |-> q[t]] /\ q[s] = v /\ \A t \in Services \ {s} : q[t] = p[t]
    BY <1>1
  <1> HIDE DEF q
  <1>4. QED
    BY <1>1, <1>2, <1>3, WholeFacts DEF SaveProcesses

\* The same for a step, which the provers find more easily.
LEMMA ProcessStep ==
    ASSUME IsWhole(machine), NEW s \in Services, NEW v,
           machine' = [machine EXCEPT !.process[s] = v]
    PROVE  /\ IsWhole(machine') /\ SaveProcesses(machine, machine') /\ machine'.process[s] = v
           /\ \A t \in Services \ {s} : machine'.process[t] = machine.process[t]
  <1> DEFINE n == [machine EXCEPT !.process[s] = v]
  <1>1. /\ IsWhole(n) /\ SaveProcesses(machine, n) /\ n.process[s] = v
        /\ \A t \in Services \ {s} : n.process[t] = machine.process[t]
    BY ProcessEdited
  <1>2. machine' = n
    OBVIOUS
  <1> HIDE DEF n
  <1>3. QED
    BY <1>1, <1>2

LEMMA OtherEdited ==
    ASSUME NEW m, IsWhole(m), NEW v
    PROVE  /\ IsWhole([m EXCEPT !.disabled = v]) /\ SaveFlags(m, [m EXCEPT !.disabled = v])
           /\ [m EXCEPT !.disabled = v].disabled = v
           /\ v \in BOOLEAN =>
                  /\ IsWhole([m EXCEPT !.legacy = v]) /\ SavePlist(m, [m EXCEPT !.legacy = v])
                  /\ [m EXCEPT !.legacy = v].legacy = v
                  /\ [m EXCEPT !.legacy = v].archives = m.archives
           /\ IsWhole([m EXCEPT !.archives = v]) /\ SavePlist(m, [m EXCEPT !.archives = v])
           /\ [m EXCEPT !.archives = v].archives = v
           /\ [m EXCEPT !.archives = v].legacy = m.legacy
  <1>1. PICK l, f, y, a, p, d :
            /\ m = Parts(l, f, y, a, p, d) /\ y \in BOOLEAN /\ l = [k \in Links |-> l[k]]
            /\ f = [g \in Files |-> f[g]] /\ p = [t \in Services |-> p[t]]
    BY WholeParts
  <1>2. [Parts(l, f, y, a, p, d) EXCEPT !.disabled = v] = Parts(l, f, y, a, p, v)
    BY DEF Parts
  <1>3. [Parts(l, f, y, a, p, d) EXCEPT !.legacy = v] = Parts(l, f, v, a, p, d)
    BY DEF Parts
  <1>4. [Parts(l, f, y, a, p, d) EXCEPT !.archives = v] = Parts(l, f, y, v, p, d)
    BY DEF Parts
  <1>5. IsWhole([m EXCEPT !.disabled = v]) /\ SaveFlags(m, [m EXCEPT !.disabled = v])
        /\ [m EXCEPT !.disabled = v].disabled = v
    BY <1>1, <1>2, WholeFacts DEF SaveFlags
  <1>6. v \in BOOLEAN =>
            /\ IsWhole([m EXCEPT !.legacy = v]) /\ SavePlist(m, [m EXCEPT !.legacy = v])
            /\ [m EXCEPT !.legacy = v].legacy = v
            /\ [m EXCEPT !.legacy = v].archives = m.archives
    BY <1>1, <1>3, WholeFacts DEF SavePlist
  <1>7. IsWhole([m EXCEPT !.archives = v]) /\ SavePlist(m, [m EXCEPT !.archives = v])
        /\ [m EXCEPT !.archives = v].archives = v
        /\ [m EXCEPT !.archives = v].legacy = m.legacy
    BY <1>1, <1>4, WholeFacts DEF SavePlist
  <1>8. QED
    BY <1>5, <1>6, <1>7

-----------------------------------------------------------------------------
(* One line of a script, piece by piece. *)

\* What a line leaves alone, whether it succeeds or fails.
Frame(op, s) ==
    /\ op \notin {"link", "remove"} => machine'.link = machine.link
    /\ op = "link" => \A l \in Links \ {s} : machine'.link[l] = machine.link[l]
    /\ op \notin {"file", "remove"} => machine'.file = machine.file
    /\ op = "file" => \A f \in Files \ {s} : machine'.file[f] = machine.file[f]
    /\ op \notin {"archive", "unarchive", "copy", "uncopy"} => machine'.legacy = machine.legacy
    /\ op \notin {"archive", "unarchive", "remove"} => machine'.archives = machine.archives
    /\ op \notin {"stop", "load", "kickstart"} => machine'.process = machine.process
    /\ \A t \in Services \ {s} : machine'.process[t] = machine.process[t]
    /\ op \notin {"enable", "disable", "flag"} => machine'.disabled = machine.disabled
    /\ \A t \in Services \ {s} : (t \in machine'.disabled) = (t \in machine.disabled)

\* What a line has done when the script goes on after it.
Succeeds(op, s) ==
    /\ op = "link" => machine'.link[s] = GoalLink(s)
    /\ op = "file" => machine'.file[s] = GoalFile(s)
    /\ op = "stop" => ~Loaded(machine', s) /\ (~Loaded(machine, s) => machine' = machine)
    /\ op = "port" => machine' = machine /\ (script # "undoInstall" => Running(machine) = {})
    /\ op = "enable" => (machine' = machine \/ s \notin machine'.disabled)
    /\ op = "load" =>
           \/ machine' = machine /\ (Starts(s) => Loaded(machine, s))
           \/ CanLoad(machine, s) /\ machine'.process[s] = StartedFrom(machine, s) /\ Starts(s)
    /\ op = "kickstart" =>
           \/ machine' = machine
           \/ /\ s = "new" /\ Loaded(machine, s)
              /\ machine'.process[s] = <<machine.process[s][1], machine.link["current"]>>
    /\ op = "ready" =>
           /\ machine' = machine
           /\ Awaited(s) => Loaded(machine, s)
    /\ op = "disable" => s \in machine'.disabled
    /\ op = "flag" =>
           /\ s \in found.disabled => s \in machine'.disabled
           /\ s \in machine'.disabled => s \in machine.disabled \/ s \in found.disabled
           /\ Loaded(found, s) /\ s \notin found.disabled => s \notin machine'.disabled
    /\ op = "uncopy" /\ ~Loaded(machine, "legacy") => machine'.legacy = FALSE
    /\ op = "remove" =>
           /\ \A l \in Links : machine'.link[l] \in {machine.link[l], None}
           /\ machine'.file["cors"] \in {machine.file["cors"], None}
           /\ machine'.file["plist"] = IF s = "tools" THEN None ELSE machine.file["plist"]

\* What a failed line leaves behind: at most a file that is gone.
Leaves(op, s) ==
    /\ op = "stop" => Loaded(machine, s)
    /\ op # "file" => machine' = machine
    /\ op = "file" => machine'.file[s] \in {machine.file[s], None}

Acts(op, s) ==
    /\ Performs(op, s)
    /\ UNCHANGED <<found, command, given, hadLegacy>>
    /\ IsWhole(machine')
    /\ Frame(op, s)
    /\ \/ GoOn(TRUE) /\ Succeeds(op, s)
       \/ Fails(op) /\ Leaves(op, s)

LEMMA StillActs ==
    ASSUME IsWhole(machine), machine' = machine, NEW op, NEW s
    PROVE  /\ IsWhole(machine') /\ Frame(op, s)
           /\ op # "stop" \/ Loaded(machine, s) => Leaves(op, s)
  BY DEF Frame, Leaves

LEMMA AttemptActs ==
    ASSUME IsWhole(machine), NEW op, NEW s, NEW needed, NEW possible, NEW after, NEW left,
           Performs(op, s), Attempt(op, needed, possible, after, left),
           ~needed /\ machine' = machine => Succeeds(op, s),
           needed /\ possible /\ machine' = after =>
               IsWhole(machine') /\ Frame(op, s) /\ Succeeds(op, s),
           needed /\ machine' \in left => IsWhole(machine') /\ Frame(op, s) /\ Leaves(op, s)
    PROVE  Acts(op, s)
  <1>1. UNCHANGED <<found, command, given, hadLegacy>>
    BY DEF Attempt
  <1>2. CASE ~needed /\ GoOn(TRUE) /\ UNCHANGED <<machine, failures>>
    BY <1>1, <1>2, StillActs DEF Acts
  <1>3. CASE needed /\ possible /\ GoOn(TRUE) /\ machine' = after /\ UNCHANGED failures
    BY <1>1, <1>3 DEF Acts
  <1>4. CASE needed /\ machine' \in left /\ (IF Tolerated(op) THEN GoOn(FALSE) ELSE GiveUp(op))
    BY <1>1, <1>4 DEF Acts, Fails
  <1>5. QED
    BY <1>2, <1>3, <1>4 DEF Attempt

LEMMA StopActs == ASSUME IsWhole(machine), StopService PROVE \E op, s : Acts(op, s)
  <1>1. PICK s \in Services :
            /\ Performs("stop", s)
            /\ Attempt("stop", Loaded(machine, s), TRUE, Stopped(machine, s), {machine})
    BY DEF StopService
  <1>2. ASSUME ~Loaded(machine, s), machine' = machine PROVE Succeeds("stop", s)
    BY <1>2 DEF Succeeds, Loaded
  <1>3. ASSUME Loaded(machine, s), machine' = Stopped(machine, s)
        PROVE  IsWhole(machine') /\ Frame("stop", s) /\ Succeeds("stop", s)
    <2>0. PICK v : v = None
      OBVIOUS
    <2>1. machine' = [machine EXCEPT !.process[s] = v]
      BY <1>3, <2>0 DEF Stopped
    <2>2. /\ IsWhole(machine') /\ SaveProcesses(machine, machine') /\ machine'.process[s] = v
          /\ \A t \in Services \ {s} : machine'.process[t] = machine.process[t]
      BY <2>1, ProcessStep
    <2>3. machine'.process[s] = None
      BY <2>0, <2>2
    <2>4. QED
      BY <1>3, <2>2, <2>3 DEF Frame, Succeeds, SaveProcesses, Loaded
  <1>4. Loaded(machine, s) /\ machine' \in {machine} =>
            IsWhole(machine') /\ Frame("stop", s) /\ Leaves("stop", s)
    BY StillActs
  <1>5. Acts("stop", s)
    BY <1>1, <1>2, <1>3, <1>4, AttemptActs
  <1>6. QED
    BY <1>5

LEMMA PortActs == ASSUME IsWhole(machine), AwaitPort PROVE \E op, s : Acts(op, s)
  <1> DEFINE n == script = "undoInstall" => ~(Loaded(found, "legacy") /\ Loaded(machine, "legacy"))
             p == Running(machine) = {}
  <1>1. Performs("port", "any") /\ Attempt("port", n, p, machine, {machine})
    BY DEF AwaitPort
  <1>2. ~n /\ machine' = machine => Succeeds("port", "any")
    BY DEF Succeeds
  <1>3. p /\ machine' = machine => Succeeds("port", "any")
    BY DEF Succeeds
  <1>4. machine' = machine =>
            IsWhole(machine') /\ Frame("port", "any") /\ Leaves("port", "any")
    BY StillActs
  <1> HIDE DEF n, p
  <1>5. machine' \in {machine} =>
            IsWhole(machine') /\ Frame("port", "any") /\ Leaves("port", "any")
    BY <1>4
  <1>6. Acts("port", "any")
    BY <1>1, <1>2, <1>3, <1>4, <1>5, AttemptActs
  <1>7. QED
    BY <1>6

LEMMA LinkActs == ASSUME IsWhole(machine), SwitchLink PROVE \E op, s : Acts(op, s)
  <1>1. PICK l \in Links :
            /\ Performs("link", l)
            /\ Attempt("link", TRUE, TRUE, Linked(machine, l, GoalLink(l)), {machine})
    BY DEF SwitchLink
  <1>2. ASSUME machine' = Linked(machine, l, GoalLink(l))
        PROVE  IsWhole(machine') /\ Frame("link", l) /\ Succeeds("link", l)
    <2> DEFINE v == GoalLink(l)
    <2>1. machine' = [machine EXCEPT !.link[l] = v]
      BY <1>2 DEF Linked
    <2> HIDE DEF v
    <2>2. /\ IsWhole(machine') /\ SaveLinks(machine, machine') /\ machine'.link[l] = v
          /\ \A t \in Links \ {l} : machine'.link[t] = machine.link[t]
      BY <2>1, LinkEdited
    <2>3. machine'.link[l] = GoalLink(l)
      BY <2>2 DEF v
    <2>4. QED
      BY <2>2, <2>3 DEF Frame, Succeeds, SaveLinks
  <1>3. machine' \in {machine} => IsWhole(machine') /\ Frame("link", l) /\ Leaves("link", l)
    BY StillActs
  <1>4. Acts("link", l)
    BY <1>1, <1>2, <1>3, AttemptActs
  <1>5. QED
    BY <1>4

LEMMA FileActs == ASSUME IsWhole(machine), InstallFile PROVE \E op, s : Acts(op, s)
  <1>1. PICK f \in Files :
            /\ Performs("file", f)
            /\ Attempt("file", TRUE, TRUE, Written(machine, f, GoalFile(f)),
                       {machine, Written(machine, f, None)})
    BY DEF InstallFile
  <1>2. ASSUME NEW v, machine' = Written(machine, f, v)
        PROVE  IsWhole(machine') /\ Frame("file", f) /\ machine'.file[f] = v
    <2>1. machine' = [machine EXCEPT !.file[f] = v]
      BY <1>2 DEF Written
    <2>2. /\ IsWhole(machine') /\ SaveFiles(machine, machine') /\ machine'.file[f] = v
          /\ \A t \in Files \ {f} : machine'.file[t] = machine.file[t]
      BY <2>1, FileEdited
    <2>3. QED
      BY <2>2 DEF Frame, SaveFiles
  <1>3. ASSUME machine' = Written(machine, f, GoalFile(f))
        PROVE  IsWhole(machine') /\ Frame("file", f) /\ Succeeds("file", f)
    <2>1. IsWhole(machine') /\ Frame("file", f) /\ machine'.file[f] = GoalFile(f)
      BY <1>2, <1>3
    <2>2. QED
      BY <2>1 DEF Succeeds
  <1>4. ASSUME machine' \in {machine, Written(machine, f, None)}
        PROVE  IsWhole(machine') /\ Frame("file", f) /\ Leaves("file", f)
    <2>1. CASE machine' = machine
      BY <2>1, StillActs
    <2>2. CASE machine' = Written(machine, f, None)
      BY <1>2, <2>2 DEF Leaves
    <2>3. QED
      BY <1>4, <2>1, <2>2
  <1>5. Acts("file", f)
    BY <1>1, <1>3, <1>4, AttemptActs
  <1>6. QED
    BY <1>5

LEMMA FlagsFrame ==
    ASSUME SaveFlags(machine, machine'), NEW s, NEW op \in {"enable", "disable", "flag"},
           \A t \in Services \ {s} : (t \in machine'.disabled) = (t \in machine.disabled)
    PROVE  Frame(op, s)
  BY DEF SaveFlags, Frame

LEMMA ProcessFrame ==
    ASSUME SaveProcesses(machine, machine'), NEW s, NEW op \in {"stop", "load", "kickstart"},
           \A t \in Services \ {s} : machine'.process[t] = machine.process[t]
    PROVE  Frame(op, s)
  BY DEF SaveProcesses, Frame

LEMMA Flagged ==
    ASSUME IsWhole(machine), NEW s, NEW op \in {"enable", "disable", "flag"},
           machine' = Enabled(machine, s) \/ machine' = Disabled(machine, s)
    PROVE  /\ IsWhole(machine') /\ Frame(op, s)
           /\ machine' = Enabled(machine, s) => s \notin machine'.disabled
           /\ machine' = Disabled(machine, s) => s \in machine'.disabled
  <1>1. CASE machine' = Enabled(machine, s)
    <2>1. PICK v : v = machine.disabled \ {s}
      OBVIOUS
    <2>2. machine' = [machine EXCEPT !.disabled = v]
      BY <1>1, <2>1 DEF Enabled
    <2>3. IsWhole(machine') /\ SaveFlags(machine, machine') /\ machine'.disabled = v
      BY <2>2, OtherEdited
    <2>4. \A t \in Services \ {s} : (t \in machine'.disabled) = (t \in machine.disabled)
      BY <2>1, <2>3
    <2>5. Frame(op, s)
      BY <2>3, <2>4, FlagsFrame
    <2>6. s \notin machine'.disabled
      BY <2>1, <2>3
    <2>7. machine' # Disabled(machine, s)
      <3>1. PICK w : w = machine.disabled \cup {s}
        OBVIOUS
      <3>2. Disabled(machine, s) = [machine EXCEPT !.disabled = w]
        BY <3>1 DEF Disabled
      <3>3. Disabled(machine, s).disabled = w
        BY <3>2, OtherEdited
      <3>4. QED
        BY <2>6, <3>1, <3>3
    <2>8. QED
      BY <2>3, <2>5, <2>6, <2>7
  <1>2. CASE machine' = Disabled(machine, s) /\ machine' # Enabled(machine, s)
    <2>1. PICK v : v = machine.disabled \cup {s}
      OBVIOUS
    <2>2. machine' = [machine EXCEPT !.disabled = v]
      BY <1>2, <2>1 DEF Disabled
    <2>3. IsWhole(machine') /\ SaveFlags(machine, machine') /\ machine'.disabled = v
      BY <2>2, OtherEdited
    <2>4. \A t \in Services \ {s} : (t \in machine'.disabled) = (t \in machine.disabled)
      BY <2>1, <2>3
    <2>5. Frame(op, s)
      BY <2>3, <2>4, FlagsFrame
    <2>6. QED
      BY <1>2, <2>1, <2>3, <2>5
  <1>3. QED
    BY <1>1, <1>2

LEMMA EnableActs == ASSUME IsWhole(machine), EnableService PROVE \E op, s : Acts(op, s)
  <1>1. PICK s \in Services :
            /\ Performs("enable", s)
            /\ Attempt("enable", Starts(s), TRUE, Enabled(machine, s), {machine})
    BY DEF EnableService
  <1>2. ASSUME machine' = Enabled(machine, s)
        PROVE  IsWhole(machine') /\ Frame("enable", s) /\ Succeeds("enable", s)
    BY <1>2, Flagged DEF Succeeds
  <1>3. machine' = machine => Succeeds("enable", s)
    BY DEF Succeeds
  <1>4. machine' \in {machine} => IsWhole(machine') /\ Frame("enable", s) /\ Leaves("enable", s)
    BY StillActs
  <1>5. Acts("enable", s)
    BY <1>1, <1>2, <1>3, <1>4, AttemptActs
  <1>6. QED
    BY <1>5

LEMMA LoadActs == ASSUME IsWhole(machine), LoadService PROVE \E op, s : Acts(op, s)
  <1>1. PICK s \in Services :
            /\ Performs("load", s)
            /\ Attempt("load", Starts(s) /\ ~Loaded(machine, s), CanLoad(machine, s),
                       WithLoaded(machine, s), {machine})
    BY DEF LoadService
  <1>2. ASSUME Starts(s), CanLoad(machine, s), machine' = WithLoaded(machine, s)
        PROVE  IsWhole(machine') /\ Frame("load", s) /\ Succeeds("load", s)
    <2>1. PICK v : v = StartedFrom(machine, s)
      OBVIOUS
    <2>2. machine' = [machine EXCEPT !.process[s] = v]
      BY <1>2, <2>1 DEF WithLoaded
    <2>3. /\ IsWhole(machine') /\ SaveProcesses(machine, machine') /\ machine'.process[s] = v
          /\ \A t \in Services \ {s} : machine'.process[t] = machine.process[t]
      BY <2>2, ProcessStep
    <2>4. Frame("load", s)
      BY <2>3, ProcessFrame
    <2>5. QED
      BY <1>2, <2>1, <2>3, <2>4 DEF Succeeds
  <1>3. ASSUME ~(Starts(s) /\ ~Loaded(machine, s)), machine' = machine PROVE Succeeds("load", s)
    BY <1>3 DEF Succeeds
  <1>4. machine' \in {machine} => IsWhole(machine') /\ Frame("load", s) /\ Leaves("load", s)
    BY StillActs
  <1>5. Acts("load", s)
    BY <1>1, <1>2, <1>3, <1>4, AttemptActs
  <1>6. QED
    BY <1>5

LEMMA KickActs == ASSUME IsWhole(machine), Kickstart PROVE \E op, s : Acts(op, s)
  <1>1. PICK s \in Services :
            /\ Performs("kickstart", s)
            /\ Attempt("kickstart", Starts(s), Loaded(machine, s), Kicked(machine, s), {machine})
    BY DEF Kickstart
  <1>2. ASSUME Loaded(machine, s), machine' = Kicked(machine, s)
        PROVE  IsWhole(machine') /\ Frame("kickstart", s) /\ Succeeds("kickstart", s)
    <2>1. CASE s = "new"
      <3>1. PICK v : v = <<machine.process[s][1], machine.link["current"]>>
        OBVIOUS
      <3>2. machine' = [machine EXCEPT !.process[s] = v]
        BY <1>2, <2>1, <3>1 DEF Kicked
      <3>3. /\ IsWhole(machine') /\ SaveProcesses(machine, machine') /\ machine'.process[s] = v
            /\ \A t \in Services \ {s} : machine'.process[t] = machine.process[t]
        BY <3>2, ProcessStep
      <3>4. Frame("kickstart", s)
        BY <3>3, ProcessFrame
      <3>5. QED
        BY <1>2, <2>1, <3>1, <3>3, <3>4 DEF Succeeds
    <2>2. CASE s # "new"
      <3>1. machine' = machine
        BY <1>2, <2>2 DEF Kicked
      <3>2. QED
        BY <3>1, StillActs DEF Succeeds
    <2>3. QED
      BY <2>1, <2>2
  <1>3. machine' = machine => Succeeds("kickstart", s)
    BY DEF Succeeds
  <1>4. machine' \in {machine} =>
            IsWhole(machine') /\ Frame("kickstart", s) /\ Leaves("kickstart", s)
    BY StillActs
  <1>5. Acts("kickstart", s)
    BY <1>1, <1>2, <1>3, <1>4, AttemptActs
  <1>6. QED
    BY <1>5

LEMMA ReadyActs == ASSUME IsWhole(machine), AwaitReady PROVE \E op, s : Acts(op, s)
  <1> DEFINE p(s) == Loaded(machine, s) /\ (script = "restore" => ~Loaded(machine, "new"))
  <1>1. PICK s \in Services :
            Performs("ready", s) /\ Attempt("ready", Awaited(s), p(s), machine, {machine})
    BY DEF AwaitReady
  <1>2. ASSUME Awaited(s), p(s), machine' = machine
        PROVE  IsWhole(machine') /\ Frame("ready", s) /\ Succeeds("ready", s)
    BY <1>2, StillActs DEF Succeeds
  <1>3. ~Awaited(s) /\ machine' = machine => Succeeds("ready", s)
    BY DEF Succeeds
  <1>4. machine' \in {machine} => IsWhole(machine') /\ Frame("ready", s) /\ Leaves("ready", s)
    BY StillActs
  <1> HIDE DEF p
  <1>5. Acts("ready", s)
    BY <1>1, <1>2, <1>3, <1>4, AttemptActs
  <1>6. QED
    BY <1>5

LEMMA DisableActs == ASSUME IsWhole(machine), DisableService PROVE \E op, s : Acts(op, s)
  <1>1. PICK s \in Services :
            /\ Performs("disable", s)
            /\ Attempt("disable", TRUE, TRUE, Disabled(machine, s), {machine})
    BY DEF DisableService
  <1>2. ASSUME machine' = Disabled(machine, s)
        PROVE  IsWhole(machine') /\ Frame("disable", s) /\ Succeeds("disable", s)
    BY <1>2, Flagged DEF Succeeds
  <1>3. machine' \in {machine} => IsWhole(machine') /\ Frame("disable", s) /\ Leaves("disable", s)
    BY StillActs
  <1>4. Acts("disable", s)
    BY <1>1, <1>2, <1>3, AttemptActs
  <1>5. QED
    BY <1>4

LEMMA FlagActs == ASSUME IsWhole(machine), RestoreFlag PROVE \E op, s : Acts(op, s)
  <1> DEFINE n(s) == s \in found.disabled \/ Loaded(found, s)
             t(s) == IF s \in found.disabled THEN Disabled(machine, s) ELSE Enabled(machine, s)
  <1>1. PICK s \in Services :
            Performs("flag", s) /\ Attempt("flag", n(s), TRUE, t(s), {machine})
    BY DEF RestoreFlag
  <1>2. ASSUME machine' = t(s)
        PROVE  IsWhole(machine') /\ Frame("flag", s) /\ Succeeds("flag", s)
    <2>1. CASE s \in found.disabled
      BY <1>2, <2>1, Flagged DEF Succeeds
    <2>2. CASE s \notin found.disabled
      BY <1>2, <2>2, Flagged DEF Succeeds
    <2>3. QED
      BY <2>1, <2>2
  <1>3. ASSUME ~n(s), machine' = machine PROVE Succeeds("flag", s)
    BY <1>3 DEF Succeeds
  <1>4. machine' \in {machine} => IsWhole(machine') /\ Frame("flag", s) /\ Leaves("flag", s)
    BY StillActs
  <1> HIDE DEF n, t
  <1>5. Acts("flag", s)
    BY <1>1, <1>2, <1>3, <1>4, AttemptActs
  <1>6. QED
    BY <1>5

PaperOps == {"archive", "unarchive", "copy", "uncopy"}

LEMMA PlistFrame ==
    ASSUME NEW n, IsWhole(n), SavePlist(machine, n), machine' = n, NEW op \in PaperOps,
           op \in {"copy", "uncopy"} => n.archives = machine.archives,
           op = "uncopy" => n.legacy = FALSE
    PROVE  /\ IsWhole(machine') /\ Frame(op, "legacy") /\ Succeeds(op, "legacy")
  BY DEF SavePlist, Frame, Succeeds, PaperOps

LEMMA StillPaper ==
    ASSUME IsWhole(machine), NEW op \in PaperOps
    PROVE  /\ machine' \in {machine} =>
                  IsWhole(machine') /\ Frame(op, "legacy") /\ Leaves(op, "legacy")
           /\ op # "uncopy" /\ machine' = machine => Succeeds(op, "legacy")
  BY StillActs DEF PaperOps, Succeeds

LEMMA ArchivedBoth ==
    ASSUME NEW m, IsWhole(m), NEW name
    PROVE  /\ IsWhole(Archived(m, name)) /\ SavePlist(m, Archived(m, name))
           /\ IsWhole(Unarchived(m, name)) /\ SavePlist(m, Unarchived(m, name))
  <1> DEFINE o == [m EXCEPT !.legacy = FALSE]
             n == [m EXCEPT !.legacy = TRUE]
             v == m.archives \cup {name}
             w == m.archives \ {name}
  <1>1. TRUE \in BOOLEAN /\ FALSE \in BOOLEAN
    OBVIOUS
  <1>2. /\ IsWhole(o) /\ SavePlist(m, o)
        /\ IsWhole(n) /\ SavePlist(m, n)
    BY <1>1, OtherEdited
  <1>3. Archived(m, name) = [o EXCEPT !.archives = v]
    BY DEF Archived
  <1>4. Unarchived(m, name) = [n EXCEPT !.archives = w]
    BY DEF Unarchived
  <1> HIDE DEF o, n, v, w
  <1>5. IsWhole([o EXCEPT !.archives = v]) /\ SavePlist(o, [o EXCEPT !.archives = v])
    BY <1>2, OtherEdited
  <1>6. IsWhole([n EXCEPT !.archives = w]) /\ SavePlist(n, [n EXCEPT !.archives = w])
    BY <1>2, OtherEdited
  <1>7. QED
    BY <1>2, <1>3, <1>4, <1>5, <1>6 DEF SavePlist

LEMMA ArchiveActs == ASSUME IsWhole(machine), ArchiveLegacy PROVE \E op, s : Acts(op, s)
  <1> DEFINE t == Archived(machine, given.archive[1])
  <1>1. Performs("archive", "legacy") /\ Attempt("archive", TRUE, machine.legacy, t, {machine})
    BY DEF ArchiveLegacy
  <1>2. "archive" \in PaperOps
    BY DEF PaperOps
  <1>3. ASSUME machine' = t
        PROVE  IsWhole(machine') /\ Frame("archive", "legacy") /\ Succeeds("archive", "legacy")
    <2>1. PICK name : name = given.archive[1]
      OBVIOUS
    <2>2. machine' = Archived(machine, name)
      BY <1>3, <2>1
    <2>3. IsWhole(Archived(machine, name)) /\ SavePlist(machine, Archived(machine, name))
      BY ArchivedBoth
    <2>4. QED
      BY <1>2, <2>2, <2>3, PlistFrame
  <1> HIDE DEF t
  <1>4. Acts("archive", "legacy")
    BY <1>1, <1>2, <1>3, StillPaper, AttemptActs
  <1>5. QED
    BY <1>4

LEMMA UnarchiveActs == ASSUME IsWhole(machine), UnarchiveLegacy PROVE \E op, s : Acts(op, s)
  <1> DEFINE t == Unarchived(machine, given.archive[1])
             n == \E name \in machine.archives : given.archive = <<name>>
             p == ~machine.legacy
  <1>1. Performs("unarchive", "legacy") /\ Attempt("unarchive", n, p, t, {machine})
    BY DEF UnarchiveLegacy
  <1>2. "unarchive" \in PaperOps
    BY DEF PaperOps
  <1>3. ASSUME machine' = t
        PROVE  /\ IsWhole(machine') /\ Frame("unarchive", "legacy")
               /\ Succeeds("unarchive", "legacy")
    <2>1. PICK name : name = given.archive[1]
      OBVIOUS
    <2>2. machine' = Unarchived(machine, name)
      BY <1>3, <2>1
    <2>3. IsWhole(Unarchived(machine, name)) /\ SavePlist(machine, Unarchived(machine, name))
      BY ArchivedBoth
    <2>4. QED
      BY <1>2, <2>2, <2>3, PlistFrame
  <1> HIDE DEF n, p, t
  <1>4. Acts("unarchive", "legacy")
    BY <1>1, <1>2, <1>3, StillPaper, AttemptActs
  <1>5. QED
    BY <1>4

LEMMA CopyActs == ASSUME IsWhole(machine), CopyLegacy PROVE \E op, s : Acts(op, s)
  <1> DEFINE p == Loadable(machine)
  <1>1. Performs("copy", "legacy") /\ Attempt("copy", TRUE, p, Copied(machine), {machine})
    BY DEF CopyLegacy
  <1>2. "copy" \in PaperOps /\ TRUE \in BOOLEAN
    BY DEF PaperOps
  <1>3. ASSUME machine' = Copied(machine)
        PROVE  IsWhole(machine') /\ Frame("copy", "legacy") /\ Succeeds("copy", "legacy")
    <2> DEFINE n == [machine EXCEPT !.legacy = TRUE]
    <2>1. IsWhole(n) /\ SavePlist(machine, n) /\ n.archives = machine.archives
      BY <1>2, OtherEdited
    <2>2. machine' = n
      BY <1>3 DEF Copied
    <2> HIDE DEF n
    <2>3. QED
      BY <1>2, <2>1, <2>2, PlistFrame
  <1> HIDE DEF p
  <1>4. Acts("copy", "legacy")
    BY <1>1, <1>2, <1>3, StillPaper, AttemptActs
  <1>5. QED
    BY <1>4

LEMMA UncopyActs == ASSUME IsWhole(machine), RemoveCopy PROVE \E op, s : Acts(op, s)
  <1> DEFINE n == ~Loaded(machine, "legacy")
  <1>1. Performs("uncopy", "legacy") /\ Attempt("uncopy", n, TRUE, CopyRemoved(machine), {machine})
    BY DEF RemoveCopy
  <1>2. "uncopy" \in PaperOps /\ FALSE \in BOOLEAN
    BY DEF PaperOps
  <1>3. ASSUME machine' = CopyRemoved(machine)
        PROVE  IsWhole(machine') /\ Frame("uncopy", "legacy") /\ Succeeds("uncopy", "legacy")
    <2> DEFINE o == [machine EXCEPT !.legacy = FALSE]
    <2>0. o.legacy = FALSE
      BY <1>2, OtherEdited
    <2>1. IsWhole(o) /\ SavePlist(machine, o) /\ o.archives = machine.archives
      BY <1>2, OtherEdited
    <2>2. machine' = o
      BY <1>3 DEF CopyRemoved
    <2> HIDE DEF o
    <2>3. QED
      BY <1>2, <2>0, <2>1, <2>2, PlistFrame
  <1>4. ASSUME ~n, machine' = machine PROVE Succeeds("uncopy", "legacy")
    BY <1>4 DEF Succeeds
  <1> HIDE DEF n
  <1>5. Acts("uncopy", "legacy")
    BY <1>1, <1>2, <1>3, <1>4, StillPaper, AttemptActs
  <1>6. QED
    BY <1>5

LEMMA RemovedAll ==
    ASSUME NEW m, IsWhole(m), NEW purge
    PROVE  /\ IsWhole(ToolsRemoved(m)) /\ ToolsRemoved(m).link = m.link
           /\ ToolsRemoved(m).legacy = m.legacy /\ ToolsRemoved(m).process = m.process
           /\ ToolsRemoved(m).disabled = m.disabled
           /\ ToolsRemoved(m).file["plist"] = None
           /\ ToolsRemoved(m).file["cors"] = m.file["cors"]
           /\ IsWhole(BaseRemoved(m, purge))
           /\ \A l \in Links : BaseRemoved(m, purge).link[l] = None
           /\ BaseRemoved(m, purge).legacy = m.legacy /\ BaseRemoved(m, purge).process = m.process
           /\ BaseRemoved(m, purge).disabled = m.disabled
           /\ BaseRemoved(m, purge).file["plist"] = m.file["plist"]
           /\ BaseRemoved(m, purge).file["cors"] = None
  <1>1. PICK l, f, y, a, p, d :
            /\ m = Parts(l, f, y, a, p, d) /\ y \in BOOLEAN /\ l = [k \in Links |-> l[k]]
            /\ f = [g \in Files |-> f[g]] /\ p = [t \in Services |-> p[t]]
    BY WholeParts
  <1> DEFINE g == [t \in Files |-> IF t \in Tools THEN None ELSE f[t]]
             h == [t \in Files |-> IF t \in Tools THEN f[t] ELSE None]
             b == IF purge THEN {} ELSE a
             k == [t \in Links |-> None]
  <1>2. m.file = f /\ m.archives = a
    BY <1>1, WholeFacts
  <1>3. [Parts(l, f, y, a, p, d) EXCEPT !.file = g] = Parts(l, g, y, a, p, d)
    BY DEF Parts
  <1>4. Bare.link = k
    BY DEF Bare
  <1>5. [Parts(l, f, y, a, p, d) EXCEPT !.link = k, !.file = h, !.archives = b]
          = Parts(k, h, y, b, p, d)
    <2> DEFINE o == Parts(l, f, y, a, p, d)
    <2> HIDE DEF k, h, b
    <2>1. [o EXCEPT !.link = k, !.file = h, !.archives = b]
            = [[[o EXCEPT !.link = k] EXCEPT !.file = h] EXCEPT !.archives = b]
      <3> HIDE DEF o
      <3>1. QED
        OBVIOUS
    <2>2. [o EXCEPT !.link = k] = Parts(k, f, y, a, p, d)
      BY DEF Parts
    <2>3. [Parts(k, f, y, a, p, d) EXCEPT !.file = h] = Parts(k, h, y, a, p, d)
      BY DEF Parts
    <2>4. [Parts(k, h, y, a, p, d) EXCEPT !.archives = b] = Parts(k, h, y, b, p, d)
      BY DEF Parts
    <2>5. QED
      BY <2>1, <2>2, <2>3, <2>4
  <1>6. ToolsRemoved(m) = Parts(l, g, y, a, p, d)
    BY <1>1, <1>2, <1>3 DEF ToolsRemoved
  <1>7. BaseRemoved(m, purge) = Parts(k, h, y, b, p, d)
    BY <1>1, <1>2, <1>4, <1>5 DEF BaseRemoved
  <1>8. /\ g = [t \in Files |-> g[t]] /\ h = [t \in Files |-> h[t]] /\ k = [t \in Links |-> k[t]]
        /\ \A t \in Links : k[t] = None
    OBVIOUS
  <1>9. /\ g["plist"] = None /\ g["cors"] = f["cors"]
        /\ h["plist"] = f["plist"] /\ h["cors"] = None
    BY DEF Files, Tools
  <1> HIDE DEF g, h, b, k
  <1>10. /\ m.link = l /\ m.file = f /\ m.legacy = y /\ m.process = p /\ m.disabled = d
    BY <1>1, WholeFacts
  <1>11. LET n == Parts(l, g, y, a, p, d)
         IN  /\ IsWhole(n) /\ n.link = l /\ n.file = g /\ n.legacy = y /\ n.process = p
             /\ n.disabled = d
    BY <1>1, <1>8, WholeFacts
  <1>12. LET n == Parts(k, h, y, b, p, d)
         IN  /\ IsWhole(n) /\ n.link = k /\ n.file = h /\ n.legacy = y /\ n.process = p
             /\ n.disabled = d
    BY <1>1, <1>8, WholeFacts
  <1>13. QED
    BY <1>6, <1>7, <1>8, <1>9, <1>10, <1>11, <1>12

LEMMA RemoveActs == ASSUME IsWhole(machine), RemoveFiles PROVE \E op, s : Acts(op, s)
  <1> DEFINE purge == command = "purge"
  <1>1. ASSUME NEW s \in {"tools", "base"}, NEW t, Performs("remove", s),
               Attempt("remove", TRUE, TRUE, t, {machine}), IsWhole(t),
               \A l \in Links : t.link[l] \in {machine.link[l], None},
               t.file["cors"] \in {machine.file["cors"], None},
               t.file["plist"] = IF s = "tools" THEN None ELSE machine.file["plist"],
               t.legacy = machine.legacy, t.process = machine.process,
               t.disabled = machine.disabled
        PROVE  Acts("remove", s)
    <2>1. ASSUME machine' = t
          PROVE  IsWhole(machine') /\ Frame("remove", s) /\ Succeeds("remove", s)
      BY <1>1, <2>1 DEF Frame, Succeeds
    <2>2. machine' \in {machine} =>
              IsWhole(machine') /\ Frame("remove", s) /\ Leaves("remove", s)
      BY StillActs
    <2>3. QED
      BY <1>1, <2>1, <2>2, AttemptActs
  <1>2. CASE /\ Performs("remove", "tools")
             /\ Attempt("remove", TRUE, TRUE, ToolsRemoved(machine), {machine})
    <2>1. LET t == ToolsRemoved(machine)
          IN  /\ IsWhole(t)
              /\ \A l \in Links : t.link[l] \in {machine.link[l], None}
              /\ t.file["cors"] \in {machine.file["cors"], None} /\ t.file["plist"] = None
              /\ t.legacy = machine.legacy /\ t.process = machine.process
              /\ t.disabled = machine.disabled
      BY RemovedAll
    <2>2. QED
      BY <1>1, <1>2, <2>1
  <1>3. CASE /\ Performs("remove", "base")
             /\ Attempt("remove", TRUE, TRUE, BaseRemoved(machine, purge), {machine})
    <2> HIDE DEF purge
    <2>1. LET t == BaseRemoved(machine, purge)
          IN  /\ IsWhole(t)
              /\ \A l \in Links : t.link[l] \in {machine.link[l], None}
              /\ t.file["cors"] \in {machine.file["cors"], None}
              /\ t.file["plist"] = machine.file["plist"]
              /\ t.legacy = machine.legacy /\ t.process = machine.process
              /\ t.disabled = machine.disabled
      BY RemovedAll
    <2>2. QED
      BY <1>1, <1>3, <2>1
  <1>4. QED
    BY <1>2, <1>3 DEF RemoveFiles

LEMMA ScriptStepActs == ASSUME IsWhole(machine), ScriptStep PROVE \E op, s : Acts(op, s)
  BY StopActs, PortActs, LinkActs, FileActs, EnableActs, LoadActs, KickActs, ReadyActs, DisableActs,
     FlagActs, ArchiveActs, UnarchiveActs, CopyActs, UncopyActs, RemoveActs DEF ScriptStep

-----------------------------------------------------------------------------
(* The inductive invariant of ScriptsAreAtomic. *)

Proper(m) ==
    /\ \A l \in Links : m.link[l] \in Targets
    /\ m.file["cors"] \in Origins
    /\ m.process["legacy"] \in {None, <<"legacy">>}

\* What runs comes up again at login, if it has a plist.
RunsEnabled(m) == \A s \in Services : Loaded(m, s) => s \notin m.disabled

\* An undo has failed, and says so or will say so at its end.
Lost ==
    \/ script = "none" /\ outcome = "manual"
    \/ script \in {"undoInstall", "recover"} /\ ~sound

Basic ==
    /\ IsWhole(machine) /\ Proper(machine) /\ (Lost \/ RunsEnabled(machine))
    /\ IsWhole(found) /\ Proper(found) /\ RunsEnabled(found)

\* An installation starts no legacy service and disables no new one.
Aside ==
    /\ Loaded(machine, "legacy") => Loaded(found, "legacy")
    /\ "new" \in machine.disabled => "new" \in found.disabled

InstallOf ==
    /\ command = "install"
    /\ given.release \in Targets \ {None} /\ given.cors \in Origins
    /\ found.legacy => Loaded(found, "legacy")

\* The plists that an installation and a rollback write.
NewPlist == given.release \o given.cors
OldPlist == found.link["previous"] \o found.file["cors"]

InstallBody ==
    /\ InstallOf /\ Aside
    /\ machine.link["previous"] \in {found.link["previous"], found.link["current"]}
    /\ line > Kept + 1 => machine.link["current"] = given.release
    /\ line \in Kept + 3 .. Kept + 7 => ~Loaded(machine, "new")
    /\ line > Kept + 3 => ~Loaded(machine, "legacy")
    /\ line > Kept + 5 => machine.file["plist"] = NewPlist
    /\ line > Kept + 7 => machine.process["new"] = StartedFrom(machine, "new")

\* An undo puts one thing back after the other, unless a line of it fails.
UndoLinks ==
    /\ line > 3 => machine.link["current"] = found.link["current"]
    /\ line > 4 => machine.link["previous"] = found.link["previous"]

UndoFiles ==
    /\ line > 5 => machine.file["plist"] = found.file["plist"]
    /\ line > 6 => machine.file["ctl"] = found.file["ctl"]
    /\ line > 7 => machine.file["alias"] = found.file["alias"]
    /\ line > 8 => machine.file["uninstall"] = found.file["uninstall"]
    /\ line > 9 => machine.file["port"] = found.file["port"]
    /\ line > 10 => machine.file["cors"] = found.file["cors"]
    /\ line > 11 => machine.file["label"] = found.file["label"]
    /\ line > 12 => machine.file["archive"] = found.file["archive"]

UndoServices ==
    /\ line > 1 /\ (line <= 15 \/ ~Loaded(found, "new")) => ~Loaded(machine, "new")
    /\ line > 13 /\ Loaded(machine, "new") => machine.process["new"] = StartedFrom(found, "new")
    /\ line > 17 /\ Loaded(found, "new") => Loaded(machine, "new")
    /\ line > 21 /\ Loaded(found, "legacy") /\ ~Loaded(found, "new") => Loaded(machine, "legacy")

UndoFlags ==
    /\ line > 22 /\ "new" \in found.disabled => "new" \in machine.disabled
    /\ line > 23 /\ Loaded(found, "legacy") => "legacy" \notin machine.disabled

UndoBody ==
    /\ InstallOf /\ Aside
    /\ sound => UndoLinks /\ UndoFiles /\ UndoServices /\ UndoFlags

\* What a rollback of the release lets be.
Around ==
    /\ machine.legacy = found.legacy /\ machine.archives = found.archives
    /\ \A f \in Files \ {"plist"} : machine.file[f] = found.file[f]
    /\ machine.process["legacy"] = found.process["legacy"]
    /\ ("legacy" \in machine.disabled) = ("legacy" \in found.disabled)

RollbackOf ==
    /\ command = "rollback"
    /\ found.link["previous"] # None /\ found.link["current"] # None
    /\ found.file["plist"] # None

\* Both ways of a rollback have the same lines.
Rebuilt ==
    /\ line \in 5 .. 7 => ~Loaded(machine, "new")
    /\ line > 5 => ~Loaded(machine, "legacy")

RollbackBody ==
    /\ RollbackOf /\ Around /\ Rebuilt
    /\ line > 1 => machine.link["current"] = found.link["previous"]
    /\ line > 2 => machine.link["previous"] = found.link["current"]
    /\ line > 3 => machine.file["plist"] = OldPlist
    /\ line > 7 /\ Loaded(machine, "new") =>
           machine.process["new"] = StartedFrom(machine, "new")
    /\ line > 9 => Loaded(machine, "new")

UndoRollbackBody ==
    /\ RollbackOf /\ Around /\ Rebuilt
    /\ line > 1 => machine.link["current"] = found.link["current"]
    /\ line > 2 => machine.link["previous"] = found.link["previous"]
    /\ line > 3 /\ sound => machine.file["plist"] = found.file["plist"]
    /\ line > 7 /\ sound => machine.process["new"] = StartedFrom(machine, "new")

\* What the way back to the legacy service lets be.
Inside ==
    machine.link = found.link /\ machine.file = found.file /\ machine.archives = found.archives

RestoreOf ==
    /\ command \in {"rollback", "restore", "uninstall", "purge"}
    /\ command = "rollback" => found.link["previous"] = None
    /\ Loaded(found, "legacy") \/ ~found.legacy

RestoreBody ==
    /\ RestoreOf /\ Inside
    /\ line = 1 => machine = found
    /\ line > 1 => ~Loaded(machine, "new")
    /\ Loaded(found, "legacy") =>
           /\ Loaded(machine, "legacy")
           /\ ~Loaded(found, "new") /\ line <= 3 => machine = found
           /\ line > 3 => "new" \in machine.disabled
    /\ ~Loaded(found, "legacy") =>
           /\ line > 7 => Loaded(machine, "legacy")
           /\ line > 8 => "new" \in machine.disabled

RecoverBody ==
    /\ RestoreOf /\ Inside
    /\ Loaded(found, "legacy") => Loaded(found, "new")
    /\ sound /\ line > 1 => ~Loaded(machine, "legacy")
    /\ sound /\ ~Loaded(found, "legacy") =>
           /\ line > 3 => machine.legacy = FALSE
           /\ line > 4 /\ (line <= 6 \/ ~Loaded(found, "new")) => ~Loaded(machine, "new")
           /\ line > 4 /\ Loaded(machine, "new") =>
                  machine.process["new"] = StartedFrom(found, "new")
           /\ line > 8 /\ Loaded(found, "new") => Loaded(machine, "new")

UninstallBody ==
    /\ command \in {"uninstall", "purge"}
    /\ line = 1 /\ Loaded(machine, "new") => machine = found
    /\ line > 1 => ~Loaded(machine, "new")
    /\ line > 2 => machine.file["plist"] = None
    /\ Configured(found) => Runs("legacy")

AtomInv ==
    /\ Basic
    /\ script = "install" => InstallBody
    /\ script = "undoInstall" => UndoBody
    /\ script = "rollback" => RollbackBody
    /\ script = "undoRollback" => UndoRollbackBody
    /\ script = "restore" => RestoreBody
    /\ script = "recover" => RecoverBody
    /\ script = "uninstall" => UninstallBody
    /\ script \in {"start", "stop"} => command = script
    /\ ScriptsAreAtomic

-----------------------------------------------------------------------------
(* A line of any script. *)

LEMMA WentOn ==
    ASSUME NEW ok \in BOOLEAN, GoOn(ok)
    PROVE  /\ line' = line + 1 /\ script' = script /\ outcome' = outcome
           /\ sound' => sound /\ ok
  BY DEF GoOn

LEMMA ProperKept ==
    ASSUME Proper(machine), Proper(found), NEW op, NEW s, Acts(op, s),
           op = "link" => s \in Links /\ GoalLink(s) \in Targets,
           op = "file" /\ s = "cors" => GoalFile(s) \in Origins
    PROVE  Proper(machine')
  <1>1. \A l \in Links : machine'.link[l] \in Targets
    <2> SUFFICES ASSUME NEW l \in Links PROVE machine'.link[l] \in Targets
      OBVIOUS
    <2>1. machine.link[l] \in Targets /\ None \in Targets
      BY DEF Proper, Targets
    <2>2. CASE op = "link" /\ l = s
      BY <2>1, <2>2 DEF Acts, Succeeds, Leaves
    <2>3. CASE op = "remove"
      BY <2>1, <2>3 DEF Acts, Succeeds, Leaves
    <2>4. CASE op # "remove" /\ ~(op = "link" /\ l = s)
      BY <2>1, <2>4 DEF Acts, Frame
    <2>5. QED
      BY <2>2, <2>3, <2>4
  <1>2. machine'.file["cors"] \in Origins
    <2>1. machine.file["cors"] \in Origins /\ None \in Origins /\ "cors" \in Files
      BY EdgeControlAssumption DEF Proper, Files
    <2>2. CASE op = "file" /\ s = "cors"
      BY <2>1, <2>2 DEF Acts, Succeeds, Leaves
    <2>3. CASE op = "remove"
      BY <2>1, <2>3 DEF Acts, Succeeds, Leaves
    <2>4. CASE op # "remove" /\ ~(op = "file" /\ s = "cors")
      BY <2>1, <2>4 DEF Acts, Frame
    <2>5. QED
      BY <2>2, <2>3, <2>4
  <1>3. machine'.process["legacy"] \in {None, <<"legacy">>}
    <2>1. machine.process["legacy"] \in {None, <<"legacy">>} /\ "legacy" \in Services
      BY DEF Proper, Services
    <2>2. CASE s = "legacy" /\ op \in {"stop", "load", "kickstart"}
      <3>1. CASE Leaves(op, s)
        BY <2>1, <2>2, <3>1 DEF Leaves
      <3>2. CASE Succeeds(op, s)
        BY <2>1, <2>2, <3>2 DEF Succeeds, Loaded, StartedFrom
      <3>3. QED
        BY <3>1, <3>2 DEF Acts
    <2>3. CASE s # "legacy" \/ op \notin {"stop", "load", "kickstart"}
      BY <2>1, <2>3 DEF Acts, Frame
    <2>4. QED
      BY <2>2, <2>3
  <1>4. QED
    BY <1>1, <1>2, <1>3 DEF Proper

LEMMA BasicKept ==
    ASSUME Basic, NEW op, NEW s, Acts(op, s),
           op = "link" => s \in Links /\ GoalLink(s) \in Targets,
           op = "file" /\ s = "cors" => GoalFile(s) \in Origins,
           Lost' \/ RunsEnabled(machine')
    PROVE  Basic'
  <1>1. found' = found /\ IsWhole(machine')
    BY DEF Acts
  <1>2. Proper(machine')
    BY ProperKept DEF Basic
  <1>3. IsWhole(found') /\ Proper(found') /\ RunsEnabled(found')
    BY <1>1 DEF Basic
  <1>4. QED
    BY <1>1, <1>2, <1>3 DEF Basic

LEMMA EnabledKept ==
    ASSUME RunsEnabled(machine), NEW op, NEW s, Acts(op, s),
           op \in {"disable", "flag"} /\ s \in machine'.disabled => ~Loaded(machine, s)
    PROVE  RunsEnabled(machine')
  <1> SUFFICES ASSUME NEW t \in Services, Loaded(machine', t) PROVE t \notin machine'.disabled
    BY DEF RunsEnabled
  <1>1. Loaded(machine, t) => t \notin machine.disabled
    BY DEF RunsEnabled
  <1>2. CASE t # s
    BY <1>1, <1>2 DEF Acts, Frame, Loaded
  <1>3. CASE t = s /\ op \in {"stop", "load", "kickstart"}
    <2>1. machine'.disabled = machine.disabled
      BY <1>3 DEF Acts, Frame
    <2>2. Loaded(machine, t) \/ (op = "load" /\ CanLoad(machine, t))
      <3>1. CASE Leaves(op, s)
        BY <1>3, <3>1 DEF Leaves
      <3>2. CASE Succeeds(op, s)
        BY <1>3, <3>2 DEF Succeeds
      <3>3. QED
        BY <3>1, <3>2 DEF Acts
    <2>3. QED
      BY <1>1, <2>1, <2>2 DEF CanLoad, AtLogin
  <1>4. CASE t = s /\ op \notin {"stop", "load", "kickstart"}
    <2>1. machine'.process = machine.process
      BY <1>4 DEF Acts, Frame
    <2>2. Loaded(machine, t)
      BY <2>1 DEF Loaded
    <2>3. CASE op \in {"disable", "flag"}
      BY <1>4, <2>2, <2>3
    <2>4. CASE op = "enable"
      <3>1. CASE Leaves(op, s)
        BY <1>1, <2>2, <2>4, <3>1 DEF Leaves
      <3>2. CASE Succeeds(op, s)
        BY <1>1, <1>4, <2>2, <2>4, <3>2 DEF Succeeds
      <3>3. QED
        BY <3>1, <3>2 DEF Acts
    <2>5. CASE op \notin {"enable", "disable", "flag"}
      BY <1>1, <2>2, <2>5 DEF Acts, Frame
    <2>6. QED
      BY <2>3, <2>4, <2>5
  <1>5. QED
    BY <1>2, <1>3, <1>4

\* A step into or within a script only has to show what that script promises.
LEMMA Within ==
    ASSUME Basic', script' # "none",
           script' = "install" => InstallBody',
           script' = "undoInstall" => UndoBody',
           script' = "rollback" => RollbackBody',
           script' = "undoRollback" => UndoRollbackBody',
           script' = "restore" => RestoreBody',
           script' = "recover" => RecoverBody',
           script' = "uninstall" => UninstallBody',
           script' \in {"start", "stop"} => command' = script'
    PROVE  AtomInv'
  BY DEF AtomInv, ScriptsAreAtomic

\* A step out of a script has to show what its answer means.
LEMMA Without ==
    ASSUME Basic', script' = "none",
           outcome' = "unchanged" => (machine = found)',
           outcome' = "restored" => (~Contended(found) => AsFound)',
           outcome' = "done" => Reached'
    PROVE  AtomInv'
  BY DEF AtomInv, ScriptsAreAtomic

-----------------------------------------------------------------------------
(* The rollback of the release, and its undo. *)

LEMMA RollbackLine ==
    ASSUME script \in {"rollback", "undoRollback"}, NEW op, NEW s, Performs(op, s)
    PROVE  \/ line = 1 /\ op = "link" /\ s = "current"
           \/ line = 2 /\ op = "link" /\ s = "previous"
           \/ line = 3 /\ op = "file" /\ s = "plist"
           \/ line = 4 /\ op = "stop" /\ s = "new"
           \/ line = 5 /\ op = "port"
           \/ line = 6 /\ op = "enable" /\ s = "new"
           \/ line = 7 /\ op = "load" /\ s = "new"
           \/ line = 8 /\ op = "kickstart" /\ s = "new"
           \/ line = 9 /\ op = "ready" /\ s = "new" /\ script = "rollback"
  <1>1. Text["rollback"] = Rollback /\ Text["undoRollback"] = UndoRollback
    BY DEF Text
  <1>2. line \in 1 .. Len(Text[script]) /\ Text[script][line] = <<op, s>>
    BY DEF Performs
  <1>3. line \in 1 .. 9 /\ Rollback[line] = <<op, s>> /\ (script = "undoRollback" => line <= 8)
    <2>1. CASE script = "rollback"
      BY <1>1, <1>2, <2>1, RollbackText
    <2>2. CASE script = "undoRollback"
      <3>1. line \in 1 .. 8 /\ UndoRollback[line] = <<op, s>>
        BY <1>1, <1>2, <2>2, UndoRollbackText
      <3>2. QED
        BY <3>1, UndoRollbackText
    <2>3. QED
      BY <2>1, <2>2
  <1>4. QED
    BY <1>3, RollbackText

LEMMA AroundKept ==
    ASSUME Around, NEW op \in {"link", "file", "stop", "port", "enable", "load", "kickstart", "ready"},
           NEW s, Acts(op, s), op = "file" => s = "plist",
           op \in {"stop", "enable", "load", "kickstart"} => s = "new"
    PROVE  Around'
  <1>1. found' = found
    BY DEF Acts
  <1>2. machine'.legacy = machine.legacy /\ machine'.archives = machine.archives
    BY DEF Acts, Frame
  <1>3. \A f \in Files \ {"plist"} : machine'.file[f] = machine.file[f]
    BY DEF Acts, Frame
  <1>4. machine'.process["legacy"] = machine.process["legacy"]
    BY DEF Acts, Frame, Services
  <1>5. ("legacy" \in machine'.disabled) = ("legacy" \in machine.disabled)
    BY DEF Acts, Frame, Services
  <1>6. QED
    BY <1>1, <1>2, <1>3, <1>4, <1>5 DEF Around

LEMMA RebuiltKept ==
    ASSUME script \in {"rollback", "undoRollback"}, Rebuilt, NEW op, NEW s, Acts(op, s),
           line' = line + 1, Succeeds(op, s) \/ Tolerated(op)
    PROVE  Rebuilt'
  <1> USE RollbackLine DEF Acts
  <1>1. CASE line \in {1, 2, 3}
    BY <1>1 DEF Rebuilt
  <1>2. CASE line = 4
    <2>1. op = "stop" /\ s = "new"
      BY <1>2
    <2>2. Succeeds(op, s)
      BY <2>1 DEF Tolerated
    <2>3. QED
      BY <1>2, <2>1, <2>2 DEF Rebuilt, Succeeds
  <1>3. CASE line = 5
    <2>1. op = "port"
      BY <1>3
    <2>2. Succeeds(op, s)
      BY <2>1 DEF Tolerated
    <2>3. machine' = machine /\ Running(machine) = {}
      BY <2>1, <2>2 DEF Succeeds
    <2>4. ~Loaded(machine, "new") /\ ~Loaded(machine, "legacy")
      BY <2>3 DEF Running, Services
    <2>5. QED
      BY <1>3, <2>3, <2>4 DEF Rebuilt, Loaded
  <1>4. CASE line = 6
    BY <1>4 DEF Rebuilt, Frame, Loaded
  <1>5. CASE line \in {7, 8}
    BY <1>5 DEF Rebuilt, Frame, Loaded, Services
  <1>6. CASE line = 9
    BY <1>6 DEF Rebuilt, Frame, Loaded
  <1>7. QED
    BY <1>1, <1>2, <1>3, <1>4, <1>5, <1>6

\* What the two goals of a link and of the plist are.
LEMMA RollbackGoals ==
    ASSUME Basic, script \in {"rollback", "undoRollback"}, NEW op, NEW s, Performs(op, s)
    PROVE  /\ op = "link" => s \in Links /\ GoalLink(s) \in Targets
           /\ op = "file" => s = "plist"
  <1>1. op = "link" => s \in {"current", "previous"}
    BY RollbackLine
  <1>2. found.link["current"] \in Targets /\ found.link["previous"] \in Targets
    BY DEF Basic, Proper, Links
  <1>3. CASE script = "rollback"
    BY <1>1, <1>2, <1>3, RollbackLine DEF GoalLink, Links
  <1>4. CASE script = "undoRollback"
    BY <1>1, <1>2, <1>4, RollbackLine DEF GoalLink, Links
  <1>5. QED
    BY <1>3, <1>4

LEMMA RollbackBasic ==
    ASSUME Basic, script \in {"rollback", "undoRollback"}, NEW op, NEW s, Acts(op, s)
    PROVE  Basic'
  <1>1. Performs(op, s)
    BY DEF Acts
  <1>2. op \notin {"disable", "flag"}
    BY <1>1, RollbackLine
  <1>3. RunsEnabled(machine)
    BY DEF Basic, Lost
  <1>4. RunsEnabled(machine')
    BY <1>2, <1>3, EnabledKept
  <1>5. QED
    BY <1>1, <1>4, RollbackGoals, BasicKept

LEMMA UndoRollbackBegins ==
    ASSUME Basic', RollbackOf, Around', Enter("undoRollback"), UNCHANGED <<found, command>>
    PROVE  AtomInv'
  <1>1. script' = "undoRollback" /\ line' = 1
    BY DEF Enter
  <1>2. UndoRollbackBody'
    BY <1>1 DEF UndoRollbackBody, Rebuilt, RollbackOf
  <1>3. QED
    BY <1>1, <1>2, Within

LEMMA RollbackKeepsAtom ==
    ASSUME AtomInv, script = "rollback", NEW op, NEW s, Acts(op, s)
    PROVE  AtomInv'
  <1>1. Performs(op, s) /\ UNCHANGED <<found, command, given>>
    BY DEF Acts
  <1>2. Basic' /\ RollbackBody
    BY RollbackBasic DEF AtomInv
  <1>3. Around'
    <2>1. Around /\ op \in {"link", "file", "stop", "port", "enable", "load", "kickstart", "ready"}
      BY <1>1, <1>2, RollbackLine DEF RollbackBody
    <2>2. /\ op = "file" => s = "plist"
          /\ op \in {"stop", "enable", "load", "kickstart"} => s = "new"
      BY <1>1, RollbackLine
    <2>3. QED
      BY <2>1, <2>2, AroundKept
  <1>4. RollbackOf'
    BY <1>1, <1>2 DEF RollbackBody, RollbackOf
  <1>5. CASE GoOn(TRUE) /\ Succeeds(op, s)
    <2>1. line' = line + 1 /\ script' = "rollback"
      BY <1>5, WentOn
    <2>2. Rebuilt'
      BY <1>2, <1>5, <2>1, RebuiltKept DEF RollbackBody
    <2>3. Frame(op, s)
      BY DEF Acts
    <2>4. line' > 1 => machine'.link["current"] = found'.link["previous"]
      <3>1. CASE line = 1
        BY <1>1, <1>5, <3>1, RollbackLine DEF Succeeds, GoalLink
      <3>2. CASE line # 1
        BY <1>1, <1>2, <2>1, <2>3, <3>2, RollbackLine DEF Frame, Links, RollbackBody
      <3>3. QED
        BY <3>1, <3>2
    <2>5. line' > 2 => machine'.link["previous"] = found'.link["current"]
      <3>1. CASE line = 2
        BY <1>1, <1>5, <3>1, RollbackLine DEF Succeeds, GoalLink
      <3>2. CASE line # 2
        BY <1>1, <1>2, <2>1, <2>3, <3>2, RollbackLine DEF Frame, Links, RollbackBody
      <3>3. QED
        BY <3>1, <3>2
    <2>6. line' > 3 => machine'.file["plist"] = OldPlist'
      <3>1. CASE line = 3
        <4>1. op = "file" /\ s = "plist"
          BY <1>1, <3>1, RollbackLine
        <4>2. GoalFile("plist") = OldPlist
          BY DEF GoalFile, OldPlist
        <4>3. OldPlist' = OldPlist
          BY <1>1 DEF OldPlist
        <4>4. QED
          BY <1>5, <4>1, <4>2, <4>3 DEF Succeeds
      <3>2. CASE line # 3
        <4>1. op # "remove" /\ (op = "file" => s # "plist")
          BY <1>1, <3>2, RollbackLine
        <4>2. machine'.file["plist"] = machine.file["plist"]
          BY <2>3, <3>2, <4>1 DEF Frame, Files, Tools
        <4>3. OldPlist' = OldPlist
          BY <1>1 DEF OldPlist
        <4>4. line' > 3 => line > 3
          BY <1>1, <2>1, <3>2, RollbackLine
        <4>5. QED
          BY <1>2, <4>2, <4>3, <4>4 DEF RollbackBody
      <3>3. QED
        BY <3>1, <3>2
    <2>7. line' > 7 /\ Loaded(machine', "new") =>
              machine'.process["new"] = StartedFrom(machine', "new")
      <3>1. CASE line = 7
        <4>1. op = "load" /\ s = "new" /\ ~Loaded(machine, "new")
          BY <1>1, <1>2, <3>1, RollbackLine DEF RollbackBody, Rebuilt
        <4>2. Starts("new")
          BY DEF Starts
        <4>3. machine'.process["new"] = StartedFrom(machine, "new")
          BY <1>5, <4>1, <4>2 DEF Succeeds
        <4>4. machine'.file = machine.file /\ machine'.link = machine.link
          BY <2>3, <4>1 DEF Frame
        <4>5. QED
          BY <4>3, <4>4 DEF StartedFrom
      <3>2. CASE line = 8
        <4>1. op = "kickstart" /\ s = "new"
          BY <1>1, <3>2, RollbackLine
        <4>2. Loaded(machine, "new") =>
                  machine.process["new"] = <<machine.file["plist"], machine.link["current"]>>
          BY <1>2, <3>2 DEF RollbackBody, StartedFrom
        <4>3. machine'.file = machine.file /\ machine'.link = machine.link
          BY <2>3, <4>1 DEF Frame
        <4>4. CASE machine' = machine
          BY <4>2, <4>4 DEF StartedFrom, Loaded
        <4>5. CASE /\ Loaded(machine, "new")
                   /\ machine'.process["new"] = <<machine.process["new"][1], machine.link["current"]>>
          BY <4>2, <4>3, <4>5 DEF StartedFrom
        <4>6. QED
          BY <1>5, <4>1, <4>4, <4>5 DEF Succeeds
      <3>3. CASE line = 9
        <4>1. op = "ready"
          BY <1>1, <3>3, RollbackLine
        <4>2. machine' = machine
          BY <1>5, <4>1 DEF Succeeds
        <4>3. QED
          BY <1>2, <3>3, <4>2 DEF RollbackBody, StartedFrom, Loaded
      <3>4. CASE line \notin {7, 8, 9}
        BY <1>1, <2>1, <3>4, RollbackLine
      <3>5. QED
        BY <3>1, <3>2, <3>3, <3>4
    <2>8. line' > 9 => Loaded(machine', "new")
      <3>1. CASE line = 9
        <4>1. op = "ready" /\ s = "new"
          BY <1>1, <3>1, RollbackLine
        <4>2. Awaited("new")
          BY DEF Awaited
        <4>3. QED
          BY <1>5, <4>1, <4>2 DEF Succeeds, Loaded
      <3>2. CASE line # 9
        BY <1>1, <2>1, <3>2, RollbackLine
      <3>3. QED
        BY <3>1, <3>2
    <2>9. RollbackBody'
      BY <1>3, <1>4, <2>2, <2>4, <2>5, <2>6, <2>7, <2>8 DEF RollbackBody
    <2>10. QED
      BY <1>2, <2>1, <2>9, Within
  <1>6. CASE Fails(op) /\ Leaves(op, s)
    <2>1. CASE op \in {"enable", "load"}
      <3>1. GoOn(FALSE) /\ Tolerated(op) /\ machine' = machine
        BY <1>6, <2>1 DEF Fails, Tolerated, Leaves
      <3>2. line' = line + 1 /\ script' = "rollback"
        BY <3>1, WentOn
      <3>3. Rebuilt'
        BY <1>2, <3>1, <3>2, RebuiltKept DEF RollbackBody
      <3>4. line \in {6, 7}
        BY <1>1, <2>1, RollbackLine
      <3>5. line' > 7 => ~Loaded(machine', "new")
        BY <1>2, <3>1, <3>2, <3>4 DEF RollbackBody, Rebuilt, Loaded
      <3>6. /\ machine'.link["current"] = found'.link["previous"]
            /\ machine'.link["previous"] = found'.link["current"]
            /\ machine'.file["plist"] = OldPlist'
        <4>1. OldPlist' = OldPlist
          BY <1>1 DEF OldPlist
        <4>2. QED
          BY <1>1, <1>2, <3>1, <3>4, <4>1 DEF RollbackBody
      <3>7. RollbackBody'
        BY <1>3, <1>4, <3>2, <3>3, <3>4, <3>5, <3>6 DEF RollbackBody
      <3>8. QED
        BY <1>2, <3>2, <3>7, Within
    <2>2. CASE op = "link"
      <3>1. End("interrupted")
        BY <1>6, <2>2 DEF Fails, Tolerated, GiveUp
      <3>2. QED
        BY <1>2, <3>1, Without DEF End
    <2>3. CASE op \notin {"link", "enable", "load"}
      <3>1. Enter("undoRollback")
        BY <1>6, <2>3 DEF Fails, Tolerated, GiveUp
      <3>2. QED
        BY <1>1, <1>2, <1>3, <3>1, UndoRollbackBegins DEF RollbackBody
    <2>4. QED
      BY <2>1, <2>2, <2>3
  <1>7. QED
    BY <1>5, <1>6 DEF Acts

\* What the load and the restart of the new service make of it.
LEMMA RestartedAsWritten ==
    ASSUME Starts("new"), NEW op, Acts(op, "new"), Succeeds(op, "new"),
           \/ op = "load" /\ ~Loaded(machine, "new")
           \/ op = "kickstart" /\ machine.process["new"] = StartedFrom(machine, "new")
    PROVE  machine'.process["new"] = StartedFrom(machine', "new")
  <1>1. CASE op = "load"
    <2>1. machine'.process["new"] = StartedFrom(machine, "new")
      BY <1>1 DEF Succeeds
    <2>2. machine'.file = machine.file /\ machine'.link = machine.link
      BY <1>1 DEF Acts, Frame
    <2>3. QED
      BY <2>1, <2>2 DEF StartedFrom
  <1>2. CASE op = "kickstart"
    <2>1. machine.process["new"] = <<machine.file["plist"], machine.link["current"]>>
      BY <1>2 DEF StartedFrom
    <2>2. machine'.file = machine.file /\ machine'.link = machine.link
      BY <1>2 DEF Acts, Frame
    <2>3. CASE machine' = machine
      BY <2>1, <2>3 DEF StartedFrom
    <2>4. CASE machine'.process["new"] = <<machine.process["new"][1], machine.link["current"]>>
      BY <2>1, <2>2, <2>4 DEF StartedFrom
    <2>5. QED
      BY <1>2, <2>3, <2>4 DEF Succeeds
  <1>3. QED
    BY <1>1, <1>2

LEMMA UndoRollbackKeeps ==
    ASSUME AtomInv, script = "undoRollback", NEW op, NEW s, Acts(op, s)
    PROVE  AtomInv'
  <1>1. Performs(op, s) /\ UNCHANGED <<found, command, given>> /\ Frame(op, s)
    BY DEF Acts
  <1>2. Basic' /\ UndoRollbackBody
    BY RollbackBasic DEF AtomInv
  <1>3. Around'
    <2>1. Around /\ op \in {"link", "file", "stop", "port", "enable", "load", "kickstart", "ready"}
      BY <1>1, <1>2, RollbackLine DEF UndoRollbackBody
    <2>2. /\ op = "file" => s = "plist"
          /\ op \in {"stop", "enable", "load", "kickstart"} => s = "new"
      BY <1>1, RollbackLine
    <2>3. QED
      BY <2>1, <2>2, AroundKept
  <1>4. RollbackOf'
    BY <1>1, <1>2 DEF UndoRollbackBody, RollbackOf
  <1>5. ASSUME NEW ok \in BOOLEAN, GoOn(ok), Succeeds(op, s) \/ Tolerated(op),
               ok => Succeeds(op, s), ~Succeeds(op, s) => Leaves(op, s)
        PROVE  AtomInv'
    <2>1. line' = line + 1 /\ script' = "undoRollback" /\ (sound' => sound /\ ok)
      BY <1>5, WentOn
    <2>2. Rebuilt'
      BY <1>2, <1>5, <2>1, RebuiltKept DEF UndoRollbackBody
    <2>3. line' > 1 => machine'.link["current"] = found'.link["current"]
      <3>1. CASE line = 1
        <4>1. op = "link" /\ s = "current" /\ ~Tolerated(op)
          BY <1>1, <3>1, RollbackLine DEF Tolerated
        <4>2. QED
          BY <1>1, <1>5, <4>1 DEF Succeeds, GoalLink
      <3>2. CASE line # 1
        BY <1>1, <1>2, <2>1, <3>2, RollbackLine DEF Frame, Links, UndoRollbackBody
      <3>3. QED
        BY <3>1, <3>2
    <2>4. line' > 2 => machine'.link["previous"] = found'.link["previous"]
      <3>1. CASE line = 2
        <4>1. op = "link" /\ s = "previous" /\ ~Tolerated(op)
          BY <1>1, <3>1, RollbackLine DEF Tolerated
        <4>2. QED
          BY <1>1, <1>5, <4>1 DEF Succeeds, GoalLink
      <3>2. CASE line # 2
        BY <1>1, <1>2, <2>1, <3>2, RollbackLine DEF Frame, Links, UndoRollbackBody
      <3>3. QED
        BY <3>1, <3>2
    <2>5. line' > 3 /\ sound' => machine'.file["plist"] = found'.file["plist"]
      <3>1. CASE line = 3
        <4>1. op = "file" /\ s = "plist"
          BY <1>1, <3>1, RollbackLine
        <4>2. GoalFile("plist") = found.file["plist"]
          BY DEF GoalFile
        <4>3. QED
          BY <1>1, <1>5, <2>1, <4>1, <4>2 DEF Succeeds
      <3>2. CASE line # 3
        <4>1. op # "remove" /\ (op = "file" => s # "plist")
          BY <1>1, <3>2, RollbackLine
        <4>2. machine'.file["plist"] = machine.file["plist"]
          BY <1>1, <3>2, <4>1 DEF Frame, Files, Tools
        <4>3. line' > 3 => line > 3
          BY <1>1, <2>1, <3>2, RollbackLine
        <4>4. QED
          BY <1>1, <1>2, <2>1, <4>2, <4>3 DEF UndoRollbackBody
      <3>3. QED
        BY <3>1, <3>2
    <2>6. line' > 7 /\ sound' => machine'.process["new"] = StartedFrom(machine', "new")
      <3>1. ASSUME line' > 7, sound' PROVE machine'.process["new"] = StartedFrom(machine', "new")
        <4>1. \/ line = 7 /\ op = "load" /\ s = "new"
              \/ line = 8 /\ op = "kickstart" /\ s = "new"
          BY <1>1, <2>1, <3>1, RollbackLine
        <4>2. Succeeds(op, "new") /\ Acts(op, "new")
          BY <1>5, <2>1, <3>1, <4>1
        <4>3. line = 7 => ~Loaded(machine, "new")
          BY <1>2 DEF UndoRollbackBody, Rebuilt
        <4>4. line = 8 => machine.process["new"] = StartedFrom(machine, "new")
          BY <1>2, <2>1, <3>1 DEF UndoRollbackBody
        <4>5. Starts("new")
          BY DEF Starts
        <4>6. QED
          BY <4>1, <4>2, <4>3, <4>4, <4>5, RestartedAsWritten
      <3>2. QED
        BY <3>1
    <2>7. UndoRollbackBody'
      BY <1>3, <1>4, <2>2, <2>3, <2>4, <2>5, <2>6 DEF UndoRollbackBody
    <2>8. QED
      BY <1>2, <2>1, <2>7, Within
  <1>6. CASE GoOn(TRUE) /\ Succeeds(op, s)
    BY <1>5, <1>6
  <1>7. CASE Fails(op) /\ Leaves(op, s)
    <2>1. CASE Tolerated(op)
      <3>1. GoOn(FALSE)
        BY <1>7, <2>1 DEF Fails
      <3>2. QED
        BY <1>5, <1>7, <2>1, <3>1
    <2>2. CASE ~Tolerated(op)
      <3>1. End("manual")
        BY <1>7, <2>2 DEF Fails, GiveUp
      <3>2. QED
        BY <1>2, <3>1, Without DEF End
    <2>3. QED
      BY <2>1, <2>2
  <1>8. QED
    BY <1>6, <1>7 DEF Acts

-----------------------------------------------------------------------------
(* start and stop. *)

LEMMA StartStopLine ==
    ASSUME script \in {"start", "stop"}, NEW op, NEW s, Performs(op, s)
    PROVE  op \in {"enable", "load", "kickstart", "stop"}
  <1>1. line \in 1 .. Len(Text[script]) /\ Text[script][line] = <<op, s>>
    BY DEF Performs
  <1>2. CASE script = "start"
    <2>1. line \in 1 .. 3 /\ Text["start"][line] = <<op, s>>
      BY <1>1, <1>2, ShortTexts
    <2>2. QED
      BY <2>1, ShortTexts
  <1>3. CASE script = "stop"
    <2>1. line \in 1 .. 1 /\ Text["stop"][line] = <<op, s>>
      BY <1>1, <1>3, ShortTexts
    <2>2. QED
      BY <2>1, ShortTexts
  <1>4. QED
    BY <1>2, <1>3

LEMMA StartStopKeeps ==
    ASSUME AtomInv, script \in {"start", "stop"}, NEW op, NEW s, Acts(op, s)
    PROVE  AtomInv'
  <1>1. Performs(op, s) /\ UNCHANGED <<found, command, given>>
    BY DEF Acts
  <1>2. op \in {"enable", "load", "kickstart", "stop"}
    BY <1>1, StartStopLine
  <1>3. Basic'
    <2>1. RunsEnabled(machine) /\ Basic
      BY DEF AtomInv, Basic, Lost
    <2>2. RunsEnabled(machine')
      BY <1>2, <2>1, EnabledKept
    <2>3. QED
      BY <1>2, <2>1, <2>2, BasicKept
  <1>4. ASSUME NEW ok \in BOOLEAN, GoOn(ok) PROVE AtomInv'
    <2>1. script' = script
      BY <1>4, WentOn
    <2>2. command' = script'
      BY <1>1, <2>1 DEF AtomInv
    <2>3. QED
      BY <1>3, <2>1, <2>2, Within
  <1>5. CASE GoOn(TRUE)
    BY <1>4, <1>5
  <1>6. CASE Fails(op)
    <2>1. CASE Tolerated(op)
      BY <1>4, <1>6, <2>1 DEF Fails
    <2>2. CASE ~Tolerated(op)
      <3>1. script = "start"
        BY <2>2 DEF Tolerated
      <3>2. End("interrupted")
        BY <1>6, <2>2, <3>1 DEF Fails, GiveUp
      <3>3. QED
        BY <1>3, <3>2, Without DEF End
    <2>3. QED
      BY <2>1, <2>2
  <1>7. QED
    BY <1>5, <1>6 DEF Acts

-----------------------------------------------------------------------------
(* The way back to the legacy service, and the recovery from it. *)

LEMMA RestoreLine ==
    ASSUME script = "restore", NEW op, NEW s, Performs(op, s)
    PROVE  \/ line = 1 /\ op = "stop" /\ s = "new"
           \/ /\ Loaded(found, "legacy")
              /\ \/ line = 2 /\ op = "ready"
                 \/ line = 3 /\ op = "disable" /\ s = "new"
           \/ /\ ~Loaded(found, "legacy")
              /\ \/ line = 2 /\ op = "port"
                 \/ line = 3 /\ op = "copy"
                 \/ line = 4 /\ op = "enable" /\ s = "legacy"
                 \/ line = 5 /\ op = "load" /\ s = "legacy"
                 \/ line = 6 /\ op = "kickstart" /\ s = "legacy"
                 \/ line = 7 /\ op = "ready" /\ s = "legacy"
                 \/ line = 8 /\ op = "disable" /\ s = "new"
  <1>1. line \in 1 .. Len(Restore) /\ Restore[line] = <<op, s>>
    BY ScriptTexts DEF Performs
  <1>2. CASE Loaded(found, "legacy")
    <2>1. line \in 1 .. 3
      BY <1>1, <1>2, RestoreFull
    <2>2. QED
      BY <1>1, <1>2, <2>1, RestoreFull
  <1>3. CASE ~Loaded(found, "legacy")
    <2>1. line \in 1 .. 8
      BY <1>1, <1>3, RestoreFull
    <2>2. QED
      BY <1>1, <1>3, <2>1, RestoreFull
  <1>4. QED
    BY <1>2, <1>3

\* The lines of both scripts let the links, the files and the archives be.
LEMMA InsideKept ==
    ASSUME Inside, NEW op, NEW s, Acts(op, s),
           op \in {"stop", "ready", "disable", "port", "copy", "uncopy", "enable", "load", "kickstart"}
    PROVE  Inside'
  BY DEF Inside, Acts, Frame

LEMMA RestoreBasic ==
    ASSUME AtomInv, script = "restore", NEW op, NEW s, Acts(op, s)
    PROVE  Basic' /\ RestoreOf' /\ Inside'
  <1>1. Performs(op, s) /\ UNCHANGED <<found, command, given>>
    BY DEF Acts
  <1>2. Basic /\ RestoreBody /\ RunsEnabled(machine)
    BY DEF AtomInv, Basic, Lost
  <1>3. op \in {"stop", "ready", "disable", "port", "copy", "enable", "load", "kickstart"}
    BY <1>1, RestoreLine
  <1>4. op = "disable" => ~Loaded(machine, s)
    BY <1>1, <1>2, RestoreLine DEF RestoreBody
  <1>5. RunsEnabled(machine')
    BY <1>2, <1>3, <1>4, EnabledKept
  <1>6. Basic'
    BY <1>2, <1>3, <1>5, BasicKept
  <1>7. Inside'
    BY <1>2, <1>3, InsideKept DEF RestoreBody
  <1>8. RestoreOf'
    BY <1>1, <1>2 DEF RestoreBody, RestoreOf
  <1>9. QED
    BY <1>6, <1>7, <1>8

LEMMA RecoverBegins ==
    ASSUME Basic', RestoreOf, Inside', Recovers, Enter("recover"), UNCHANGED <<found, command>>
    PROVE  AtomInv'
  <1>1. script' = "recover" /\ line' = 1
    BY DEF Enter
  <1>2. RecoverBody'
    BY <1>1 DEF RecoverBody, RestoreOf, Recovers
  <1>3. QED
    BY <1>1, <1>2, Within

LEMMA RestoreKeepsAtom ==
    ASSUME AtomInv, script = "restore", NEW op, NEW s, Acts(op, s)
    PROVE  AtomInv'
  <1>1. Performs(op, s) /\ UNCHANGED <<found, command, given>> /\ Frame(op, s)
    BY DEF Acts
  <1>2. Basic' /\ RestoreOf' /\ Inside'
    BY RestoreBasic
  <1>3. RestoreBody
    BY DEF AtomInv
  <1>4. CASE GoOn(TRUE) /\ Succeeds(op, s)
    <2>1. line' = line + 1 /\ script' = "restore" /\ line \in Nat /\ line > 0
      <3>1. line' = line + 1 /\ script' = "restore"
        BY <1>4, WentOn
      <3>2. line \in Nat /\ line > 0
        BY <1>1, RestoreLine
      <3>3. QED
        BY <3>1, <3>2
    <2>2. ~Loaded(machine', "new")
      <3>1. CASE line = 1
        BY <1>1, <1>4, <3>1, RestoreLine DEF Succeeds
      <3>2. CASE line # 1
        <4>1. ~Loaded(machine, "new")
          BY <1>1, <1>3, <3>2, RestoreLine DEF RestoreBody
        <4>2. op \notin {"stop", "load", "kickstart"} \/ s = "legacy"
          BY <1>1, <3>2, RestoreLine
        <4>3. QED
          BY <1>1, <4>1, <4>2 DEF Frame, Loaded, Services
      <3>3. QED
        BY <3>1, <3>2
    <2>3. ASSUME Loaded(found, "legacy")
          PROVE  /\ Loaded(machine', "legacy")
                 /\ ~Loaded(found, "new") /\ line' <= 3 => machine' = found
                 /\ line' > 3 => "new" \in machine'.disabled
      <3>1. \/ line = 1 /\ op = "stop" /\ s = "new"
            \/ line = 2 /\ op = "ready"
            \/ line = 3 /\ op = "disable" /\ s = "new"
        BY <1>1, <2>3, RestoreLine
      <3>2. Loaded(machine', "legacy")
        BY <1>1, <1>3, <2>3, <3>1 DEF RestoreBody, Frame, Loaded, Services
      <3>3. ~Loaded(found, "new") /\ line' <= 3 => machine' = found
        BY <1>3, <1>4, <2>1, <2>3, <3>1 DEF RestoreBody, Succeeds
      <3>4. line' > 3 => "new" \in machine'.disabled
        BY <1>4, <2>1, <3>1 DEF Succeeds
      <3>5. QED
        BY <3>2, <3>3, <3>4
    <2>4. ASSUME ~Loaded(found, "legacy")
          PROVE  /\ line' > 7 => Loaded(machine', "legacy")
                 /\ line' > 8 => "new" \in machine'.disabled
      <3>1. CASE line \in 1 .. 6
        BY <2>1, <3>1
      <3>2. CASE line = 7
        <4>1. op = "ready" /\ s = "legacy" /\ Awaited("legacy")
          BY <1>1, <2>4, <3>2, RestoreLine DEF Awaited
        <4>2. QED
          BY <1>4, <2>1, <3>2, <4>1 DEF Succeeds, Loaded
      <3>3. CASE line = 8
        <4>1. op = "disable" /\ s = "new"
          BY <1>1, <2>4, <3>3, RestoreLine
        <4>2. Loaded(machine, "legacy")
          BY <1>3, <2>4, <3>3 DEF RestoreBody
        <4>3. QED
          BY <1>1, <1>4, <4>1, <4>2 DEF Succeeds, Loaded, Frame
      <3>4. QED
        BY <1>1, <2>1, <2>4, <3>1, <3>2, <3>3, RestoreLine
    <2>5. RestoreBody'
      BY <1>1, <1>2, <2>1, <2>2, <2>3, <2>4 DEF RestoreBody
    <2>6. QED
      BY <1>2, <2>1, <2>5, Within
  <1>5. CASE Fails(op) /\ Leaves(op, s)
    <2>1. GiveUp(op) /\ machine' = machine
      <3>1. op # "file" /\ ~Tolerated(op)
        BY <1>1, RestoreLine DEF Tolerated
      <3>2. QED
        BY <1>5, <3>1 DEF Fails, Leaves
    <2>2. CASE op # "stop" /\ Recovers
      <3>1. Enter("recover")
        BY <2>1, <2>2 DEF GiveUp
      <3>2. QED
        BY <1>1, <1>2, <1>3, <2>2, <3>1, RecoverBegins DEF RestoreBody
    <2>3. CASE op = "stop" \/ ~Recovers
      <3>1. End("unchanged")
        BY <2>1, <2>3 DEF GiveUp
      <3>2. machine = found
        <4>1. CASE op = "stop"
          BY <1>1, <1>3, <4>1, RestoreLine DEF RestoreBody
        <4>2. CASE ~Recovers
          BY <1>1, <1>3, <4>2, RestoreLine DEF RestoreBody, Recovers
        <4>3. QED
          BY <2>3, <4>1, <4>2
      <3>3. machine' = found' /\ script' = "none" /\ outcome' = "unchanged"
        BY <1>1, <2>1, <3>1, <3>2 DEF End
      <3>4. QED
        BY <1>2, <3>3, Without
    <2>4. QED
      BY <2>2, <2>3
  <1>6. QED
    BY <1>4, <1>5 DEF Acts

LEMMA RecoverLine ==
    ASSUME script = "recover", NEW op, NEW s, Performs(op, s)
    PROVE  /\ line \in Nat /\ line > 0
           /\ op \in {"stop", "disable", "uncopy", "port", "enable", "load", "kickstart", "ready"}
           /\ op \in {"stop", "disable"} => s = "legacy"
           /\ op \in {"enable", "load", "kickstart", "ready"} => s = "new"
           /\ line = 1 => op = "stop" /\ s = "legacy"
           /\ ~Loaded(found, "legacy") =>
                  \/ line \in {1, 2}
                  \/ line = 3 /\ op = "uncopy"
                  \/ line = 4 /\ op = "port"
                  \/ /\ Loaded(found, "new")
                     /\ \/ line = 5 /\ op = "enable"
                        \/ line = 6 /\ op = "load"
                        \/ line = 7 /\ op = "kickstart"
                        \/ line = 8 /\ op = "ready"
  <1>1. line \in 1 .. Len(Recover) /\ Recover[line] = <<op, s>>
    BY ScriptTexts DEF Performs
  <1>2. <<op, s>> \in RecoverLines
    BY <1>1, RecoverText, LinesWithin
  <1>3. /\ op \in {"stop", "disable", "uncopy", "port", "enable", "load", "kickstart", "ready"}
        /\ op \in {"stop", "disable"} => s = "legacy"
        /\ op \in {"enable", "load", "kickstart", "ready"} => s = "new"
    BY <1>2 DEF RecoverLines
  <1>4. line \in Nat /\ line > 0
    <2>1. Len(Recover) \in Nat
      BY RecoverText
    <2>2. QED
      BY <1>1, <2>1
  <1>5. line = 1 => op = "stop" /\ s = "legacy"
    BY <1>1, RecoverFull
  <1>6. ASSUME ~Loaded(found, "legacy")
        PROVE  \/ line \in {1, 2}
               \/ line = 3 /\ op = "uncopy"
               \/ line = 4 /\ op = "port"
               \/ /\ Loaded(found, "new")
                  /\ \/ line = 5 /\ op = "enable"
                     \/ line = 6 /\ op = "load"
                     \/ line = 7 /\ op = "kickstart"
                     \/ line = 8 /\ op = "ready"
    <2>1. CASE Loaded(found, "new")
      <3>1. line \in 1 .. 8
        BY <1>1, <1>6, <2>1, RecoverFull
      <3>2. QED
        BY <1>1, <1>6, <2>1, <3>1, RecoverFull
    <2>2. CASE ~Loaded(found, "new")
      <3>1. line \in 1 .. 4
        BY <1>1, <1>6, <2>2, RecoverFull
      <3>2. QED
        BY <1>1, <1>6, <2>2, <3>1, RecoverFull
    <2>3. QED
      BY <2>1, <2>2
  <1>7. QED
    BY <1>3, <1>4, <1>5, <1>6

LEMMA RecoverKeepsAtom ==
    ASSUME AtomInv, script = "recover", NEW op, NEW s, Acts(op, s)
    PROVE  AtomInv'
  <1>1. Performs(op, s) /\ UNCHANGED <<found, command, given>> /\ Frame(op, s)
    BY DEF Acts
  <1>2. Basic /\ RecoverBody
    BY DEF AtomInv
  <1>3. RestoreOf' /\ Inside' /\ (Loaded(found, "legacy") => Loaded(found, "new"))'
    <2>1. Inside'
      BY <1>1, <1>2, RecoverLine, InsideKept DEF RecoverBody
    <2>2. QED
      BY <1>1, <1>2, <2>1 DEF RecoverBody, RestoreOf
  <1>4. ASSUME Lost' \/ RunsEnabled(machine') PROVE Basic'
    BY <1>1, <1>2, <1>4, RecoverLine, BasicKept
  <1>5. CASE GoOn(TRUE) /\ Succeeds(op, s)
    <2>1. line' = line + 1 /\ script' = "recover" /\ (sound' => sound)
      BY <1>5, WentOn
    <2>2. CASE ~sound'
      <3>1. Basic'
        BY <1>4, <2>1, <2>2 DEF Lost
      <3>2. RecoverBody'
        BY <1>3, <2>2 DEF RecoverBody
      <3>3. QED
        BY <2>1, <3>1, <3>2, Within
    <2>3. CASE sound' /\ sound
      <3>1. ~Loaded(machine', "legacy")
        <4>1. CASE line = 1
          BY <1>1, <1>5, <4>1, RecoverLine DEF Succeeds
        <4>2. CASE line # 1
          <5>1. ~Loaded(machine, "legacy")
            BY <1>1, <1>2, <2>3, <4>2, RecoverLine DEF RecoverBody
          <5>2. op = "stop" => machine' = machine
            BY <1>1, <1>5, <5>1, RecoverLine DEF Succeeds
          <5>3. QED
            BY <1>1, <5>1, <5>2, RecoverLine DEF Frame, Loaded, Services
        <4>3. QED
          BY <4>1, <4>2
      <3>2. Basic'
        <4>1. RunsEnabled(machine)
          BY <1>2, <2>3 DEF Basic, Lost
        <4>2. op = "disable" => ~Loaded(machine, s)
          <5>1. op = "disable" => line > 1 /\ s = "legacy"
            BY <1>1, RecoverLine
          <5>2. QED
            BY <1>2, <2>3, <5>1 DEF RecoverBody
        <4>3. op # "flag"
          BY <1>1, RecoverLine
        <4>4. RunsEnabled(machine')
          BY <4>1, <4>2, <4>3, EnabledKept
        <4>5. QED
          BY <1>4, <4>4
      <3>3. ASSUME ~Loaded(found, "legacy")
            PROVE  /\ line' > 3 => machine'.legacy = FALSE
                   /\ line' > 4 /\ (line' <= 6 \/ ~Loaded(found, "new")) => ~Loaded(machine', "new")
                   /\ line' > 4 /\ Loaded(machine', "new") =>
                          machine'.process["new"] = StartedFrom(found, "new")
                   /\ line' > 8 /\ Loaded(found, "new") => Loaded(machine', "new")
        <4>1. CASE line \in {1, 2}
          BY <2>1, <4>1
        <4>2. CASE line = 3 /\ op = "uncopy"
          <5>1. ~Loaded(machine, "legacy")
            BY <1>2, <2>3, <4>2 DEF RecoverBody
          <5>2. QED
            BY <1>5, <2>1, <4>2, <5>1 DEF Succeeds
        <4>3. CASE line = 4 /\ op = "port"
          <5>1. machine' = machine /\ Running(machine) = {}
            BY <1>5, <4>3 DEF Succeeds
          <5>2. ~Loaded(machine, "new")
            BY <5>1 DEF Running, Services
          <5>3. machine.legacy = FALSE
            BY <1>2, <2>3, <3>3, <4>3 DEF RecoverBody
          <5>4. ~(line' > 8)
            BY <2>1, <4>3
          <5>5. QED
            BY <5>1, <5>2, <5>3, <5>4
        <4>4. CASE Loaded(found, "new") /\ line \in 5 .. 8 /\ op \in {"enable", "load", "kickstart", "ready"}
          <5>1. machine.legacy = FALSE
            BY <1>2, <2>3, <3>3, <4>4 DEF RecoverBody
          <5>2. machine'.legacy = FALSE
            BY <1>1, <4>4, <5>1 DEF Frame
          <5>3. Loaded(machine, "new") => machine.process["new"] = StartedFrom(found, "new")
            BY <1>2, <2>3, <3>3, <4>4 DEF RecoverBody
          <5>4. line \in {5, 6} => ~Loaded(machine, "new")
            BY <1>2, <2>3, <3>3, <4>4 DEF RecoverBody
          <5>5. /\ StartedFrom(machine, "new") = StartedFrom(found, "new")
                /\ StartedFrom(machine', "new") = StartedFrom(found, "new")
            BY <1>1, <1>2, <1>3 DEF RecoverBody, Inside, StartedFrom
          <5>6. Starts("new") /\ Awaited("new") /\ s = "new"
            BY <1>1, <2>3, <4>4, RecoverLine DEF Starts, Awaited
          <5>7. Loaded(machine', "new") => machine'.process["new"] = StartedFrom(found, "new")
            <6>1. CASE machine'.process = machine.process
              BY <5>3, <6>1 DEF Loaded
            <6>2. CASE op = "load" /\ machine'.process # machine.process
              <7>1. machine'.process["new"] = StartedFrom(machine, "new")
                BY <1>5, <5>6, <6>2 DEF Succeeds
              <7>2. QED
                BY <5>5, <7>1
            <6>3. CASE op = "kickstart" /\ machine'.process # machine.process
              <7>1. Loaded(machine, "new")
                BY <1>5, <5>6, <6>3 DEF Succeeds
              <7>2. machine.process["new"] = StartedFrom(machine, "new")
                BY <5>3, <5>5, <7>1
              <7>3. QED
                BY <1>5, <5>5, <5>6, <6>3, <7>2, RestartedAsWritten
            <6>4. QED
              BY <1>1, <4>4, <6>1, <6>2, <6>3 DEF Frame
          <5>8. line' <= 6 => ~Loaded(machine', "new")
            <6>1. line' <= 6 => line = 5 /\ op = "enable"
              BY <1>1, <2>1, <3>3, <4>4, RecoverLine
            <6>2. QED
              BY <1>1, <5>4, <6>1 DEF Frame, Loaded
          <5>9. line' > 8 => Loaded(machine', "new")
            <6>1. line' > 8 => op = "ready"
              BY <1>1, <2>1, <3>3, <4>4, RecoverLine
            <6>2. QED
              BY <1>5, <5>6, <6>1 DEF Succeeds, Loaded
          <5>10. QED
            BY <4>4, <5>2, <5>7, <5>8, <5>9
        <4>5. \/ line \in {1, 2}
              \/ line = 3 /\ op = "uncopy"
              \/ line = 4 /\ op = "port"
              \/ Loaded(found, "new") /\ line \in 5 .. 8 /\ op \in {"enable", "load", "kickstart", "ready"}
          BY <1>1, <3>3, RecoverLine
        <4>6. QED
          BY <4>1, <4>2, <4>3, <4>4, <4>5
      <3>4. RecoverBody'
        BY <1>1, <1>3, <3>1, <3>3 DEF RecoverBody
      <3>5. QED
        BY <2>1, <3>2, <3>4, Within
    <2>4. QED
      BY <2>1, <2>2, <2>3
  <1>6. CASE Fails(op)
    <2>1. GoOn(FALSE)
      BY <1>6 DEF Fails, Tolerated
    <2>2. script' = "recover" /\ ~sound'
      BY <2>1, WentOn
    <2>3. Basic'
      BY <1>4, <2>2 DEF Lost
    <2>4. RecoverBody'
      BY <1>3, <2>2 DEF RecoverBody
    <2>5. QED
      BY <2>2, <2>3, <2>4, Within
  <1>7. QED
    BY <1>5, <1>6 DEF Acts

-----------------------------------------------------------------------------
(* The removal. *)

\* The legacy service is the one that runs, now and at the next login.
LEMMA RunsParts ==
    Runs("legacy") <=>
        /\ Loaded(machine, "legacy") /\ ~Loaded(machine, "new")
        /\ machine.process["legacy"] = <<"legacy">>
        /\ "legacy" \notin machine.disabled /\ machine.legacy
        /\ "new" \in machine.disabled \/ machine.file["plist"] = None
  <1>1. Running(machine) = {"legacy"} <=> Loaded(machine, "legacy") /\ ~Loaded(machine, "new")
    BY DEF Running, Services
  <1>2. AtLogin(machine) = {"legacy"} <=>
            /\ "legacy" \notin machine.disabled /\ machine.legacy
            /\ "new" \in machine.disabled \/ machine.file["plist"] = None
    <2>1. "legacy" \in AtLogin(machine) <=> "legacy" \notin machine.disabled /\ machine.legacy
      BY DEF AtLogin, HasPlist, Services
    <2>2. "new" \notin AtLogin(machine) <=>
              ("new" \in machine.disabled \/ machine.file["plist"] = None)
      BY DEF AtLogin, HasPlist, Services
    <2>3. AtLogin(machine) = {"legacy"} <=>
              "legacy" \in AtLogin(machine) /\ "new" \notin AtLogin(machine)
      <3>1. AtLogin(machine) \subseteq {"new", "legacy"}
        BY DEF AtLogin, Services
      <3>2. QED
        BY <3>1
    <2>4. QED
      BY <2>1, <2>2, <2>3
  <1>3. StartedFrom(machine, "legacy") = <<"legacy">>
    BY DEF StartedFrom
  <1>4. QED
    BY <1>1, <1>2, <1>3 DEF Runs, Serves

LEMMA NextRunsParts ==
    (Runs("legacy"))' <=>
        /\ Loaded(machine', "legacy") /\ ~Loaded(machine', "new")
        /\ machine'.process["legacy"] = <<"legacy">>
        /\ "legacy" \notin machine'.disabled /\ machine'.legacy
        /\ "new" \in machine'.disabled \/ machine'.file["plist"] = None
  <1> DEFINE P == Runs("legacy") <=>
                      /\ Loaded(machine, "legacy") /\ ~Loaded(machine, "new")
                      /\ machine.process["legacy"] = <<"legacy">>
                      /\ "legacy" \notin machine.disabled /\ machine.legacy
                      /\ "new" \in machine.disabled \/ machine.file["plist"] = None
  <1>1. P
    BY RunsParts
  <1>2. P'
    BY <1>1, PTL
  <1>3. QED
    BY <1>2

LEMMA UninstallLine ==
    ASSUME script = "uninstall", NEW op, NEW s, Performs(op, s)
    PROVE  \/ line = 1 /\ op = "stop" /\ s = "new"
           \/ line = 2 /\ op = "remove" /\ s = "tools"
           \/ line = 3 /\ op = "remove" /\ s = "base"
  <1>1. line \in 1 .. Len(Uninstall) /\ Uninstall[line] = <<op, s>>
    BY ScriptTexts DEF Performs
  <1>2. line \in 1 .. 3
    BY <1>1, ShortTexts
  <1>3. QED
    BY <1>1, <1>2, ShortTexts

LEMMA UninstallKeepsAtom ==
    ASSUME AtomInv, script = "uninstall", NEW op, NEW s, Acts(op, s)
    PROVE  AtomInv'
  <1>1. Performs(op, s) /\ UNCHANGED <<found, command, given>> /\ Frame(op, s)
    BY DEF Acts
  <1>2. Basic /\ UninstallBody /\ RunsEnabled(machine)
    BY DEF AtomInv, Basic, Lost
  <1>3. Basic'
    <2>1. op \in {"stop", "remove"}
      BY <1>1, UninstallLine
    <2>2. RunsEnabled(machine')
      BY <1>2, <2>1, EnabledKept
    <2>3. QED
      BY <1>2, <2>1, <2>2, BasicKept
  <1>4. CASE GoOn(TRUE) /\ Succeeds(op, s)
    <2>1. line' = line + 1 /\ script' = "uninstall"
      BY <1>4, WentOn
    <2>2. ~Loaded(machine', "new")
      <3>1. CASE line = 1
        BY <1>1, <1>4, <3>1, UninstallLine DEF Succeeds
      <3>2. CASE line # 1
        BY <1>1, <1>2, <3>2, UninstallLine DEF UninstallBody, Frame, Loaded
      <3>3. QED
        BY <3>1, <3>2
    <2>3. line' > 2 => machine'.file["plist"] = None
      <3>1. CASE line = 1
        BY <2>1, <3>1
      <3>2. CASE line = 2
        BY <1>1, <1>4, <3>2, UninstallLine DEF Succeeds
      <3>3. CASE line = 3
        <4>1. machine.file["plist"] = None
          BY <1>2, <3>3 DEF UninstallBody
        <4>2. QED
          BY <1>1, <1>4, <3>3, <4>1, UninstallLine DEF Succeeds
      <3>4. QED
        BY <1>1, <3>1, <3>2, <3>3, UninstallLine
    <2>4. ASSUME Runs("legacy") PROVE (Runs("legacy"))'
      <3>1. machine'.file["plist"] \in {None, machine.file["plist"]}
        <4>1. CASE op = "stop"
          BY <1>1, <4>1 DEF Frame
        <4>2. CASE op = "remove"
          BY <1>4, <4>2 DEF Succeeds
        <4>3. QED
          BY <1>1, <4>1, <4>2, UninstallLine
      <3>2. machine'.process["legacy"] = machine.process["legacy"]
        BY <1>1, UninstallLine DEF Frame, Services
      <3>3. machine'.disabled = machine.disabled /\ machine'.legacy = machine.legacy
        BY <1>1, UninstallLine DEF Frame
      <3>4. Loaded(machine', "legacy") <=> Loaded(machine, "legacy")
        BY <3>2 DEF Loaded
      <3>5. QED
        BY <2>2, <2>4, <3>1, <3>2, <3>3, <3>4, RunsParts, NextRunsParts
    <2>5. ~(line' = 1) /\ command' \in {"uninstall", "purge"}
      BY <1>1, <1>2, <2>1, UninstallLine DEF UninstallBody
    <2>6. Configured(found)' => (Runs("legacy"))'
      <3>1. Configured(found)' = Configured(found)
        BY <1>1 DEF Configured
      <3>2. QED
        BY <1>2, <2>4, <3>1 DEF UninstallBody
    <2>7. UninstallBody'
      BY <2>2, <2>3, <2>5, <2>6 DEF UninstallBody
    <2>8. QED
      BY <1>3, <2>1, <2>7, Within
  <1>5. CASE Fails(op) /\ Leaves(op, s)
    <2>1. GiveUp(op)
      BY <1>5 DEF Fails, Tolerated
    <2>2. CASE op = "stop"
      <3>1. End("unchanged")
        BY <2>1, <2>2 DEF GiveUp
      <3>2. machine' = machine /\ machine = found
        <4>1. line = 1 /\ s = "new"
          BY <1>1, <2>2, UninstallLine
        <4>2. Loaded(machine, "new") /\ machine' = machine
          BY <1>5, <2>2, <4>1 DEF Leaves
        <4>3. QED
          BY <1>2, <4>1, <4>2 DEF UninstallBody
      <3>3. machine' = found' /\ script' = "none" /\ outcome' = "unchanged"
        BY <1>1, <3>1, <3>2 DEF End
      <3>4. QED
        BY <1>3, <3>3, Without
    <2>3. CASE op # "stop"
      <3>1. End("interrupted")
        BY <2>1, <2>3 DEF GiveUp
      <3>2. QED
        BY <1>3, <3>1, Without DEF End
    <2>4. QED
      BY <2>2, <2>3
  <1>6. QED
    BY <1>4, <1>5 DEF Acts

-----------------------------------------------------------------------------
(* The installation. *)

\* The lines that let the links, the new plist and the processes be.
QuietInstall ==
    {<<"enable", "new">>, <<"ready", "new">>, <<"file", "ctl">>, <<"file", "alias">>,
     <<"file", "uninstall">>, <<"file", "port">>, <<"file", "cors">>, <<"disable", "legacy">>,
     <<"archive", "legacy">>, <<"file", "label">>, <<"file", "archive">>}

InstallSays(op, s) ==
    \/ line <= Kept /\ op = "link" /\ s = "previous"
    \/ line = Kept + 1 /\ op = "link" /\ s = "current"
    \/ line = Kept + 2 /\ op = "stop" /\ s = "new"
    \/ line = Kept + 3 /\ op = "stop" /\ s = "legacy"
    \/ line = Kept + 4 /\ op = "port"
    \/ line = Kept + 5 /\ op = "file" /\ s = "plist"
    \/ line = Kept + 6 /\ op = "enable" /\ s = "new"
    \/ line = Kept + 7 /\ op = "load" /\ s = "new"
    \/ line = Kept + 8 /\ op = "kickstart" /\ s = "new"
    \/ line > Kept + 8 /\ <<op, s>> \in QuietInstall

LEMMA InstallLine ==
    ASSUME script = "install", NEW op, NEW s, Performs(op, s)
    PROVE  /\ Kept \in {0, 1} /\ line \in Nat /\ line > 0
           /\ InstallSays(op, s)
  <1>1. line \in 1 .. Len(Install) /\ Install[line] = <<op, s>>
    BY ScriptTexts DEF Performs
  <1>2. PICK k \in {0, 1} : InstallIs(k) /\ Kept = k
    BY InstallText
  <1>3. line \in 1 .. k + 18
    <2>1. Len(Install) = k + (IF found.legacy THEN 18 ELSE 14)
      BY <1>2 DEF InstallIs
    <2>2. PICK n : n = k + (IF found.legacy THEN 18 ELSE 14)
      OBVIOUS
    <2>3. n \in Nat /\ n <= k + 18
      BY <2>2
    <2>4. line \in 1 .. n
      BY <1>1, <2>1, <2>2
    <2>5. QED
      BY <2>3, <2>4
  <1>4. CASE line <= k
    BY <1>1, <1>2, <1>3, <1>4 DEF InstallIs, InstallSays
  <1>5. CASE line \in k + 1 .. k + 5
    <2>1. \/ line = k + 1 /\ <<op, s>> = <<"link", "current">>
          \/ line = k + 2 /\ <<op, s>> = <<"stop", "new">>
          \/ line = k + 3 /\ <<op, s>> = <<"stop", "legacy">>
          \/ line = k + 4 /\ <<op, s>> = <<"port", "any">>
          \/ line = k + 5 /\ <<op, s>> = <<"file", "plist">>
      <3>1. \/ line = k + 1 \/ line = k + 2 \/ line = k + 3 \/ line = k + 4 \/ line = k + 5
        BY <1>2, <1>3, <1>5
      <3>2. QED
        BY <1>1, <1>2, <3>1 DEF InstallIs
    <2>2. QED
      BY <1>2, <1>3, <2>1 DEF InstallSays
  <1>6. CASE line \in k + 6 .. k + 9
    <2>1. PICK i \in 1 .. 4 : line = k + 5 + i
      <3>1. line - (k + 5) \in 1 .. 4 /\ line = k + 5 + (line - (k + 5))
        BY <1>2, <1>3, <1>6
      <3>2. QED
        BY <3>1
    <2>2. <<op, s>> = Start("new")[i]
      BY <1>1, <1>2, <2>1 DEF InstallIs
    <2>3. /\ i = 1 => op = "enable" /\ s = "new"
          /\ i = 2 => op = "load" /\ s = "new"
          /\ i = 3 => op = "kickstart" /\ s = "new"
          /\ i = 4 => op = "ready" /\ s = "new"
      BY <2>2, StartText DEF Services
    <2>4. QED
      BY <1>2, <1>3, <2>1, <2>3 DEF QuietInstall, InstallSays
  <1>7. CASE line \in k + 10 .. k + 14
    <2>1. \/ line = k + 10 /\ <<op, s>> = <<"file", "ctl">>
          \/ line = k + 11 /\ <<op, s>> = <<"file", "alias">>
          \/ line = k + 12 /\ <<op, s>> = <<"file", "uninstall">>
          \/ line = k + 13 /\ <<op, s>> = <<"file", "port">>
          \/ line = k + 14 /\ <<op, s>> = <<"file", "cors">>
      <3>1. \/ line = k + 10 \/ line = k + 11 \/ line = k + 12 \/ line = k + 13 \/ line = k + 14
        BY <1>2, <1>3, <1>7
      <3>2. QED
        BY <1>1, <1>2, <3>1 DEF InstallIs
    <2>2. QED
      BY <1>2, <1>3, <2>1 DEF QuietInstall, InstallSays
  <1>8. CASE line \in k + 15 .. k + 18
    <2>1. found.legacy
      BY <1>1, <1>2, <1>8 DEF InstallIs
    <2>2. QED
      <3>1. \/ line = k + 15 \/ line = k + 16 \/ line = k + 17 \/ line = k + 18
        BY <1>2, <1>3, <1>8
      <3>2. \/ line = k + 15 /\ <<op, s>> = <<"disable", "legacy">>
            \/ line = k + 16 /\ <<op, s>> = <<"archive", "legacy">>
            \/ line = k + 17 /\ <<op, s>> = <<"file", "label">>
            \/ line = k + 18 /\ <<op, s>> = <<"file", "archive">>
        BY <1>1, <1>2, <2>1, <3>1 DEF InstallIs
      <3>3. QED
        BY <1>2, <1>3, <3>2 DEF QuietInstall, InstallSays
  <1>9. QED
    BY <1>2, <1>3, <1>4, <1>5, <1>6, <1>7, <1>8

LEMMA InstallBasic ==
    ASSUME AtomInv, script = "install", NEW op, NEW s, Acts(op, s)
    PROVE  Basic' /\ InstallOf' /\ Aside' /\ Kept' = Kept /\ NewPlist' = NewPlist
  <1>1. Performs(op, s) /\ UNCHANGED <<found, command, given>> /\ Frame(op, s)
    BY DEF Acts
  <1>2. Basic /\ InstallBody /\ RunsEnabled(machine)
    BY DEF AtomInv, Basic, Lost
  <1>3. /\ op \in {"link", "stop", "port", "file", "enable", "load", "kickstart", "ready", "disable",
                   "archive"}
        /\ op = "link" => s \in {"current", "previous"}
        /\ op \in {"load", "kickstart", "enable"} => s = "new"
        /\ op = "disable" => s = "legacy" /\ line > Kept + 8
    BY <1>1, InstallLine DEF QuietInstall, InstallSays
  <1>4. op = "disable" => ~Loaded(machine, s)
    <2>1. op = "disable" => line > Kept + 3 /\ s = "legacy"
      <3>1. Kept \in {0, 1} /\ line \in Nat
        BY <1>1, InstallLine
      <3>2. QED
        BY <1>3, <3>1
    <2>2. QED
      BY <1>2, <2>1 DEF InstallBody
  <1>5. RunsEnabled(machine')
    BY <1>2, <1>3, <1>4, EnabledKept
  <1>6. op = "link" => s \in Links /\ GoalLink(s) \in Targets
    <2>1. found.link["current"] \in Targets /\ given.release \in Targets
      BY <1>2 DEF Basic, Proper, Links, InstallBody, InstallOf
    <2>2. QED
      BY <1>3, <2>1 DEF GoalLink, Links
  <1>7. GoalFile("cors") \in Origins
    BY <1>2 DEF GoalFile, InstalledFile, InstallBody, InstallOf
  <1>8. Basic'
    BY <1>2, <1>5, <1>6, <1>7, BasicKept
  <1>9. InstallOf'
    BY <1>1, <1>2 DEF InstallBody, InstallOf
  <1>10. Kept' = Kept /\ NewPlist' = NewPlist
    BY <1>1 DEF Kept, NewPlist
  <1>11. Aside'
    <2>1. Loaded(machine', "legacy") => Loaded(machine, "legacy")
      <3>1. CASE op = "stop" /\ s = "legacy"
        <4>1. CASE Succeeds(op, s)
          BY <3>1, <4>1 DEF Succeeds
        <4>2. CASE Leaves(op, s)
          BY <3>1, <4>2 DEF Leaves
        <4>3. QED
          BY <4>1, <4>2 DEF Acts
      <3>2. CASE ~(op = "stop" /\ s = "legacy")
        BY <1>1, <1>3, <3>2 DEF Frame, Loaded, Services
      <3>3. QED
        BY <3>1, <3>2
    <2>2. "new" \in machine'.disabled => "new" \in machine.disabled
      <3>1. CASE op = "enable"
        <4>1. CASE Succeeds(op, s)
          BY <1>3, <3>1, <4>1 DEF Succeeds
        <4>2. CASE Leaves(op, s)
          BY <3>1, <4>2 DEF Leaves
        <4>3. QED
          BY <4>1, <4>2 DEF Acts
      <3>2. CASE op # "enable"
        BY <1>1, <1>3, <3>2 DEF Frame, Services
      <3>3. QED
        BY <3>1, <3>2
    <2>3. QED
      BY <1>1, <1>2, <2>1, <2>2 DEF InstallBody, Aside
  <1>12. QED
    BY <1>8, <1>9, <1>10, <1>11

LEMMA UndoInstallBegins ==
    ASSUME Basic', InstallOf', Aside', Enter("undoInstall")
    PROVE  AtomInv'
  <1>1. script' = "undoInstall" /\ line' = 1
    BY DEF Enter
  <1>2. UndoBody'
    BY <1>1 DEF UndoBody, UndoLinks, UndoFiles, UndoServices, UndoFlags
  <1>3. QED
    BY <1>1, <1>2, Within

LEMMA InstallKeepsAtom ==
    ASSUME AtomInv, script = "install", NEW op, NEW s, Acts(op, s)
    PROVE  AtomInv'
  <1>1. Performs(op, s) /\ UNCHANGED <<found, command, given>> /\ Frame(op, s)
    BY DEF Acts
  <1>2. Basic' /\ InstallOf' /\ Aside' /\ Kept' = Kept /\ NewPlist' = NewPlist
    BY InstallBasic
  <1>3. InstallBody
    BY DEF AtomInv
  <1>4. Kept \in {0, 1} /\ line \in Nat /\ line > 0 /\ InstallSays(op, s)
    BY <1>1, InstallLine
  <1>5. CASE GoOn(TRUE) /\ Succeeds(op, s)
    <2>1. line' = line + 1 /\ script' = "install"
      BY <1>5, WentOn
    <2>2. machine'.link["previous"] \in {found'.link["previous"], found'.link["current"]}
      <3>1. CASE op = "link" /\ s = "previous"
        BY <1>1, <1>5, <3>1 DEF Succeeds, GoalLink
      <3>2. CASE ~(op = "link" /\ s = "previous")
        <4>1. op # "remove"
          BY <1>4 DEF InstallSays, QuietInstall
        <4>2. machine'.link["previous"] = machine.link["previous"]
          BY <1>1, <3>2, <4>1 DEF Frame, Links
        <4>3. QED
          BY <1>1, <1>3, <4>2 DEF InstallBody
      <3>3. QED
        BY <3>1, <3>2
    <2>3. line' > Kept + 1 => machine'.link["current"] = given.release
      <3>1. CASE line = Kept + 1
        <4>1. op = "link" /\ s = "current"
          BY <1>4, <3>1 DEF InstallSays
        <4>2. GoalLink("current") = given.release
          BY DEF GoalLink
        <4>3. QED
          BY <1>5, <4>1, <4>2 DEF Succeeds
      <3>2. CASE line <= Kept
        BY <1>4, <2>1, <3>2
      <3>3. CASE line > Kept + 1
        <4>1. op \notin {"link", "remove"}
          BY <1>4, <3>3 DEF InstallSays, QuietInstall
        <4>2. machine'.link = machine.link
          BY <1>1, <4>1 DEF Frame
        <4>3. QED
          BY <1>3, <3>3, <4>2 DEF InstallBody
      <3>4. QED
        BY <1>4, <3>1, <3>2, <3>3
    <2>4. line' \in Kept + 3 .. Kept + 7 => ~Loaded(machine', "new")
      <3>1. CASE line = Kept + 2
        <4>1. op = "stop" /\ s = "new"
          BY <1>4, <3>1 DEF InstallSays
        <4>2. QED
          BY <1>5, <4>1 DEF Succeeds
      <3>2. CASE line \in Kept + 3 .. Kept + 6
        <4>1. op \notin {"load", "kickstart"} /\ (op = "stop" => s = "legacy")
          BY <1>4, <3>2 DEF InstallSays
        <4>2. ~Loaded(machine, "new")
          BY <1>3, <1>4, <3>2 DEF InstallBody
        <4>3. QED
          BY <1>1, <4>1, <4>2 DEF Frame, Loaded, Services
      <3>3. CASE line \notin Kept + 2 .. Kept + 6
        BY <1>4, <2>1, <3>3
      <3>4. QED
        BY <1>4, <3>1, <3>2, <3>3
    <2>5. line' > Kept + 3 => ~Loaded(machine', "legacy")
      <3>1. CASE line = Kept + 3
        <4>1. op = "stop" /\ s = "legacy"
          BY <1>4, <3>1 DEF InstallSays
        <4>2. QED
          BY <1>5, <4>1 DEF Succeeds
      <3>2. CASE line > Kept + 3
        <4>1. op # "stop" /\ (op \in {"load", "kickstart"} => s = "new")
          BY <1>4, <3>2 DEF InstallSays, QuietInstall
        <4>2. ~Loaded(machine, "legacy")
          BY <1>3, <1>4, <3>2 DEF InstallBody
        <4>3. QED
          BY <1>1, <4>1, <4>2 DEF Frame, Loaded, Services
      <3>3. CASE line < Kept + 3
        BY <1>4, <2>1, <3>3
      <3>4. QED
        BY <1>4, <3>1, <3>2, <3>3
    <2>6. line' > Kept + 5 => machine'.file["plist"] = NewPlist
      <3>1. CASE line = Kept + 5
        <4>1. op = "file" /\ s = "plist"
          BY <1>4, <3>1 DEF InstallSays
        <4>2. GoalFile("plist") = NewPlist
          BY DEF GoalFile, InstalledFile, NewPlist
        <4>3. QED
          BY <1>5, <4>1, <4>2 DEF Succeeds
      <3>2. CASE line > Kept + 5
        <4>1. op # "remove" /\ (op = "file" => s # "plist")
          BY <1>4, <3>2 DEF InstallSays, QuietInstall
        <4>2. machine'.file["plist"] = machine.file["plist"]
          BY <1>1, <4>1 DEF Frame, Files, Tools
        <4>3. QED
          BY <1>3, <3>2, <4>2 DEF InstallBody
      <3>3. CASE line < Kept + 5
        BY <1>4, <2>1, <3>3
      <3>4. QED
        BY <1>4, <3>1, <3>2, <3>3
    <2>7. line' > Kept + 7 => machine'.process["new"] = StartedFrom(machine', "new")
      <3>1. CASE line \in {Kept + 7, Kept + 8}
        <4>1. \/ line = Kept + 7 /\ op = "load" /\ s = "new"
              \/ line = Kept + 8 /\ op = "kickstart" /\ s = "new"
          BY <1>4, <3>1 DEF InstallSays
        <4>2. line = Kept + 7 => ~Loaded(machine, "new")
          BY <1>3, <1>4 DEF InstallBody
        <4>3. line = Kept + 8 => machine.process["new"] = StartedFrom(machine, "new")
          BY <1>3, <1>4 DEF InstallBody
        <4>4. Starts("new")
          BY DEF Starts
        <4>5. QED
          BY <1>5, <4>1, <4>2, <4>3, <4>4, RestartedAsWritten
      <3>2. CASE line > Kept + 8
        <4>1. /\ op \notin {"link", "remove", "stop", "load", "kickstart"}
              /\ op = "file" => s # "plist"
          BY <1>4, <3>2 DEF InstallSays, QuietInstall
        <4>2. /\ machine'.link = machine.link /\ machine'.process = machine.process
              /\ machine'.file["plist"] = machine.file["plist"]
          BY <1>1, <4>1 DEF Frame, Files, Tools
        <4>3. machine.process["new"] = StartedFrom(machine, "new")
          BY <1>3, <1>4, <3>2 DEF InstallBody
        <4>4. QED
          BY <4>2, <4>3 DEF StartedFrom
      <3>3. CASE line < Kept + 7
        BY <1>4, <2>1, <3>3
      <3>4. QED
        BY <1>4, <3>1, <3>2, <3>3
    <2>8. InstallBody'
      BY <1>1, <1>2, <2>2, <2>3, <2>4, <2>5, <2>6, <2>7 DEF InstallBody
    <2>9. QED
      BY <1>2, <2>1, <2>8, Within
  <1>6. CASE Fails(op)
    <2>1. Enter("undoInstall")
      BY <1>6, FailsIs
    <2>2. QED
      BY <1>2, <2>1, UndoInstallBegins
  <1>7. QED
    BY <1>5, <1>6 DEF Acts

-----------------------------------------------------------------------------
(* The undo of an installation. *)

UndoSays(op, s) ==
    \/ line = 1 /\ op = "stop" /\ s = "new"
    \/ line = 2 /\ op = "port"
    \/ line = 3 /\ op = "link" /\ s = "current"
    \/ line = 4 /\ op = "link" /\ s = "previous"
    \/ line = 5 /\ op = "file" /\ s = "plist"
    \/ line = 6 /\ op = "file" /\ s = "ctl"
    \/ line = 7 /\ op = "file" /\ s = "alias"
    \/ line = 8 /\ op = "file" /\ s = "uninstall"
    \/ line = 9 /\ op = "file" /\ s = "port"
    \/ line = 10 /\ op = "file" /\ s = "cors"
    \/ line = 11 /\ op = "file" /\ s = "label"
    \/ line = 12 /\ op = "file" /\ s = "archive"
    \/ line = 13 /\ op = "unarchive"
    \/ line = 14 /\ op = "enable" /\ s = "new"
    \/ line = 15 /\ op = "load" /\ s = "new"
    \/ line = 16 /\ op = "kickstart" /\ s = "new"
    \/ line = 17 /\ op = "ready" /\ s = "new"
    \/ line = 18 /\ op = "enable" /\ s = "legacy"
    \/ line = 19 /\ op = "load" /\ s = "legacy"
    \/ line = 20 /\ op = "kickstart" /\ s = "legacy"
    \/ line = 21 /\ op = "ready" /\ s = "legacy"
    \/ line = 22 /\ op = "flag" /\ s = "new"
    \/ line = 23 /\ op = "flag" /\ s = "legacy"

LEMMA UndoLine ==
    ASSUME script = "undoInstall", NEW op, NEW s, Performs(op, s)
    PROVE  UndoSays(op, s)
  <1>1. line \in 1 .. 23 /\ UndoInstall[line] = <<op, s>>
    BY ScriptTexts, UndoInstallFull DEF Performs
  <1>2. CASE line \in 1 .. 6
    BY <1>1, <1>2, UndoInstallFull DEF UndoSays
  <1>3. CASE line \in 7 .. 12
    BY <1>1, <1>3, UndoInstallFull DEF UndoSays
  <1>4. CASE line \in 13 .. 18
    BY <1>1, <1>4, UndoInstallFull DEF UndoSays
  <1>5. CASE line \in 19 .. 23
    BY <1>1, <1>5, UndoInstallFull DEF UndoSays
  <1>6. QED
    BY <1>1, <1>2, <1>3, <1>4, <1>5

LEMMA UndoAside ==
    ASSUME Aside, script = "undoInstall", NEW op, NEW s, Acts(op, s)
    PROVE  Aside'
  <1>1. UndoSays(op, s) /\ found' = found /\ Frame(op, s)
    BY UndoLine DEF Acts
  <1>2. Loaded(machine', "legacy") => Loaded(found, "legacy")
    <2>1. CASE machine'.process["legacy"] = machine.process["legacy"]
      BY <2>1 DEF Aside, Loaded
    <2>2. CASE machine'.process["legacy"] # machine.process["legacy"]
      <3>1. op \in {"load", "kickstart"} /\ s = "legacy"
        BY <1>1, <2>2 DEF UndoSays, Frame, Services
      <3>2. machine' # machine
        BY <2>2
      <3>3. Succeeds(op, s)
        BY <3>1, <3>2 DEF Acts, Leaves
      <3>4. Starts("legacy")
        BY <3>1, <3>2, <3>3 DEF Succeeds
      <3>5. "legacy" \in Original
        BY <3>4 DEF Starts
      <3>6. QED
        BY <3>5 DEF Original
    <2>3. QED
      BY <2>1, <2>2
  <1>3. "new" \in machine'.disabled => "new" \in found.disabled
    <2>1. CASE op = "flag" /\ s = "new" /\ Succeeds(op, s)
      BY <2>1 DEF Succeeds, Aside
    <2>2. CASE op = "enable" /\ s = "new" /\ Succeeds(op, s)
      BY <2>2 DEF Succeeds, Aside
    <2>3. CASE Leaves(op, s) /\ op \in {"flag", "enable"}
      BY <2>3 DEF Leaves, Aside
    <2>4. CASE s # "new" \/ op \notin {"flag", "enable"}
      <3>1. op # "disable"
        BY <1>1 DEF UndoSays
      <3>2. ("new" \in machine'.disabled) = ("new" \in machine.disabled)
        BY <1>1, <2>4, <3>1 DEF Frame, Services
      <3>3. QED
        BY <3>2 DEF Aside
    <2>5. QED
      BY <2>1, <2>2, <2>3, <2>4 DEF Acts
  <1>4. QED
    BY <1>1, <1>2, <1>3 DEF Aside

LEMMA UndoBasic ==
    ASSUME AtomInv, script = "undoInstall", NEW op, NEW s, Acts(op, s),
           sound' => sound, sound' => Succeeds(op, s), script' = script
    PROVE  Basic'
  <1>1. UndoSays(op, s)
    BY UndoLine DEF Acts
  <1>2. Basic /\ UndoBody
    BY DEF AtomInv
  <1>3. op = "link" => s \in Links /\ GoalLink(s) \in Targets
    BY <1>1, <1>2 DEF UndoSays, GoalLink, Links, Basic, Proper
  <1>4. GoalFile("cors") \in Origins
    BY <1>2 DEF GoalFile, Basic, Proper
  <1>5. sound' => RunsEnabled(machine')
    <2> SUFFICES ASSUME sound' PROVE RunsEnabled(machine')
      OBVIOUS
    <2>1. RunsEnabled(machine) /\ UndoServices
      BY <1>2 DEF Basic, Lost, UndoBody
    <2>2. ASSUME op = "flag", s \in machine'.disabled PROVE ~Loaded(machine, s)
      <3>1. s \in machine.disabled \/ s \in found.disabled
        BY <2>2 DEF Succeeds
      <3>2. s \in Services /\ line > 21 /\ line \in Nat
        BY <1>1, <2>2 DEF UndoSays, Services
      <3>3. CASE s \in machine.disabled
        BY <2>1, <3>2, <3>3 DEF RunsEnabled
      <3>4. CASE s \in found.disabled
        <4>1. ~Loaded(found, s)
          BY <1>2, <3>2, <3>4 DEF Basic, RunsEnabled
        <4>2. CASE s = "new"
          BY <2>1, <3>2, <4>1, <4>2 DEF UndoServices
        <4>3. CASE s = "legacy"
          BY <1>2, <4>1, <4>3 DEF UndoBody, Aside
        <4>4. QED
          BY <3>2, <4>2, <4>3 DEF Services
      <3>5. QED
        BY <3>1, <3>3, <3>4
    <2>3. op # "disable"
      BY <1>1 DEF UndoSays
    <2>4. QED
      BY <2>1, <2>2, <2>3, EnabledKept
  <1>6. Lost' \/ RunsEnabled(machine')
    BY <1>5 DEF Lost
  <1>7. QED
    BY <1>2, <1>3, <1>4, <1>6, BasicKept

LEMMA UndoPuts ==
    ASSUME script = "undoInstall", NEW op, NEW s, Acts(op, s), Succeeds(op, s),
           UndoLinks, UndoFiles, line' = line + 1
    PROVE  UndoLinks' /\ UndoFiles'
  <1>1. UndoSays(op, s) /\ found' = found /\ Frame(op, s)
    BY UndoLine DEF Acts
  <1>2. line \in 1 .. 23 /\ op # "remove"
    BY <1>1 DEF UndoSays
  <1>3. ASSUME NEW l \in Links, NEW i \in 1 .. 23, (op = "link" /\ s = l) <=> line = i,
               line > i => machine.link[l] = found.link[l]
        PROVE  line' > i => machine'.link[l] = found'.link[l]
    <2>1. GoalLink(l) = found.link[l]
      BY DEF GoalLink
    <2>2. CASE line = i
      BY <1>1, <1>3, <2>1, <2>2 DEF Succeeds
    <2>3. CASE line # i
      BY <1>1, <1>2, <1>3, <2>3 DEF Frame
    <2>4. QED
      BY <2>2, <2>3
  <1>4. ASSUME NEW f \in Files, NEW i \in 1 .. 23, (op = "file" /\ s = f) <=> line = i,
               line > i => machine.file[f] = found.file[f]
        PROVE  line' > i => machine'.file[f] = found'.file[f]
    <2>1. GoalFile(f) = found.file[f]
      BY DEF GoalFile
    <2>2. CASE line = i
      BY <1>1, <1>4, <2>1, <2>2 DEF Succeeds
    <2>3. CASE line # i
      BY <1>1, <1>2, <1>4, <2>3 DEF Frame
    <2>4. QED
      BY <2>2, <2>3
  <1>5. /\ (op = "link" /\ s = "current") <=> line = 3
        /\ (op = "link" /\ s = "previous") <=> line = 4
    BY <1>1 DEF UndoSays
  <1>6. /\ (op = "file" /\ s = "plist") <=> line = 5
        /\ (op = "file" /\ s = "ctl") <=> line = 6
        /\ (op = "file" /\ s = "alias") <=> line = 7
        /\ (op = "file" /\ s = "uninstall") <=> line = 8
        /\ (op = "file" /\ s = "port") <=> line = 9
        /\ (op = "file" /\ s = "cors") <=> line = 10
        /\ (op = "file" /\ s = "label") <=> line = 11
        /\ (op = "file" /\ s = "archive") <=> line = 12
    BY <1>1 DEF UndoSays
  <1>7. UndoLinks'
    BY <1>3, <1>5 DEF UndoLinks, Links
  <1>8. /\ line' > 5 => machine'.file["plist"] = found'.file["plist"]
        /\ line' > 6 => machine'.file["ctl"] = found'.file["ctl"]
        /\ line' > 7 => machine'.file["alias"] = found'.file["alias"]
        /\ line' > 8 => machine'.file["uninstall"] = found'.file["uninstall"]
    BY <1>4, <1>6 DEF UndoFiles, Files, Tools
  <1>9. /\ line' > 9 => machine'.file["port"] = found'.file["port"]
        /\ line' > 10 => machine'.file["cors"] = found'.file["cors"]
        /\ line' > 11 => machine'.file["label"] = found'.file["label"]
        /\ line' > 12 => machine'.file["archive"] = found'.file["archive"]
    BY <1>4, <1>6 DEF UndoFiles, Files, Tools
  <1>10. UndoFiles'
    BY <1>8, <1>9 DEF UndoFiles
  <1>11. QED
    BY <1>7, <1>10

LEMMA UndoServes ==
    ASSUME script = "undoInstall", NEW op, NEW s, Acts(op, s), Succeeds(op, s), sound,
           UndoLinks, UndoFiles, UndoServices, line' = line + 1
    PROVE  UndoServices'
  <1>1. UndoSays(op, s) /\ found' = found /\ Frame(op, s)
    BY UndoLine DEF Acts
  <1>2. line \in 1 .. 23
    BY <1>1 DEF UndoSays
  <1>3. s # "new" \/ op \notin {"stop", "load", "kickstart"} =>
            machine'.process["new"] = machine.process["new"]
    BY <1>1 DEF Frame, Services
  <1>4. line' > 1 /\ (line' <= 15 \/ ~Loaded(found, "new")) => ~Loaded(machine', "new")
    <2>1. CASE line = 1
      BY <1>1, <2>1 DEF UndoSays, Succeeds
    <2>2. CASE line \in {15, 16} /\ ~Loaded(found, "new")
      <3>1. ~Loaded(machine, "new")
        BY <2>2 DEF UndoServices
      <3>2. s = "new" /\ op \in {"load", "kickstart"}
        BY <1>1, <2>2 DEF UndoSays
      <3>3. ~Starts("new")
        BY <2>2 DEF Starts, Original
      <3>4. machine' = machine
        BY <3>1, <3>2, <3>3 DEF Succeeds
      <3>5. QED
        BY <3>1, <3>4
    <2>3. CASE line \notin {1, 15, 16}
      <3>1. machine'.process["new"] = machine.process["new"]
        BY <1>1, <1>3, <2>3 DEF UndoSays
      <3>2. QED
        BY <1>2, <2>3, <3>1 DEF UndoServices, Loaded
    <2>4. QED
      BY <1>2, <2>1, <2>2, <2>3
  <1>5. line' > 13 /\ Loaded(machine', "new") =>
            machine'.process["new"] = StartedFrom(found, "new")
    <2>1. CASE line <= 14
      BY <1>2, <1>4, <2>1
    <2>2. CASE line > 14
      <3>1. StartedFrom(machine, "new") = StartedFrom(found, "new")
        BY <1>2, <2>2 DEF StartedFrom, UndoLinks, UndoFiles
      <3>2. CASE line = 15
        <4>1. op = "load" /\ s = "new" /\ ~Loaded(machine, "new")
          BY <1>1, <3>2 DEF UndoSays, UndoServices
        <4>2. machine' = machine \/ machine'.process["new"] = StartedFrom(machine, "new")
          BY <4>1 DEF Succeeds
        <4>3. QED
          BY <3>1, <4>1, <4>2
      <3>3. CASE line = 16
        <4>1. op = "kickstart" /\ s = "new"
          BY <1>1, <3>3 DEF UndoSays
        <4>2. Loaded(machine, "new") => machine.process["new"] = StartedFrom(machine, "new")
          BY <3>1, <3>3 DEF UndoServices
        <4>3. CASE machine' = machine
          BY <3>1, <4>2, <4>3
        <4>4. CASE machine' # machine
          <5>1. /\ Loaded(machine, "new")
                /\ machine'.process["new"] = <<machine.process["new"][1], machine.link["current"]>>
            BY <4>1, <4>4 DEF Succeeds
          <5>2. machine.process["new"] = <<machine.file["plist"], machine.link["current"]>>
            BY <4>2, <5>1 DEF StartedFrom
          <5>3. machine'.process["new"] = <<machine.file["plist"], machine.link["current"]>>
            BY <5>1, <5>2
          <5>4. QED
            BY <3>1, <5>3 DEF StartedFrom
        <4>5. QED
          BY <4>3, <4>4
      <3>4. CASE line \in 17 .. 23
        <4>1. machine'.process["new"] = machine.process["new"]
          BY <1>1, <1>3, <3>4 DEF UndoSays
        <4>2. QED
          BY <3>4, <4>1 DEF UndoServices, Loaded
      <3>5. QED
        BY <1>2, <2>2, <3>2, <3>3, <3>4
    <2>3. QED
      BY <1>2, <2>1, <2>2
  <1>6. line' > 17 /\ Loaded(found, "new") => Loaded(machine', "new")
    <2>1. CASE line = 17
      <3>1. op = "ready" /\ s = "new"
        BY <1>1, <2>1 DEF UndoSays
      <3>2. Loaded(found, "new") => Awaited("new")
        BY DEF Awaited
      <3>3. QED
        BY <3>1, <3>2 DEF Succeeds, Loaded
    <2>2. CASE line \in 18 .. 23
      <3>1. machine'.process["new"] = machine.process["new"]
        BY <1>1, <1>3, <2>2 DEF UndoSays
      <3>2. QED
        BY <2>2, <3>1 DEF UndoServices, Loaded
    <2>3. CASE line < 17
      BY <1>2, <2>3
    <2>4. QED
      BY <1>2, <2>1, <2>2, <2>3
  <1>7. line' > 21 /\ Loaded(found, "legacy") /\ ~Loaded(found, "new") => Loaded(machine', "legacy")
    <2>1. CASE line = 21
      <3>1. op = "ready" /\ s = "legacy"
        BY <1>1, <2>1 DEF UndoSays
      <3>2. Loaded(found, "legacy") /\ ~Loaded(found, "new") => Awaited("legacy")
        BY DEF Awaited
      <3>3. QED
        BY <3>1, <3>2 DEF Succeeds, Loaded
    <2>2. CASE line \in {22, 23}
      <3>1. machine'.process = machine.process
        BY <1>1, <2>2 DEF UndoSays, Frame
      <3>2. QED
        BY <2>2, <3>1 DEF UndoServices, Loaded
    <2>3. CASE line < 21
      BY <1>2, <2>3
    <2>4. QED
      BY <1>2, <2>1, <2>2, <2>3
  <1>8. QED
    BY <1>1, <1>4, <1>5, <1>6, <1>7 DEF UndoServices, Loaded, StartedFrom

LEMMA UndoRaises ==
    ASSUME script = "undoInstall", NEW op, NEW s, Acts(op, s), Succeeds(op, s),
           RunsEnabled(found), UndoFlags, line' = line + 1
    PROVE  UndoFlags'
  <1>1. UndoSays(op, s) /\ found' = found /\ Frame(op, s)
    BY UndoLine DEF Acts
  <1>2. line \in 1 .. 23
    BY <1>1 DEF UndoSays
  <1>3. CASE line < 22
    BY <1>2, <1>3 DEF UndoFlags
  <1>4. CASE line = 22
    <2>1. op = "flag" /\ s = "new"
      BY <1>1, <1>4 DEF UndoSays
    <2>2. "new" \in found.disabled => "new" \in machine'.disabled
      BY <2>1 DEF Succeeds
    <2>3. QED
      BY <1>1, <1>4, <2>2 DEF UndoFlags
  <1>5. CASE line = 23
    <2>1. op = "flag" /\ s = "legacy"
      BY <1>1, <1>5 DEF UndoSays
    <2>2. Loaded(found, "legacy") => "legacy" \notin machine'.disabled
      BY <2>1 DEF Succeeds, RunsEnabled, Services
    <2>3. ("new" \in machine'.disabled) = ("new" \in machine.disabled)
      BY <1>1, <2>1 DEF Frame, Services
    <2>4. QED
      BY <1>1, <1>5, <2>2, <2>3 DEF UndoFlags, Loaded
  <1>6. QED
    BY <1>2, <1>3, <1>4, <1>5

LEMMA UndoKeepsAtom ==
    ASSUME AtomInv, script = "undoInstall", NEW op, NEW s, Acts(op, s)
    PROVE  AtomInv'
  <1>1. UNCHANGED <<found, command, given>>
    BY DEF Acts
  <1>2. Basic /\ UndoBody
    BY DEF AtomInv
  <1>3. Aside' /\ InstallOf'
    <2>1. Aside'
      BY <1>2, UndoAside DEF UndoBody
    <2>2. InstallOf'
      BY <1>1, <1>2 DEF UndoBody, InstallOf
    <2>3. QED
      BY <2>1, <2>2
  <1>4. CASE GoOn(TRUE) /\ Succeeds(op, s)
    <2>1. line' = line + 1 /\ script' = "undoInstall" /\ (sound' => sound)
      BY <1>4, WentOn
    <2>2. Basic'
      BY <1>4, <2>1, UndoBasic
    <2>3. ASSUME sound' PROVE (UndoLinks /\ UndoFiles /\ UndoServices /\ UndoFlags)'
      <3>1. sound /\ UndoLinks /\ UndoFiles /\ UndoServices /\ UndoFlags
        BY <1>2, <2>1, <2>3 DEF UndoBody
      <3>2. UndoLinks' /\ UndoFiles'
        BY <1>4, <2>1, <3>1, UndoPuts
      <3>3. UndoServices'
        BY <1>4, <2>1, <3>1, UndoServes
      <3>4. UndoFlags'
        BY <1>2, <1>4, <2>1, <3>1, UndoRaises DEF Basic
      <3>5. QED
        BY <3>2, <3>3, <3>4
    <2>4. UndoBody'
      BY <1>3, <2>3 DEF UndoBody
    <2>5. QED
      BY <2>1, <2>2, <2>4, Within
  <1>5. CASE Fails(op)
    <2>1. GoOn(FALSE)
      BY <1>5, FailsIs
    <2>2. script' = "undoInstall" /\ ~sound'
      BY <2>1, WentOn
    <2>3. Basic'
      BY <2>2, UndoBasic
    <2>4. UndoBody'
      BY <1>3, <2>2 DEF UndoBody
    <2>5. QED
      BY <2>2, <2>3, <2>4, Within
  <1>6. QED
    BY <1>4, <1>5 DEF Acts

-----------------------------------------------------------------------------
(* The other steps. *)

LEMMA StillReached ==
    ASSUME UNCHANGED <<machine, found, command, given>>
    PROVE  Reached => Reached'
  BY DEF Reached, Runs, Serves, Running, AtLogin, HasPlist, Loaded, StartedFrom, Loadable, Configured

LEMMA StillAsFound ==
    ASSUME UNCHANGED <<machine, found, command, given>>
    PROVE  AsFound => AsFound'
  BY DEF AsFound, LoginAsFound, Contents, Running, AtLogin, HasPlist, Loaded, StartedFrom

LEMMA StillContended ==
    ASSUME UNCHANGED found
    PROVE  Contended(found)' => Contended(found)
  BY DEF Contended, Running, Loaded

LEMMA BasicSame ==
    ASSUME Basic, UNCHANGED <<machine, found>>, Lost => Lost'
    PROVE  Basic'
  BY DEF Basic, Proper, RunsEnabled, IsWhole, IsMachine, Loaded

LEMMA AtomSignal == ASSUME AtomInv, Signal PROVE AtomInv'
  <1>1. /\ UNCHANGED <<machine, found, command, given>>
        /\ script \notin {"none", "recover"}
        /\ CASE script = "install" -> Enter("undoInstall")
             [] script = "restore" -> IF Recovers THEN Enter("recover") ELSE End("interrupted")
             [] script \in {"undoInstall", "undoRollback"} -> End("manual")
             [] OTHER -> End("interrupted")
    BY DEF Signal
  <1>2. Basic
    BY DEF AtomInv
  <1>3. CASE script = "install"
    <2>1. Enter("undoInstall")
      BY <1>1, <1>3
    <2>2. Basic'
      BY <1>1, <1>2, <1>3, BasicSame DEF Lost
    <2>3. InstallOf' /\ Aside'
      BY <1>1, <1>3 DEF AtomInv, InstallBody, InstallOf, Aside, Loaded
    <2>4. QED
      BY <2>1, <2>2, <2>3, UndoInstallBegins
  <1>4. CASE script = "restore" /\ Recovers
    <2>1. Enter("recover")
      BY <1>1, <1>4
    <2>2. Basic'
      BY <1>1, <1>2, <1>4, BasicSame DEF Lost
    <2>3. RestoreOf /\ Inside'
      BY <1>1, <1>4 DEF AtomInv, RestoreBody, Inside
    <2>4. QED
      BY <1>1, <1>4, <2>1, <2>2, <2>3, RecoverBegins
  <1>5. CASE script \in {"undoInstall", "undoRollback"}
    <2>1. End("manual")
      BY <1>1, <1>5
    <2>2. Basic'
      BY <1>1, <1>2, <2>1, BasicSame DEF Lost, End
    <2>3. QED
      BY <2>1, <2>2, Without DEF End
  <1>6. CASE /\ script \notin {"install", "undoInstall", "undoRollback"}
             /\ ~(script = "restore" /\ Recovers)
    <2>1. End("interrupted")
      BY <1>1, <1>6
    <2>2. Basic'
      BY <1>1, <1>2, <1>6, BasicSame DEF Lost
    <2>3. QED
      BY <2>1, <2>2, Without DEF End
  <1>7. QED
    BY <1>3, <1>4, <1>5, <1>6

LEMMA AtomBegins ==
    ASSUME AtomInv, NEW typed, NEW first, NEW settings, Begin(typed, first, settings)
    PROVE  /\ Basic' /\ machine' = machine /\ found' = machine /\ command' = typed
           /\ given' = settings /\ script' = first /\ line' = 1 /\ Basic
  <1>1. /\ machine' = machine /\ found' = machine /\ command' = typed /\ given' = settings
        /\ script' = first /\ line' = 1 /\ script = "none" /\ outcome # "manual"
    BY DEF Begin, Enter
  <1>2. Basic /\ RunsEnabled(machine)
    BY <1>1 DEF AtomInv, Basic, Lost
  <1>3. Basic'
    BY <1>1, <1>2 DEF Basic, Proper, RunsEnabled, IsWhole, IsMachine, Loaded
  <1>4. QED
    BY <1>1, <1>2, <1>3

LEMMA AtomInstall ==
    ASSUME AtomInv, NEW release \in Releases, NEW cors \in Origins, NEW name,
           machine.legacy => Loaded(machine, "legacy"),
           Begin("install", "install", [release |-> <<release>>, cors |-> cors, archive |-> name])
    PROVE  AtomInv'
  <1> DEFINE g == [release |-> <<release>>, cors |-> cors, archive |-> name]
  <1>1. g.release = <<release>> /\ g.cors = cors
    OBVIOUS
  <1> HIDE DEF g
  <1>2. /\ Basic' /\ machine' = machine /\ found' = machine /\ command' = "install"
        /\ given' = g /\ script' = "install" /\ line' = 1
    BY AtomBegins DEF g
  <1>3. <<release>> # None
    <2>1. Len(<<release>>) = 1 /\ Len(<<>>) = 0
      OBVIOUS
    <2>2. QED
      BY <2>1 DEF None
  <1>4. InstallOf'
    BY <1>1, <1>2, <1>3 DEF InstallOf, Targets
  <1>5. Aside' /\ machine'.link["previous"] \in {found'.link["previous"], found'.link["current"]}
    BY <1>2 DEF Aside
  <1>6. Kept' \in {0, 1}
    BY DEF Kept
  <1>7. InstallBody'
    <2>1. PICK k : k = Kept'
      OBVIOUS
    <2>2. k \in {0, 1}
      BY <1>6, <2>1
    <2>3. ~(1 > k + 1) /\ ~(1 > k + 3) /\ ~(1 > k + 5) /\ ~(1 > k + 7)
      BY <2>2
    <2>4. 1 \notin k + 3 .. k + 7
      BY <2>2
    <2>5. QED
      BY <1>2, <1>4, <1>5, <2>1, <2>3, <2>4 DEF InstallBody
  <1>8. QED
    BY <1>2, <1>7, Within

LEMMA AtomRollback ==
    ASSUME AtomInv, Begin("rollback", "rollback", Nothing),
           machine.link["previous"] # None, machine.link["current"] # None,
           machine.file["plist"] # None
    PROVE  AtomInv'
  <1>1. /\ Basic' /\ machine' = machine /\ found' = machine /\ command' = "rollback"
        /\ script' = "rollback" /\ line' = 1
    BY AtomBegins
  <1>2. RollbackOf' /\ Around' /\ Rebuilt'
    BY <1>1 DEF RollbackOf, Around, Rebuilt
  <1>3. RollbackBody'
    BY <1>1, <1>2 DEF RollbackBody
  <1>4. QED
    BY <1>1, <1>3, Within

LEMMA AtomRestore ==
    ASSUME AtomInv, NEW typed \in {"rollback", "restore", "uninstall", "purge"},
           Begin(typed, "restore", Nothing), CanRestore,
           typed = "rollback" => machine.link["previous"] = None
    PROVE  AtomInv'
  <1>1. /\ Basic' /\ machine' = machine /\ found' = machine /\ command' = typed
        /\ script' = "restore" /\ line' = 1
    BY AtomBegins
  <1>2. RestoreOf' /\ Inside'
    BY <1>1 DEF RestoreOf, Inside, CanRestore, Loaded
  <1>3. RestoreBody'
    BY <1>1, <1>2 DEF RestoreBody, Loaded
  <1>4. QED
    BY <1>1, <1>3, Within

LEMMA AtomUninstall ==
    ASSUME AtomInv, NEW typed \in {"uninstall", "purge"}, Begin(typed, "uninstall", Nothing),
           ~Configured(machine)
    PROVE  AtomInv'
  <1>1. /\ Basic' /\ machine' = machine /\ found' = machine /\ command' = typed
        /\ script' = "uninstall" /\ line' = 1
    BY AtomBegins
  <1>2. ~Configured(found)'
    BY <1>1 DEF Configured
  <1>3. UninstallBody'
    BY <1>1, <1>2 DEF UninstallBody
  <1>4. QED
    BY <1>1, <1>3, Within

LEMMA AtomUser ==
    ASSUME AtomInv,
           \/ BeginInstall \/ BeginUpdate \/ BeginRollback \/ BeginRestore \/ BeginUninstall
           \/ BeginStartOrStop
    PROVE  AtomInv'
  <1>1. CASE BeginInstall
    <2>1. PICK release \in Releases, cors \in Origins, name \in FreshNames :
              /\ machine.legacy = Loaded(machine, "legacy")
              /\ Begin("install", "install",
                       [release |-> <<release>>, cors |-> cors, archive |-> <<name>>])
      BY <1>1 DEF BeginInstall
    <2>2. QED
      BY <2>1, AtomInstall
  <1>2. CASE BeginUpdate
    <2>1. PICK release \in Releases, name \in FreshNames :
              /\ machine.legacy = Loaded(machine, "legacy")
              /\ Begin("install", "install",
                       [release |-> <<release>>, cors |-> machine.file["cors"],
                        archive |-> <<name>>])
      BY <1>2 DEF BeginUpdate
    <2>2. PICK cors : cors = machine.file["cors"]
      OBVIOUS
    <2>3. cors \in Origins
      BY <2>2 DEF AtomInv, Basic, Proper
    <2>4. Begin("install", "install",
                [release |-> <<release>>, cors |-> cors, archive |-> <<name>>])
      BY <2>1, <2>2
    <2>5. QED
      BY <2>1, <2>3, <2>4, AtomInstall
  <1>3. CASE BeginRollback
    BY <1>3, AtomRollback, AtomRestore DEF BeginRollback
  <1>4. CASE BeginRestore
    BY <1>4, AtomRestore DEF BeginRestore
  <1>5. CASE BeginUninstall
    BY <1>5, AtomRestore, AtomUninstall DEF BeginUninstall
  <1>6. CASE BeginStartOrStop
    <2>1. PICK typed \in {"start", "stop"} : Begin(typed, typed, Nothing)
      BY <1>6 DEF BeginStartOrStop
    <2>2. Basic' /\ command' = typed /\ script' = typed
      BY <2>1, AtomBegins
    <2>3. QED
      BY <2>1, <2>2, Within
  <1>7. QED
    BY <1>1, <1>2, <1>3, <1>4, <1>5, <1>6

-----------------------------------------------------------------------------
(* What a script that comes to its end has done. *)

LEMMA PlistFacts ==
    ASSUME NEW release \in Targets \ {None}, NEW cors \in Origins
    PROVE  release \o cors # None /\ (release \o cors)[1] = release[1]
  <1>1. PICK r : release = <<r>>
    BY DEF Targets
  <1>2. cors \in Seq(STRING)
    BY EdgeControlAssumption
  <1> DEFINE X == {r} \cup STRING
  <1>3. cors \in Seq(X) /\ <<r>> \in Seq(X) /\ Len(<<r>>) = 1 /\ <<r>>[1] = r
    BY <1>2
  <1> HIDE DEF X
  <1>4. PICK n \in Nat : n = Len(cors)
    BY <1>3
  <1> DEFINE u == <<r>> \o cors
  <1>5. Joined(X, <<r>>, cors, u, 1, n)
    BY <1>3, <1>4, JoinFacts
  <1> HIDE DEF u
  <1>6. Len(u) = 1 + n /\ u[1] = r
    BY <1>3, <1>5 DEF Joined
  <1>7. u # <<>>
    <2>1. Len(<<>>) = 0 /\ 1 + n # 0
      OBVIOUS
    <2>2. QED
      BY <1>6, <2>1
  <1>8. QED
    BY <1>1, <1>3, <1>6, <1>7 DEF u, None

LEMMA NewIsLoaded ==
    ASSUME machine.process["new"] = StartedFrom(machine, "new")
    PROVE  Loaded(machine, "new")
  <1>1. PICK a, b : machine.process["new"] = <<a, b>>
    BY DEF StartedFrom
  <1>2. Len(<<a, b>>) = 2 /\ Len(<<>>) = 0
    OBVIOUS
  <1>3. QED
    BY <1>1, <1>2 DEF Loaded, None

LEMMA InstallReaches ==
    ASSUME AtomInv, WayInv, script = "install", line = Len(Text["install"]) + 1
    PROVE  Reached
  <1>1. PICK k \in {0, 1} : InstallIs(k) /\ Kept = k
    BY InstallText
  <1>2. PICK n \in Nat : n = Len(Install) /\ n > k + 13
    <2>1. Len(Install) = k + (IF found.legacy THEN 18 ELSE 14)
      BY <1>1 DEF InstallIs
    <2>2. k + (IF found.legacy THEN 18 ELSE 14) \in Nat
          /\ k + (IF found.legacy THEN 18 ELSE 14) > k + 13
      BY <1>1
    <2>3. QED
      BY <2>1, <2>2
  <1>3. line = n + 1
    BY <1>2, ScriptTexts
  <1>4. /\ line > Kept + 1 /\ line > Kept + 3 /\ line > Kept + 5 /\ line > Kept + 7
        /\ line > n - 2 /\ line > n - 1 /\ line > n
    BY <1>1, <1>2, <1>3
  <1>5. Basic /\ InstallBody /\ RunsEnabled(machine)
    BY DEF AtomInv, Basic, Lost
  <1>6. /\ machine.link["current"] = given.release
        /\ ~Loaded(machine, "legacy")
        /\ machine.file["plist"] = NewPlist
        /\ machine.process["new"] = StartedFrom(machine, "new")
        /\ machine.link["previous"] \in {found.link["previous"], found.link["current"]}
    BY <1>4, <1>5 DEF InstallBody
  <1>7. InstallOf
    BY <1>5 DEF InstallBody
  <1>8. Loaded(machine, "new") /\ "new" \notin machine.disabled
    BY <1>5, <1>6, NewIsLoaded DEF RunsEnabled, Services
  <1>9. machine.file["plist"] # None
    BY <1>6, <1>7, PlistFacts DEF InstallOf, NewPlist
  <1>10. ~machine.legacy /\ (found.legacy => Loadable(machine))
    <2>1. InstallInv /\ Began /\ Shape
      BY DEF WayInv
    <2>2. CASE ~found.legacy
      BY <2>1, <2>2 DEF InstallInv, SamePapers
    <2>3. CASE found.legacy
      <3>1. /\ ArchivedNow /\ machine.file["label"] # None
            /\ machine.file["archive"] = given.archive
        BY <1>2, <1>4, <2>1, <2>3 DEF InstallInv
      <3>2. PICK name : given.archive = <<name>>
        BY <2>1 DEF Began
      <3>3. name \in machine.archives
        BY <3>1, <3>2 DEF ArchivedNow
      <3>4. QED
        BY <3>1, <3>2, <3>3 DEF ArchivedNow, Loadable
    <2>4. QED
      BY <2>2, <2>3
  <1>11. Running(machine) = {"new"}
    BY <1>6, <1>8 DEF Running, Services
  <1>12. AtLogin(machine) = {"new"}
    <2>1. "new" \in AtLogin(machine)
      BY <1>8, <1>9 DEF AtLogin, HasPlist, Services
    <2>2. "legacy" \notin AtLogin(machine)
      BY <1>10 DEF AtLogin, HasPlist
    <2>3. AtLogin(machine) \subseteq {"new", "legacy"}
      BY DEF AtLogin, Services
    <2>4. QED
      BY <2>1, <2>2, <2>3
  <1>13. Runs("new")
    BY <1>6, <1>11, <1>12 DEF Runs, Serves
  <1>14. QED
    BY <1>6, <1>7, <1>10, <1>13 DEF Reached, InstallOf, NewPlist

\* Links and files are the same when each one is.
LEMMA SameContents ==
    ASSUME IsWhole(machine), IsWhole(found), \A l \in Links : machine.link[l] = found.link[l],
           \A f \in Files : machine.file[f] = found.file[f], machine.legacy = found.legacy,
           machine.archives = found.archives
    PROVE  Contents(machine) = Contents(found)
  <1>1. /\ machine.link = [l \in Links |-> machine.link[l]]
        /\ found.link = [l \in Links |-> found.link[l]]
    BY DEF IsWhole
  <1>2. machine.file = [f \in Files |-> machine.file[f]]
    BY DEF IsWhole, IsMachine
  <1>3. found.file = [f \in Files |-> found.file[f]]
    BY DEF IsWhole, IsMachine
  <1>4. machine.link = found.link /\ machine.file = found.file
    BY <1>1, <1>2, <1>3
  <1>5. QED
    BY <1>4 DEF Contents

LEMMA InstallUndone ==
    ASSUME AtomInv, WayInv, script = "undoInstall", line = Len(Text["undoInstall"]) + 1, sound,
           ~Contended(found)
    PROVE  AsFound
  <1>1. line = 24
    BY ScriptTexts, UndoInstallFull
  <1>2. Basic /\ RunsEnabled(machine) /\ RunsEnabled(found) /\ Proper(machine)
    BY DEF AtomInv, Basic, Lost
  <1>3. InstallOf /\ Aside /\ UndoLinks /\ UndoFiles /\ UndoServices /\ UndoFlags
    BY DEF AtomInv, UndoBody
  <1>4. Contents(machine) = Contents(found)
    <2>1. InPlace
      BY <1>1 DEF WayInv, UndoInv
    <2>2. \A l \in Links : machine.link[l] = found.link[l]
      BY <1>1, <1>3 DEF UndoLinks, Links
    <2>3. \A f \in Files : machine.file[f] = found.file[f]
      BY <1>1, <1>3 DEF UndoFiles, Files, Tools
    <2>4. QED
      BY <1>2, <2>1, <2>2, <2>3, SameContents DEF InPlace, Basic
  <1>5. machine.file = found.file /\ machine.legacy = found.legacy
    BY <1>4 DEF Contents
  <1>6. ~(Loaded(found, "new") /\ Loaded(found, "legacy"))
    BY DEF Contended, Running, Services
  <1>7. /\ Loaded(found, "new") => Loaded(machine, "new")
        /\ ~Loaded(found, "new") => ~Loaded(machine, "new")
        /\ Loaded(machine, "new") => machine.process["new"] = StartedFrom(found, "new")
        /\ Loaded(found, "legacy") => Loaded(machine, "legacy")
        /\ Loaded(machine, "legacy") => Loaded(found, "legacy")
    BY <1>1, <1>3, <1>6 DEF UndoServices, Aside
  <1>8. Running(machine) = Running(found)
    BY <1>7 DEF Running, Services
  <1>9. \A s \in Running(found) : machine.process[s] = StartedFrom(found, s)
    <2>1. Loaded(machine, "legacy") => machine.process["legacy"] = StartedFrom(found, "legacy")
      BY <1>2 DEF Proper, Loaded, StartedFrom
    <2>2. QED
      BY <1>7, <2>1 DEF Running, Services
  <1>10. AtLogin(machine) = AtLogin(found)
    <2>1. "new" \in machine.disabled <=> "new" \in found.disabled
      BY <1>1, <1>3 DEF UndoFlags, Aside
    <2>2. found.legacy => "legacy" \notin machine.disabled /\ "legacy" \notin found.disabled
      BY <1>1, <1>2, <1>3 DEF InstallOf, UndoFlags, RunsEnabled, Services
    <2>3. "new" \in AtLogin(machine) <=> "new" \in AtLogin(found)
      BY <1>5, <2>1 DEF AtLogin, HasPlist
    <2>4. "legacy" \in AtLogin(machine) <=> "legacy" \in AtLogin(found)
      BY <1>5, <2>2 DEF AtLogin, HasPlist
    <2>5. AtLogin(machine) \subseteq {"new", "legacy"} /\ AtLogin(found) \subseteq {"new", "legacy"}
      BY DEF AtLogin, Services
    <2>6. QED
      BY <2>3, <2>4, <2>5
  <1>11. QED
    BY <1>4, <1>8, <1>9, <1>10 DEF AsFound, LoginAsFound

LEMMA RollbackReaches ==
    ASSUME AtomInv, script = "rollback", line = Len(Text["rollback"]) + 1
    PROVE  Reached
  <1>1. Text["rollback"] = Rollback
    BY DEF Text
  <1>2. line = 10
    BY <1>1, RollbackText
  <1>3. Basic /\ RunsEnabled(machine) /\ RollbackBody
    BY DEF AtomInv, Basic, Lost
  <1>4. /\ RollbackOf /\ Around /\ Loaded(machine, "new") /\ ~Loaded(machine, "legacy")
        /\ machine.link["current"] = found.link["previous"]
        /\ machine.link["previous"] = found.link["current"]
        /\ machine.file["plist"] = OldPlist
        /\ machine.process["new"] = StartedFrom(machine, "new")
    BY <1>2, <1>3 DEF RollbackBody, Rebuilt
  <1>5. machine.file["plist"] # None /\ machine.file["plist"][1] = found.link["previous"][1]
    <2>1. found.link["previous"] \in Targets \ {None} /\ found.file["cors"] \in Origins
      BY <1>3, <1>4 DEF Basic, Proper, Links, RollbackOf
    <2>2. QED
      BY <1>4, <2>1, PlistFacts DEF OldPlist
  <1>6. Serves("new")
    BY <1>4 DEF Serves, Running, Services
  <1>7. AtLogin(machine) = AtLogin(found) \cup {"new"}
    <2>1. "new" \in AtLogin(machine)
      BY <1>3, <1>4, <1>5 DEF AtLogin, HasPlist, RunsEnabled, Services
    <2>2. "legacy" \in AtLogin(machine) <=> "legacy" \in AtLogin(found)
      BY <1>4 DEF AtLogin, HasPlist, Around, Services
    <2>3. AtLogin(machine) \subseteq {"new", "legacy"} /\ AtLogin(found) \subseteq {"new", "legacy"}
      BY DEF AtLogin, Services
    <2>4. QED
      BY <2>1, <2>2, <2>3
  <1>8. QED
    BY <1>4, <1>5, <1>6, <1>7 DEF Reached, RollbackOf

LEMMA RollbackUndone ==
    ASSUME AtomInv, script = "undoRollback", line = Len(Text["undoRollback"]) + 1, sound
    PROVE  AsFound
  <1>1. Text["undoRollback"] = UndoRollback
    BY DEF Text
  <1>2. line = 9
    BY <1>1, UndoRollbackText
  <1>3. Basic /\ RunsEnabled(machine) /\ RunsEnabled(found) /\ Proper(found) /\ UndoRollbackBody
    BY DEF AtomInv, Basic, Lost
  <1>4. /\ RollbackOf /\ Around
        /\ machine.link["current"] = found.link["current"]
        /\ machine.link["previous"] = found.link["previous"]
        /\ machine.file["plist"] = found.file["plist"]
        /\ machine.process["new"] = StartedFrom(machine, "new")
    BY <1>2, <1>3 DEF UndoRollbackBody
  <1>5. Contents(machine) = Contents(found)
    <2>1. \A l \in Links : machine.link[l] = found.link[l]
      BY <1>4 DEF Links
    <2>2. \A f \in Files : machine.file[f] = found.file[f]
      BY <1>4 DEF Around
    <2>3. QED
      BY <1>3, <1>4, <2>1, <2>2, SameContents DEF Basic, Around
  <1>6. Loaded(machine, "new") /\ "new" \notin machine.disabled
    BY <1>3, <1>4, NewIsLoaded DEF RunsEnabled, Services
  <1>7. "legacy" \in AtLogin(machine) <=> "legacy" \in AtLogin(found)
    BY <1>4 DEF AtLogin, HasPlist, Around, Services
  <1>8. LoginAsFound
    <2>1. AtLogin(machine) \subseteq {"new", "legacy"} /\ AtLogin(found) \subseteq {"new", "legacy"}
      BY DEF AtLogin, Services
    <2>2. CASE Loaded(found, "new")
      <3>1. "new" \in AtLogin(found)
        BY <1>3, <1>4, <2>2 DEF AtLogin, HasPlist, RollbackOf, RunsEnabled, Services
      <3>2. "new" \in AtLogin(machine)
        BY <1>4, <1>6 DEF AtLogin, HasPlist, RollbackOf, Services
      <3>3. AtLogin(machine) = AtLogin(found)
        BY <1>7, <2>1, <3>1, <3>2
      <3>4. QED
        BY <3>3 DEF LoginAsFound
    <2>3. CASE ~Loaded(found, "new")
      <3>1. AtLogin(machine) \ {"new"} = AtLogin(found) \ {"new"}
        BY <1>7, <2>1
      <3>2. QED
        BY <1>4, <2>3, <3>1 DEF LoginAsFound, RollbackOf
    <2>4. QED
      BY <2>2, <2>3
  <1>9. \A s \in Running(found) : machine.process[s] = StartedFrom(found, s)
    <2>1. machine.process["new"] = StartedFrom(found, "new")
      BY <1>4 DEF StartedFrom
    <2>2. Loaded(found, "legacy") => machine.process["legacy"] = StartedFrom(found, "legacy")
      BY <1>3, <1>4 DEF Around, Proper, Loaded, StartedFrom
    <2>3. QED
      BY <2>1, <2>2 DEF Running, Services
  <1>10. QED
    BY <1>4, <1>5, <1>8, <1>9 DEF AsFound, RollbackOf

LEMMA RestoreReaches ==
    ASSUME AtomInv, WayInv, script = "restore", line = Len(Text["restore"]) + 1
    PROVE  Runs("legacy") /\ RestoreOf
  <1>1. Text["restore"] = Restore
    BY DEF Text
  <1>2. /\ Loaded(found, "legacy") => line = 4
        /\ ~Loaded(found, "legacy") => line = 9
    <2>1. line = Len(Restore) + 1
      BY <1>1
    <2>2. CASE Loaded(found, "legacy")
      <3>1. Len(Restore) = 3
        BY <2>2, RestoreFull
      <3>2. QED
        BY <2>1, <2>2, <3>1
    <2>3. CASE ~Loaded(found, "legacy")
      <3>1. Len(Restore) = 8
        BY <2>3, RestoreFull
      <3>2. QED
        BY <2>1, <2>3, <3>1
    <2>4. QED
      BY <2>2, <2>3
  <1>3. Basic /\ RunsEnabled(machine) /\ Proper(machine) /\ RestoreBody
    BY DEF AtomInv, Basic, Lost
  <1>4. line \in Nat /\ line > 1 /\ (Loaded(found, "legacy") => line > 3)
        /\ (~Loaded(found, "legacy") => line > 7 /\ line > 8)
    BY <1>2
  <1>5. Loaded(machine, "legacy") /\ ~Loaded(machine, "new") /\ "new" \in machine.disabled
    BY <1>3, <1>4 DEF RestoreBody
  <1>6. machine.legacy
    BY <1>5 DEF WayInv, LoadedHasPlist
  <1>7. machine.process["legacy"] = <<"legacy">>
    BY <1>3, <1>5 DEF Proper, Loaded
  <1>8. "legacy" \notin machine.disabled
    BY <1>3, <1>5 DEF RunsEnabled, Services
  <1>9. QED
    BY <1>3, <1>5, <1>6, <1>7, <1>8, RunsParts DEF RestoreBody

LEMMA Recovered ==
    ASSUME AtomInv, WayInv, script = "recover", line = Len(Text["recover"]) + 1, sound,
           ~Contended(found)
    PROVE  AsFound
  <1>1. Basic /\ RunsEnabled(machine) /\ RunsEnabled(found) /\ RecoverBody
    BY DEF AtomInv, Basic, Lost
  <1>2. ~Loaded(found, "legacy")
    BY <1>1 DEF RecoverBody, Contended, Running, Services
  <1>3. line = IF Loaded(found, "new") THEN 9 ELSE 5
    <2>1. line = Len(Recover) + 1
      BY ScriptTexts
    <2>2. Len(Recover) = IF Loaded(found, "new") THEN 8 ELSE 4
      BY <1>2, RecoverFull
    <2>3. QED
      BY <2>1, <2>2
  <1>4. line \in Nat /\ line > 1 /\ line > 3 /\ line > 4
        /\ (Loaded(found, "new") => line > 8)
    BY <1>3
  <1>5. /\ RestoreOf /\ Inside /\ ~Loaded(machine, "legacy") /\ machine.legacy = FALSE
        /\ Loaded(found, "new") <=> Loaded(machine, "new")
        /\ Loaded(machine, "new") => machine.process["new"] = StartedFrom(found, "new")
    BY <1>1, <1>2, <1>4 DEF RecoverBody
  <1>6. found.legacy = FALSE
    BY <1>2, <1>5 DEF RestoreOf, WayInv, Shape
  <1>7. Contents(machine) = Contents(found)
    BY <1>5, <1>6 DEF Contents, Inside
  <1>8. Running(machine) = Running(found)
    BY <1>2, <1>5 DEF Running, Services
  <1>9. \A s \in Running(found) : machine.process[s] = StartedFrom(found, s)
    BY <1>2, <1>5 DEF Running, Services
  <1>10. LoginAsFound
    <2>1. /\ AtLogin(machine) \subseteq {"new", "legacy"} /\ AtLogin(found) \subseteq {"new", "legacy"}
          /\ "legacy" \notin AtLogin(machine) /\ "legacy" \notin AtLogin(found)
      BY <1>5, <1>6 DEF AtLogin, HasPlist, Services
    <2>2. CASE Loaded(found, "new")
      <3>1. "new" \notin machine.disabled /\ "new" \notin found.disabled
        BY <1>1, <1>5, <2>2 DEF RunsEnabled, Services
      <3>2. "new" \in AtLogin(machine) <=> "new" \in AtLogin(found)
        BY <1>5, <3>1 DEF AtLogin, HasPlist, Inside
      <3>3. AtLogin(machine) = AtLogin(found)
        BY <2>1, <3>2
      <3>4. QED
        BY <3>3 DEF LoginAsFound
    <2>3. CASE ~Loaded(found, "new")
      <3>1. AtLogin(machine) \ {"new"} = AtLogin(found) \ {"new"}
        BY <2>1
      <3>2. QED
        BY <1>5, <2>3, <3>1 DEF LoginAsFound, RestoreOf
    <2>4. QED
      BY <2>2, <2>3
  <1>11. QED
    BY <1>7, <1>8, <1>9, <1>10 DEF AsFound

LEMMA UninstallReaches ==
    ASSUME AtomInv, script = "uninstall", line = Len(Text["uninstall"]) + 1
    PROVE  Reached
  <1>1. line = 4
    BY ScriptTexts, ShortTexts
  <1>2. UninstallBody
    BY DEF AtomInv
  <1>3. ~Loaded(machine, "new") /\ machine.file["plist"] = None
    BY <1>1, <1>2 DEF UninstallBody
  <1>4. "new" \notin Running(machine) \cup AtLogin(machine)
    BY <1>3 DEF Running, AtLogin, HasPlist
  <1>5. QED
    BY <1>2, <1>4 DEF UninstallBody, Reached

LEMMA AtomFinish == ASSUME AtomInv, WayInv, Finish PROVE AtomInv'
  <1>1. /\ UNCHANGED <<machine, found, command, given>>
        /\ script # "none" /\ line = Len(Text[script]) + 1
        /\ IF script = "restore" /\ command \in {"uninstall", "purge"} THEN Enter("uninstall")
           ELSE End(CASE script \in {"undoInstall", "undoRollback", "recover"} ->
                             IF sound THEN "restored" ELSE "manual"
                      [] OTHER -> "done")
    BY DEF Finish
  <1>2. Basic
    BY DEF AtomInv
  <1>3. CASE script = "restore" /\ command \in {"uninstall", "purge"}
    <2>1. script' = "uninstall" /\ line' = 1
      BY <1>1, <1>3 DEF Enter
    <2>2. Basic'
      BY <1>1, <1>2, <1>3, BasicSame DEF Lost
    <2>3. Runs("legacy")
      BY <1>1, <1>3, RestoreReaches
    <2>4. (Runs("legacy"))'
      BY <1>1, <2>3 DEF Runs, Serves, Running, AtLogin, HasPlist, Loaded, StartedFrom
    <2>5. ~Loaded(machine', "new")
      BY <2>4, NextRunsParts
    <2>6. UninstallBody'
      BY <1>1, <1>3, <2>1, <2>4, <2>5 DEF UninstallBody
    <2>7. QED
      BY <2>1, <2>2, <2>6, Within
  <1>4. CASE script \in {"undoInstall", "undoRollback", "recover"}
    <2>1. script' = "none" /\ outcome' = IF sound THEN "restored" ELSE "manual"
      BY <1>1, <1>4 DEF End
    <2>2. Basic'
      BY <1>1, <1>2, <1>4, <2>1, BasicSame DEF Lost
    <2>3. sound /\ ~Contended(found) => AsFound
      BY <1>1, <1>4, InstallUndone, RollbackUndone, Recovered
    <2>4. outcome' = "restored" => (~Contended(found) => AsFound)'
      BY <1>1, <2>1, <2>3, StillAsFound, StillContended
    <2>5. QED
      BY <2>1, <2>2, <2>4, Without
  <1>5. CASE /\ script \notin {"undoInstall", "undoRollback", "recover"}
             /\ ~(script = "restore" /\ command \in {"uninstall", "purge"})
    <2>1. script' = "none" /\ outcome' = "done"
      BY <1>1, <1>5 DEF End
    <2>2. Basic'
      BY <1>1, <1>2, <1>5, BasicSame DEF Lost
    <2>3. Reached
      <3>1. CASE script = "install"
        BY <1>1, <3>1, InstallReaches
      <3>2. CASE script = "rollback"
        BY <1>1, <3>2, RollbackReaches
      <3>3. CASE script = "restore"
        <4>1. Runs("legacy") /\ RestoreOf
          BY <1>1, <3>3, RestoreReaches
        <4>2. QED
          BY <1>5, <3>3, <4>1 DEF RestoreOf, Reached
      <3>4. CASE script = "uninstall"
        BY <1>1, <3>4, UninstallReaches
      <3>5. CASE script \in {"start", "stop"}
        <4>1. command \in {"start", "stop"}
          BY <3>5 DEF AtomInv
        <4>2. QED
          BY <4>1 DEF Reached
      <3>6. QED
        BY <1>1, <1>5, <3>1, <3>2, <3>3, <3>4, <3>5 DEF WayInv, Shape, Plain
    <2>4. QED
      BY <1>1, <2>1, <2>2, <2>3, StillReached, Without
  <1>6. QED
    BY <1>3, <1>4, <1>5

LEMMA AtomLine == ASSUME AtomInv, WayInv, ScriptStep PROVE AtomInv'
  <1>1. PICK op, s : Acts(op, s)
    BY ScriptStepActs DEF AtomInv, Basic
  <1>2. script # "none"
    BY <1>1 DEF Acts, Performs
  <1>3. script \in {"install", "undoInstall", "rollback", "undoRollback", "restore", "recover",
                    "uninstall", "start", "stop"}
    BY <1>2 DEF WayInv, Shape, Plain
  <1>4. QED
    BY <1>1, <1>3, InstallKeepsAtom, UndoKeepsAtom, RollbackKeepsAtom, UndoRollbackKeeps,
       RestoreKeepsAtom, RecoverKeepsAtom, UninstallKeepsAtom, StartStopKeeps

LEMMA AtomStill == ASSUME AtomInv, UNCHANGED vars PROVE AtomInv'
  <1>1. /\ UNCHANGED <<machine, found, command, given>>
        /\ script' = script /\ line' = line /\ sound' = sound /\ outcome' = outcome
    BY DEF vars
  <1>2. Basic'
    BY <1>1, BasicSame DEF AtomInv, Lost
  <1>3. /\ script = "install" => InstallBody'
        /\ script = "undoInstall" => UndoBody'
        /\ script = "rollback" => RollbackBody'
        /\ script = "undoRollback" => UndoRollbackBody'
    <2>1. script = "install" => InstallBody'
      BY <1>1 DEF AtomInv, InstallBody, InstallOf, Aside, Kept, NewPlist, Loaded, StartedFrom
    <2>2. script = "undoInstall" => UndoBody'
      BY <1>1 DEF AtomInv, UndoBody, InstallOf, Aside, UndoLinks, UndoFiles, UndoServices,
                  UndoFlags, Loaded, StartedFrom
    <2>3. script = "rollback" => RollbackBody'
      BY <1>1 DEF AtomInv, RollbackBody, RollbackOf, Around, Rebuilt, OldPlist, Loaded, StartedFrom
    <2>4. script = "undoRollback" => UndoRollbackBody'
      BY <1>1 DEF AtomInv, UndoRollbackBody, RollbackOf, Around, Rebuilt, Loaded, StartedFrom
    <2>5. QED
      BY <2>1, <2>2, <2>3, <2>4
  <1>4. /\ script = "restore" => RestoreBody'
        /\ script = "recover" => RecoverBody'
        /\ script = "uninstall" => UninstallBody'
    <2>1. script = "restore" => RestoreBody'
      BY <1>1 DEF AtomInv, RestoreBody, RestoreOf, Inside, Loaded
    <2>2. script = "recover" => RecoverBody'
      BY <1>1 DEF AtomInv, RecoverBody, RestoreOf, Inside, Loaded, StartedFrom
    <2>3. script = "uninstall" => UninstallBody'
      BY <1>1 DEF AtomInv, UninstallBody, Configured, Runs, Serves, Running, AtLogin, HasPlist,
                  Loaded, StartedFrom
    <2>4. QED
      BY <2>1, <2>2, <2>3
  <1>5. ScriptsAreAtomic'
    BY <1>1, StillReached, StillAsFound, StillContended DEF AtomInv, ScriptsAreAtomic
  <1>6. QED
    BY <1>1, <1>2, <1>3, <1>4, <1>5 DEF AtomInv

LEMMA AtomInit == Init => AtomInv
  <1> SUFFICES ASSUME Init PROVE AtomInv
    OBVIOUS
  <1>1. machine \in Machines /\ found = machine /\ script = "none" /\ outcome = "none"
    BY DEF Init
  <1>2. /\ machine = [link |-> [l \in Links |-> machine.link[l]],
                      file |-> [f \in Files |-> machine.file[f]], legacy |-> machine.legacy,
                      archives |-> machine.archives,
                      process |-> [s \in Services |-> machine.process[s]],
                      disabled |-> machine.disabled]
        /\ machine.legacy \in BOOLEAN
    BY <1>1, MachinesAssumption
  <1>3. machine.link = [l \in Links |-> machine.link[l]]
    BY <1>2
  <1>4. IsWhole(machine)
    BY <1>2, <1>3 DEF IsWhole, IsMachine
  <1>5. Proper(machine) /\ RunsEnabled(machine)
    BY <1>1, MachinesAssumption DEF Proper, RunsEnabled
  <1>6. Basic
    BY <1>1, <1>4, <1>5 DEF Basic
  <1>7. QED
    BY <1>1, <1>6 DEF AtomInv, ScriptsAreAtomic

LEMMA AtomHolds == Spec => []AtomInv
  <1>1. WayInv /\ AtomInv /\ [Next]_vars => AtomInv'
    <2> SUFFICES ASSUME WayInv, AtomInv, [Next]_vars PROVE AtomInv'
      OBVIOUS
    <2>1. CASE UNCHANGED vars
      BY <2>1, AtomStill
    <2>2. CASE Next
      BY <2>1, <2>2, AtomUser, AtomLine, AtomFinish, AtomSignal DEF Next, ScriptStep, Rest
    <2>3. QED
      BY <2>1, <2>2
  <1>2. QED
    BY <1>1, AtomInit, WayHolds, PTL DEF Spec

\* Every command that ends has done all of its work, or has left the machine as it found
\* it, or says that it has not: the trap of install-macos.sh, the recovery and the undo of
\* marian-edgectl put back the links, the files, the processes and the login items, on
\* every machine, wherever lines failed and signals fell, in any number.
THEOREM ScriptsAlwaysAtomic == Spec => []ScriptsAreAtomic
  <1>1. AtomInv => ScriptsAreAtomic
    BY DEF AtomInv
  <1>2. QED
    BY <1>1, AtomHolds, PTL

=============================================================================
