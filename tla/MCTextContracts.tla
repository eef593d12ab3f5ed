--------------------------- MODULE MCTextContracts ---------------------------
(* The texts that the updater and the watchdog trust, as they are and as a
   changed, truncated or garbled source may hand them over: everything within
   MaxEdits edits of a genuine one. *)

EXTENDS SteamMetadata, LauncherContract, PlayerAnswers, SequencesExt

CONSTANT MaxEdits

VARIABLES
    source,  \* which text it is
    text,    \* as it arrives
    edits    \* edits made to it

vars == <<source, text, edits>>

AppInfo == <<"380870", "{", "common", "{", "name", "pz", "}",
             "depots", "{", "branches", "{",
               "beta", "{", "buildid", "8", "}",
               "public", "{", "buildid", "7", "time", "9", "}",
             "}", "}", "}">>
Manifest == <<"AppState", "{", "appid", "380870", "StateFlags", "4",
              "buildid", "7", "UpdateResult", "0",
              "Config", "{", "StateFlags", "6", "buildid", "8", "}", "}">>
VmArgs == <<"other", "Xmx", "other">>
StartServer == <<"comment", "other", "if", "other", "game", "else",
                 "unsupported", "fi", "exit 0">>
Players == <<"no player", "one player", "two players">>

Sources ==
    {"app info", "manifest", "vmArgs", "start-server.sh", Players[1], Players[2], Players[3]}

Genuine == [s \in Sources |->
    CASE s = "app info" -> AppInfo
      [] s = "manifest" -> Manifest
      [] s = "vmArgs" -> VmArgs
      [] s = "start-server.sh" -> StartServer
      [] s = Players[1] -> <<"0 connected">>
      [] s = Players[2] -> <<"1 connected", "-name">>
      [] s = Players[3] -> <<"2 connected", "-name", "-name">>]

\* What an edit may put in.
Material(s) ==
    CASE s = "app info" -> {"{", "}", "380870", "branches", "public", "buildid", "8"}
      [] s = "manifest" -> {"{", "}", "AppState", "StateFlags", "UpdateResult", "6", "8"}
      [] s = "vmArgs" -> {"other", "Xmx", "Xms", "MaxHeap"}
      [] s = "start-server.sh" -> {"comment", "other", "exit"} \cup Range(Lifecycle)
      [] OTHER -> {"-name", "other"}

Init ==
    /\ source \in Sources
    /\ text = Genuine[source]
    /\ edits = 0

Edit(new) == edits < MaxEdits /\ text' = new /\ edits' = edits + 1 /\ UNCHANGED source

Lose == \E i \in DOMAIN text : Edit(RemoveAt(text, i))
Insert == \E i \in 1 .. Len(text) + 1, e \in Material(source) : Edit(InsertAt(text, i, e))
Replace ==
    \E i \in DOMAIN text, e \in Material(source) :
        Edit([text EXCEPT ![i] = e])
\* The output breaks off.
Truncate == \E i \in 1 .. Len(text) - 1 : Edit(SubSeq(text, 1, i))

Next == Lose \/ Insert \/ Replace \/ Truncate

Spec == Init /\ [][Next]_vars

-----------------------------------------------------------------------------
(* The texts read without a parser: by the braces open at a position. *)

Start(root) == FirstRoot(text, root) + 1

\* The sections a position is in, below the root; <<"none">> outside it.
Within(root, before, j) ==
    IF before = <<"none">> THEN before
    ELSE IF text[j - 1] = "{" /\ j - 1 > Start(root) THEN Append(before, text[j - 2])
    ELSE IF text[j - 1] = "}" THEN IF before = <<>> THEN <<"none">> ELSE Front(before)
    ELSE before

Sections(root) ==
    LET in[j \in 1 .. Len(text)] ==
          IF j <= Start(root) THEN <<>> ELSE Within(root, in[j - 1], j)
    IN in

\* Names and values alternate between braces.
Names(root) ==
    LET name[k \in 1 .. Len(text)] ==
          \/ k = Start(root) + 1
          \/ k > Start(root) /\ (text[k - 1] \in {"{", "}"} \/ ~name[k - 1])
    IN name

Reads(root, path, key) ==
    {text[j + 1] : j \in {k \in Start(root) + 1 .. Len(text) - 1 :
                            /\ text[k] = key /\ Sections(root)[k] = path
                            /\ Names(root)[k]}}

\* A closing brace in the place of a value, which may as well be a string, is
\* one to the parser, and moves what follows it.
BraceAsValue(root) == \E p \in ParseRoot(text, root).texts : p[2] = "}"

\* A build is accepted only where the braces put it, alone under its name: the
\* branch's own in Steam's answer, and in a manifest the app's, fully installed
\* (core.py:337, 351), whatever is missing, repeated or misplaced.
MetadataRead ==
    /\ source = "app info" /\ AppInfoBuild(text, "380870", "public") # {} =>
          \/ BraceAsValue("380870")
          \/ AppInfoBuild(text, "380870", "public")
               = Reads("380870", <<"depots", "branches", "public">>, "buildid")
    /\ source = "manifest" /\ InstalledBuild(text, "380870") # {} =>
          \/ BraceAsValue("AppState")
          \/ /\ Reads("AppState", <<>>, "appid") = {"380870"}
             /\ Reads("AppState", <<>>, "StateFlags") = {"4"}
             /\ Reads("AppState", <<>>, "UpdateResult") \subseteq {"0"}
             /\ Reads("AppState", <<>>, "buildid") = InstalledBuild(text, "380870")

-----------------------------------------------------------------------------
(* The rewritten files, executed. *)

\* What a line of the script does, if Java answers or not and the game ends with a
\* status.
Execute(s, line, java, game) ==
    IF s.exit # "none" THEN s
    ELSE IF line = "if" THEN [s EXCEPT !.skip = ~java]
    ELSE IF line = "else" THEN [s EXCEPT !.skip = java]
    ELSE IF line = "fi" THEN [s EXCEPT !.skip = FALSE]
    ELSE IF s.skip \/ line = "comment" THEN s
    ELSE CASE line = "game" -> [s EXCEPT !.last = game]
           [] line = "code=$?" -> [s EXCEPT !.code = s.last, !.last = 0]
           [] line = "exit 1" -> [s EXCEPT !.exit = "one"]
           [] line = "exit code" -> [s EXCEPT !.exit = IF s.code = 0 THEN "zero" ELSE "one"]
           [] line = "exit" -> [s EXCEPT !.exit = "one", !.own = TRUE]
           [] OTHER -> [s EXCEPT !.last = 0]

Begin == [skip |-> FALSE, last |-> 0, code |-> 0, exit |-> "none", own |-> FALSE]

Runs(lines, java, game) ==
    LET run[i \in 0 .. Len(lines)] ==
          IF i = 0 THEN Begin ELSE Execute(run[i - 1], lines[i], java, game)
    IN run

After(lines, java, game) == Runs(lines, java, game)[Len(lines)]

\* An accepted start-server.sh ends with the status of the game, and with an
\* error without 64 bit, unless an exit of its own cuts it short
\* (docs/architecture.md:38, core.py:541).
StatusPreserved ==
    source = "start-server.sh" /\ WrapperAccepted(text) =>
        \A java \in BOOLEAN, game \in {0, 1} :
            LET end == After(StatusPreserving(text), java, game)
            IN end.own \/ end.exit = (IF java /\ game = 0 THEN "zero" ELSE "one")

\* The JVM takes the last flag of a kind.
LastOf(args, kinds) ==
    LET at == {i \in DOMAIN args : args[i] \in kinds}
    IN IF at = {} THEN "none" ELSE args[CHOOSE i \in at : \A j \in at : j <= i]

\* Accepted arguments give the JVM the configured sizes and no other, unless a
\* limit in a spelling the patterns do not know follows (docs/architecture.md:36,
\* core.py:511).
HeapConfigured ==
    source = "vmArgs" /\ HeapRecognised(text) =>
        LET args == ConfiguredArguments(text)
        IN /\ LastOf(args, {"Xms", "configured Xms"}) = "configured Xms"
           /\ LastOf(args, {"Xmx", "MaxHeap", "configured Xmx"}) \in {"configured Xmx", "MaxHeap"}

\* What the updater installs starts as configured and ends as the game does: both
\* of the above, of every file that it accepts.
LaunchContract == StatusPreserved /\ HeapConfigured

-----------------------------------------------------------------------------
\* A response that lost lines or has others among them gives the number of
\* players it was sent with, or none: a lost line never makes players disappear
\* (rcon.py:65).
CountKept ==
    \A n \in 1 .. 3 : source = Players[n] => Count(text) \subseteq {n - 1}
=============================================================================
