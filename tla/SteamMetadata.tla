---------------------------- MODULE SteamMetadata ----------------------------
(* What the updater reads out of Valve's text format: the build of a branch in
   the output of steamcmd's app_info_print, and the installed build in an app
   manifest.  A text is the sequence of tokens of _vdf_tokens, which drops the
   quotes: a string that is a brace is a brace from then on.

   An object is what its members say: names (without duplicates), and each text
   under the path of names that leads to it. *)

EXTENDS Sequences, Integers

Rejected == [ok |-> FALSE]

\* A member's name, followed by what it contributes and the rest of the object.
\* Mutation of WithRest: the last member of a name counts.
WithRestAnyway(key, texts, rest) ==
    IF ~rest.ok THEN Rejected
    ELSE [rest EXCEPT !.keys = @ \cup {key},
                      !.texts = @ \cup {p \in texts : key \notin rest.keys}]

WithRest(key, texts, rest) ==
    IF ~rest.ok THEN Rejected
    ELSE IF key \in rest.keys THEN Rejected
    ELSE [rest EXCEPT !.keys = @ \cup {key}, !.texts = @ \cup texts]

\* What follows position i in an object, given what follows the later ones.
Member(t, members, i) ==
    IF i > Len(t) THEN Rejected
    ELSE IF t[i] = "}" THEN [ok |-> TRUE, next |-> i + 1, keys |-> {}, texts |-> {}]
    ELSE IF t[i] = "{" \/ i = Len(t) THEN Rejected
    ELSE IF t[i + 1] # "{"
         THEN WithRest(t[i], {<<<<t[i]>>, t[i + 1]>>}, members[i + 2])
    ELSE LET inner == members[i + 2]
         IN IF ~inner.ok THEN Rejected
            ELSE WithRest(t[i], {<<<<t[i]>> \o p[1], p[2]>> : p \in inner.texts},
                          members[inner.next])

Members(t) == LET members[i \in 1 .. Len(t) + 1] == Member(t, members, i) IN members

\* The object whose opening brace stands before position from, and the position
\* after its closing brace.
ParseObject(t, from) == Members(t)[from]

\* Only the first place that looks like the root is tried.
Roots(t, root) == {i \in 1 .. Len(t) - 1 : t[i] = root /\ t[i + 1] = "{"}
FirstRoot(t, root) == CHOOSE i \in Roots(t, root) : \A j \in Roots(t, root) : i <= j

ParseRoot(t, root) ==
    IF Roots(t, root) = {} THEN Rejected ELSE ParseObject(t, FirstRoot(t, root) + 2)

\* The text under a path, if there is one: none if it is missing or an object.
NestedString(object, path) == {p[2] : p \in {q \in object.texts : q[1] = path}}

\* isdecimal and positive.
Builds == {"7", "8"}

AppInfoBuild(t, app, branch) ==
    LET object == ParseRoot(t, app)
    IN IF ~object.ok THEN {}
       ELSE NestedString(object, <<"depots", "branches", branch, "buildid">>) \cap Builds

InstalledBuild(t, app) ==
    LET object == ParseRoot(t, "AppState")
    IN IF \/ ~object.ok
          \/ NestedString(object, <<"appid">>) # {app}
          \/ NestedString(object, <<"StateFlags">>) # {"4"}
          \/ "UpdateResult" \in object.keys /\ NestedString(object, <<"UpdateResult">>) # {"0"}
       THEN {}
       ELSE NestedString(object, <<"buildid">>) \cap Builds
=============================================================================
