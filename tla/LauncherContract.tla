--------------------------- MODULE LauncherContract ---------------------------
(* How the updater rewrites the two files of a candidate that start the game,
   and what it refuses: the arguments of the JVM in ProjectZomboid64.json, and
   start-server.sh.  An argument or a line is represented by what the patterns
   of LauncherValidator tell of it. *)

EXTENDS Sequences, FiniteSets, Integers

Places(s, kind) == {i \in DOMAIN s : s[i] = kind}
Only(s, kind) == CHOOSE i \in DOMAIN s : s[i] = kind
InsertBefore(s, i, e) == SubSeq(s, 1, i - 1) \o <<e>> \o SubSeq(s, i, Len(s))

\* "Xmx" and "Xms" are flags in a spelling the patterns know; "MaxHeap" is the
\* limit in another one; "configured" flags are the ones written.
HeapRecognised(args) ==
    Cardinality(Places(args, "Xms")) <= 1 /\ Cardinality(Places(args, "Xmx")) = 1

ConfiguredArguments(args) ==
    LET limit == Only(args, "Xmx")
        limited == [args EXCEPT ![limit] = "configured Xmx"]
    IN IF Places(args, "Xms") = {} THEN InsertBefore(limited, limit, "configured Xms")
       ELSE [limited EXCEPT ![Only(args, "Xms")] = "configured Xms"]

-----------------------------------------------------------------------------
\* The lines whose number and order are required: the probe of Java, the game,
\* the branch without 64 bit, and the exit that ends the script.
Lifecycle == <<"if", "game", "else", "unsupported", "fi", "exit 0">>

WrapperAccepted(lines) ==
    /\ \A n \in DOMAIN Lifecycle : Cardinality(Places(lines, Lifecycle[n])) = 1
    /\ \A n \in 1 .. Len(Lifecycle) - 1 :
          Only(lines, Lifecycle[n]) < Only(lines, Lifecycle[n + 1])
    /\ \A i \in Only(lines, "exit 0") + 1 .. Len(lines) : lines[i] = "comment"

\* Mutation of StatusPreserving: the status is taken where it is used.
StatusTakenLate(lines) ==
    LET changed == [lines EXCEPT ![Only(lines, "unsupported")] = "exit 1",
                                 ![Only(lines, "exit 0")] = "exit code"]
    IN InsertBefore(changed, Only(lines, "exit 0"), "code=$?")

\* PZ_EXIT_CODE=$? right after the game, and exit with it.
StatusPreserving(lines) ==
    LET changed == [lines EXCEPT ![Only(lines, "unsupported")] = "exit 1",
                                 ![Only(lines, "exit 0")] = "exit code"]
    IN InsertBefore(changed, Only(lines, "game") + 1, "code=$?")
=============================================================================
