------------------------ MODULE TextContractsProofs ------------------------
(***************************************************************************)
(* Proofs about the texts that the updater and the watchdog read, for      *)
(* texts of every length and any number of edits: what Valve's parser      *)
(* accepts is where the braces put it, the rewritten launcher starts as    *)
(* configured and ends as the game does, and players never disappear from  *)
(* a response.  The definitions by recursion over a text are proved about  *)
(* through least counterexamples (Least), which need no induction theorem. *)
(***************************************************************************)
EXTENDS MCTextContracts, WellFoundedInduction, FiniteSetTheorems, SequenceTheorems, TLAPS

\* A set of numbers has a least one: what follows by induction over the lines or
\* the positions of a text is proved from it.
LEMMA Least ==
    ASSUME NEW S, S \subseteq Nat, S # {}
    PROVE  \E m \in S : \A n \in S : m <= n
  <1>1. PICK m \in S : \A y \in S : ~(<<y, m>> \in OpToRel(<, Nat))
    BY WFMin, NatLessThanWellFounded, Zenon
  <1>2. \A n \in S : ~(n < m)
    BY <1>1 DEF OpToRel
  <1> QED BY <1>2

\* A set with 0 and with every successor holds all numbers up to n.
LEMMA Upwards ==
    ASSUME NEW n \in Nat, NEW S, 0 \in S, \A i \in 1 .. n : i - 1 \in S => i \in S
    PROVE  0 .. n \subseteq S
  <1> DEFINE Bad == (0 .. n) \ S
  <1> SUFFICES ASSUME Bad # {} PROVE FALSE
    OBVIOUS
  <1>1. PICK m \in Bad : \A i \in Bad : m <= i
    <2> HIDE DEF Bad
    <2>1. Bad \subseteq Nat
      BY DEF Bad
    <2> QED BY <2>1, Least
  <1>2. m \in 1 .. n /\ m - 1 \in 0 .. n /\ ~(m - 1 \in Bad)
    BY <1>1
  <1> QED BY <1>2

\* A set that holds a number whenever it holds the later ones up to n holds them all.
LEMMA Downwards ==
    ASSUME NEW n \in Nat, NEW S,
           \A i \in 1 .. n : i + 1 .. n \subseteq S => i \in S
    PROVE  1 .. n \subseteq S
  <1> DEFINE Bad == {i \in 0 .. n : n - i \in (1 .. n) \ S}
  <1> SUFFICES ASSUME NEW k \in 1 .. n, k \notin S PROVE FALSE
    OBVIOUS
  <1>1. n - k \in Bad
    OBVIOUS
  <1>2. PICK m \in Bad : \A i \in Bad : m <= i
    <2> HIDE DEF Bad
    <2>1. Bad \subseteq Nat
      BY DEF Bad
    <2> QED BY <2>1, <1>1, Least
  <1>3. ASSUME NEW j \in (n - m) + 1 .. n PROVE j \in S
    <2>1. n - j \notin Bad
      BY <1>2
    <2> QED BY <2>1
  <1> QED BY <1>3

\* What a definition by recursion along 1 .. n says of a function.
Follows(f, base, step, n) ==
    f[0] = base /\ \A i \in 1 .. n : f[i] = step[<<f[i - 1], i>>]

\* There is a function that follows a definition by recursion along 1 .. n.
LEMMA Recursion ==
    ASSUME NEW S, NEW base \in S, NEW step \in [S \X Nat -> S], NEW n \in Nat
    PROVE  \E f \in [0 .. n -> S] : Follows(f, base, step, n)
  <1> DEFINE Goal(m) == \E f \in [0 .. m -> S] :
                  f[0] = base /\ \A i \in 1 .. m : f[i] = step[<<f[i - 1], i>>]
             Good == {m \in 0 .. n : Goal(m)}
  <1>1. Goal(0)
    <2> DEFINE g == [i \in 0 .. 0 |-> base]
    <2>1. g \in [0 .. 0 -> S] /\ g[0] = base
      OBVIOUS
    <2> HIDE DEF g
    <2> QED BY <2>1
  <1>2. ASSUME NEW m \in 1 .. n, Goal(m - 1) PROVE Goal(m)
    <2>1. PICK f \in [0 .. m - 1 -> S] :
             f[0] = base /\ \A i \in 1 .. m - 1 : f[i] = step[<<f[i - 1], i>>]
      BY <1>2
    <2> DEFINE g == [i \in 0 .. m |-> IF i = m THEN step[<<f[m - 1], m>>] ELSE f[i]]
    <2>2. g \in [0 .. m -> S]
      BY <2>1
    <2>3. \A i \in 0 .. m - 1 : g[i] = f[i]
      OBVIOUS
    <2>4. \A i \in 1 .. m : g[i] = step[<<g[i - 1], i>>]
      <3>1. ASSUME NEW i \in 1 .. m - 1 PROVE g[i] = step[<<g[i - 1], i>>]
        <4>1. g[i] = f[i] /\ g[i - 1] = f[i - 1]
          BY <2>3
        <4> HIDE DEF g
        <4> QED BY <4>1, <2>1
      <3>2. g[m] = step[<<g[m - 1], m>>]
        <4>1. g[m] = step[<<f[m - 1], m>>]
          OBVIOUS
        <4>2. g[m - 1] = f[m - 1]
          BY <2>3
        <4> HIDE DEF g
        <4> QED BY <4>1, <4>2
      <3> HIDE DEF g
      <3> QED BY <3>1, <3>2
    <2>5. g[0] = base
      BY <2>1
    <2> HIDE DEF g
    <2> QED BY <2>2, <2>4, <2>5
  <1> HIDE DEF Goal
  <1>3. 0 \in Good /\ \A i \in 1 .. n : i - 1 \in Good => i \in Good
    BY <1>1, <1>2
  <1> HIDE DEF Good
  <1>4. n \in Good
    BY <1>3, Upwards
  <1> QED BY <1>4 DEF Good, Goal, Follows

-----------------------------------------------------------------------------
(* What may be in a text *)

AppInfoWords == {"380870", "{", "}", "common", "name", "pz", "depots", "branches", "beta",
                 "buildid", "8", "public", "7", "time", "9"}
ManifestWords == {"AppState", "{", "}", "appid", "380870", "StateFlags", "4", "buildid",
                  "7", "UpdateResult", "0", "Config", "6", "8"}
ArgumentWords == {"other", "Xmx", "Xms", "MaxHeap"}
ScriptWords ==
    {"comment", "other", "exit", "if", "game", "else", "unsupported", "fi", "exit 0"}
PlayerWords(header) == {header, "-name", "other"}

Words(s) ==
    CASE s = "app info" -> AppInfoWords
      [] s = "manifest" -> ManifestWords
      [] s = "vmArgs" -> ArgumentWords
      [] s = "start-server.sh" -> ScriptWords
      [] s = "no player" -> PlayerWords("0 connected")
      [] s = "one player" -> PlayerWords("1 connected")
      [] s = "two players" -> PlayerWords("2 connected")

TextInv == source \in Sources /\ text \in Seq(Words(source))

\* The texts by name.
LEMMA SourceNames ==
    /\ Players[1] = "no player" /\ Players[2] = "one player" /\ Players[3] = "two players"
    /\ Sources = {"app info", "manifest", "vmArgs", "start-server.sh",
                  "no player", "one player", "two players"}
  BY DEF Players, Sources

\* The words of each text.
LEMMA WordsOfSources ==
    /\ Words("app info") = AppInfoWords
    /\ Words("manifest") = ManifestWords
    /\ Words("vmArgs") = ArgumentWords
    /\ Words("start-server.sh") = ScriptWords
    /\ Words("no player") = PlayerWords("0 connected")
    /\ Words("one player") = PlayerWords("1 connected")
    /\ Words("two players") = PlayerWords("2 connected")
  BY Zenon DEF Words

\* A genuine text is made of its words (steamcmd, Valve's manifest, the launcher
\* files and the players command of RCON).
LEMMA GenuineWords == \A s \in Sources : Genuine[s] \in Seq(Words(s))
  <1>1. /\ Genuine["app info"] = AppInfo
        /\ Genuine["manifest"] = Manifest
        /\ Genuine["vmArgs"] = VmArgs
        /\ Genuine["start-server.sh"] = StartServer
        /\ Genuine["no player"] = <<"0 connected">>
        /\ Genuine["one player"] = <<"1 connected", "-name">>
        /\ Genuine["two players"] = <<"2 connected", "-name", "-name">>
    BY SourceNames, Zenon DEF Genuine
  <1>2. AppInfo \in Seq(AppInfoWords)
    BY SMTT(60) DEF AppInfo, AppInfoWords
  <1>3. Manifest \in Seq(ManifestWords)
    BY SMTT(60) DEF Manifest, ManifestWords
  <1>4. VmArgs \in Seq(ArgumentWords)
    BY DEF VmArgs, ArgumentWords
  <1>5. StartServer \in Seq(ScriptWords)
    BY SMTT(60) DEF StartServer, ScriptWords
  <1>6. /\ <<"0 connected">> \in Seq(PlayerWords("0 connected"))
        /\ <<"1 connected", "-name">> \in Seq(PlayerWords("1 connected"))
        /\ <<"2 connected", "-name", "-name">> \in Seq(PlayerWords("2 connected"))
    BY DEF PlayerWords
  <1> QED BY <1>1, <1>2, <1>3, <1>4, <1>5, <1>6, WordsOfSources, SourceNames

\* The elements of a sequence.
LEMMA SequenceRange ==
    ASSUME NEW W, NEW q \in Seq(W)
    PROVE  Range(q) \subseteq W
  <1> SUFFICES ASSUME NEW v \in Range(q) PROVE v \in W
    OBVIOUS
  <1>1. PICK i \in DOMAIN q : v = q[i]
    BY Zenon DEF Range
  <1> QED BY <1>1

\* An edit puts in words that may be in the text.
LEMMA MaterialWords == \A s \in Sources : Material(s) \subseteq Words(s)
  <1>1. Range(Lifecycle) \subseteq ScriptWords
    <2>1. Lifecycle \in Seq(ScriptWords)
      BY DEF Lifecycle, ScriptWords
    <2> QED BY <2>1, SequenceRange, Zenon
  <1>2. /\ Material("app info") = {"{", "}", "380870", "branches", "public", "buildid", "8"}
        /\ Material("manifest")
             = {"{", "}", "AppState", "StateFlags", "UpdateResult", "6", "8"}
        /\ Material("vmArgs") = {"other", "Xmx", "Xms", "MaxHeap"}
        /\ Material("start-server.sh") = {"comment", "other", "exit"} \cup Range(Lifecycle)
        /\ Material("no player") = {"-name", "other"}
        /\ Material("one player") = {"-name", "other"}
        /\ Material("two players") = {"-name", "other"}
    BY Zenon DEF Material
  <1>3. /\ Material("app info") \subseteq AppInfoWords
        /\ Material("manifest") \subseteq ManifestWords
        /\ Material("vmArgs") \subseteq ArgumentWords
    BY <1>2 DEF AppInfoWords, ManifestWords, ArgumentWords
  <1>4. Material("start-server.sh") \subseteq ScriptWords
    BY <1>1, <1>2 DEF ScriptWords
  <1>5. \A header : {"-name", "other"} \subseteq PlayerWords(header)
    BY DEF PlayerWords
  <1>6. /\ Material("no player") \subseteq PlayerWords("0 connected")
        /\ Material("one player") \subseteq PlayerWords("1 connected")
        /\ Material("two players") \subseteq PlayerWords("2 connected")
    BY <1>2, <1>5, Zenon
  <1> QED BY <1>3, <1>4, <1>6, WordsOfSources, SourceNames

\* Whatever edits are made, how many there are and where, a text is made of its own
\* words: the bound on edits is not needed for what follows.
THEOREM TextInvariance == Spec => []TextInv
  <1>1. Init => TextInv
    BY GenuineWords DEF Init, TextInv
  <1>2. TextInv /\ [Next]_vars => TextInv'
    <2> SUFFICES ASSUME TextInv, [Next]_vars PROVE TextInv'
      OBVIOUS
    <2> DEFINE W == Words(source)
    <2>1. text \in Seq(W) /\ Material(source) \subseteq W /\ source \in Sources
      BY MaterialWords DEF TextInv
    <2> HIDE DEF W
    <2>2. CASE Lose
      <3>1. PICK i \in DOMAIN text : text' = RemoveAt(text, i) /\ source' = source
        BY <2>2 DEF Lose, Edit
      <3>2. RemoveAt(text, i) \in Seq(W)
        BY <2>1 DEF RemoveAt
      <3> QED BY <3>1, <3>2 DEF TextInv, W
    <2>3. CASE Insert
      <3>1. PICK i \in 1 .. Len(text) + 1, e \in Material(source) :
               text' = InsertAt(text, i, e) /\ source' = source
        BY <2>3 DEF Insert, Edit
      <3>2. InsertAt(text, i, e) \in Seq(W)
        BY <2>1 DEF InsertAt
      <3> QED BY <3>1, <3>2 DEF TextInv, W
    <2>4. CASE Replace
      <3>1. PICK i \in DOMAIN text, e \in Material(source) :
               text' = [text EXCEPT ![i] = e] /\ source' = source
        BY <2>4 DEF Replace, Edit
      <3>2. [text EXCEPT ![i] = e] \in Seq(W)
        BY <2>1
      <3> QED BY <3>1, <3>2 DEF TextInv, W
    <2>5. CASE Truncate
      <3>1. PICK i \in 1 .. Len(text) - 1 : text' = SubSeq(text, 1, i) /\ source' = source
        BY <2>5 DEF Truncate, Edit
      <3> QED BY <3>1 DEF TextInv
    <2>6. CASE UNCHANGED vars
      BY <2>6 DEF vars, TextInv
    <2> QED BY <2>2, <2>3, <2>4, <2>5, <2>6 DEF Next
  <1> QED BY <1>1, <1>2, PTL DEF Spec

-----------------------------------------------------------------------------
(* The number of players *)

\* parse_player_count answers what the first line says, or nothing.
LEMMA CountIsHeader ==
    ASSUME NEW lines, lines # <<>>
    PROVE  Count(lines) \subseteq {Headers[lines[1]]}
  BY DEF Count

\* An empty response has no header (rcon.py:67).
LEMMA CountOfNothing == Count(<<>>) = {}
  BY DEF Count

\* However many lines of a response are lost, replaced or inserted, the watchdog
\* reads the number of players it was sent with or none: players never disappear
\* (rcon.py:65).
THEOREM PlayersKept == Spec => []CountKept
  <1>1. TextInv => CountKept
    <2> SUFFICES ASSUME TextInv, NEW n \in 1 .. 3, source = Players[n]
                 PROVE  Count(text) \subseteq {n - 1}
      BY DEF CountKept
    <2>1. PICK header : /\ text \in Seq(PlayerWords(header))
                        /\ header \in DOMAIN Headers /\ Headers[header] = n - 1
      <3>1. CASE n = 1
        <4>1. text \in Seq(PlayerWords("0 connected"))
          BY <3>1, SourceNames, WordsOfSources, Zenon DEF TextInv
        <4>2. "0 connected" \in DOMAIN Headers /\ Headers["0 connected"] = n - 1
          BY <3>1 DEF Headers
        <4> QED BY <4>1, <4>2
      <3>2. CASE n = 2
        <4>1. text \in Seq(PlayerWords("1 connected"))
          BY <3>2, SourceNames, WordsOfSources, Zenon DEF TextInv
        <4>2. "1 connected" \in DOMAIN Headers /\ Headers["1 connected"] = n - 1
          BY <3>2 DEF Headers
        <4> QED BY <4>1, <4>2
      <3>3. CASE n = 3
        <4>1. text \in Seq(PlayerWords("2 connected"))
          BY <3>3, SourceNames, WordsOfSources, Zenon DEF TextInv
        <4>2. "2 connected" \in DOMAIN Headers /\ Headers["2 connected"] = n - 1
          BY <3>3 DEF Headers
        <4> QED BY <4>1, <4>2
      <3> QED BY <3>1, <3>2, <3>3
    <2>2. CASE text = <<>>
      BY <2>2, CountOfNothing
    <2>3. CASE text # <<>> /\ text[1] = header
      BY <2>1, <2>3, CountIsHeader
    <2>4. CASE text # <<>> /\ text[1] # header
      <3>1. text[1] \in {"-name", "other"}
        <4>1. text[1] \in PlayerWords(header)
          BY <2>1, <2>4
        <4> QED BY <4>1, <2>4 DEF PlayerWords
      <3>2. Count(text) = {}
        BY <3>1 DEF Count, Headers
      <3> QED BY <3>2
    <2> QED BY <2>2, <2>3, <2>4
  <1> QED BY <1>1, TextInvariance, PTL

-----------------------------------------------------------------------------
(* The arguments of the JVM *)

\* A set of positions has a greatest one.
LEMMA Greatest ==
    ASSUME NEW n \in Nat, NEW S, S \subseteq 1 .. n, S # {}
    PROVE  \E m \in S : \A i \in S : i <= m
  <1> DEFINE T == {i \in 0 .. n : n - i \in S}
  <1>1. T \subseteq Nat
    OBVIOUS
  <1>2. T # {}
    <2>1. PICK k \in S : TRUE
      OBVIOUS
    <2>2. n - k \in T
      BY <2>1
    <2> QED BY <2>2
  <1>3. PICK m \in T : \A i \in T : m <= i
    <2> HIDE DEF T
    <2> QED BY <1>1, <1>2, Least
  <1>4. ASSUME NEW k \in S PROVE k <= n - m
    <2>1. n - k \in T
      OBVIOUS
    <2>2. m <= n - k /\ m \in Int /\ k \in Int
      BY <2>1, <1>3
    <2> QED BY <2>2
  <1> QED BY <1>4

\* The only place of a line that occurs once.
LEMMA OnlyPlace ==
    ASSUME NEW W, NEW q \in Seq(W), NEW kind, Cardinality(Places(q, kind)) = 1
    PROVE  /\ Only(q, kind) \in 1 .. Len(q) /\ q[Only(q, kind)] = kind
           /\ \A i \in 1 .. Len(q) : q[i] = kind => i = Only(q, kind)
  <1>1. IsFiniteSet(Places(q, kind))
    <2>1. IsFiniteSet(1 .. Len(q))
      BY FS_Interval
    <2>2. Places(q, kind) \subseteq 1 .. Len(q)
      BY DEF Places
    <2> QED BY <2>1, <2>2, FS_Subset
  <1>2. PICK p : Places(q, kind) = {p}
    BY <1>1, FS_Singleton
  <1>3. p \in DOMAIN q /\ q[p] = kind /\ \A i \in DOMAIN q : q[i] = kind => i = p
    BY <1>2 DEF Places
  <1>4. Only(q, kind) = p
    BY <1>3 DEF Only
  <1> QED BY <1>3, <1>4

\* A line that occurs, and not more than once, occurs once.
LEMMA OneOrNone ==
    ASSUME NEW W, NEW q \in Seq(W), NEW kind, Cardinality(Places(q, kind)) <= 1,
           Places(q, kind) # {}
    PROVE  Cardinality(Places(q, kind)) = 1
  <1>1. IsFiniteSet(Places(q, kind))
    <2>1. IsFiniteSet(1 .. Len(q))
      BY FS_Interval
    <2>2. Places(q, kind) \subseteq 1 .. Len(q)
      BY DEF Places
    <2> QED BY <2>1, <2>2, FS_Subset
  <1> QED BY <1>1, FS_EmptySet, FS_CardinalityType

\* A sequence with another element before position i.
Insertion(new, W, q, i, e) ==
    /\ new \in Seq(W) /\ Len(new) = Len(q) + 1
    /\ \A j \in 1 .. i - 1 : new[j] = q[j]
    /\ new[i] = e
    /\ \A j \in i .. Len(q) : new[j + 1] = q[j]

\* The first i elements, with a new one as their last, and the elements from i on.
LEMMA Joined ==
    ASSUME NEW W, NEW q \in Seq(W), NEW i \in 1 .. Len(q) + 1, NEW e \in W,
           NEW head \in Seq(W), Len(head) = i, head[i] = e,
           \A j \in 1 .. i - 1 : head[j] = q[j],
           NEW back \in Seq(W), Len(back) = Len(q) - i + 1,
           \A j \in 1 .. Len(q) - i + 1 : back[j] = q[i + j - 1]
    PROVE  Insertion(head \o back, W, q, i, e)
  <1>1. Len(head \o back) = Len(head) + Len(back)
    BY ConcatProperties, Zenon
  <1>2. \A j \in i .. Len(q) : (head \o back)[j + 1] = back[j + 1 - i]
    OBVIOUS
  <1>3. i \in 1 .. i
    OBVIOUS
  <1> QED BY <1>2, <1>3, <1>1 DEF Insertion

\* What InsertBefore does to a sequence.
LEMMA Inserted ==
    ASSUME NEW W, NEW q \in Seq(W), NEW i \in 1 .. Len(q) + 1, NEW e \in W
    PROVE  Insertion(InsertBefore(q, i, e), W, q, i, e)
  <1> DEFINE front == SubSeq(q, 1, i - 1)
             head == front \o <<e>>
             back == SubSeq(q, i, Len(q))
  <1>1. /\ front \in Seq(W) /\ Len(front) = i - 1
        /\ \A j \in 1 .. i - 1 : front[j] = q[j]
    OBVIOUS
  <1>2. /\ back \in Seq(W) /\ Len(back) = Len(q) - i + 1
        /\ \A j \in 1 .. Len(q) - i + 1 : back[j] = q[i + j - 1]
    OBVIOUS
  <1>3. /\ head \in Seq(W) /\ Len(head) = i /\ head[i] = e
        /\ \A j \in 1 .. i - 1 : head[j] = q[j]
    <2> HIDE DEF front
    <2> QED BY <1>1
  <1>4. InsertBefore(q, i, e) = head \o back
    BY Zenon DEF InsertBefore
  <1> HIDE DEF front, head, back
  <1>5. Insertion(head \o back, W, q, i, e)
    BY <1>2, <1>3, Joined, Zenon
  <1> QED BY <1>4, <1>5, Zenon

\* A sequence with another element at position p.
Replacement(new, W, q, p, e) ==
    /\ new \in Seq(W) /\ Len(new) = Len(q) /\ new[p] = e
    /\ \A i \in 1 .. Len(q) : i # p => new[i] = q[i]

\* What an assignment does to a sequence.
LEMMA Replaced ==
    ASSUME NEW W, NEW q \in Seq(W), NEW p \in 1 .. Len(q), NEW e \in W
    PROVE  Replacement([q EXCEPT ![p] = e], W, q, p, e)
  BY DEF Replacement

\* The last flag of some kinds, where there is one, is one of them.
LEMMA LastOfKinds ==
    ASSUME NEW W, NEW q \in Seq(W), NEW kinds, \E i \in 1 .. Len(q) : q[i] \in kinds
    PROVE  \E i \in 1 .. Len(q) : q[i] \in kinds /\ LastOf(q, kinds) = q[i]
  <1> DEFINE at == {i \in DOMAIN q : q[i] \in kinds}
  <1>1. at \subseteq 1 .. Len(q) /\ at # {} /\ Len(q) \in Nat
    OBVIOUS
  <1>2. \E i \in at : \A j \in at : j <= i
    <2> HIDE DEF at
    <2> QED BY <1>1, Greatest
  <1> DEFINE last == CHOOSE i \in at : \A j \in at : j <= i
  <1>3. last \in at
    BY <1>2
  <1>4. LastOf(q, kinds) = q[last]
    BY <1>1, Zenon DEF LastOf
  <1> QED BY <1>1, <1>3, <1>4

\* A sequence without the flags of the file, in which both of the configured ones are.
OnlyConfigured(new, W, gone, floor, limit) ==
    /\ new \in Seq(W)
    /\ \A i \in 1 .. Len(new) : new[i] \notin gone
    /\ \E i \in 1 .. Len(new) : new[i] = floor
    /\ \E i \in 1 .. Len(new) : new[i] = limit

\* The floor is added before it.
LEMMA FlagAdded ==
    ASSUME NEW W, NEW q \in Seq(W), NEW gone, NEW floor \in W, NEW limit,
           floor \notin gone, \A i \in 1 .. Len(q) : q[i] \notin gone,
           NEW p \in 1 .. Len(q), q[p] = limit
    PROVE  OnlyConfigured(InsertBefore(q, p, floor), W, gone, floor, limit)
  <1> DEFINE new == InsertBefore(q, p, floor)
  <1>1. p \in 1 .. Len(q) + 1
    OBVIOUS
  <1>2. Insertion(new, W, q, p, floor)
    BY <1>1, Inserted, Zenon
  <1> HIDE DEF new
  <1>3. ASSUME NEW j \in 1 .. Len(new) PROVE new[j] \notin gone
    <2>1. CASE j \in 1 .. p - 1
      BY <2>1, <1>2 DEF Insertion
    <2>2. CASE j = p
      BY <2>2, <1>2 DEF Insertion
    <2>3. CASE j - 1 \in p .. Len(q)
      <3>1. new[(j - 1) + 1] = q[j - 1] /\ (j - 1) + 1 = j
        BY <2>3, <1>2 DEF Insertion
      <3> QED BY <3>1, <2>3
    <2> QED BY <2>3, <1>2 DEF Insertion
  <1>4. new[p + 1] = limit /\ p \in 1 .. Len(new) /\ p + 1 \in 1 .. Len(new)
    BY <1>2 DEF Insertion
  <1>5. OnlyConfigured(new, W, gone, floor, limit)
    BY <1>2, <1>3, <1>4, Zenon DEF OnlyConfigured, Insertion
  <1> QED BY <1>5 DEF new

\* The floor is replaced.
LEMMA FlagReplaced ==
    ASSUME NEW W, NEW q \in Seq(W), NEW gone, NEW floor \in W, NEW limit,
           floor \notin gone,
           NEW p \in 1 .. Len(q), q[p] = limit, NEW f \in 1 .. Len(q), f # p,
           \A i \in 1 .. Len(q) : q[i] \in gone => i = f
    PROVE  OnlyConfigured([q EXCEPT ![f] = floor], W, gone, floor, limit)
  <1> DEFINE new == [q EXCEPT ![f] = floor]
  <1>1. Replacement(new, W, q, f, floor)
    BY Replaced, Zenon
  <1> HIDE DEF new
  <1>2. OnlyConfigured(new, W, gone, floor, limit)
    BY <1>1, Zenon DEF OnlyConfigured, Replacement
  <1> QED BY <1>2 DEF new

\* The rewritten vmArgs have both configured flags and none of the file's own
\* (core.py:532).
LEMMA ArgumentsConfigured ==
    ASSUME NEW W, NEW args \in Seq(W), HeapRecognised(args),
           "configured Xms" \in W, "configured Xmx" \in W
    PROVE  OnlyConfigured(ConfiguredArguments(args), W, {"Xms", "Xmx"},
                          "configured Xms", "configured Xmx")
  <1> DEFINE limit == Only(args, "Xmx")
             limited == [args EXCEPT ![limit] = "configured Xmx"]
             floor == Only(args, "Xms")
             gone == {"Xms", "Xmx"}
  <1>1. /\ "configured Xmx" # "Xms" /\ "configured Xmx" # "Xmx" /\ "Xms" # "Xmx"
        /\ "configured Xms" \notin gone
    OBVIOUS
  <1>2. /\ limit \in 1 .. Len(args) /\ args[limit] = "Xmx"
        /\ \A i \in 1 .. Len(args) : args[i] = "Xmx" => i = limit
    BY OnlyPlace DEF HeapRecognised
  <1>3. Replacement(limited, W, args, limit, "configured Xmx")
    <2> HIDE DEF limit
    <2> QED BY <1>2, Replaced, Zenon
  <1> HIDE DEF limit, limited, floor
  <1>4. /\ \A i \in 1 .. Len(limited) : limited[i] # "Xmx"
        /\ \A i \in 1 .. Len(limited) : limited[i] = "Xms" => args[i] = "Xms"
    <2>1. \A i \in 1 .. Len(limited) : limited[i] # "Xmx"
      BY <1>2, <1>3, Zenon DEF Replacement
    <2>2. \A i \in 1 .. Len(limited) : limited[i] = "Xms" => args[i] = "Xms"
      BY <1>3, Zenon DEF Replacement
    <2> QED BY <2>1, <2>2
  <1>5. /\ limited \in Seq(W) /\ Len(limited) = Len(args)
        /\ limited[limit] = "configured Xmx"
    BY <1>3, Zenon DEF Replacement
  <1>6. limit \in 1 .. Len(limited)
    BY <1>2, <1>5, Zenon
  <1>7. CASE Places(args, "Xms") = {}
    <2>1. \A i \in DOMAIN args : args[i] # "Xms"
      BY <1>7, Zenon DEF Places
    <2>2. DOMAIN args = 1 .. Len(args)
      BY LenProperties, Zenon
    <2>3. \A i \in 1 .. Len(limited) : limited[i] \notin gone
      BY <2>1, <2>2, <1>4, <1>5, Zenon
    <2>4. ConfiguredArguments(args) = InsertBefore(limited, limit, "configured Xms")
      BY <1>7, Zenon DEF ConfiguredArguments, limit, limited
    <2> HIDE DEF gone
    <2>5. OnlyConfigured(InsertBefore(limited, limit, "configured Xms"), W, gone,
                         "configured Xms", "configured Xmx")
      BY <1>1, <1>5, <1>6, <2>3, FlagAdded, Zenon
    <2> QED BY <2>4, <2>5, Zenon DEF gone
  <1>8. CASE Places(args, "Xms") # {}
    <2>1. /\ floor \in 1 .. Len(args) /\ args[floor] = "Xms"
          /\ \A i \in 1 .. Len(args) : args[i] = "Xms" => i = floor
      <3>1. Cardinality(Places(args, "Xms")) = 1
        BY <1>8, OneOrNone, Zenon DEF HeapRecognised
      <3>2. /\ floor \in 1 .. Len(args) /\ args[floor] = "Xms"
        BY <3>1, OnlyPlace, Zenon DEF floor
      <3>3. \A i \in 1 .. Len(args) : args[i] = "Xms" => i = floor
        BY <3>1, OnlyPlace, Zenon DEF floor
      <3> QED BY <3>2, <3>3
    <2>2. floor # limit /\ floor \in 1 .. Len(limited)
      BY <2>1, <1>2, <1>5, Zenon
    <2>3. \A i \in 1 .. Len(limited) : limited[i] \in gone => i = floor
      BY <2>1, <1>4, <1>5, Zenon
    <2>4. ConfiguredArguments(args) = [limited EXCEPT ![floor] = "configured Xms"]
      BY <1>8, Zenon DEF ConfiguredArguments, limit, limited, floor
    <2> HIDE DEF gone
    <2>5. OnlyConfigured([limited EXCEPT ![floor] = "configured Xms"], W, gone,
                         "configured Xms", "configured Xmx")
      BY <1>1, <1>5, <1>6, <2>2, <2>3, FlagReplaced, Zenon
    <2> QED BY <2>4, <2>5, Zenon DEF gone
  <1> QED BY <1>7, <1>8

\* What is written is what the JVM takes, whatever else stands among the arguments.
LEMMA ConfiguredHeap ==
    ASSUME NEW args \in Seq(ArgumentWords), HeapRecognised(args)
    PROVE  LET new == ConfiguredArguments(args)
           IN  /\ LastOf(new, {"Xms", "configured Xms"}) = "configured Xms"
               /\ LastOf(new, {"Xmx", "MaxHeap", "configured Xmx"})
                    \in {"configured Xmx", "MaxHeap"}
  <1> DEFINE W == ArgumentWords \cup {"configured Xms", "configured Xmx"}
             new == ConfiguredArguments(args)
  <1>1. args \in Seq(W) /\ "configured Xms" \in W /\ "configured Xmx" \in W
    <2>1. ArgumentWords \subseteq W
      OBVIOUS
    <2>2. args \in Seq(W)
      <3> HIDE DEF W
      <3> QED BY <2>1
    <2> QED BY <2>2, Zenon
  <1> HIDE DEF W, new
  <1>2. OnlyConfigured(new, W, {"Xms", "Xmx"}, "configured Xms", "configured Xmx")
    BY <1>1, ArgumentsConfigured, Zenon DEF new
  <1>3. \E i \in 1 .. Len(new) : new[i] \in {"Xms", "configured Xms"}
    BY <1>2, Zenon DEF OnlyConfigured
  <1>4. \E i \in 1 .. Len(new) : new[i] \in {"Xmx", "MaxHeap", "configured Xmx"}
    BY <1>2, Zenon DEF OnlyConfigured
  <1>5. new \in Seq(W)
    BY <1>2 DEF OnlyConfigured
  <1>6. PICK i \in 1 .. Len(new) :
           /\ new[i] \in {"Xms", "configured Xms"}
           /\ LastOf(new, {"Xms", "configured Xms"}) = new[i]
    BY <1>3, <1>5, LastOfKinds, Zenon
  <1>7. PICK k \in 1 .. Len(new) :
           /\ new[k] \in {"Xmx", "MaxHeap", "configured Xmx"}
           /\ LastOf(new, {"Xmx", "MaxHeap", "configured Xmx"}) = new[k]
    BY <1>4, <1>5, LastOfKinds, Zenon
  <1>8. new[i] # "Xms" /\ new[k] # "Xmx"
    BY <1>2, Zenon DEF OnlyConfigured
  <1> QED BY <1>6, <1>7, <1>8, Zenon DEF new

-----------------------------------------------------------------------------
(* The script, executed *)

States == [skip : BOOLEAN, last : {0, 1}, code : {0, 1}, exit : {"none", "zero", "one"},
           own : BOOLEAN]

\* A line leads from a state of the script to a state of it.
LEMMA ExecuteType ==
    ASSUME NEW s \in States, NEW line, NEW java \in BOOLEAN, NEW game \in {0, 1}
    PROVE  Execute(s, line, java, game) \in States
  <1> DEFINE t == Execute(s, line, java, game)
  <1>1. \/ t = s
        \/ t = [s EXCEPT !.skip = ~java]
        \/ t = [s EXCEPT !.skip = java]
        \/ t = [s EXCEPT !.skip = FALSE]
        \/ t = [s EXCEPT !.last = game]
        \/ t = [s EXCEPT !.code = s.last, !.last = 0]
        \/ t = [s EXCEPT !.exit = "one"]
        \/ t = [s EXCEPT !.exit = IF s.code = 0 THEN "zero" ELSE "one"]
        \/ t = [s EXCEPT !.exit = "one", !.own = TRUE]
        \/ t = [s EXCEPT !.last = 0]
    <2> HIDE DEF t
    <2> QED BY Zenon DEF t, Execute
  <1> HIDE DEF t
  <1>2. t \in States
    BY <1>1 DEF States
  <1> QED BY <1>2 DEF t

\* What Runs, defined by recursion, says of each line.
LEMMA RunsDefined ==
    ASSUME NEW lines, Len(lines) \in Nat, NEW java \in BOOLEAN, NEW game \in {0, 1}
    PROVE  LET run == Runs(lines, java, game)
           IN  /\ run \in [0 .. Len(lines) -> States]
               /\ run[0] = Begin
               /\ \A i \in 1 .. Len(lines) :
                     run[i] = Execute(run[i - 1], lines[i], java, game)
  <1> DEFINE n == Len(lines)
             step == [p \in States \X Nat |-> Execute(p[1], lines[p[2]], java, game)]
             body(f) == [i \in 0 .. n |->
                           IF i = 0 THEN Begin ELSE Execute(f[i - 1], lines[i], java, game)]
             run == Runs(lines, java, game)
  <1>1. Begin \in States
    BY DEF Begin, States
  <1>2. step \in [States \X Nat -> States]
    <2>1. \A p \in States \X Nat : Execute(p[1], lines[p[2]], java, game) \in States
      BY ExecuteType
    <2> QED BY <2>1
  <1>3. \A s \in States, i \in Nat : step[<<s, i>>] = Execute(s, lines[i], java, game)
    OBVIOUS
  <1> HIDE DEF step
  <1>4. n \in Nat
    OBVIOUS
  <1>5. PICK f \in [0 .. n -> States] : Follows(f, Begin, step, n)
    BY <1>1, <1>2, <1>4, Recursion, Zenon
  <1>6. \A i \in 1 .. n : f[i] = Execute(f[i - 1], lines[i], java, game)
    <2> SUFFICES ASSUME NEW i \in 1 .. n
                 PROVE  f[i] = Execute(f[i - 1], lines[i], java, game)
      OBVIOUS
    <2>1. f[i - 1] \in States /\ i \in Nat
      BY <1>5
    <2> QED BY <2>1, <1>3, <1>5 DEF Follows
  <1>7. f = body(f)
    BY <1>5, <1>6 DEF Follows
  <1>8. run = CHOOSE g : g = body(g)
    BY DEF Runs
  <1>9. run = body(run)
    BY <1>7, <1>8, Zenon
  <1> HIDE DEF run
  <1>10. \A i \in 0 .. n :
            run[i] = IF i = 0 THEN Begin ELSE Execute(run[i - 1], lines[i], java, game)
    BY <1>9, Zenon
  <1>11. run[0] = Begin /\ 0 \in 0 .. n
    BY <1>4, <1>10
  <1>12. ASSUME NEW i \in 1 .. n
         PROVE  run[i] = Execute(run[i - 1], lines[i], java, game)
    <2>1. i \in 0 .. n /\ i # 0
      BY <1>4
    <2> QED BY <2>1, <1>10, Zenon
  <1> DEFINE Good == {i \in 0 .. n : run[i] \in States}
  <1>13. ASSUME NEW i \in 1 .. n, i - 1 \in Good PROVE i \in Good
    <2>1. run[i] \in States
      BY <1>12, <1>13, ExecuteType, Zenon
    <2>2. i \in 0 .. n
      BY <1>4
    <2> QED BY <2>1, <2>2, Zenon
  <1>14. 0 \in Good
    BY <1>1, <1>11, Zenon
  <1>15. 0 .. n \subseteq Good
    <2> HIDE DEF Good
    <2> QED BY <1>4, <1>13, <1>14, Upwards, Zenon
  <1>16. run \in [0 .. n -> States]
    <2>1. run = [i \in 0 .. n |->
                   IF i = 0 THEN Begin ELSE Execute(run[i - 1], lines[i], java, game)]
      BY <1>9, Zenon
    <2>2. \A i \in 0 .. n : run[i] \in States
      BY <1>15, Zenon
    <2> QED BY <2>1, <2>2, <1>10, Zenon
  <1> QED BY <1>11, <1>12, <1>16, Zenon DEF run

\* A rewritten script: where its lines are.  The status is taken right after the
\* game; no other line that changes the outcome is left, but an exit of its own.
Ordered(n, I, G, E, U, F, X) ==
    /\ n \in Nat
    /\ I \in 1 .. n /\ G \in 1 .. n /\ E \in 1 .. n /\ U \in 1 .. n /\ F \in 1 .. n
    /\ X \in 1 .. n
    /\ I < G /\ G + 1 < E /\ E < U /\ U < F /\ F < X

Shape(new, I, G, E, U, F, X) ==
    /\ new[I] = "if" /\ new[G] = "game" /\ new[G + 1] = "code=$?" /\ new[E] = "else"
    /\ new[U] = "exit 1" /\ new[F] = "fi" /\ new[X] = "exit code"
    /\ \A i \in 1 .. Len(new) :
          i \notin {I, G, G + 1, E, U, F, X} => new[i] \in {"comment", "other", "exit"}

Answer(java, game) == IF java /\ game = 0 THEN "zero" ELSE "one"

\* Where the script is, if it has not ended.
Going(s, i, java, game, I, G, E, U, F) ==
    /\ s.exit = "none"
    /\ i < I => ~s.skip
    /\ I <= i /\ i < E => (s.skip <=> ~java)
    /\ E <= i /\ i < F => (s.skip <=> java)
    /\ F <= i => ~s.skip
    /\ U <= i => java
    /\ i = G /\ java => s.last = game
    /\ G < i /\ java => s.code = game

\* After i lines: it ended, of its own or with the answer, or is on its way.
ScriptInv(s, i, java, game, I, G, E, U, F, X) ==
    \/ s.exit = "one" /\ s.own
    \/ s.exit = Answer(java, game)
    \/ i < X /\ Going(s, i, java, game, I, G, E, U, F)

\* A line of a rewritten script keeps what holds of where the script is.
LEMMA ScriptStep ==
    ASSUME NEW new, NEW I, NEW G, NEW E, NEW U, NEW F, NEW X,
           Ordered(Len(new), I, G, E, U, F, X), Shape(new, I, G, E, U, F, X),
           NEW java \in BOOLEAN, NEW game \in {0, 1}, NEW i \in 1 .. Len(new),
           NEW s \in States, ScriptInv(s, i - 1, java, game, I, G, E, U, F, X)
    PROVE  ScriptInv(Execute(s, new[i], java, game), i, java, game, I, G, E, U, F, X)
  <1> DEFINE t == Execute(s, new[i], java, game)
  <1>1. CASE s.exit # "none"
    <2>1. t = s
      BY <1>1, Zenon DEF Execute
    <2>2. ~Going(s, i - 1, java, game, I, G, E, U, F)
      BY <1>1, Zenon DEF Going
    <2> QED BY <2>1, <2>2, Zenon DEF ScriptInv
  <1>2. CASE s.exit = "none"
    <2> DEFINE GoingAt(r, k) == Going(r, k, java, game, I, G, E, U, F)
    <2>1. i - 1 < X /\ GoingAt(s, i - 1)
      BY <1>2 DEF ScriptInv, Answer
    <2> SUFFICES \/ t.exit = "one" /\ t.own
                 \/ t.exit = Answer(java, game)
                 \/ i < X /\ GoingAt(t, i)
      BY Zenon DEF ScriptInv
    <2>2. CASE i = I
      <3>1. new[i] = "if"
        BY <2>2, Zenon DEF Shape
      <3>2. t = [s EXCEPT !.skip = ~java]
        BY <3>1, <1>2, Zenon DEF Execute
      <3> HIDE DEF t
      <3>3. (t.skip <=> ~java) /\ t.exit = "none"
        BY <3>2, <1>2 DEF States
      <3> QED BY <2>2, <3>3 DEF Going, Ordered
    <2>3. CASE i = G
      <3>1. new[i] = "game"
        BY <2>3, Zenon DEF Shape
      <3>2. CASE s.skip
        <4>1. t = s
          BY <3>1, <3>2, Zenon DEF Execute
        <4>2. i < X /\ GoingAt(s, i)
          BY <2>3, <2>1, <3>2 DEF Going, Ordered
        <4> QED BY <4>1, <4>2, Zenon
      <3>3. CASE ~s.skip
        <4>1. t = [s EXCEPT !.last = game]
          BY <3>1, <3>3, <1>2, Zenon DEF Execute
        <4> HIDE DEF t
        <4> QED BY <2>3, <2>1, <4>1 DEF Going, Ordered
      <3> QED BY <3>2, <3>3
    <2>4. CASE i = G + 1
      <3>1. new[i] = "code=$?"
        BY <2>4, Zenon DEF Shape
      <3>2. CASE s.skip
        <4>1. t = s
          BY <3>1, <3>2, Zenon DEF Execute
        <4>2. i < X /\ GoingAt(s, i)
          BY <2>4, <2>1, <3>2 DEF Going, Ordered
        <4> QED BY <4>1, <4>2, Zenon
      <3>3. CASE ~s.skip
        <4>1. t = [s EXCEPT !.code = s.last, !.last = 0]
          BY <3>1, <3>3, <1>2, Zenon DEF Execute
        <4> HIDE DEF t
        <4> QED BY <2>4, <2>1, <4>1 DEF Going, Ordered
      <3> QED BY <3>2, <3>3
    <2>5. CASE i = E
      <3>1. new[i] = "else"
        BY <2>5, Zenon DEF Shape
      <3>2. t = [s EXCEPT !.skip = java]
        BY <3>1, <1>2, Zenon DEF Execute
      <3> HIDE DEF t
      <3> QED BY <2>5, <2>1, <3>2 DEF Going, Ordered
    <2>6. CASE i = U
      <3>1. new[i] = "exit 1"
        BY <2>6, Zenon DEF Shape
      <3>2. CASE s.skip
        <4>1. t = s
          BY <3>1, <3>2, Zenon DEF Execute
        <4>2. i < X /\ GoingAt(s, i)
          BY <2>6, <2>1, <3>2 DEF Going, Ordered
        <4> QED BY <4>1, <4>2, Zenon
      <3>3. CASE ~s.skip
        <4>1. t = [s EXCEPT !.exit = "one"]
          BY <3>1, <3>3, <1>2, Zenon DEF Execute
        <4>2. ~java
          BY <2>6, <2>1, <3>3 DEF Going, Ordered
        <4> HIDE DEF t
        <4> QED BY <4>1, <4>2 DEF Answer
      <3> QED BY <3>2, <3>3
    <2>7. CASE i = F
      <3>1. new[i] = "fi"
        BY <2>7, Zenon DEF Shape
      <3>2. t = [s EXCEPT !.skip = FALSE]
        BY <3>1, <1>2, Zenon DEF Execute
      <3> HIDE DEF t
      <3> QED BY <2>7, <2>1, <3>2 DEF Going, Ordered
    <2>8. CASE i = X
      <3>1. new[i] = "exit code"
        BY <2>8, Zenon DEF Shape
      <3>2. ~s.skip /\ java /\ s.code = game
        BY <2>8, <2>1 DEF Going, Ordered
      <3>3. t = [s EXCEPT !.exit = IF s.code = 0 THEN "zero" ELSE "one"]
        BY <3>1, <3>2, <1>2, Zenon DEF Execute
      <3> HIDE DEF t
      <3> QED BY <3>2, <3>3 DEF Answer
    <2>9. CASE i \notin {I, G, G + 1, E, U, F, X}
      <3>1. new[i] \in {"comment", "other", "exit"}
        BY <2>9, Zenon DEF Shape
      <3>2. i < X
        BY <2>9, <2>1 DEF Ordered
      <3>3. GoingAt(s, i)
        BY <2>9, <2>1 DEF Going, Ordered
      <3>4. CASE new[i] = "comment" \/ s.skip
        <4>1. t = s
          BY <3>1, <3>4, Zenon DEF Execute
        <4> QED BY <4>1, <3>2, <3>3, Zenon
      <3>5. CASE new[i] = "exit" /\ ~s.skip
        <4>1. t = [s EXCEPT !.exit = "one", !.own = TRUE]
          BY <3>5, <1>2, Zenon DEF Execute
        <4> HIDE DEF t
        <4> QED BY <4>1
      <3>6. CASE new[i] = "other" /\ ~s.skip
        <4>1. t = [s EXCEPT !.last = 0]
          BY <3>6, <1>2, Zenon DEF Execute
        <4> HIDE DEF t
        <4>2. GoingAt(t, i)
          BY <4>1, <3>3, <2>9 DEF Going
        <4> QED BY <4>2, <3>2, Zenon
      <3> QED BY <3>1, <3>4, <3>5, <3>6, Zenon
    <2> QED BY <2>2, <2>3, <2>4, <2>5, <2>6, <2>7, <2>8, <2>9, Zenon
  <1> QED BY <1>1, <1>2

\* A rewritten script ends of its own or with the answer.
LEMMA ScriptEnds ==
    ASSUME NEW new, NEW I, NEW G, NEW E, NEW U, NEW F, NEW X,
           Ordered(Len(new), I, G, E, U, F, X), Shape(new, I, G, E, U, F, X),
           NEW java \in BOOLEAN, NEW game \in {0, 1}
    PROVE  LET end == After(new, java, game) IN end.own \/ end.exit = Answer(java, game)
  <1> DEFINE n == Len(new)
             run == Runs(new, java, game)
             Inv(i) == ScriptInv(run[i], i, java, game, I, G, E, U, F, X)
             Good == {i \in 0 .. n : Inv(i)}
  <1>1. n \in Nat /\ I \in 1 .. n /\ X \in 1 .. n
    BY DEF Ordered
  <1>2. /\ run \in [0 .. n -> States] /\ run[0] = Begin
        /\ \A i \in 1 .. n : run[i] = Execute(run[i - 1], new[i], java, game)
    BY RunsDefined
  <1>3. Inv(0)
    <2>1. 0 < X
      BY DEF Ordered
    <2>2. Going(Begin, 0, java, game, I, G, E, U, F)
      BY DEF Going, Begin, Ordered
    <2> QED BY <1>2, <2>1, <2>2, Zenon DEF ScriptInv
  <1>4. ASSUME NEW i \in 1 .. n, i - 1 \in Good PROVE Inv(i)
    <2>1. run[i - 1] \in States
      BY <1>2
    <2>2. Inv(i - 1)
      BY <1>4
    <2>3. run[i] = Execute(run[i - 1], new[i], java, game)
      BY <1>2
    <2> HIDE DEF run
    <2> QED BY <2>1, <2>2, <2>3, ScriptStep, Zenon
  <1> HIDE DEF run, Inv
  <1>5. 0 .. n \subseteq Good
    <2>1. 0 \in Good /\ \A i \in 1 .. n : i - 1 \in Good => i \in Good
      BY <1>3, <1>4
    <2> HIDE DEF Good, n
    <2> QED BY <1>1, <2>1, Upwards
  <1>6. Inv(n)
    BY <1>5
  <1>7. ~(n < X)
    BY <1>1
  <1>8. run[n] = After(new, java, game)
    BY Zenon DEF After, run
  <1> QED BY <1>6, <1>7, <1>8, Zenon DEF Inv, ScriptInv

\* What acceptance says of the places of the required lines.
LEMMA AcceptedPlaces ==
    ASSUME NEW lines \in Seq(ScriptWords), WrapperAccepted(lines)
    PROVE  /\ \A k \in Range(Lifecycle) :
                 /\ Only(lines, k) \in 1 .. Len(lines) /\ lines[Only(lines, k)] = k
                 /\ \A i \in 1 .. Len(lines) : lines[i] = k => i = Only(lines, k)
           /\ Range(Lifecycle) = {"if", "game", "else", "unsupported", "fi", "exit 0"}
           /\ Only(lines, "if") < Only(lines, "game")
           /\ Only(lines, "game") < Only(lines, "else")
           /\ Only(lines, "else") < Only(lines, "unsupported")
           /\ Only(lines, "unsupported") < Only(lines, "fi")
           /\ Only(lines, "fi") < Only(lines, "exit 0")
  <1>1. /\ DOMAIN Lifecycle = 1 .. 6 /\ Len(Lifecycle) = 6
        /\ Lifecycle[1] = "if" /\ Lifecycle[2] = "game" /\ Lifecycle[3] = "else"
        /\ Lifecycle[4] = "unsupported" /\ Lifecycle[5] = "fi" /\ Lifecycle[6] = "exit 0"
    BY DEF Lifecycle
  <1>2. Range(Lifecycle) = {"if", "game", "else", "unsupported", "fi", "exit 0"}
    <2>1. \A v : v \in Range(Lifecycle) <=> \E i \in 1 .. 6 : v = Lifecycle[i]
      BY <1>1, Zenon DEF Range
    <2>2. \A i \in 1 .. 6 : i = 1 \/ i = 2 \/ i = 3 \/ i = 4 \/ i = 5 \/ i = 6
      OBVIOUS
    <2>3. 1 \in 1 .. 6 /\ 2 \in 1 .. 6 /\ 3 \in 1 .. 6 /\ 4 \in 1 .. 6 /\ 5 \in 1 .. 6
          /\ 6 \in 1 .. 6
      OBVIOUS
    <2>4. \A v : v \in Range(Lifecycle)
                   => v \in {"if", "game", "else", "unsupported", "fi", "exit 0"}
      <3> SUFFICES ASSUME NEW v, NEW i \in 1 .. 6, v = Lifecycle[i]
                   PROVE  v \in {"if", "game", "else", "unsupported", "fi", "exit 0"}
        BY <2>1, Zenon
      <3>1. i = 1 \/ i = 2 \/ i = 3 \/ i = 4 \/ i = 5 \/ i = 6
        BY <2>2, Zenon
      <3> QED BY <1>1, <3>1, Zenon
    <2>5. /\ "if" \in Range(Lifecycle) /\ "game" \in Range(Lifecycle)
          /\ "else" \in Range(Lifecycle) /\ "unsupported" \in Range(Lifecycle)
          /\ "fi" \in Range(Lifecycle) /\ "exit 0" \in Range(Lifecycle)
      BY <1>1, <2>1, <2>3, Zenon
    <2> QED BY <2>4, <2>5, Zenon
  <1>3. ASSUME NEW k \in Range(Lifecycle)
        PROVE  /\ Only(lines, k) \in 1 .. Len(lines) /\ lines[Only(lines, k)] = k
               /\ \A i \in 1 .. Len(lines) : lines[i] = k => i = Only(lines, k)
    <2>1. \E n \in DOMAIN Lifecycle : Lifecycle[n] = k
      BY Zenon DEF Range
    <2>2. Cardinality(Places(lines, k)) = 1
      BY <2>1, Zenon DEF WrapperAccepted
    <2>3. Only(lines, k) \in 1 .. Len(lines) /\ lines[Only(lines, k)] = k
      BY <2>2, OnlyPlace, Zenon
    <2>4. \A i \in 1 .. Len(lines) : lines[i] = k => i = Only(lines, k)
      BY <2>2, OnlyPlace, Zenon
    <2> QED BY <2>3, <2>4
  <1>4. /\ Only(lines, "if") < Only(lines, "game")
        /\ Only(lines, "game") < Only(lines, "else")
        /\ Only(lines, "else") < Only(lines, "unsupported")
        /\ Only(lines, "unsupported") < Only(lines, "fi")
        /\ Only(lines, "fi") < Only(lines, "exit 0")
    <2>1. Len(Lifecycle) - 1 = 5
      <3>1. Len(Lifecycle) = 6
        BY <1>1
      <3> QED BY <3>1
    <2>2. \A n \in 1 .. 5 : Only(lines, Lifecycle[n]) < Only(lines, Lifecycle[n + 1])
      BY <2>1, Zenon DEF WrapperAccepted
    <2>3. /\ 1 \in 1 .. 5 /\ 2 \in 1 .. 5 /\ 3 \in 1 .. 5 /\ 4 \in 1 .. 5 /\ 5 \in 1 .. 5
          /\ 1 + 1 = 2 /\ 2 + 1 = 3 /\ 3 + 1 = 4 /\ 4 + 1 = 5 /\ 5 + 1 = 6
      OBVIOUS
    <2> QED BY <1>1, <2>2, <2>3, Zenon
  <1> QED BY <1>2, <1>3, <1>4, Zenon

\* The rewriting of an accepted script: the status is taken right after the game,
\* and no line decides the outcome but the rewritten ones (core.py:594).
LEMMA AcceptedShape ==
    ASSUME NEW lines \in Seq(ScriptWords), WrapperAccepted(lines)
    PROVE  LET new == StatusPreserving(lines)
           IN  \E I, G, E, U, F, X : /\ Ordered(Len(new), I, G, E, U, F, X)
                                     /\ Shape(new, I, G, E, U, F, X)
  <1> DEFINE W == ScriptWords \cup {"exit 1", "exit code", "code=$?"}
             I == Only(lines, "if")
             G == Only(lines, "game")
             E == Only(lines, "else")
             U == Only(lines, "unsupported")
             F == Only(lines, "fi")
             X == Only(lines, "exit 0")
             once == [lines EXCEPT ![U] = "exit 1"]
             changed == [once EXCEPT ![X] = "exit code"]
             new == InsertBefore(changed, G + 1, "code=$?")
             Required == {"if", "game", "else", "unsupported", "fi", "exit 0"}
  <1>1. /\ lines \in Seq(W) /\ Len(lines) \in Nat
        /\ "exit 1" \in W /\ "exit code" \in W /\ "code=$?" \in W
    <2>1. ScriptWords \subseteq W
      OBVIOUS
    <2>2. lines \in Seq(W) /\ Len(lines) \in Nat
      <3> HIDE DEF W
      <3> QED BY <2>1
    <2> QED BY <2>2, Zenon
  <1>2. \A k \in Required :
           /\ Only(lines, k) \in 1 .. Len(lines) /\ lines[Only(lines, k)] = k
           /\ \A i \in 1 .. Len(lines) : lines[i] = k => i = Only(lines, k)
    BY AcceptedPlaces, Zenon
  <1>3. /\ I \in 1 .. Len(lines) /\ G \in 1 .. Len(lines) /\ E \in 1 .. Len(lines)
        /\ U \in 1 .. Len(lines) /\ F \in 1 .. Len(lines) /\ X \in 1 .. Len(lines)
    BY <1>2, Zenon
  <1>4. I < G /\ G < E /\ E < U /\ U < F /\ F < X
    BY AcceptedPlaces, Zenon
  <1>5. /\ lines[I] = "if" /\ lines[G] = "game" /\ lines[E] = "else" /\ lines[F] = "fi"
    BY <1>2, Zenon
  <1>6. \A i \in 1 .. Len(lines) :
           i \notin {I, G, E, U, F, X} => lines[i] \in {"comment", "other", "exit"}
    <2> SUFFICES ASSUME NEW i \in 1 .. Len(lines), i \notin {I, G, E, U, F, X}
                 PROVE  lines[i] \in {"comment", "other", "exit"}
      BY Zenon
    <2>1. lines[i] \notin Required
      BY <1>2, Zenon
    <2>2. lines[i] \in ScriptWords
      <3> HIDE DEF I, G, E, U, F, X
      <3> QED OBVIOUS
    <2> QED BY <2>1, <2>2, Zenon DEF ScriptWords
  <1>7. StatusPreserving(lines) = new
    BY Zenon DEF StatusPreserving
  <1> HIDE DEF I, G, E, U, F, X, W
  <1>8. Replacement(once, W, lines, U, "exit 1")
    BY <1>1, <1>3, Replaced, Zenon
  <1>9. once \in Seq(W) /\ Len(once) = Len(lines)
    BY <1>8, Zenon DEF Replacement
  <1> HIDE DEF once
  <1>10. Replacement(changed, W, once, X, "exit code")
    <2>1. X \in 1 .. Len(once)
      BY <1>3, <1>9, Zenon
    <2> QED BY <1>1, <1>9, <2>1, Replaced, Zenon
  <1>11. changed \in Seq(W) /\ Len(changed) = Len(lines)
    BY <1>9, <1>10, Zenon DEF Replacement
  <1> HIDE DEF changed
  <1>12. Len(changed) = Len(lines)
    BY <1>11
  <1>13. Insertion(new, W, changed, G + 1, "code=$?")
    <2>1. G + 1 \in 1 .. Len(changed) + 1
      BY <1>3, <1>12
    <2> QED BY <1>1, <1>11, <2>1, Inserted, Zenon
  <1> HIDE DEF new
  <1>14. I # U /\ G # U /\ E # U /\ F # U /\ I # X /\ G # X /\ E # X /\ F # X /\ U # X
    BY <1>3, <1>4
  <1>15. /\ changed[I] = "if" /\ changed[G] = "game" /\ changed[E] = "else"
         /\ changed[U] = "exit 1" /\ changed[F] = "fi" /\ changed[X] = "exit code"
    BY <1>3, <1>5, <1>8, <1>10, <1>14, Zenon DEF Replacement
  <1>16. \A i \in 1 .. Len(lines) :
            i \notin {I, G, E, U, F, X} => changed[i] \in {"comment", "other", "exit"}
    BY <1>6, <1>8, <1>10, Zenon DEF Replacement
  <1>17. /\ Len(new) = Len(lines) + 1
         /\ \A j \in 1 .. G : new[j] = changed[j]
         /\ new[G + 1] = "code=$?"
         /\ \A j \in G + 1 .. Len(lines) : new[j + 1] = changed[j]
    <2>1. (G + 1) - 1 = G
      BY <1>3
    <2> QED BY <1>11, <1>13, <2>1, Zenon DEF Insertion
  <1>18. Ordered(Len(new), I, G, E + 1, U + 1, F + 1, X + 1)
    <2>1. Len(new) = Len(lines) + 1
      BY <1>17
    <2> QED BY <1>3, <1>4, <2>1 DEF Ordered
  <1>19. /\ I \in 1 .. G /\ G \in 1 .. G /\ E \in G + 1 .. Len(lines)
         /\ U \in G + 1 .. Len(lines) /\ F \in G + 1 .. Len(lines)
         /\ X \in G + 1 .. Len(lines)
    BY <1>3, <1>4
  <1>20. /\ new[I] = "if" /\ new[G] = "game" /\ new[G + 1] = "code=$?"
         /\ new[E + 1] = "else" /\ new[U + 1] = "exit 1" /\ new[F + 1] = "fi"
         /\ new[X + 1] = "exit code"
    BY <1>15, <1>17, <1>19, Zenon
  <1>21. ASSUME NEW j \in 1 .. Len(new),
                j \notin {I, G, G + 1, E + 1, U + 1, F + 1, X + 1}
         PROVE  new[j] \in {"comment", "other", "exit"}
    <2>1. Len(new) = Len(lines) + 1
      BY <1>17
    <2>2. CASE j \in 1 .. G
      <3>1. j \in 1 .. Len(lines) /\ j \notin {I, G, E, U, F, X}
        BY <2>2, <1>3, <1>4, <1>21
      <3> QED BY <2>2, <3>1, <1>16, <1>17, Zenon
    <2>3. CASE j - 1 \in G + 1 .. Len(lines)
      <3>1. j - 1 \in 1 .. Len(lines) /\ j - 1 \notin {I, G, E, U, F, X} /\ (j - 1) + 1 = j
        BY <2>3, <1>3, <1>4, <1>21
      <3> QED BY <2>3, <3>1, <1>16, <1>17, Zenon
    <2>4. j \in 1 .. G \/ j - 1 \in G + 1 .. Len(lines)
      BY <2>1, <1>3, <1>21
    <2> QED BY <2>2, <2>3, <2>4
  <1>22. Shape(new, I, G, E + 1, U + 1, F + 1, X + 1)
    BY <1>20, <1>21, Zenon DEF Shape
  <1> QED BY <1>7, <1>18, <1>22, Zenon

\* An accepted script of the shape that the updater knows, rewritten.
LEMMA AcceptedScript ==
    ASSUME NEW lines \in Seq(ScriptWords), WrapperAccepted(lines),
           NEW java \in BOOLEAN, NEW game \in {0, 1}
    PROVE  LET end == After(StatusPreserving(lines), java, game)
           IN  end.own \/ end.exit = Answer(java, game)
  <1> DEFINE new == StatusPreserving(lines)
  <1>1. PICK I, G, E, U, F, X : /\ Ordered(Len(new), I, G, E, U, F, X)
                                /\ Shape(new, I, G, E, U, F, X)
    BY AcceptedShape, Zenon
  <1> HIDE DEF new
  <1>2. LET end == After(new, java, game) IN end.own \/ end.exit = Answer(java, game)
    BY <1>1, ScriptEnds, Zenon
  <1> QED BY <1>2, Zenon DEF new

\* Whatever the launcher files say, what the updater accepts and rewrites starts with
\* the configured heap sizes, after all of the file's own, and ends with the status of
\* the game and with an error without 64 bit, unless an exit of the script itself
\* ends it (core.py:511, 541): for vmArgs and scripts of every length.
THEOREM LaunchKept == Spec => []LaunchContract
  <1>1. TextInv => LaunchContract
    <2> SUFFICES ASSUME TextInv PROVE LaunchContract
      OBVIOUS
    <2>1. StatusPreserved
      <3> SUFFICES ASSUME source = "start-server.sh", WrapperAccepted(text),
                          NEW java \in BOOLEAN, NEW game \in {0, 1}
                   PROVE  LET end == After(StatusPreserving(text), java, game)
                          IN  \/ end.own
                              \/ end.exit = (IF java /\ game = 0 THEN "zero" ELSE "one")
        BY Zenon DEF StatusPreserved
      <3>1. text \in Seq(ScriptWords)
        BY WordsOfSources, Zenon DEF TextInv
      <3> QED BY <3>1, AcceptedScript, Zenon DEF Answer
    <2>2. HeapConfigured
      <3> SUFFICES ASSUME source = "vmArgs", HeapRecognised(text)
                   PROVE  LET args == ConfiguredArguments(text)
                          IN  /\ LastOf(args, {"Xms", "configured Xms"}) = "configured Xms"
                              /\ LastOf(args, {"Xmx", "MaxHeap", "configured Xmx"})
                                   \in {"configured Xmx", "MaxHeap"}
        BY Zenon DEF HeapConfigured
      <3>1. text \in Seq(ArgumentWords)
        BY WordsOfSources, Zenon DEF TextInv
      <3> QED BY <3>1, ConfiguredHeap, Zenon
    <2> QED BY <2>1, <2>2 DEF LaunchContract
  <1> QED BY <1>1, TextInvariance, PTL

-----------------------------------------------------------------------------
(* The parser's objects *)

Accepted(W) == [ok : {TRUE}, next : Nat, keys : SUBSET W, texts : SUBSET (Seq(W) \X W)]
Objects(W) == {Rejected} \cup Accepted(W)

\* What the parser makes of position i of a text of n tokens.
Parsed(o, W, n, i) == o \in Objects(W) /\ (o.ok => o.next \in i + 1 .. n + 1)

\* A rejection is not accepted.
LEMMA RejectedObject == ~Rejected.ok
  BY DEF Rejected

\* The fields of an accepted object.
LEMMA AcceptedFields ==
    ASSUME NEW W, NEW o \in Accepted(W)
    PROVE  o.ok /\ o.next \in Nat /\ o.keys \in SUBSET W /\ o.texts \in SUBSET (Seq(W) \X W)
  BY DEF Accepted

\* An object that is not a rejection has all fields.
LEMMA ObjectAccepted ==
    ASSUME NEW W, NEW o \in Objects(W), o.ok
    PROVE  o \in Accepted(W)
  BY RejectedObject, Zenon DEF Objects

\* A rejection reaches nowhere.
LEMMA RejectedParsed ==
    ASSUME NEW W, NEW n, NEW i
    PROVE  Rejected \in Objects(W) /\ Parsed(Rejected, W, n, i)
  BY RejectedObject, Zenon DEF Objects, Parsed

\* An object that has one name more than the rest of it.
Extends(o, rest, key, texts) ==
    /\ rest.ok /\ key \notin rest.keys /\ o.next = rest.next
    /\ o.keys = rest.keys \cup {key}
    /\ o.texts = rest.texts \cup texts

\* A member and the rest of an object make an object.
LEMMA WithRestObject ==
    ASSUME NEW W, NEW key \in W, NEW texts \in SUBSET (Seq(W) \X W), NEW rest \in Objects(W)
    PROVE  WithRest(key, texts, rest) \in Objects(W)
  <1>1. CASE ~rest.ok \/ key \in rest.keys
    BY <1>1, RejectedParsed, Zenon DEF WithRest
  <1>2. CASE rest.ok /\ key \notin rest.keys
    <2>1. rest \in Accepted(W)
      BY <1>2, ObjectAccepted
    <2>2. [rest EXCEPT !.keys = @ \cup {key}, !.texts = @ \cup texts] \in Accepted(W)
      BY <2>1 DEF Accepted
    <2> QED BY <2>2, Zenon DEF WithRest, Objects
  <1> QED BY <1>1, <1>2, Zenon

\* If it is accepted, it has one name more than the rest.
LEMMA WithRestExtends ==
    ASSUME NEW W, NEW key \in W, NEW texts \in SUBSET (Seq(W) \X W),
           NEW rest \in Objects(W),
           WithRest(key, texts, rest).ok
    PROVE  Extends(WithRest(key, texts, rest), rest, key, texts)
  <1> DEFINE o == WithRest(key, texts, rest)
  <1>1. rest.ok /\ key \notin rest.keys
    BY RejectedObject, Zenon DEF WithRest
  <1>2. o = [rest EXCEPT !.keys = @ \cup {key}, !.texts = @ \cup texts]
    BY <1>1, Zenon DEF WithRest
  <1> HIDE DEF o
  <1>3. /\ o.next = rest.next /\ o.keys = rest.keys \cup {key}
        /\ o.texts = rest.texts \cup texts
    BY <1>2
  <1> QED BY <1>1, <1>3, Zenon DEF Extends, o

\* The texts of a nested object, seen from the one it is in.
Prefixed(key, texts) == {<<<<key>> \o p[1], p[2]>> : p \in texts}

\* The type of a text and its path.
LEMMA TextType ==
    ASSUME NEW W, NEW key \in W, NEW value \in W
    PROVE  {<<<<key>>, value>>} \in SUBSET (Seq(W) \X W)
  <1>1. <<key>> \in Seq(W)
    OBVIOUS
  <1> DEFINE path == <<key>>
  <1> HIDE DEF path
  <1>2. <<path, value>> \in Seq(W) \X W
    BY <1>1 DEF path
  <1> QED BY <1>2, Zenon DEF path

\* The types of texts below a name.
LEMMA PrefixedType ==
    ASSUME NEW W, NEW key \in W, NEW texts \in SUBSET (Seq(W) \X W)
    PROVE  Prefixed(key, texts) \in SUBSET (Seq(W) \X W)
  <1>1. ASSUME NEW p \in texts PROVE <<<<key>> \o p[1], p[2]>> \in Seq(W) \X W
    <2>1. <<key>> \in Seq(W)
      OBVIOUS
    <2>2. <<key>> \o p[1] \in Seq(W)
      BY <2>1, ConcatProperties, Zenon
    <2> QED BY <2>2, Zenon
  <1> QED BY <1>1, Zenon DEF Prefixed

\* The ways in which a position is accepted.
Closes(t, o, i) == t[i] = "}" /\ o.next = i + 1 /\ o.keys = {} /\ o.texts = {}
Holds(t, o, rest, i) ==
    /\ t[i] \notin {"{", "}"} /\ i < Len(t) /\ t[i + 1] # "{"
    /\ Extends(o, rest, t[i], {<<<<t[i]>>, t[i + 1]>>})
Nests(t, o, inner, rest, i) ==
    /\ t[i] \notin {"{", "}"} /\ i < Len(t) /\ t[i + 1] = "{" /\ inner.ok
    /\ Extends(o, rest, t[i], Prefixed(t[i], inner.texts))

\* An object that goes on after position i ends where the rest of it does.
LEMMA ExtendsParsed ==
    ASSUME NEW W, NEW n \in Nat, NEW i \in Nat, NEW j \in i + 1 .. n + 1,
           NEW o \in Objects(W), NEW rest, Parsed(rest, W, n, j),
           o.ok => rest.ok /\ o.next = rest.next
    PROVE  Parsed(o, W, n, i)
  <1>1. j + 1 .. n + 1 \subseteq i + 1 .. n + 1
    OBVIOUS
  <1> QED BY <1>1, Zenon DEF Parsed

\* How an object goes on from position i, if it is accepted: it ends, or a name with a
\* text or a nested object follows (core.py:300).
LEMMA MemberCases ==
    ASSUME NEW W, NEW t \in Seq(W), NEW f, NEW i \in 1 .. Len(t) + 1,
           \A j \in i + 1 .. Len(t) + 1 : Parsed(f[j], W, Len(t), j)
    PROVE  LET o == Member(t, f, i)
           IN  /\ Parsed(o, W, Len(t), i)
               /\ o.ok => /\ i <= Len(t)
                          /\ \/ Closes(t, o, i)
                             \/ Holds(t, o, f[i + 2], i)
                             \/ Nests(t, o, f[i + 2], f[f[i + 2].next], i)
  <1> DEFINE o == Member(t, f, i)
             n == Len(t)
             Way == \/ Closes(t, o, i)
                    \/ Holds(t, o, f[i + 2], i)
                    \/ Nests(t, o, f[i + 2], f[f[i + 2].next], i)
  <1>1. n \in Nat /\ i \in Nat
    OBVIOUS
  <1>2. CASE i > n
    BY <1>2, RejectedParsed, RejectedObject, Zenon DEF Member
  <1>3. ASSUME i \in 1 .. n PROVE Parsed(o, W, n, i) /\ (o.ok => Way)
    <2>1. t[i] \in W /\ ~(i > n)
      BY <1>3
    <2>2. CASE t[i] = "}"
      <3>1. o = [ok |-> TRUE, next |-> i + 1, keys |-> {}, texts |-> {}]
        BY <2>1, <2>2, Zenon DEF Member
      <3> HIDE DEF o
      <3>2. o.next = i + 1 /\ o.keys = {} /\ o.texts = {}
        BY <3>1
      <3>3. o \in Accepted(W)
        BY <3>1 DEF Accepted
      <3>4. i + 1 \in i + 1 .. n + 1
        BY <1>3
      <3> QED BY <2>2, <3>2, <3>3, <3>4, Zenon DEF Parsed, Objects, Closes
    <2>3. CASE t[i] # "}" /\ (t[i] = "{" \/ i = n)
      BY <2>3, RejectedParsed, RejectedObject, Zenon DEF Member
    <2>4. CASE t[i] \notin {"{", "}"} /\ i # n
      <3>1. i # n
        BY <2>4
      <3>2. i < n /\ i + 1 \in 1 .. n /\ i + 2 \in i + 1 .. n + 1
        BY <3>1, <1>3
      <3>3. t[i + 1] \in W
        BY <3>2
      <3>4. Parsed(f[i + 2], W, n, i + 2)
        BY <3>2, Zenon
      <3>5. f[i + 2] \in Objects(W)
        BY <3>4, Zenon DEF Parsed
      <3>6. CASE t[i + 1] # "{"
        <4> DEFINE texts == {<<<<t[i]>>, t[i + 1]>>}
        <4>1. o = WithRest(t[i], texts, f[i + 2])
          BY <2>1, <2>4, <3>6, Zenon DEF Member
        <4>2. texts \in SUBSET (Seq(W) \X W)
          <5> DEFINE key == t[i]
                     value == t[i + 1]
          <5>1. key \in W /\ value \in W
            BY <2>1, <3>3, Zenon
          <5>2. texts = {<<<<key>>, value>>}
            OBVIOUS
          <5> HIDE DEF key, value, texts
          <5> QED BY <5>1, <5>2, TextType, Zenon
        <4> HIDE DEF o, texts, n
        <4>3. o \in Objects(W)
          BY <2>1, <3>5, <4>1, <4>2, WithRestObject, Zenon
        <4>4. o.ok => Extends(o, f[i + 2], t[i], texts)
          BY <2>1, <3>5, <4>1, <4>2, WithRestExtends, Zenon
        <4>5. Parsed(o, W, n, i)
          <5> DEFINE rest == f[i + 2]
                     j == i + 2
          <5>1. o.ok => rest.ok /\ o.next = rest.next
            BY <4>4, Zenon DEF Extends
          <5>2. j \in i + 1 .. n + 1 /\ Parsed(rest, W, n, j)
            BY <3>2, <3>4, Zenon
          <5> HIDE DEF rest, j
          <5> QED BY <1>1, <4>3, <5>1, <5>2, ExtendsParsed, Zenon
        <4>6. o.ok => Holds(t, o, f[i + 2], i)
          BY <2>4, <3>2, <3>6, <4>4, Zenon DEF Holds, texts, n
        <4> QED BY <4>5, <4>6, Zenon
      <3>7. CASE t[i + 1] = "{" /\ ~f[i + 2].ok
        BY <2>4, <3>7, RejectedParsed, RejectedObject, Zenon DEF Member
      <3>8. CASE t[i + 1] = "{" /\ f[i + 2].ok
        <4> DEFINE inner == f[i + 2]
                   rest == f[inner.next]
                   texts == Prefixed(t[i], inner.texts)
        <4>1. o = WithRest(t[i], texts, rest)
          BY <2>1, <2>4, <3>8, Zenon DEF Member, Prefixed
        <4>2. inner.next \in (i + 2) + 1 .. n + 1
          BY <3>4, <3>8, Zenon DEF Parsed
        <4>3. texts \in SUBSET (Seq(W) \X W)
          <5>1. inner.texts \in SUBSET (Seq(W) \X W)
            <6>1. inner \in Accepted(W)
              BY <3>5, <3>8, ObjectAccepted, Zenon
            <6> HIDE DEF inner
            <6> QED BY <6>1, AcceptedFields, Zenon
          <5> QED BY <5>1, <2>1, PrefixedType, Zenon
        <4>4. inner.next \in i + 1 .. n + 1
          BY <4>2
        <4>5. Parsed(rest, W, n, inner.next)
          BY <4>4, Zenon
        <4>6. rest \in Objects(W)
          BY <4>5, Zenon DEF Parsed
        <4> HIDE DEF o, texts, rest, inner, n
        <4>7. o \in Objects(W)
          BY <2>1, <4>1, <4>3, <4>6, WithRestObject, Zenon
        <4>8. o.ok => Extends(o, rest, t[i], texts)
          BY <2>1, <4>1, <4>3, <4>6, WithRestExtends, Zenon
        <4>9. Parsed(o, W, n, i)
          <5>1. o.ok => rest.ok /\ o.next = rest.next
            BY <4>8, Zenon DEF Extends
          <5> QED BY <1>1, <4>4, <4>5, <4>7, <5>1, ExtendsParsed, Zenon
        <4>10. o.ok => Nests(t, o, inner, rest, i)
          BY <2>4, <3>2, <3>8, <4>8, Zenon DEF Nests, texts, n, inner
        <4> QED BY <4>9, <4>10, Zenon DEF inner, rest
      <3> QED BY <3>6, <3>7, <3>8
    <2> QED BY <2>2, <2>3, <2>4, Zenon
  <1> HIDE DEF o, Way
  <1>4. i > n \/ i \in 1 .. n
    BY <1>1
  <1>5. i \in 1 .. n => i <= n
    BY <1>1
  <1> QED BY <1>2, <1>3, <1>4, <1>5, Zenon DEF o, Way

\* An object depends on the later positions only.
Alike(f, g, W, t, i) ==
    \A j \in i + 1 .. Len(t) + 1 : Parsed(f[j], W, Len(t), j) /\ g[j] = f[j]

\* What an object is depends on the objects at later positions alone.
LEMMA MemberCongruence ==
    ASSUME NEW W, NEW t \in Seq(W), NEW f, NEW g, NEW i \in 1 .. Len(t) + 1,
           Alike(f, g, W, t, i)
    PROVE  Member(t, g, i) = Member(t, f, i)
  <1>1. CASE i > Len(t) \/ t[i] = "}" \/ t[i] = "{" \/ i = Len(t)
    BY <1>1, Zenon DEF Member
  <1>2. CASE ~(i > Len(t)) /\ t[i] # "}" /\ t[i] # "{" /\ i # Len(t)
    <2>1. ~(i > Len(t)) /\ i # Len(t)
      BY <1>2
    <2>2. i + 2 \in i + 1 .. Len(t) + 1
      BY <2>1
    <2>3. g[i + 2] = f[i + 2] /\ Parsed(f[i + 2], W, Len(t), i + 2)
      BY <2>2, Zenon DEF Alike
    <2>4. CASE t[i + 1] # "{" \/ ~f[i + 2].ok
      BY <2>3, <2>4, Zenon DEF Member
    <2>5. CASE t[i + 1] = "{" /\ f[i + 2].ok
      <3>1. f[i + 2].next \in (i + 2) + 1 .. Len(t) + 1
        BY <2>3, <2>5, Zenon DEF Parsed
      <3>2. f[i + 2].next \in i + 1 .. Len(t) + 1
        BY <3>1
      <3>3. g[f[i + 2].next] = f[f[i + 2].next]
        BY <3>2, Zenon DEF Alike
      <3> QED BY <2>3, <3>3, Zenon DEF Member
    <2> QED BY <2>4, <2>5, Zenon
  <1> QED BY <1>1, <1>2, Zenon

\* A function that gives the objects from position i on.
ParsesFrom(f, W, t, i) ==
    \A j \in i .. Len(t) + 1 : f[j] = Member(t, f, j) /\ Parsed(f[j], W, Len(t), j)

\* From the objects at later positions to the one at position i.
LEMMA ParsesEarlier ==
    ASSUME NEW W, NEW t \in Seq(W), NEW f, NEW i \in 1 .. Len(t) + 1,
           ParsesFrom(f, W, t, i + 1)
    PROVE  ParsesFrom([j \in 1 .. Len(t) + 1 |-> IF j = i THEN Member(t, f, i) ELSE f[j]],
                      W, t, i)
  <1> DEFINE n == Len(t)
             g == [j \in 1 .. n + 1 |-> IF j = i THEN Member(t, f, i) ELSE f[j]]
  <1>1. n \in Nat /\ \A j \in i + 1 .. n + 1 : j \in 1 .. n + 1 /\ j # i
    OBVIOUS
  <1>2. g[i] = Member(t, f, i) /\ \A j \in i + 1 .. n + 1 : g[j] = f[j]
    BY <1>1, Zenon
  <1>3. \A j \in i + 1 .. n + 1 : f[j] = Member(t, f, j) /\ Parsed(f[j], W, n, j)
    BY Zenon DEF ParsesFrom
  <1> HIDE DEF g
  <1>4. g[i] = Member(t, g, i)
    <2>1. Alike(f, g, W, t, i)
      BY <1>2, <1>3, Zenon DEF Alike
    <2>2. Member(t, g, i) = Member(t, f, i)
      BY <2>1, MemberCongruence
    <2> QED BY <1>2, <2>2, Zenon
  <1>5. Parsed(g[i], W, n, i)
    BY <1>2, <1>3, MemberCases, Zenon
  <1>6. ASSUME NEW j \in i + 1 .. n + 1 PROVE g[j] = Member(t, g, j)
    <2>1. \A k \in j + 1 .. n + 1 : k \in i + 1 .. n + 1
      BY <1>1
    <2>2. Alike(f, g, W, t, j)
      BY <1>2, <1>3, <2>1, Zenon DEF Alike
    <2>3. Member(t, g, j) = Member(t, f, j)
      BY <2>2, MemberCongruence
    <2> QED BY <1>2, <1>3, <2>3, Zenon
  <1>7. \A j \in i .. n + 1 : j = i \/ j \in i + 1 .. n + 1
    BY <1>1
  <1>8. ParsesFrom(g, W, t, i)
    BY <1>2, <1>4, <1>5, <1>6, <1>7, Zenon DEF ParsesFrom
  <1> QED BY <1>8 DEF g

\* What Members, defined by recursion from the end of the text, says of each position.
LEMMA MembersDefined ==
    ASSUME NEW W, NEW t \in Seq(W)
    PROVE  ParsesFrom(Members(t), W, t, 1)
  <1> DEFINE n == Len(t)
             body(f) == [i \in 1 .. n + 1 |-> Member(t, f, i)]
             Good == {i \in 1 .. n + 1 : \E f : ParsesFrom(f, W, t, i)}
             M == Members(t)
  <1>1. n \in Nat
    OBVIOUS
  <1>2. ASSUME NEW i \in 1 .. n + 1, i + 1 .. n + 1 \subseteq Good PROVE i \in Good
    <2>1. \E f : ParsesFrom(f, W, t, i + 1)
      <3>1. CASE i = n + 1
        <4>1. i + 1 .. n + 1 = {}
          BY <3>1
        <4> QED BY <4>1, Zenon DEF ParsesFrom
      <3>2. CASE i # n + 1
        <4>1. i + 1 \in i + 1 .. n + 1
          BY <3>2
        <4> QED BY <4>1, <1>2, Zenon
      <3> QED BY <3>1, <3>2
    <2>2. PICK f : ParsesFrom(f, W, t, i + 1)
      BY <2>1, Zenon
    <2> QED BY <2>2, ParsesEarlier, Zenon
  <1>3. 1 \in Good
    <2> HIDE DEF Good
    <2>1. n + 1 \in Nat /\ 1 \in 1 .. n + 1
      BY <1>1
    <2>2. 1 .. n + 1 \subseteq Good
      BY <1>2, <2>1, Downwards, Zenon
    <2> QED BY <2>1, <2>2, Zenon
  <1>4. PICK f : ParsesFrom(f, W, t, 1)
    BY <1>3, Zenon
  <1> DEFINE g == [i \in 1 .. n + 1 |-> f[i]]
  <1>5. g = body(g)
    <2>1. ASSUME NEW i \in 1 .. n + 1 PROVE g[i] = Member(t, g, i)
      <3>1. \A j \in i + 1 .. n + 1 : j \in 1 .. n + 1
        BY <1>1
      <3>2. Alike(f, g, W, t, i)
        BY <1>4, <3>1, Zenon DEF ParsesFrom, Alike
      <3> HIDE DEF g
      <3>3. Member(t, g, i) = Member(t, f, i)
        BY <3>2, MemberCongruence
      <3>4. g[i] = f[i]
        BY Zenon DEF g
      <3> QED BY <1>4, <3>3, <3>4, Zenon DEF ParsesFrom
    <2>2. g = [i \in 1 .. n + 1 |-> g[i]]
      BY Zenon
    <2> HIDE DEF g
    <2> QED BY <2>1, <2>2
  <1>6. M = CHOOSE h : h = body(h)
    BY DEF Members
  <1>7. M = body(M)
    <2> HIDE DEF M, body
    <2> QED BY <1>5, <1>6, Zenon
  <1> HIDE DEF M
  <1>8. \A i \in 1 .. n + 1 : M[i] = Member(t, M, i)
    BY <1>7, Zenon
  <1> DEFINE Typed == {i \in 1 .. n + 1 : Parsed(M[i], W, n, i)}
  <1>9. ASSUME NEW i \in 1 .. n + 1, i + 1 .. n + 1 \subseteq Typed PROVE i \in Typed
    <2>1. \A j \in i + 1 .. n + 1 : Parsed(M[j], W, n, j)
      BY <1>9, Zenon
    <2>2. Parsed(Member(t, M, i), W, n, i)
      BY <2>1, MemberCases, Zenon
    <2> QED BY <2>2, <1>8, Zenon
  <1>10. 1 .. n + 1 \subseteq Typed
    <2> HIDE DEF Typed
    <2>1. n + 1 \in Nat
      BY <1>1
    <2> QED BY <1>9, <2>1, Downwards, Zenon
  <1> QED BY <1>8, <1>10, Zenon DEF ParsesFrom, M

-----------------------------------------------------------------------------
(* The sections that the braces make *)

Paths(W) == Seq(W \cup {"none"})

\* A section is a sequence of names.
LEMMA WithinType ==
    ASSUME NEW W, text \in Seq(W), NEW root, Start(root) \in 1 .. Len(text),
           NEW j \in Start(root) + 1 .. Len(text), NEW before \in Paths(W)
    PROVE  Within(root, before, j) \in Paths(W)
  <1> DEFINE V == W \cup {"none"}
  <1>1. "none" \in V /\ \A v \in W : v \in V
    OBVIOUS
  <1> HIDE DEF V
  <1>2. CASE before = <<"none">>
    BY <1>2, Zenon DEF Within
  <1>3. CASE before # <<"none">> /\ text[j - 1] = "{" /\ j - 1 > Start(root)
    <2>1. j - 1 > Start(root)
      BY <1>3
    <2>2. j - 2 \in 1 .. Len(text)
      BY <2>1
    <2>3. text[j - 2] \in V
      BY <2>2, <1>1
    <2>4. Append(before, text[j - 2]) \in Seq(V)
      BY <2>3 DEF Paths, V
    <2> QED BY <1>3, <2>4, Zenon DEF Within, Paths, V
  <1>4. CASE before # <<"none">> /\ text[j - 1] = "}"
    <2>1. before = <<>> => Within(root, before, j) = <<"none">>
      BY <1>4, Zenon DEF Within
    <2>2. <<"none">> \in Seq(V)
      BY <1>1
    <2>3. before # <<>> => Within(root, before, j) = Front(before)
      BY <1>4, Zenon DEF Within
    <2>4. before # <<>> => Front(before) \in Seq(V)
      BY DEF Paths, Front, V
    <2> QED BY <2>1, <2>2, <2>3, <2>4, Zenon DEF Paths, V
  <1>5. CASE /\ before # <<"none">> /\ ~(text[j - 1] = "{" /\ j - 1 > Start(root))
             /\ text[j - 1] # "}"
    BY <1>5, Zenon DEF Within
  <1> QED BY <1>2, <1>3, <1>4, <1>5, Zenon

\* What Sections, defined by recursion, says of each position.
LEMMA SectionsDefined ==
    ASSUME NEW W, text \in Seq(W), NEW root, Start(root) \in 1 .. Len(text)
    PROVE  LET S == Sections(root)
           IN  \A j \in 1 .. Len(text) :
                  /\ S[j] \in Paths(W)
                  /\ j <= Start(root) => S[j] = <<>>
                  /\ j > Start(root) => S[j] = Within(root, S[j - 1], j)
  <1> DEFINE n == Len(text)
             b == Start(root)
             step == [p \in Paths(W) \X Nat |->
                        IF p[2] \in b + 1 .. n THEN Within(root, p[1], p[2]) ELSE <<>>]
             body(f) == [j \in 1 .. n |->
                           IF j <= b THEN <<>> ELSE Within(root, f[j - 1], j)]
             S == Sections(root)
  <1>1. n \in Nat /\ b \in Nat /\ b >= 1
    OBVIOUS
  <1>2. <<>> \in Paths(W)
    BY DEF Paths
  <1>3. step \in [Paths(W) \X Nat -> Paths(W)]
    <2>1. \A p \in Paths(W) \X Nat :
             (IF p[2] \in b + 1 .. n THEN Within(root, p[1], p[2]) ELSE <<>>) \in Paths(W)
      <3> SUFFICES ASSUME NEW p \in Paths(W) \X Nat, p[2] \in b + 1 .. n
                   PROVE  Within(root, p[1], p[2]) \in Paths(W)
        BY <1>2, Zenon
      <3>1. p[1] \in Paths(W)
        OBVIOUS
      <3> QED BY <3>1, WithinType, Zenon
    <2> QED BY <2>1, Zenon
  <1>4. \A s \in Paths(W), j \in Nat :
           step[<<s, j>>] = IF j \in b + 1 .. n THEN Within(root, s, j) ELSE <<>>
    OBVIOUS
  <1> HIDE DEF step
  <1>5. PICK f \in [0 .. n -> Paths(W)] : Follows(f, <<>>, step, n)
    BY <1>1, <1>2, <1>3, Recursion, Zenon
  <1>6. \A j \in 1 .. n : /\ f[j] \in Paths(W)
                          /\ f[j] = IF j <= b THEN <<>> ELSE Within(root, f[j - 1], j)
    <2> SUFFICES ASSUME NEW j \in 1 .. n
                 PROVE  /\ f[j] \in Paths(W)
                        /\ f[j] = IF j <= b THEN <<>> ELSE Within(root, f[j - 1], j)
      OBVIOUS
    <2>1. f[j - 1] \in Paths(W) /\ f[j] \in Paths(W) /\ j \in Nat
      BY <1>5
    <2>2. f[j] = step[<<f[j - 1], j>>]
      BY <1>5, Zenon DEF Follows
    <2>3. j <= b <=> ~(j \in b + 1 .. n)
      BY <1>1
    <2> QED BY <2>1, <2>2, <2>3, <1>4, Zenon
  <1> DEFINE g == [j \in 1 .. n |-> f[j]]
  <1>7. g = body(g)
    <2>1. ASSUME NEW j \in 1 .. n
          PROVE  g[j] = IF j <= b THEN <<>> ELSE Within(root, g[j - 1], j)
      <3>1. g[j] = f[j]
        OBVIOUS
      <3>2. CASE j <= b
        BY <3>1, <3>2, <1>6, Zenon
      <3>3. CASE ~(j <= b)
        <4>1. j - 1 \in 1 .. n
          BY <1>1, <3>3
        <4>2. g[j - 1] = f[j - 1]
          BY <4>1
        <4> HIDE DEF g
        <4> QED BY <3>1, <3>3, <4>2, <1>6, Zenon
      <3> QED BY <3>2, <3>3
    <2>2. g = [j \in 1 .. n |-> g[j]]
      BY Zenon
    <2> HIDE DEF g
    <2> QED BY <2>1, <2>2
  <1>8. S = CHOOSE h : h = body(h)
    BY DEF Sections
  <1>9. S = body(S)
    <2> HIDE DEF S, body
    <2> QED BY <1>7, <1>8, Zenon
  <1> HIDE DEF S
  <1>10. \A j \in 1 .. n : S[j] = IF j <= b THEN <<>> ELSE Within(root, S[j - 1], j)
    BY <1>9, Zenon
  <1> DEFINE Good == {j \in 0 .. n : j = 0 \/ S[j] \in Paths(W)}
  <1>11. ASSUME NEW j \in 1 .. n, j - 1 \in Good PROVE j \in Good
    <2>1. CASE j <= b
      BY <1>2, <1>10, <2>1
    <2>2. CASE ~(j <= b)
      <3>1. j - 1 # 0 /\ j \in b + 1 .. n /\ j \in 0 .. n
        BY <1>1, <2>2
      <3>2. S[j - 1] \in Paths(W)
        BY <1>11, <3>1, Zenon
      <3>3. Within(root, S[j - 1], j) \in Paths(W)
        BY <3>1, <3>2, WithinType, Zenon
      <3> QED BY <3>1, <3>3, <1>10, <2>2, Zenon
    <2> QED BY <2>1, <2>2
  <1>12. 0 .. n \subseteq Good
    <2>1. 0 \in Good
      BY <1>1
    <2> HIDE DEF Good
    <2> QED BY <1>1, <1>11, <2>1, Upwards, Zenon
  <1>13. \A j \in 1 .. n : S[j] \in Paths(W)
    <2>1. \A j \in 1 .. n : j \in 0 .. n /\ j # 0
      BY <1>1
    <2> QED BY <2>1, <1>12, Zenon
  <1>14. \A j \in 1 .. n : j > b => ~(j <= b)
    BY <1>1
  <1> QED BY <1>10, <1>13, <1>14, Zenon DEF S

\* What Names, defined by recursion, says of each position.
LEMMA NamesDefined ==
    ASSUME Len(text) \in Nat, NEW root, Start(root) \in 1 .. Len(text)
    PROVE  LET N == Names(root)
           IN  \A k \in 1 .. Len(text) :
                  N[k] <=> \/ k = Start(root) + 1
                           \/ /\ k > Start(root)
                              /\ text[k - 1] \in {"{", "}"} \/ ~N[k - 1]
  <1> DEFINE n == Len(text)
             b == Start(root)
             step == [p \in BOOLEAN \X Nat |->
                        \/ p[2] = b + 1
                        \/ p[2] > b /\ (text[p[2] - 1] \in {"{", "}"} \/ ~p[1])]
             body(f) == [k \in 1 .. n |->
                           \/ k = b + 1
                           \/ k > b /\ (text[k - 1] \in {"{", "}"} \/ ~f[k - 1])]
             N == Names(root)
  <1>1. n \in Nat /\ b \in Nat /\ b >= 1
    OBVIOUS
  <1>2. step \in [BOOLEAN \X Nat -> BOOLEAN]
    BY Zenon
  <1>3. \A s \in BOOLEAN, k \in Nat :
           step[<<s, k>>] = (\/ k = b + 1
                             \/ k > b /\ (text[k - 1] \in {"{", "}"} \/ ~s))
    OBVIOUS
  <1> HIDE DEF step
  <1>4. PICK f \in [0 .. n -> BOOLEAN] : Follows(f, FALSE, step, n)
    BY <1>1, <1>2, Recursion, Zenon
  <1>5. \A k \in 1 .. n : f[k] = (\/ k = b + 1
                                  \/ k > b /\ (text[k - 1] \in {"{", "}"} \/ ~f[k - 1]))
    <2> SUFFICES ASSUME NEW k \in 1 .. n
                 PROVE  f[k] = (\/ k = b + 1
                                \/ k > b /\ (text[k - 1] \in {"{", "}"} \/ ~f[k - 1]))
      OBVIOUS
    <2>1. f[k - 1] \in BOOLEAN /\ f[k] \in BOOLEAN /\ k \in Nat
      BY <1>4
    <2>2. f[k] = step[<<f[k - 1], k>>]
      BY <1>4, Zenon DEF Follows
    <2> QED BY <2>1, <2>2, <1>3, Zenon
  <1> DEFINE g == [k \in 1 .. n |-> f[k]]
  <1>6. g = body(g)
    <2>1. ASSUME NEW k \in 1 .. n
          PROVE  g[k] = (\/ k = b + 1
                         \/ k > b /\ (text[k - 1] \in {"{", "}"} \/ ~g[k - 1]))
      <3>1. g[k] = f[k]
        OBVIOUS
      <3>2. CASE k <= b
        <4>1. ~(k > b) /\ k # b + 1
          BY <1>1, <3>2
        <4> HIDE DEF g
        <4> QED BY <3>1, <4>1, <1>5, Zenon
      <3>3. CASE ~(k <= b)
        <4>1. k - 1 \in 1 .. n
          BY <1>1, <3>3
        <4>2. g[k - 1] = f[k - 1]
          BY <4>1
        <4> HIDE DEF g
        <4> QED BY <3>1, <3>3, <4>2, <1>5, Zenon
      <3> QED BY <3>2, <3>3
    <2>2. g = [k \in 1 .. n |-> g[k]]
      BY Zenon
    <2> HIDE DEF g
    <2> QED BY <2>1, <2>2
  <1>7. N = CHOOSE h : h = body(h)
    BY DEF Names
  <1>8. N = body(N)
    <2> HIDE DEF N, body
    <2> QED BY <1>6, <1>7, Zenon
  <1> HIDE DEF N
  <1>9. \A k \in 1 .. n : N[k] = (\/ k = b + 1
                                  \/ k > b /\ (text[k - 1] \in {"{", "}"} \/ ~N[k - 1]))
    BY <1>8, Zenon
  <1> QED BY <1>9, Zenon DEF N

-----------------------------------------------------------------------------
(* Where the braces put what the parser reads *)

\* A name, among names and values that alternate.
Named(N, t, k) == N[k] /\ t[k] # "}"

\* In a section or in one of its members' sections.
Under(q, section, keys) ==
    \/ q = section
    \/ /\ Len(q) > Len(section) /\ q[Len(section) + 1] \in keys
       /\ \A m \in 1 .. Len(section) : q[m] = section[m]

\* What an object that reaches from position i to its closing brace at e is, by the braces.
Closed(S, t, i, e) == t[e] = "}" /\ S[e] = S[i]
Inside(S, i, e, keys) == \A k \in i .. e : Under(S[k], S[i], keys)
Listed(S, N, t, i, e, keys) ==
    \A k \in i .. e - 1 : Named(N, t, k) /\ S[k] = S[i] => t[k] \in keys
Located(S, N, t, section, i, e, texts) ==
    \A p \in texts : \E k \in i .. e - 1 :
       Named(N, t, k) /\ p[2] = t[k + 1] /\ section \o p[1] = Append(S[k], t[k])
Unique(S, N, t, i, e) ==
    \A k, l \in i .. e - 1 :
       Named(N, t, k) /\ Named(N, t, l) /\ S[k] = S[l] /\ t[k] = t[l] => k = l

Span(S, N, t, i, e, keys, texts) ==
    /\ Closed(S, t, i, e)
    /\ Inside(S, i, e, keys)
    /\ Listed(S, N, t, i, e, keys)
    /\ Located(S, N, t, S[i], i, e, texts)
    /\ Unique(S, N, t, i, e)

\* What is below a name in a section.
Beneath(q, section, key) == Under(q, section, {key}) /\ q # section

\* With more names, more is in a section's members.
LEMMA UnderMore ==
    ASSUME NEW q, NEW section, NEW keys, NEW more,
           Under(q, section, keys), keys \subseteq more
    PROVE  Under(q, section, more)
  BY Zenon DEF Under

\* What is below a name is below one of the section's names only if it is one of them.
LEMMA BeneathKey ==
    ASSUME NEW q, NEW section, NEW key, NEW keys, Beneath(q, section, key),
           Under(q, section, keys)
    PROVE  key \in keys
  BY Zenon DEF Under, Beneath

\* A member, and the rest of the object after it.
LEMMA Joins ==
    ASSUME NEW S, NEW N, NEW t, NEW i \in Nat, NEW r \in Nat, NEW e \in Nat, i < r, r <= e,
           NEW keys, NEW texts, NEW first, t[i] \notin keys,
           S[r] = S[i], Span(S, N, t, r, e, keys, texts),
           \A k \in i + 1 .. r - 1 : S[k] = S[i] \/ Beneath(S[k], S[i], t[i]),
           \A k \in i + 1 .. r - 1 : Named(N, t, k) => Beneath(S[k], S[i], t[i]),
           Unique(S, N, t, i + 1, r), Located(S, N, t, S[i], i, r, first)
    PROVE  Span(S, N, t, i, e, keys \cup {t[i]}, texts \cup first)
  <1> DEFINE more == keys \cup {t[i]}
  <1>1. /\ \A k \in i .. e : k = i \/ k \in i + 1 .. r - 1 \/ k \in r .. e
        /\ \A k \in i .. e - 1 : k = i \/ k \in i + 1 .. r - 1 \/ k \in r .. e - 1
        /\ \A k \in i .. r - 1 : k \in i .. e - 1
        /\ \A k \in r .. e - 1 : k \in i .. e - 1 /\ k \in r .. e
    OBVIOUS
  <1>2. Closed(S, t, i, e)
    BY Zenon DEF Span, Closed
  <1>3. Inside(S, i, e, more)
    <2> SUFFICES ASSUME NEW k \in i .. e PROVE Under(S[k], S[i], more)
      BY Zenon DEF Inside
    <2>1. CASE k = i
      BY <2>1, Zenon DEF Under
    <2>2. CASE k \in i + 1 .. r - 1
      BY <2>2, Zenon DEF Under, Beneath
    <2>3. CASE k \in r .. e
      <3>1. Under(S[k], S[i], keys)
        BY <2>3, Zenon DEF Span, Inside
      <3> QED BY <3>1, UnderMore, Zenon
    <2> QED BY <1>1, <2>1, <2>2, <2>3, Zenon
  <1>4. Listed(S, N, t, i, e, more)
    <2> SUFFICES ASSUME NEW k \in i .. e - 1, Named(N, t, k), S[k] = S[i]
                 PROVE  t[k] \in more
      BY Zenon DEF Listed
    <2>1. CASE k = i
      BY <2>1, Zenon
    <2>2. CASE k \in i + 1 .. r - 1
      BY <2>2, Zenon DEF Beneath
    <2>3. CASE k \in r .. e - 1
      BY <2>3, Zenon DEF Span, Listed
    <2> QED BY <1>1, <2>2, <2>3, Zenon
  <1>5. Located(S, N, t, S[i], i, e, texts \cup first)
    <2> SUFFICES ASSUME NEW p \in texts \cup first
                 PROVE  \E k \in i .. e - 1 :
                           /\ Named(N, t, k) /\ p[2] = t[k + 1]
                           /\ S[i] \o p[1] = Append(S[k], t[k])
      BY Zenon DEF Located
    <2>1. CASE p \in texts
      <3>1. PICK k \in r .. e - 1 :
               Named(N, t, k) /\ p[2] = t[k + 1] /\ S[i] \o p[1] = Append(S[k], t[k])
        BY <2>1, Zenon DEF Span, Located
      <3> QED BY <1>1, <3>1, Zenon
    <2>2. CASE p \in first
      <3>1. PICK k \in i .. r - 1 :
               Named(N, t, k) /\ p[2] = t[k + 1] /\ S[i] \o p[1] = Append(S[k], t[k])
        BY <2>2, Zenon DEF Located
      <3> QED BY <1>1, <3>1, Zenon
    <2> QED BY <2>1, <2>2, Zenon
  <1>6. Unique(S, N, t, i, e)
    <2>1. ASSUME NEW k \in i + 1 .. r - 1, Named(N, t, k), S[k] = S[i] PROVE FALSE
      BY <2>1, Zenon DEF Beneath
    <2>2. ASSUME NEW l \in r .. e - 1, Named(N, t, l), S[l] = S[i], t[l] = t[i] PROVE FALSE
      BY <2>2, Zenon DEF Span, Listed
    <2>3. ASSUME NEW k \in i + 1 .. r - 1, NEW l \in r .. e - 1, Named(N, t, k), S[k] = S[l]
          PROVE  FALSE
      <3>1. Beneath(S[l], S[i], t[i])
        BY <2>3, Zenon
      <3>2. Under(S[l], S[i], keys)
        BY <1>1, Zenon DEF Span, Inside
      <3> QED BY <3>1, <3>2, BeneathKey, Zenon
    <2>4. \A k, l \in i + 1 .. r - 1 :
             Named(N, t, k) /\ Named(N, t, l) /\ S[k] = S[l] /\ t[k] = t[l] => k = l
      BY Zenon DEF Unique
    <2>5. \A k, l \in r .. e - 1 :
             Named(N, t, k) /\ Named(N, t, l) /\ S[k] = S[l] /\ t[k] = t[l] => k = l
      BY Zenon DEF Span, Unique
    <2> SUFFICES ASSUME NEW k \in i .. e - 1, NEW l \in i .. e - 1,
                        Named(N, t, k), Named(N, t, l), S[k] = S[l], t[k] = t[l]
                 PROVE  k = l
      BY Zenon DEF Unique
    <2>6. k = i \/ k \in i + 1 .. r - 1 \/ k \in r .. e - 1
      BY <1>1, Zenon
    <2>7. l = i \/ l \in i + 1 .. r - 1 \/ l \in r .. e - 1
      BY <1>1, Zenon
    <2>8. CASE k = i
      BY <2>1, <2>2, <2>7, <2>8, Zenon
    <2>9. CASE k \in i + 1 .. r - 1
      BY <2>1, <2>3, <2>4, <2>7, <2>9, Zenon
    <2>10. CASE k \in r .. e - 1
      BY <2>2, <2>3, <2>5, <2>7, <2>10, Zenon
    <2> QED BY <2>6, <2>8, <2>9, <2>10, Zenon
  <1> QED BY <1>2, <1>3, <1>4, <1>5, <1>6, Zenon DEF Span

\* The braces move from section to section; names and values alternate between them.
Moves(S, t, b) ==
    \A j \in b .. Len(t) - 1 : S[j] # <<"none">> =>
       /\ t[j] \notin {"{", "}"} => S[j + 1] = S[j]
       /\ t[j] = "{" => S[j + 1] = Append(S[j], t[j - 1])
       /\ t[j] = "}" => S[j + 1] = IF S[j] = <<>> THEN <<"none">> ELSE Front(S[j])
Turns(N, t, b) == \A j \in b .. Len(t) - 1 : N[j + 1] <=> t[j] \in {"{", "}"} \/ ~N[j]

\* No closing brace in the place of a value.
Plain(texts) == \A p \in texts : p[2] # "}"

\* What is in or below the section of a name is below that name.
LEMMA BelowSection ==
    ASSUME NEW V, NEW section \in Seq(V), NEW key \in V, NEW q, NEW keys,
           Under(q, Append(section, key), keys)
    PROVE  Beneath(q, section, key)
  <1> DEFINE inner == Append(section, key)
  <1>1. /\ Len(section) \in Nat /\ Len(inner) = Len(section) + 1
        /\ inner[Len(section) + 1] = key
        /\ \A m \in 1 .. Len(section) : inner[m] = section[m]
    OBVIOUS
  <1> HIDE DEF inner
  <1>2. CASE q = inner
    <2>1. Len(inner) > Len(section)
      BY <1>1
    <2>2. q # section
      BY <1>2, <2>1
    <2> QED BY <1>1, <1>2, <2>1, <2>2, Zenon DEF Under, Beneath
  <1>3. CASE /\ Len(q) > Len(inner) /\ \A m \in 1 .. Len(inner) : q[m] = inner[m]
    <2>1. \A m \in 1 .. Len(section) : m \in 1 .. Len(inner)
      BY <1>1
    <2>2. Len(section) + 1 \in 1 .. Len(inner)
      BY <1>1
    <2>3. /\ q[Len(section) + 1] = key
          /\ \A m \in 1 .. Len(section) : q[m] = section[m]
      BY <1>1, <1>3, <2>1, <2>2, Zenon
    <2>4. CASE Len(q) > Len(section)
      <3>1. q # section
        BY <2>4
      <3> QED BY <2>3, <2>4, <3>1, Zenon DEF Under, Beneath
    <2>5. Len(q) > Len(section)
      <3>1. Len(q) > Len(inner) /\ Len(inner) = Len(section) + 1 /\ Len(section) \in Nat
        BY <1>1, <1>3
      <3> QED BY <3>1
    <2> QED BY <2>4, <2>5
  <1> QED BY <1>2, <1>3, Zenon DEF Under, inner

\* A section and the name of one within it.
LEMMA PathExtended ==
    ASSUME NEW V, NEW section \in Seq(V), NEW key \in V
    PROVE  /\ Append(section, key) \in Seq(V) /\ Append(section, key) # <<>>
           /\ Front(Append(section, key)) = section
           /\ Append(section, key)[Len(section) + 1] = key
           /\ Len(Append(section, key)) = Len(section) + 1
  BY DEF Front

\* A path from a section is one from the section below, without the first name.
Continues(section, key, path) ==
    section \o (<<key>> \o path) = Append(section, key) \o path

\* See Continues.
LEMMA PathContinued ==
    ASSUME NEW V, NEW section \in Seq(V), NEW key \in V, NEW path \in Seq(V)
    PROVE  Continues(section, key, path)
  <1>1. section \o <<key>> = Append(section, key)
    OBVIOUS
  <1>2. <<key>> \in Seq(V)
    OBVIOUS
  <1>3. (section \o <<key>>) \o path = section \o (<<key>> \o path)
    BY <1>2
  <1> QED BY <1>1, <1>3, Zenon DEF Continues

\* A name at position i, and its value.
NameAt(S, N, t, i) == S[i] # <<"none">> /\ N[i] /\ t[i] \notin {"{", "}"}
ValueAt(t, i) == t[i + 1] \notin {"{", "}"}
TextOf(name, value) == {<<<<name>>, value>>}

\* The fields of a text under its name.
LEMMA TextOfFields ==
    ASSUME NEW name, NEW value, NEW p \in TextOf(name, value)
    PROVE  p[1] = <<name>> /\ p[2] = value
  BY DEF TextOf

\* The positions of a name and its value.
LEMMA Positions ==
    ASSUME NEW n \in Nat, NEW b \in Nat \ {0}, NEW i \in b .. n - 2
    PROVE  /\ i \in Nat /\ i \in 1 .. n /\ i + 2 \in Nat /\ i < i + 2
           /\ i \in b .. n - 1 /\ i + 1 \in b .. n - 1 /\ (i + 1) + 1 = i + 2
           /\ (i + 2) - 1 = i + 1 /\ \A k \in i + 1 .. i + 1 : k = i + 1
           /\ i \in i .. i + 1
  OBVIOUS

\* A name with a text, before a span in the same section.
LEMMA ValueSpan ==
    ASSUME NEW V, NEW t \in Seq(V), NEW S, NEW N, NEW b \in Nat \ {0},
           Moves(S, t, b), Turns(N, t, b),
           NEW i \in b .. Len(t) - 2, S[i] \in Seq(V), NameAt(S, N, t, i), ValueAt(t, i),
           NEW keys, NEW texts, t[i] \notin keys, NEW e \in Nat, i + 2 <= e,
           S[i + 2] = S[i] /\ N[i + 2] => Span(S, N, t, i + 2, e, keys, texts)
    PROVE  Span(S, N, t, i, e, keys \cup {t[i]}, texts \cup TextOf(t[i], t[i + 1]))
  <1> DEFINE first == TextOf(t[i], t[i + 1])
             r == i + 2
  <1>1. Len(t) \in Nat
    BY LenProperties, Zenon
  <1>2. /\ i \in Nat /\ i \in 1 .. Len(t) /\ r \in Nat /\ i < r
        /\ i \in b .. Len(t) - 1 /\ i + 1 \in b .. Len(t) - 1 /\ (i + 1) + 1 = r
        /\ r - 1 = i + 1 /\ \A k \in i + 1 .. i + 1 : k = i + 1
        /\ i \in i .. i + 1
    BY <1>1
  <1>3. S[i + 1] = S[i] /\ S[r] = S[i]
    <2>1. S[i + 1] = S[i]
      BY <1>2, Zenon DEF Moves, NameAt
    <2>2. S[(i + 1) + 1] = S[i + 1]
      BY <1>2, Zenon DEF Moves, NameAt, ValueAt
    <2> QED BY <1>2, <2>1, <2>2, Zenon
  <1>4. ~N[i + 1] /\ N[r]
    <2>1. ~N[i + 1]
      BY <1>2, Zenon DEF Turns, NameAt
    <2>2. N[(i + 1) + 1]
      BY <1>2, <2>1, Zenon DEF Turns
    <2> QED BY <1>2, <2>1, <2>2, Zenon
  <1>5. \A k \in i + 1 .. r - 1 : ~Named(N, t, k)
    BY <1>2, <1>4, Zenon DEF Named
  <1>6. Unique(S, N, t, i + 1, r)
    BY <1>5, Zenon DEF Unique
  <1>7. Located(S, N, t, S[i], i, r, first)
    <2>1. Named(N, t, i)
      BY Zenon DEF Named, NameAt
    <2> SUFFICES ASSUME NEW p \in first
                 PROVE  \E k \in i .. r - 1 :
                           /\ Named(N, t, k) /\ p[2] = t[k + 1]
                           /\ S[i] \o p[1] = Append(S[k], t[k])
      BY Zenon DEF Located
    <2>2. p[1] = <<t[i]>> /\ p[2] = t[i + 1]
      BY TextOfFields, Zenon
    <2>3. i \in i .. r - 1
      BY <1>2, Zenon
    <2>4. S[i] \o p[1] = Append(S[i], t[i])
      BY <2>2
    <2> QED BY <2>1, <2>2, <2>3, <2>4, Zenon
  <1>8. Span(S, N, t, r, e, keys, texts)
    BY <1>3, <1>4, Zenon
  <1>9. \A k \in i + 1 .. r - 1 : Named(N, t, k) => Beneath(S[k], S[i], t[i])
    BY <1>5, Zenon
  <1>10. r <= e
    OBVIOUS
  <1> HIDE DEF first, r
  <1>11. Span(S, N, t, i, e, keys \cup {t[i]}, texts \cup first)
    BY <1>2, <1>3, <1>6, <1>7, <1>8, <1>9, <1>10, Joins, Zenon
  <1> QED BY <1>11, Zenon DEF first

\* The positions of a name, of the brace after it, and of the nested object up to the
\* position after its closing brace.
LEMMA NestedPositions ==
    ASSUME NEW n \in Nat, NEW b \in Nat \ {0}, NEW i \in b .. n, NEW r \in i + 3 .. n
    PROVE  /\ i \in Nat /\ i \in 1 .. n /\ r \in Nat /\ i < r
           /\ i \in b .. n - 1 /\ i + 1 \in b .. n - 1 /\ (i + 1) + 1 = i + 2
           /\ (i + 1) - 1 = i
           /\ r - 1 \in b .. n - 1 /\ (r - 1) + 1 = r
           /\ \A k \in i + 1 .. r - 1 : k = i + 1 \/ k \in i + 2 .. r - 1
           /\ \A k \in i + 2 .. r - 1 : k = r - 1 \/ k \in i + 2 .. (r - 1) - 1
           /\ \A k \in i + 2 .. (r - 1) - 1 : k \in i .. r - 1
  OBVIOUS

\* A name with a nested object, before a span in the same section.
LEMMA NestedSpan ==
    ASSUME NEW V, NEW t \in Seq(V), NEW S, NEW N, NEW b \in Nat \ {0},
           Moves(S, t, b), Turns(N, t, b),
           NEW i \in b .. Len(t), S[i] \in Seq(V), NameAt(S, N, t, i), t[i + 1] = "{",
           t[i] # "none",
           NEW r \in i + 3 .. Len(t), NEW names, NEW inner \in SUBSET (Seq(V) \X V),
           S[i + 2] # <<"none">> /\ N[i + 2] => Span(S, N, t, i + 2, r - 1, names, inner),
           NEW keys, NEW texts, t[i] \notin keys, NEW e \in Nat, r <= e,
           S[r] = S[i] /\ N[r] => Span(S, N, t, r, e, keys, texts)
    PROVE  Span(S, N, t, i, e, keys \cup {t[i]}, texts \cup Prefixed(t[i], inner))
  <1> DEFINE first == Prefixed(t[i], inner)
             section == S[i]
             key == t[i]
             f == i + 2
             c == r - 1
  <1>1. Len(t) \in Nat
    BY LenProperties, Zenon
  <1>2. /\ i \in Nat /\ i \in 1 .. Len(t) /\ r \in Nat /\ i < r
        /\ i \in b .. Len(t) - 1 /\ i + 1 \in b .. Len(t) - 1 /\ (i + 1) + 1 = f
        /\ (i + 1) - 1 = i
        /\ c \in b .. Len(t) - 1 /\ c + 1 = r
        /\ \A k \in i + 1 .. c : k = i + 1 \/ k \in f .. c
        /\ \A k \in f .. c : k = c \/ k \in f .. c - 1
        /\ \A k \in f .. c - 1 : k \in i .. c
    BY <1>1, NestedPositions
  <1>3. section \in Seq(V) /\ key \in V
    BY <1>2, LenProperties
  <1> DEFINE below == Append(section, key)
  <1> HIDE DEF section, key
  <1>4. below # <<>> /\ Front(below) = section /\ below \in Seq(V)
    <2>1. below # <<>>
      BY <1>3, PathExtended, Zenon
    <2>2. Front(below) = section
      BY <1>3, PathExtended, Zenon
    <2>3. below \in Seq(V)
      BY <1>3, PathExtended, Zenon
    <2> QED BY <2>1, <2>2, <2>3
  <1> USE DEF section, key
  <1>5. below # <<"none">>
    <2>1. below[Len(section) + 1] = key /\ Len(below) = Len(section) + 1
      <3> HIDE DEF section, key
      <3>1. below[Len(section) + 1] = key
        BY <1>3, PathExtended, Zenon
      <3>2. Len(below) = Len(section) + 1
        BY <1>3, PathExtended, Zenon
      <3> QED BY <3>1, <3>2
    <2>2. Len(section) + 1 = 1 => below[1] = key
      BY <2>1, Zenon
    <2> HIDE DEF section, key, below
    <2>3. key # "none"
      BY DEF key
    <2>4. ASSUME below = <<"none">> PROVE FALSE
      <3>1. Len(section) + 1 = 1
        BY <2>1, <2>4, Zenon
      <3> QED BY <3>1, <2>2, <2>3, <2>4, Zenon
    <2> QED BY <2>4, Zenon
  <1>6. S[i + 1] = section /\ S[f] = below
    <2>1. S[i + 1] = S[i]
      BY <1>2, Zenon DEF Moves, NameAt
    <2>2. S[(i + 1) + 1] = Append(S[i + 1], t[(i + 1) - 1])
      BY <1>2, Zenon DEF Moves, NameAt
    <2> QED BY <1>2, <2>1, <2>2, Zenon
  <1>7. ~N[i + 1] /\ N[f]
    <2>1. ~N[i + 1]
      BY <1>2, Zenon DEF Turns, NameAt
    <2>2. N[(i + 1) + 1]
      BY <1>2, Zenon DEF Turns
    <2> QED BY <1>2, <2>1, <2>2, Zenon
  <1>8. Span(S, N, t, f, c, names, inner)
    BY <1>5, <1>6, <1>7, Zenon
  <1>9. t[c] = "}" /\ S[c] = below
    BY <1>6, <1>8, Zenon DEF Span, Closed
  <1>10. S[r] = section /\ N[r]
    <2>1. S[c + 1] = Front(below)
      BY <1>2, <1>4, <1>5, <1>9, Zenon DEF Moves
    <2>2. N[c + 1]
      BY <1>2, <1>9, Zenon DEF Turns
    <2> QED BY <1>2, <1>4, <2>1, <2>2, Zenon
  <1>11. Span(S, N, t, r, e, keys, texts)
    BY <1>10, Zenon
  <1>12. \A k \in f .. c : Beneath(S[k], section, key)
    <2> SUFFICES ASSUME NEW k \in f .. c PROVE Beneath(S[k], section, key)
      OBVIOUS
    <2>1. Under(S[k], below, names)
      BY <1>6, <1>8, Zenon DEF Span, Inside
    <2> HIDE DEF section, key
    <2> QED BY <1>3, <2>1, BelowSection, Zenon
  <1>13. \A k \in i + 1 .. c : S[k] = S[i] \/ Beneath(S[k], S[i], t[i])
    BY <1>2, <1>6, <1>12, Zenon
  <1>14. \A k \in i + 1 .. c : Named(N, t, k) => k \in f .. c - 1 /\ k \in f .. c
    BY <1>2, <1>7, <1>9, Zenon DEF Named
  <1>15. \A k \in i + 1 .. c : Named(N, t, k) => Beneath(S[k], S[i], t[i])
    BY <1>12, <1>14, Zenon
  <1>16. Unique(S, N, t, i + 1, r)
    BY <1>8, <1>14, Zenon DEF Span, Unique
  <1>17. Located(S, N, t, S[i], i, r, first)
    <2> SUFFICES ASSUME NEW q \in inner
                 PROVE  \E k \in i .. c :
                           /\ Named(N, t, k) /\ <<<<key>> \o q[1], q[2]>>[2] = t[k + 1]
                           /\ section \o <<<<key>> \o q[1], q[2]>>[1] = Append(S[k], t[k])
      BY Zenon DEF Located, Prefixed
    <2>1. PICK k \in f .. c - 1 :
             Named(N, t, k) /\ q[2] = t[k + 1] /\ S[f] \o q[1] = Append(S[k], t[k])
      BY <1>8, Zenon DEF Span, Located
    <2>2. q[1] \in Seq(V)
      OBVIOUS
    <2>3. section \o (<<key>> \o q[1]) = below \o q[1]
      <3> DEFINE path == q[1]
      <3>1. path \in Seq(V)
        BY <2>2
      <3> HIDE DEF section, key, path
      <3>2. Continues(section, key, path)
        BY <1>3, <3>1, PathContinued, Zenon
      <3> QED BY <3>2, Zenon DEF path, Continues
    <2>4. section \o (<<key>> \o q[1]) = Append(S[k], t[k])
      BY <1>6, <2>1, <2>3, Zenon
    <2> QED BY <1>2, <2>1, <2>4, Zenon
  <1> HIDE DEF first, c, f
  <1>18. S[r] = S[i]
    BY <1>10, Zenon
  <1>19. Span(S, N, t, i, e, keys \cup {t[i]}, texts \cup first)
    <2> HIDE DEF section, key, below
    <2> QED BY <1>2, <1>11, <1>13, <1>15, <1>16, <1>17, <1>18, Joins, Zenon DEF c
  <1> QED BY <1>19, Zenon DEF first

Reading(S, N, t, i, o) ==
    o.ok /\ Plain(o.texts) /\ S[i] # <<"none">> /\ N[i] =>
       Span(S, N, t, i, o.next - 1, o.keys, o.texts)

\* The positions from i to i.
LEMMA OnlyPosition ==
    ASSUME NEW i \in Nat
    PROVE  (\A k \in i .. i : k = i) /\ (\A k \in i .. i - 1 : FALSE)
  OBVIOUS

\* A closing brace alone.
LEMMA ClosingSpan ==
    ASSUME NEW S, NEW N, NEW t, NEW i \in Nat, t[i] = "}"
    PROVE  Span(S, N, t, i, i, {}, {})
  <1>1. (\A k \in i .. i : k = i) /\ (\A k \in i .. i - 1 : FALSE)
    BY OnlyPosition, Zenon
  <1>2. Inside(S, i, i, {})
    BY <1>1, Zenon DEF Inside, Under
  <1>3. Listed(S, N, t, i, i, {}) /\ Unique(S, N, t, i, i)
    BY <1>1, Zenon DEF Listed, Unique
  <1>4. Located(S, N, t, S[i], i, i, {}) /\ Closed(S, t, i, i)
    BY Zenon DEF Located, Closed
  <1> QED BY <1>2, <1>3, <1>4, Zenon DEF Span

\* The names in a text, and the sections that its braces make.
Braced(V, t, S, N, b) ==
    /\ t \in Seq(V) /\ b \in 1 .. Len(t)
    /\ Moves(S, t, b) /\ Turns(N, t, b)
    /\ \A k \in 1 .. Len(t) : S[k] \in Seq(V) /\ t[k] # "none"

\* Texts below a name that are no braces are none above it.
LEMMA PlainInner ==
    ASSUME NEW key, NEW texts, Plain(Prefixed(key, texts))
    PROVE  Plain(texts)
  <1> SUFFICES ASSUME NEW p \in texts PROVE p[2] # "}"
    BY Zenon DEF Plain
  <1>1. <<<<key>> \o p[1], p[2]>> \in Prefixed(key, texts)
    BY Zenon DEF Prefixed
  <1> QED BY <1>1, Zenon DEF Plain

\* The parser's object that begins with a name and a text, if the rest of it is where
\* the braces put it.
LEMMA HoldsSpan ==
    ASSUME NEW V, NEW t, NEW S, NEW N, NEW b, Braced(V, t, S, N, b),
           NEW i \in b .. Len(t), NEW o, NEW rest, Holds(t, o, rest, i), o.ok,
           i + 2 <= Len(t), Parsed(rest, V, Len(t), i + 2), Reading(S, N, t, i + 2, rest)
    PROVE  Reading(S, N, t, i, o)
  <1> SUFFICES ASSUME Plain(o.texts), S[i] # <<"none">>, N[i]
               PROVE  Span(S, N, t, i, o.next - 1, o.keys, o.texts)
    BY Zenon DEF Reading
  <1>1. /\ t \in Seq(V) /\ b \in 1 .. Len(t) /\ Moves(S, t, b) /\ Turns(N, t, b)
        /\ Len(t) \in Nat
    BY LenProperties, Zenon DEF Braced
  <1>2. /\ rest.ok /\ t[i] \notin rest.keys /\ o.next = rest.next
        /\ o.keys = rest.keys \cup {t[i]}
        /\ o.texts = rest.texts \cup TextOf(t[i], t[i + 1])
        /\ t[i] \notin {"{", "}"} /\ t[i + 1] # "{"
    BY Zenon DEF Holds, Extends, TextOf
  <1>3. Plain(rest.texts) /\ Plain(TextOf(t[i], t[i + 1]))
    BY <1>2, Zenon DEF Plain
  <1>4. ValueAt(t, i)
    <2> DEFINE p == <<<<t[i]>>, t[i + 1]>>
    <2>1. p[2] = t[i + 1]
      OBVIOUS
    <2>2. p \in TextOf(t[i], t[i + 1])
      BY Zenon DEF TextOf
    <2> HIDE DEF p
    <2>3. t[i + 1] # "}"
      BY <1>3, <2>1, <2>2, Zenon DEF Plain
    <2> QED BY <1>2, <2>3, Zenon DEF ValueAt
  <1> DEFINE e == o.next - 1
  <1>5. rest.next \in (i + 2) + 1 .. Len(t) + 1
    BY <1>2, Zenon DEF Parsed
  <1>6. /\ e \in Nat /\ i + 2 <= e /\ i \in b .. Len(t) - 2 /\ b \in Nat \ {0}
        /\ i \in 1 .. Len(t)
    <2>1. o.next \in (i + 2) + 1 .. Len(t) + 1
      BY <1>2, <1>5, Zenon
    <2> DEFINE x == o.next
               n == Len(t)
    <2>2. /\ x \in (i + 2) + 1 .. n + 1 /\ i \in b .. n /\ b \in 1 .. n /\ n \in Nat
          /\ i + 2 <= n
      BY <2>1, <1>1, Zenon
    <2> HIDE DEF x, n
    <2>3. /\ x - 1 \in Nat /\ i + 2 <= x - 1 /\ i \in b .. n - 2 /\ b \in Nat \ {0}
          /\ i \in 1 .. n
      BY <2>2
    <2> QED BY <2>3, Zenon DEF x, n
  <1>7. NameAt(S, N, t, i) /\ S[i] \in Seq(V)
    BY <1>2, <1>6, Zenon DEF NameAt, Braced
  <1>8. S[i + 2] = S[i] /\ N[i + 2] => Span(S, N, t, i + 2, e, rest.keys, rest.texts)
    BY <1>2, <1>3, Zenon DEF Reading
  <1> HIDE DEF e
  <1>9. Span(S, N, t, i, e, rest.keys \cup {t[i]}, rest.texts \cup TextOf(t[i], t[i + 1]))
    BY <1>1, <1>2, <1>4, <1>6, <1>7, <1>8, ValueSpan, Zenon
  <1> QED BY <1>2, <1>9, Zenon DEF e

\* The parser's object that begins with a name and a nested object, if that and the
\* rest are where the braces put them.
LEMMA NestsSpan ==
    ASSUME NEW V, NEW t, NEW S, NEW N, NEW b, Braced(V, t, S, N, b),
           NEW i \in b .. Len(t), NEW o, NEW inner, NEW rest,
           Nests(t, o, inner, rest, i), o.ok,
           Parsed(inner, V, Len(t), i + 2), Reading(S, N, t, i + 2, inner),
           inner.next <= Len(t), Parsed(rest, V, Len(t), inner.next),
           Reading(S, N, t, inner.next, rest)
    PROVE  Reading(S, N, t, i, o)
  <1> SUFFICES ASSUME Plain(o.texts), S[i] # <<"none">>, N[i]
               PROVE  Span(S, N, t, i, o.next - 1, o.keys, o.texts)
    BY Zenon DEF Reading
  <1> DEFINE r == inner.next
             e == o.next - 1
  <1>1. /\ t \in Seq(V) /\ b \in 1 .. Len(t) /\ Moves(S, t, b) /\ Turns(N, t, b)
        /\ Len(t) \in Nat
    BY LenProperties, Zenon DEF Braced
  <1>2. /\ inner.ok /\ rest.ok /\ t[i] \notin rest.keys /\ o.next = rest.next
        /\ o.keys = rest.keys \cup {t[i]}
        /\ o.texts = rest.texts \cup Prefixed(t[i], inner.texts)
        /\ t[i] \notin {"{", "}"} /\ t[i + 1] = "{"
    BY Zenon DEF Nests, Extends
  <1>3. Plain(rest.texts) /\ Plain(Prefixed(t[i], inner.texts))
    BY <1>2, Zenon DEF Plain
  <1>4. Plain(inner.texts)
    BY <1>3, PlainInner, Zenon
  <1>5. r \in (i + 2) + 1 .. Len(t) + 1 /\ rest.next \in r + 1 .. Len(t) + 1
    BY <1>2, Zenon DEF Parsed
  <1>6. /\ e \in Nat /\ r <= e /\ r \in i + 3 .. Len(t) /\ b \in Nat \ {0}
        /\ i \in 1 .. Len(t)
    <2>1. o.next \in r + 1 .. Len(t) + 1
      BY <1>2, <1>5, Zenon
    <2> DEFINE x == o.next
               n == Len(t)
    <2>2. /\ x \in r + 1 .. n + 1 /\ i \in b .. n /\ b \in 1 .. n /\ n \in Nat
          /\ r \in (i + 2) + 1 .. n + 1 /\ r <= n
      BY <2>1, <1>1, <1>5, Zenon
    <2> HIDE DEF x, n, r
    <2>3. x - 1 \in Nat /\ r <= x - 1 /\ r \in i + 3 .. n /\ b \in Nat \ {0} /\ i \in 1 .. n
      BY <2>2
    <2> QED BY <2>3, Zenon DEF x, n
  <1>7. NameAt(S, N, t, i) /\ S[i] \in Seq(V) /\ t[i] # "none"
    BY <1>2, <1>6, Zenon DEF NameAt, Braced
  <1>8. S[i + 2] # <<"none">> /\ N[i + 2] =>
           Span(S, N, t, i + 2, r - 1, inner.keys, inner.texts)
    BY <1>2, <1>4, Zenon DEF Reading
  <1>9. S[r] = S[i] /\ N[r] => Span(S, N, t, r, e, rest.keys, rest.texts)
    BY <1>2, <1>3, Zenon DEF Reading
  <1>10. inner.texts \in SUBSET (Seq(V) \X V)
    <2>1. inner \in Accepted(V)
      BY <1>2, ObjectAccepted, Zenon DEF Parsed
    <2> QED BY <2>1, AcceptedFields, Zenon
  <1> HIDE DEF e, r
  <1>11. Span(S, N, t, i, e, rest.keys \cup {t[i]},
              rest.texts \cup Prefixed(t[i], inner.texts))
    BY <1>1, <1>2, <1>6, <1>7, <1>8, <1>9, <1>10, NestedSpan, Zenon
  <1> QED BY <1>2, <1>11, Zenon DEF e

\* What the parser accepts from a position on is where the braces put it: by induction
\* from the end of the text.
LEMMA ObjectSpan ==
    ASSUME NEW V, NEW t, NEW S, NEW N, NEW b, Braced(V, t, S, N, b)
    PROVE  Reading(S, N, t, b, Members(t)[b])
  <1> DEFINE n == Len(t)
             M == Members(t)
             Good == {i \in 1 .. n + 1 : i \in b .. n => Reading(S, N, t, i, M[i])}
  <1>1. t \in Seq(V) /\ n \in Nat /\ b \in 1 .. n
    BY LenProperties, Zenon DEF Braced
  <1>2. \A i \in 1 .. n + 1 : M[i] = Member(t, M, i) /\ Parsed(M[i], V, n, i)
    BY <1>1, MembersDefined, Zenon DEF ParsesFrom
  <1> HIDE DEF M
  <1>3. ASSUME NEW i \in 1 .. n + 1, M[i].ok
        PROVE  /\ i <= n
               /\ \/ Closes(t, M[i], i)
                  \/ Holds(t, M[i], M[i + 2], i)
                  \/ Nests(t, M[i], M[i + 2], M[M[i + 2].next], i)
    <2>1. \A j \in i + 1 .. n + 1 : j \in 1 .. n + 1
      BY <1>1
    <2>2. \A j \in i + 1 .. n + 1 : Parsed(M[j], V, n, j)
      BY <1>2, <2>1, Zenon
    <2>3. Member(t, M, i) = M[i]
      BY <1>2, Zenon
    <2>4. Member(t, M, i).ok
      BY <1>3, <2>3, Zenon
    <2>5. i <= n
      BY <1>1, <2>2, <2>4, MemberCases, Zenon
    <2>6. \/ Closes(t, Member(t, M, i), i)
          \/ Holds(t, Member(t, M, i), M[i + 2], i)
          \/ Nests(t, Member(t, M, i), M[i + 2], M[M[i + 2].next], i)
      BY <1>1, <2>2, <2>4, MemberCases, Zenon
    <2> QED BY <2>3, <2>5, <2>6, Zenon
  <1>4. ASSUME NEW i \in b .. n, \A j \in i + 1 .. n : Reading(S, N, t, j, M[j])
        PROVE  Reading(S, N, t, i, M[i])
    <2>1. i \in 1 .. n + 1 /\ i \in Nat
      BY <1>1
    <2> SUFFICES ASSUME M[i].ok PROVE Reading(S, N, t, i, M[i])
      BY Zenon DEF Reading
    <2>2. CASE Closes(t, M[i], i)
      <3>1. /\ t[i] = "}" /\ M[i].next = i + 1 /\ M[i].keys = {} /\ M[i].texts = {}
        BY <2>2, Zenon DEF Closes
      <3>2. (i + 1) - 1 = i
        BY <2>1
      <3> QED BY <2>1, <3>1, <3>2, ClosingSpan, Zenon DEF Reading
    <2>3. CASE Holds(t, M[i], M[i + 2], i)
      <3>1. i < n /\ M[i + 2].ok
        BY <2>3, Zenon DEF Holds, Extends
      <3>2. i + 2 \in 1 .. n + 1
        <4>1. i < n
          BY <3>1
        <4> QED BY <4>1, <1>1
      <3>3. i + 2 <= n
        BY <3>1, <3>2, <1>3, Zenon
      <3>4. i + 2 \in i + 1 .. n
        BY <3>3
      <3>5. Reading(S, N, t, i + 2, M[i + 2]) /\ Parsed(M[i + 2], V, n, i + 2)
        BY <1>2, <1>4, <3>2, <3>4, Zenon
      <3> QED BY <2>3, <3>3, <3>5, HoldsSpan, Zenon
    <2>4. CASE Nests(t, M[i], M[i + 2], M[M[i + 2].next], i)
      <3> DEFINE r == M[i + 2].next
      <3>1. i < n /\ M[i + 2].ok /\ M[r].ok
        BY <2>4, Zenon DEF Nests, Extends
      <3>2. i + 2 \in 1 .. n + 1
        <4>1. i < n
          BY <3>1
        <4> QED BY <4>1, <1>1
      <3>3. i + 2 <= n
        BY <3>1, <3>2, <1>3, Zenon
      <3>4. i + 2 \in i + 1 .. n
        BY <3>3
      <3>5. Reading(S, N, t, i + 2, M[i + 2]) /\ Parsed(M[i + 2], V, n, i + 2)
        BY <1>2, <1>4, <3>2, <3>4, Zenon
      <3>6. r \in (i + 2) + 1 .. n + 1
        BY <3>1, <3>5, Zenon DEF Parsed
      <3>7. r \in 1 .. n + 1
        <4> HIDE DEF r
        <4> QED BY <2>1, <3>6
      <3>8. r <= n
        BY <3>1, <3>7, <1>3, Zenon
      <3>9. r \in i + 1 .. n
        <4> HIDE DEF r
        <4> QED BY <3>6, <3>8
      <3>10. Reading(S, N, t, r, M[r]) /\ Parsed(M[r], V, n, r)
        BY <1>2, <1>4, <3>7, <3>9, Zenon
      <3> QED BY <2>4, <3>5, <3>8, <3>10, NestsSpan, Zenon
    <2> QED BY <1>3, <2>1, <2>2, <2>3, <2>4, Zenon
  <1>5. ASSUME NEW i \in 1 .. n + 1, i + 1 .. n + 1 \subseteq Good PROVE i \in Good
    <2> SUFFICES ASSUME i \in b .. n PROVE Reading(S, N, t, i, M[i])
      BY Zenon
    <2>1. \A j \in i + 1 .. n : j \in i + 1 .. n + 1 /\ j \in b .. n
      BY <1>1
    <2>2. \A j \in i + 1 .. n : Reading(S, N, t, j, M[j])
      BY <1>5, <2>1, Zenon
    <2> QED BY <1>4, <2>2, Zenon
  <1>6. 1 .. n + 1 \subseteq Good
    <2>1. n + 1 \in Nat
      BY <1>1
    <2> HIDE DEF Good
    <2> QED BY <1>5, <2>1, Downwards, Zenon
  <1>7. b \in 1 .. n + 1 /\ b \in b .. n
    BY <1>1
  <1> QED BY <1>6, <1>7, Zenon DEF M

\* The opening brace of the root.
LEMMA RootPlace ==
    ASSUME NEW W, text \in Seq(W), NEW root, Roots(text, root) # {}
    PROVE  /\ Start(root) \in 1 .. Len(text) /\ text[Start(root)] = "{"
           /\ FirstRoot(text, root) + 2 = Start(root) + 1
  <1> DEFINE R == Roots(text, root)
             first == FirstRoot(text, root)
  <1>1. R \subseteq 1 .. Len(text) - 1
    BY Zenon DEF Roots
  <1>2. R \subseteq Nat
    <2> HIDE DEF R
    <2> QED BY <1>1
  <1>3. \E i \in R : \A j \in R : i <= j
    <2> HIDE DEF R
    <2> QED BY <1>2, Least DEF R
  <1>4. first \in R
    BY <1>3, Zenon DEF FirstRoot
  <1>5. first \in 1 .. Len(text) - 1
    BY <1>1, <1>4, Zenon
  <1>6. text[first + 1] = "{"
    BY <1>4, Zenon DEF Roots
  <1> HIDE DEF first, R
  <1>7. first + 1 \in 1 .. Len(text) /\ first + 2 = (first + 1) + 1
    BY <1>5
  <1> QED BY <1>7, <1>6, Zenon DEF Start, first

\* The positions after the opening brace of the root.
LEMMA PositionsAfter ==
    ASSUME NEW n \in Nat, NEW s \in 1 .. n, s < n
    PROVE  /\ s + 1 \in 1 .. n /\ s + 1 > s /\ (s + 1) - 1 = s /\ s <= s /\ ~(s > s)
           /\ \A j \in s + 1 .. n - 1 :
                 /\ j + 1 \in 1 .. n /\ j + 1 > s /\ (j + 1) - 1 = j /\ (j + 1) - 2 = j - 1
                 /\ j > s /\ j + 1 # s + 1
  OBVIOUS

\* A sequence of some words is one of more words.
LEMMA WordsWithMore ==
    ASSUME NEW W, NEW q \in Seq(W), NEW V, W \subseteq V
    PROVE  q \in Seq(V)
  OBVIOUS

\* Sections and Names read a text by its braces, from the opening brace of the root on.
LEMMA BracedText ==
    ASSUME NEW W, text \in Seq(W), "none" \notin W, NEW root,
           Start(root) \in 1 .. Len(text), Start(root) < Len(text), text[Start(root)] = "{"
    PROVE  /\ Braced(W \cup {"none"}, text, Sections(root), Names(root), Start(root) + 1)
           /\ Sections(root)[Start(root) + 1] = <<>> /\ Names(root)[Start(root) + 1]
  <1> DEFINE S == Sections(root)
             N == Names(root)
             s == Start(root)
             n == Len(text)
             V == W \cup {"none"}
  <1>1. n \in Nat /\ s \in 1 .. n /\ s < n
    BY LenProperties, Zenon
  <1>2. \A j \in 1 .. n : /\ S[j] \in Seq(V)
                          /\ j <= s => S[j] = <<>>
                          /\ j > s => S[j] = Within(root, S[j - 1], j)
    BY SectionsDefined, Zenon DEF Paths
  <1>3. \A k \in 1 .. n : N[k] <=> \/ k = s + 1
                                   \/ k > s /\ (text[k - 1] \in {"{", "}"} \/ ~N[k - 1])
    BY <1>1, NamesDefined, Zenon
  <1> HIDE DEF S, N, s, n
  <1>4. s + 1 \in 1 .. n /\ s + 1 > s /\ (s + 1) - 1 = s /\ s <= s /\ ~(s > s)
    BY <1>1, PositionsAfter, Zenon
  <1>5. \A j \in s + 1 .. n - 1 :
           /\ j + 1 \in 1 .. n /\ j + 1 > s /\ (j + 1) - 1 = j /\ (j + 1) - 2 = j - 1
           /\ j > s /\ j + 1 # s + 1
    BY <1>1, PositionsAfter, Zenon
  <1>6. \A j \in s + 1 .. n - 1 : S[j + 1] = Within(root, S[j], j + 1)
    BY <1>2, <1>5, Zenon
  <1>7. Moves(S, text, s + 1)
    <2> SUFFICES ASSUME NEW j \in s + 1 .. n - 1, S[j] # <<"none">>
                 PROVE  /\ text[j] \notin {"{", "}"} => S[j + 1] = S[j]
                        /\ text[j] = "{" => S[j + 1] = Append(S[j], text[j - 1])
                        /\ text[j] = "}" => S[j + 1] = IF S[j] = <<>> THEN <<"none">>
                                                       ELSE Front(S[j])
      BY Zenon DEF Moves, n
    <2>1. S[j + 1] = IF text[j] = "{" THEN Append(S[j], text[j - 1])
                     ELSE IF text[j] = "}"
                          THEN IF S[j] = <<>> THEN <<"none">> ELSE Front(S[j])
                     ELSE S[j]
      BY <1>5, <1>6, Zenon DEF Within, s
    <2> QED BY <2>1, Zenon
  <1>8. Turns(N, text, s + 1)
    <2> SUFFICES ASSUME NEW j \in s + 1 .. n - 1
                 PROVE  N[j + 1] <=> text[j] \in {"{", "}"} \/ ~N[j]
      BY Zenon DEF Turns, n
    <2> QED BY <1>3, <1>5, Zenon
  <1>9. \A k \in 1 .. n : S[k] \in Seq(V) /\ text[k] # "none"
    <2>1. \A k \in 1 .. n : text[k] \in W
      BY LenProperties DEF n
    <2> QED BY <1>2, <2>1, Zenon
  <1>10. text \in Seq(V)
    <2>1. W \subseteq V
      OBVIOUS
    <2> HIDE DEF V
    <2> QED BY <2>1, WordsWithMore, Zenon
  <1>11. Braced(V, text, S, N, s + 1)
    BY <1>7, <1>8, <1>9, <1>10, <1>4, Zenon DEF Braced, n
  <1>12. S[s + 1] = <<>>
    <2>1. S[s] = <<>> /\ S[s + 1] = Within(root, S[s], s + 1)
      BY <1>1, <1>2, <1>4, Zenon
    <2> QED BY <1>4, <2>1, Zenon DEF Within, s
  <1>13. N[s + 1]
    BY <1>3, <1>4, Zenon
  <1> QED BY <1>11, <1>12, <1>13, Zenon DEF S, N, s

\* The positions after the closing brace of the root, and those before them.
LEMMA NextPositions ==
    ASSUME NEW n \in Nat, NEW s \in 1 .. n, NEW e \in s + 1 .. n, NEW j \in 1 .. n,
           j - 1 \in 0 .. n
    PROVE  /\ j \in e + 1 .. n => /\ j > s /\ (j = e + 1 => j - 1 = e)
                                  /\ j # e + 1 => j - 1 \in e + 1 .. n
           /\ j \in 0 .. n
  OBVIOUS

\* They come after position 0.
LEMMA LaterPositions ==
    ASSUME NEW n \in Nat, NEW s \in 1 .. n, NEW e \in s + 1 .. n
    PROVE  0 \in 0 .. n /\ ~(0 \in e + 1 .. n) /\ \A j \in e + 1 .. n : j \in 0 .. n
  OBVIOUS

\* After the closing brace of the root nothing belongs to it.
LEMMA Outside ==
    ASSUME NEW W, text \in Seq(W), NEW root, Start(root) \in 1 .. Len(text),
           NEW e \in Start(root) + 1 .. Len(text), Sections(root)[e] = <<>>, text[e] = "}"
    PROVE  \A j \in e + 1 .. Len(text) : Sections(root)[j] = <<"none">>
  <1> DEFINE S == Sections(root)
             s == Start(root)
             n == Len(text)
             Good == {j \in 0 .. n : j \in e + 1 .. n => S[j] = <<"none">>}
  <1>1. n \in Nat /\ s \in 1 .. n
    BY LenProperties, Zenon
  <1>2. \A j \in 1 .. n : j > s => S[j] = Within(root, S[j - 1], j)
    BY SectionsDefined, Zenon
  <1> HIDE DEF S, s, n
  <1>3. ASSUME NEW j \in 1 .. n, j - 1 \in Good PROVE j \in Good
    <2>1. /\ j \in e + 1 .. n => /\ j > s /\ (j = e + 1 => j - 1 = e)
                                 /\ j # e + 1 => j - 1 \in e + 1 .. n
          /\ j \in 0 .. n
      BY <1>1, <1>3, NextPositions, Zenon DEF s, n
    <2> SUFFICES ASSUME j \in e + 1 .. n PROVE S[j] = <<"none">>
      BY <2>1, Zenon
    <2>2. S[j] = Within(root, S[j - 1], j)
      BY <1>2, <2>1, Zenon
    <2>3. CASE j = e + 1
      <3>1. text[j - 1] = "}" /\ S[j - 1] = <<>>
        BY <2>1, <2>3, Zenon DEF S
      <3> QED BY <2>2, <3>1, Zenon DEF Within
    <2>4. CASE j # e + 1
      <3>1. S[j - 1] = <<"none">>
        BY <1>3, <2>1, <2>4, Zenon
      <3> QED BY <2>2, <3>1, Zenon DEF Within
    <2> QED BY <2>3, <2>4, Zenon
  <1>4. 0 .. n \subseteq Good
    <2>1. 0 \in 0 .. n /\ ~(0 \in e + 1 .. n)
      <3>1. e \in s + 1 .. n
        BY Zenon DEF s, n
      <3> QED BY <3>1, <1>1, LaterPositions, Zenon
    <2>2. 0 \in Good
      BY <2>1, Zenon
    <2> HIDE DEF Good
    <2> QED BY <1>1, <1>3, <2>2, Upwards, Zenon
  <1>5. \A j \in e + 1 .. n : j \in 0 .. n
    <2>1. e \in s + 1 .. n
      BY Zenon DEF s, n
    <2> QED BY <2>1, <1>1, LaterPositions, Zenon
  <1> QED BY <1>4, <1>5, Zenon DEF S, n

\* What the parser makes of the root, as the braces put it.
RootObject(V, root, o, b, e) ==
    /\ b = Start(root) + 1 /\ b \in 1 .. Len(text) /\ e \in b .. Len(text)
    /\ Sections(root)[b] = <<>> /\ \A k \in 1 .. Len(text) : Sections(root)[k] \in Seq(V)
    /\ text \in Seq(V) /\ o.texts \in SUBSET (Seq(V) \X V)
    /\ Span(Sections(root), Names(root), text, b, e, o.keys, o.texts)
    /\ \A j \in e + 1 .. Len(text) : Sections(root)[j] = <<"none">>

\* Where the root begins and ends.
LEMMA EndPositions ==
    ASSUME NEW n \in Nat, NEW s \in 1 .. n, NEW b, b = s + 1, NEW next \in b + 1 .. n + 1
    PROVE  s < n /\ b \in 1 .. n /\ next - 1 \in b .. n
  OBVIOUS

\* An accepted root is what its braces make of it, up to its closing brace.
LEMMA RootParsed ==
    ASSUME NEW W, text \in Seq(W), "none" \notin W, NEW root, ParseRoot(text, root).ok,
           ~BraceAsValue(root)
    PROVE  \E b, e : RootObject(W \cup {"none"}, root, ParseRoot(text, root), b, e)
  <1> DEFINE V == W \cup {"none"}
             o == ParseRoot(text, root)
             S == Sections(root)
             N == Names(root)
             s == Start(root)
             n == Len(text)
             b == s + 1
             e == o.next - 1
  <1>1. Roots(text, root) # {}
    BY RejectedObject, Zenon DEF ParseRoot
  <1>2. s \in 1 .. n /\ text[s] = "{" /\ FirstRoot(text, root) + 2 = b
    BY <1>1, RootPlace, Zenon
  <1>3. o = Members(text)[b]
    BY <1>1, <1>2, Zenon DEF ParseRoot, ParseObject
  <1>4. n \in Nat
    BY LenProperties, Zenon
  <1>5. ParsesFrom(Members(text), W, text, 1)
    BY MembersDefined, Zenon
  <1>6. b \in 1 .. n + 1
    <2> HIDE DEF s, n
    <2>1. s \in 1 .. n
      BY <1>2
    <2> QED BY <2>1, <1>4
  <1>7. o.next \in b + 1 .. n + 1
    BY <1>3, <1>5, <1>6, Zenon DEF ParsesFrom, Parsed
  <1>8. s < n /\ b \in 1 .. n /\ e \in b .. n
    <2>1. s \in 1 .. n
      BY <1>2, Zenon
    <2> DEFINE next == o.next
    <2>2. next \in b + 1 .. n + 1
      BY <1>7, Zenon
    <2> HIDE DEF s, n, next
    <2>3. s < n /\ b \in 1 .. n /\ next - 1 \in b .. n
      BY <1>4, <2>1, <2>2, EndPositions, Zenon
    <2> QED BY <2>3, Zenon DEF next
  <1>9. Braced(V, text, S, N, b) /\ S[b] = <<>> /\ N[b]
    <2>1. Braced(V, text, S, N, b)
      BY <1>2, <1>8, BracedText, Zenon
    <2>2. S[b] = <<>> /\ N[b]
      BY <1>2, <1>8, BracedText, Zenon
    <2> QED BY <2>1, <2>2
  <1>10. Reading(S, N, text, b, o)
    BY <1>3, <1>9, ObjectSpan, Zenon
  <1>11. Plain(o.texts)
    BY Zenon DEF Plain, BraceAsValue
  <1>12. <<>> # <<"none">>
    OBVIOUS
  <1>13. Span(S, N, text, b, e, o.keys, o.texts)
    BY <1>9, <1>10, <1>11, <1>12, Zenon DEF Reading
  <1>14. text[e] = "}" /\ S[e] = <<>>
    BY <1>9, <1>13, Zenon DEF Span, Closed
  <1>15. \A j \in e + 1 .. n : S[j] = <<"none">>
    BY <1>2, <1>8, <1>14, Outside, Zenon
  <1>16. text \in Seq(V) /\ \A k \in 1 .. n : S[k] \in Seq(V)
    BY <1>9, Zenon DEF Braced
  <1>17. o.texts \in SUBSET (Seq(V) \X V)
    <2>1. ParsesFrom(Members(text), V, text, 1)
      BY <1>16, MembersDefined, Zenon
    <2>2. Parsed(o, V, n, b)
      BY <1>3, <1>6, <2>1, Zenon DEF ParsesFrom
    <2>3. o \in Accepted(V)
      BY <2>2, ObjectAccepted, Zenon DEF Parsed
    <2> QED BY <2>3, AcceptedFields, Zenon
  <1>18. RootObject(V, root, o, b, e)
    BY <1>8, <1>9, <1>13, <1>15, <1>16, <1>17, Zenon DEF RootObject
  <1> QED BY <1>18, Zenon

\* The positions in and after the root.
LEMMA UpToEnd ==
    ASSUME NEW n \in Nat, NEW b \in 1 .. n, NEW e \in b .. n
    PROVE  /\ \A j \in b .. n - 1 :
                 j \in 1 .. n /\ (j \in b .. e - 1 \/ j = e \/ j \in e + 1 .. n)
           /\ \A k \in b .. e - 1 : k \in b .. n - 1 /\ k \in 1 .. n
  OBVIOUS

\* A name that the braces put in a section of the root is in the root's span.
LEMMA NameInside ==
    ASSUME NEW V, NEW root, NEW o, NEW b, NEW e, RootObject(V, root, o, b, e),
           NEW path, path # <<"none">>, NEW key, key # "}",
           NEW j \in Start(root) + 1 .. Len(text) - 1,
           text[j] = key, Sections(root)[j] = path, Names(root)[j]
    PROVE  j \in b .. e - 1 /\ Named(Names(root), text, j)
  <1>1. Len(text) \in Nat /\ b \in 1 .. Len(text) /\ e \in b .. Len(text)
    BY LenProperties, Zenon DEF RootObject
  <1>2. j \in b .. Len(text) - 1
    BY Zenon DEF RootObject
  <1>3. j \in b .. e - 1 \/ j = e \/ j \in e + 1 .. Len(text)
    BY <1>1, <1>2, UpToEnd, Zenon
  <1>4. j # e
    BY Zenon DEF RootObject, Span, Closed
  <1>5. ~(j \in e + 1 .. Len(text))
    BY Zenon DEF RootObject
  <1> QED BY <1>3, <1>4, <1>5, Zenon DEF Named

Sole(X, v) == X = {v}

\* The one text under a path is what the braces put there.
LEMMA TextRead ==
    ASSUME NEW V, NEW root, NEW o, NEW b, NEW e, RootObject(V, root, o, b, e),
           NEW path \in Seq(V), path # <<"none">>, NEW key \in V,
           NEW p \in o.texts, p[1] = Append(path, key)
    PROVE  Sole(Reads(root, path, key), p[2])
  <1> DEFINE S == Sections(root)
             N == Names(root)
             n == Len(text)
  <1>1. /\ n \in Nat /\ b \in 1 .. n /\ e \in b .. n /\ b = Start(root) + 1 /\ S[b] = <<>>
        /\ text \in Seq(V) /\ o.texts \subseteq Seq(V) \X V
    BY LenProperties, Zenon DEF RootObject
  <1>2. PICK k \in b .. e - 1 :
           Named(N, text, k) /\ p[2] = text[k + 1] /\ S[b] \o p[1] = Append(S[k], text[k])
    BY Zenon DEF RootObject, Span, Located
  <1>3. k \in b .. n - 1 /\ k \in 1 .. n
    BY <1>1, UpToEnd, Zenon
  <1>4. S[k] \in Seq(V) /\ text[k] \in V
    <2>1. S[k] \in Seq(V)
      BY <1>3, Zenon DEF RootObject
    <2>2. text[k] \in V
      BY <1>1
    <2> QED BY <2>1, <2>2
  <1>5. S[k] = path /\ text[k] = key
    <2> DEFINE q == S[k]
               v == text[k]
               whole == p[1]
    <2>1. q \in Seq(V) /\ v \in V /\ whole \in Seq(V) /\ <<>> \o whole = Append(q, v)
      BY <1>1, <1>2, <1>4, Zenon
    <2>2. whole = Append(path, key)
      OBVIOUS
    <2> HIDE DEF q, v, whole
    <2>3. <<>> \o whole = whole
      BY <2>1, ConcatEmptySeq, Zenon
    <2>4. Append(path, key) = Append(q, v)
      BY <2>1, <2>2, <2>3, Zenon
    <2>5. path = q /\ key = v
      BY <2>1, <2>4, AppendInjective
    <2> QED BY <2>5 DEF q, v
  <1> HIDE DEF S, N, n
  <1>6. N[k] /\ key # "}"
    BY <1>2, <1>5, Zenon DEF Named
  <1>7. p[2] \in Reads(root, path, key)
    BY <1>1, <1>2, <1>3, <1>5, <1>6, Zenon DEF Reads, S, N, n
  <1>8. ASSUME NEW j \in b .. n - 1, text[j] = key, S[j] = path, N[j]
        PROVE  text[j + 1] = p[2]
    <2>1. j \in b .. e - 1 /\ Named(N, text, j)
      BY <1>1, <1>6, <1>8, NameInside, Zenon DEF S, N, n
    <2>2. j = k
      BY <1>2, <1>5, <1>8, <2>1, Zenon DEF RootObject, Span, Unique, S, N
    <2> QED BY <1>2, <2>2, Zenon
  <1>9. \A v \in Reads(root, path, key) : v = p[2]
    BY <1>1, <1>8, Zenon DEF Reads, S, N, n
  <1> DEFINE read == Reads(root, path, key)
             value == p[2]
  <1>10. value \in read /\ \A v \in read : v = value
    BY <1>7, <1>9, Zenon
  <1> HIDE DEF read, value
  <1>11. read = {value}
    BY <1>10
  <1> QED BY <1>11, Zenon DEF Sole, read, value

\* What the parser gives for a path is what the braces put there.
LEMMA NestedRead ==
    ASSUME NEW V, NEW root, NEW o, NEW b, NEW e, RootObject(V, root, o, b, e),
           NEW path \in Seq(V), path # <<"none">>, NEW key \in V,
           NestedString(o, Append(path, key)) # {}
    PROVE  \E v : /\ Sole(Reads(root, path, key), v)
                  /\ Sole(NestedString(o, Append(path, key)), v)
  <1> DEFINE whole == Append(path, key)
             read == Reads(root, path, key)
  <1>1. \A p \in o.texts : p[1] = whole => Sole(read, p[2])
    BY TextRead, Zenon
  <1>2. \A v : v \in NestedString(o, whole) <=> \E p \in o.texts : p[1] = whole /\ p[2] = v
    BY Zenon DEF NestedString
  <1> HIDE DEF whole, read
  <1>3. \A v \in NestedString(o, whole) : Sole(read, v)
    BY <1>1, <1>2, Zenon
  <1>4. PICK v \in NestedString(o, whole) : TRUE
    BY Zenon DEF whole
  <1>5. Sole(read, v) /\ \A w \in NestedString(o, whole) : w = v
    BY <1>3 DEF Sole
  <1>6. Sole(NestedString(o, whole), v)
    BY <1>5 DEF Sole
  <1> QED BY <1>5, <1>6, Zenon DEF read, whole

\* A name that the parser does not have is not in the root, as the braces put it.
LEMMA MissingRead ==
    ASSUME NEW V, NEW root, NEW o, NEW b, NEW e, RootObject(V, root, o, b, e),
           NEW key, key # "}", key \notin o.keys
    PROVE  Reads(root, <<>>, key) = {}
  <1>1. ASSUME NEW j \in Start(root) + 1 .. Len(text) - 1,
               text[j] = key, Sections(root)[j] = <<>>, Names(root)[j]
        PROVE  FALSE
    <2>1. j \in b .. e - 1 /\ Named(Names(root), text, j)
      BY <1>1, NameInside, Zenon
    <2>2. key \in o.keys
      BY <1>1, <2>1, Zenon DEF RootObject, Span, Listed
    <2> QED BY <2>2, Zenon
  <1> QED BY <1>1, Zenon DEF Reads

\* A sequence with one element more.
LEMMA OneMore ==
    ASSUME NEW U, NEW q \in Seq(U), NEW r \in Seq(U), Len(r) = Len(q) + 1,
           \A i \in 1 .. Len(q) : r[i] = q[i]
    PROVE  r = Append(q, r[Len(q) + 1])
  <1>1. r[Len(q) + 1] \in U
    BY ElementOfSeq
  <1>2. /\ Append(q, r[Len(q) + 1]) \in Seq(U)
        /\ Len(Append(q, r[Len(q) + 1])) = Len(q) + 1
    BY <1>1
  <1> QED BY <1>2

\* A path of three names, and one more.
LEMMA ThreeNames ==
    ASSUME NEW V, NEW x \in V, NEW y \in V, NEW z \in V, NEW key, NEW v
    PROVE  /\ <<x, y, z>> \in Seq(V) /\ <<x, y, z>> # <<v>>
           /\ Append(<<x, y, z>>, key) = <<x, y, z, key>>
  <1>1. Append(<<x, y, z>>, key) = <<x, y, z, key>>
    <2> DEFINE U == V \cup {key}
               q == <<x, y, z>>
               r == <<x, y, z, key>>
    <2>1. q \in Seq(U) /\ Len(q) = 3 /\ q[1] = x /\ q[2] = y /\ q[3] = z
      OBVIOUS
    <2>2. r \in Seq(U) /\ Len(r) = 4 /\ r[1] = x /\ r[2] = y /\ r[3] = z /\ r[4] = key
      OBVIOUS
    <2> HIDE DEF U, q, r
    <2>3. Len(r) = Len(q) + 1 /\ \A i \in 1 .. Len(q) : r[i] = q[i]
      BY <2>1, <2>2
    <2>4. r = Append(q, r[Len(q) + 1])
      BY <2>2, <2>3, OneMore
    <2>5. r[Len(q) + 1] = key
      BY <2>1, <2>2
    <2> QED BY <2>4, <2>5 DEF q, r
  <1> QED BY <1>1

\* The path to a name of the root.
LEMMA PathsOfRoot ==
    ASSUME NEW V
    PROVE  /\ <<>> \in Seq(V) /\ <<>> # <<"none">>
           /\ \A key : Append(<<>>, key) = <<key>>
  OBVIOUS

\* A text that is a build.
LEMMA OneBuild ==
    ASSUME NEW X, NEW v, X = {v}, X \cap Builds # {}
    PROVE  X \cap Builds = {v}
  OBVIOUS

\* The build in an accepted app info (core.py:337).
LEMMA AppInfoRead ==
    ASSUME text \in Seq(AppInfoWords), ~BraceAsValue("380870"),
           AppInfoBuild(text, "380870", "public") # {}
    PROVE  AppInfoBuild(text, "380870", "public")
             = Reads("380870", <<"depots", "branches", "public">>, "buildid")
  <1> DEFINE o == ParseRoot(text, "380870")
             path == <<"depots", "branches", "public">>
             whole == <<"depots", "branches", "public", "buildid">>
             V == AppInfoWords \cup {"none"}
  <1>1. /\ "none" \notin AppInfoWords /\ "buildid" \in V
        /\ "depots" \in V /\ "branches" \in V /\ "public" \in V
    BY DEF AppInfoWords
  <1>2. o.ok /\ AppInfoBuild(text, "380870", "public") = NestedString(o, whole) \cap Builds
    BY Zenon DEF AppInfoBuild
  <1>3. PICK b, e : RootObject(V, "380870", o, b, e)
    BY <1>1, <1>2, RootParsed, Zenon
  <1> HIDE DEF o, V
  <1>4. path \in Seq(V) /\ path # <<"none">> /\ Append(path, "buildid") = whole
    BY <1>1, ThreeNames
  <1> HIDE DEF path, whole
  <1>5. NestedString(o, whole) # {}
    BY <1>2
  <1>6. PICK v : /\ Sole(Reads("380870", path, "buildid"), v)
                 /\ Sole(NestedString(o, whole), v)
    BY <1>1, <1>3, <1>4, <1>5, NestedRead, Zenon
  <1>7. AppInfoBuild(text, "380870", "public") = Reads("380870", path, "buildid")
    BY <1>2, <1>6, Zenon DEF Sole
  <1> QED BY <1>7, Zenon DEF path

\* The build in an accepted manifest, and what it is accepted for (core.py:351).
LEMMA ManifestRead ==
    ASSUME text \in Seq(ManifestWords), ~BraceAsValue("AppState"),
           InstalledBuild(text, "380870") # {}
    PROVE  /\ Reads("AppState", <<>>, "appid") = {"380870"}
           /\ Reads("AppState", <<>>, "StateFlags") = {"4"}
           /\ Reads("AppState", <<>>, "UpdateResult") \subseteq {"0"}
           /\ Reads("AppState", <<>>, "buildid") = InstalledBuild(text, "380870")
  <1> DEFINE o == ParseRoot(text, "AppState")
             V == ManifestWords \cup {"none"}
             Text(key) == NestedString(o, <<key>>)
             Read(key) == Reads("AppState", <<>>, key)
             build == InstalledBuild(text, "380870")
  <1>1. /\ "none" \notin ManifestWords /\ "UpdateResult" # "}"
        /\ "appid" \in V /\ "StateFlags" \in V /\ "UpdateResult" \in V /\ "buildid" \in V
    BY DEF ManifestWords
  <1>2. /\ o.ok /\ Text("appid") = {"380870"} /\ Text("StateFlags") = {"4"}
        /\ "UpdateResult" \in o.keys => Text("UpdateResult") = {"0"}
        /\ build = Text("buildid") \cap Builds
    BY Zenon DEF InstalledBuild
  <1>3. PICK b, e : RootObject(V, "AppState", o, b, e)
    BY <1>1, <1>2, RootParsed, Zenon
  <1>4. ASSUME NEW key \in V, Text(key) # {}
        PROVE  \E v : Sole(Read(key), v) /\ Sole(Text(key), v)
    <2>1. <<>> \in Seq(V) /\ <<>> # <<"none">> /\ Append(<<>>, key) = <<key>>
      BY PathsOfRoot, Zenon
    <2> QED BY <1>3, <1>4, <2>1, NestedRead, Zenon
  <1>5. "UpdateResult" \notin o.keys => Read("UpdateResult") = {}
    BY <1>3, MissingRead, Zenon
  <1>6. build # {}
    BY Zenon
  <1> HIDE DEF o, V, Text, Read, build
  <1>7. ASSUME NEW key \in V, NEW w, Text(key) = {w} PROVE Read(key) = {w}
    <2>1. Text(key) # {}
      BY <1>7
    <2>2. PICK v : Sole(Read(key), v) /\ Sole(Text(key), v)
      BY <1>4, <2>1, Zenon
    <2> QED BY <1>7, <2>2 DEF Sole
  <1>8. Read("appid") = {"380870"} /\ Read("StateFlags") = {"4"}
    BY <1>1, <1>2, <1>7, Zenon
  <1>9. Read("UpdateResult") \subseteq {"0"}
    <2>1. "UpdateResult" \in o.keys => Read("UpdateResult") = {"0"}
      BY <1>1, <1>2, <1>7, Zenon
    <2> QED BY <1>5, <2>1, Zenon
  <1>10. Read("buildid") = build
    <2>1. Text("buildid") # {}
      BY <1>2, <1>6
    <2>2. PICK v : Sole(Read("buildid"), v) /\ Sole(Text("buildid"), v)
      BY <1>1, <1>4, <2>1, Zenon
    <2>3. build = {v}
      BY <1>2, <1>6, <2>2, OneBuild, Zenon DEF Sole
    <2> QED BY <2>2, <2>3, Zenon DEF Sole
  <1> QED BY <1>8, <1>9, <1>10, Zenon DEF Read, build

\* Whatever Steam and an installed manifest say, and however long they are, a build is
\* accepted only where the braces put it, alone under its name: for every text over
\* the words of the two, not only those near a genuine one (core.py:294, 337, 351).
THEOREM MetadataKept == Spec => []MetadataRead
  <1>1. TextInv => MetadataRead
    <2> SUFFICES ASSUME TextInv PROVE MetadataRead
      OBVIOUS
    <2>1. ASSUME source = "app info", AppInfoBuild(text, "380870", "public") # {},
                 ~BraceAsValue("380870")
          PROVE  AppInfoBuild(text, "380870", "public")
                   = Reads("380870", <<"depots", "branches", "public">>, "buildid")
      <3>1. text \in Seq(AppInfoWords)
        BY <2>1, WordsOfSources, Zenon DEF TextInv
      <3> QED BY <2>1, <3>1, AppInfoRead, Zenon
    <2>2. ASSUME source = "manifest", InstalledBuild(text, "380870") # {},
                 ~BraceAsValue("AppState")
          PROVE  /\ Reads("AppState", <<>>, "appid") = {"380870"}
                 /\ Reads("AppState", <<>>, "StateFlags") = {"4"}
                 /\ Reads("AppState", <<>>, "UpdateResult") \subseteq {"0"}
                 /\ Reads("AppState", <<>>, "buildid") = InstalledBuild(text, "380870")
      <3>1. text \in Seq(ManifestWords)
        BY <2>2, WordsOfSources, Zenon DEF TextInv
      <3> QED BY <2>2, <3>1, ManifestRead, Zenon
    <2> QED BY <2>1, <2>2, Zenon DEF MetadataRead
  <1> QED BY <1>1, TextInvariance, PTL
=============================================================================
