---------------------------- MODULE PlayerAnswers ----------------------------
(* parse_player_count: the number of players an RCON response tells, if it
   tells one.  Lines are represented by what the parser asks of them. *)

EXTENDS Integers, Sequences

Headers ==
    [h \in {"0 connected", "1 connected", "2 connected"} |->
        IF h = "0 connected" THEN 0 ELSE IF h = "1 connected" THEN 1 ELSE 2]

\* Mutation of Count: the number in the header is not compared.
CountNames(lines) ==
    IF lines = <<>> \/ lines[1] \notin DOMAIN Headers THEN {}
    ELSE IF \E i \in 2 .. Len(lines) : lines[i] # "-name" THEN {}
    ELSE {Len(lines) - 1}

Count(lines) ==
    IF lines = <<>> \/ lines[1] \notin DOMAIN Headers THEN {}
    ELSE IF \/ Len(lines) - 1 # Headers[lines[1]]
            \/ \E i \in 2 .. Len(lines) : lines[i] # "-name"
    THEN {}
    ELSE {Headers[lines[1]]}
=============================================================================
