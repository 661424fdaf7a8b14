------------------------------- MODULE MCShell -------------------------------
(* Scripts for model checking Shell: command trees, written out as tokens.  *)
EXTENDS Shell

(* "a" writes nothing, "b" one piece, "c" more than a pipe holds. *)
MCWrites(w) == CASE w = "b" -> 1 [] w = "c" -> 2 [] OTHER -> 0

Tree(type, word, command, in, out) ==
    [type |-> type, word |-> word, command |-> command, input |-> in, output |-> out]
Leaf(word) == Tree("SIMPLE", word, <<>>, <<>>, <<>>)
Comp(type, command) == Tree(type, <<>>, command, <<>>, <<>>)
Redir(t) == [t EXCEPT !.input = <<"f">>, !.output = <<"g">>]

A == Leaf(<< <<"a">> >>)
B == Leaf(<< <<"b">>, <<"x">> >>)
C == Leaf(<< <<"c">> >>)
X == Leaf(<< <<"exec">>, <<"b">> >>)
Leaves == {A, B, Redir(B)}

Words(t) == IF Len(t.word) = 1 THEN t.word[1] ELSE t.word[1] \o <<"sp">> \o t.word[2]

(* The script of a tree, with sep between the commands of a list. *)
RECURSIVE Unparse(_, _)
Unparse(t, sep) ==
    LET u(k) == Unparse(t.command[k], sep)
        body == CASE t.type = "SIMPLE" -> Words(t)
                  [] t.type = "SEQUENCE" -> u(1) \o sep \o u(2)
                  [] t.type = "PIPE" -> u(1) \o <<"sp", "|", "sp">> \o u(2)
                  [] t.type = "SUBSHELL" -> <<"(">> \o u(1) \o <<")">>
                  [] t.type = "IF" ->
                       <<"if", "sp">> \o u(1) \o sep \o <<"then", "sp">> \o u(2) \o sep
                       \o (IF Len(t.command) = 3 THEN <<"else", "nl">> \o u(3) \o sep ELSE <<>>)
                       \o <<"fi">>
                  [] OTHER ->
                       <<IF t.type = "WHILE" THEN "while" ELSE "until", "sp">> \o u(1)
                       \o sep \o <<"do", "sp">> \o u(2) \o sep \o <<"done">>
    IN body \o (IF t.input = <<>> THEN <<>> ELSE <<"sp", "<", "sp">> \o t.input)
            \o (IF t.output = <<>> THEN <<>> ELSE <<">">> \o t.output)

Loop == {"IF", "WHILE", "UNTIL"}
RECURSIVE Pipelines(_)
Pipelines(t) == CASE t.type = "SEQUENCE" -> Pipelines(t.command[1]) + Pipelines(t.command[2])
                  [] t.type = "PIPE" -> 1
                  [] OTHER -> 0
RECURSIVE First(_)
First(t) == IF t.type \in {"SEQUENCE", "PIPE"} THEN First(t.command[1]) ELSE t

(* The trees a script can have that the parser takes: a compound command   *)
(* next to a pipe or right after a parenthesis is refused, and so are two  *)
(* pipelines in one list (see the README).                                 *)
Supported(t) ==
    /\ t.type = "SEQUENCE" => t.command[2].type # "SEQUENCE" /\ Pipelines(t) <= 1
    /\ t.type = "PIPE" => /\ \A k \in 1 .. 2 : t.command[k].type \notin Loop \union {"SEQUENCE"}
                          /\ t.command[2].type # "PIPE"
    /\ t.type = "SUBSHELL" => First(t.command[1]).type \notin Loop

Pairs == {<<"SEQUENCE", 2>>, <<"PIPE", 2>>, <<"SUBSHELL", 1>>, <<"IF", 2>>, <<"IF", 3>>,
          <<"WHILE", 2>>, <<"UNTIL", 2>>}
Over(S) == UNION {{Comp(q[1], cs) : cs \in [1 .. q[2] -> S]} : q \in Pairs}
Depth1 == {t \in Over({A, B}) : Supported(t)} \union
          {Redir(t) : t \in {u \in Over({A}) : u.type \notin {"SEQUENCE", "PIPE"}}}

(* A tree of depth two has one interesting child. *)
Depth2 == {t \in UNION {{Comp(q[1], [i \in 1 .. q[2] |-> IF i = k THEN d ELSE A]) :
                           k \in 1 .. q[2], d \in Depth1} : q \in Pairs} : Supported(t)}

Good(t, sep) == [text |-> Append(Unparse(t, sep), "nl"), means |-> <<t>>]
Seps == {<<";", "sp">>, <<"nl">>, <<";", "nl">>}

(* Programs that block, exec in the shell and in a subshell. *)
Special == {Comp("PIPE", <<C, A>>), Comp("PIPE", <<Comp("PIPE", <<B, C>>), B>>),
            Comp("SEQUENCE", <<X, A>>), Comp("SEQUENCE", <<Comp("SUBSHELL", <<X>>), A>>),
            Comp("PIPE", <<X, X>>), Comp("WHILE", <<A, X>>)}

(* A comment, a blank line between two commands, blank lines in a compound. *)
Two(t, u) == [text |-> <<"#", "sp", "x", "nl">> \o Unparse(t, <<"nl">>) \o <<"nl", "nl">>
                        \o Unparse(u, <<"nl", "nl">>) \o <<"nl">>,
              means |-> <<t, u>>]

(* The scripts of test-t-bad.sh. *)
Bad == {
     <<"bad", "nl">>,
     <<">", "nl">>,
     <<"<", "nl">>,
     <<"a", "sp", ">", "b", "sp", "<", "nl">>,
     <<";", "nl">>,
     <<";", "sp", "a", "nl">>,
     <<"a", "sp", "|", "|", "nl">>,
     <<"while", "sp", "a", "nl">>,
     <<"do", "nl">>,
     <<"done", "sp", ">", "it", "nl">>,
     <<"if", "sp", "a", ";", "sp", "then", "sp", "b", ";", "sp", "else", "sp", "fi", "nl">>,
     <<"if", "sp", ";", "sp", "then", "sp", ";", "sp", "else", "sp", ";", "sp", "fi", "nl">>,
     <<"if", "sp", "a", ";", "sp", "else", "sp", "b", ";", "sp", "then", "sp", "c", ";", "sp", "fi", "nl">>,
     <<"if", "sp", "a", ";", "sp", "then", "sp", "b", "nl">>,
     <<"if", "sp", "a", ";", "sp", "then", "sp", "b", ";", "sp", "else", "sp", "c", ";", "sp", ")", ";", "sp", "fi", "nl">>,
     <<"if", "sp", "a", ";", "sp", "then", "sp", "b", ";", "sp", ")", "sp", "else", "sp", "c", ";", "sp", "fi", "nl">>,
     <<"if", "sp", "a", ")", ";", "sp", "then", "sp", "b", ";", "sp", "else", "sp", "c", ";", "sp", "fi", "nl">>,
     <<"if", "sp", "(", ")", ";", "sp", "then", "sp", "b", ";", "sp", "else", "sp", "c", ";", "sp", "fi", "nl">>,
     <<"if", "sp", "a", ";", "sp", "then", "sp", "b", ";", "sp", "else", "sp", "c", ";", "sp", "fi", "sp", "fi", "nl">>,
     <<"if", "sp", "a", ";", "sp", "then", "sp", "b", ";", "sp", "else", "sp", "c", ";", "sp", "done", "nl">>,
     <<"while", "sp", "a", ";", "sp", "do", "sp", "b", ";", "sp", "done", "sp", "ouch", "nl">>,
     <<"until", "sp", "a", ";", "sp", "do", "sp", "b", ";", "sp", "done", "sp", ">", "nl">>,
     <<"a", "nl", "sp", "|", "sp", "b", "nl">>,
     <<"a", "nl", "sp", ";", "sp", "b", "nl">>,
     <<"a", ";", ";", "b", "nl">>,
     <<"a", "|", "|", "|", "b", "nl">>,
     <<"|", "a", "nl">>,
     <<"<", "sp", "a", "nl">>,
     <<"bad", "bad", "sp", "a", "nl">>,
     <<"|", "|", "a", "nl">>,
     <<"(", "a", "|", "b", "nl">>,
     <<"a", ";", "b", ")", "nl">>,
     <<"(", "sp", "(", "a", ")", "nl">>,
     <<"a", ">", ">", ">", "b", "nl">>,
     <<"a", "sp", ">", "sp", "b", "sp", ">", "sp", "c", "sp", ">", "sp", "d", "nl">>,
     <<"a", "sp", "<", "sp", "b", "sp", ">", "sp", "c", "sp", "|", "nl">>}

(* Profiled are processes below processes, and what fails in them. *)
Forking == {"SUBSHELL", "PIPE"}
MCProfiled ==
    {Good(t, <<"nl">>) : t \in Leaves \union Depth1 \union Special}
    \union {Good(t, <<"nl">>) : t \in {u \in Depth2 : u.type \in Forking}}
    \union {Two(t, u) : t \in {A}, u \in {B, Comp("IF", <<A, A>>)}}

MCScripts ==
    {Good(t, sep) : t \in Leaves \union Depth1, sep \in Seps}
    \union {Good(t, <<"nl">>) : t \in Depth2 \union Special}
    \union {Two(t, u) : t \in {A, Comp("WHILE", <<A, B>>)},
                        u \in {B, Comp("IF", <<A, A>>), Comp("UNTIL", <<A, Redir(A)>>)}}
    \union {[text |-> b, means |-> <<>>] : b \in Bad}
==============================================================================
