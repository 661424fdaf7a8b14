------------------------------ MODULE ShellTree ------------------------------
(***************************************************************************)
(* The pure half of the profiling shell's parser (read-command.c): the     *)
(* functions that turn a range of the script into a command tree.          *)
(* split_everything, which scans the script and decides where a command    *)
(* starts and ends, is the state machine of module ShellRead.              *)
(*                                                                         *)
(* The script is a sequence of tokens instead of characters: a word is one *)
(* token, and so is every operator, space, tab and newline.  Positions are *)
(* token positions, so the character offsets of the code that step over a  *)
(* reserved word (locations[0] + 2) are steps over one token.              *)
(***************************************************************************)
EXTENDS Integers, Sequences

Blank == {"sp", "tab"}
White == Blank \union {"nl"}
Operators == {";", "|", "(", ")", "<", ">"}

(* The codes of check_reserved_word, kept as the words themselves. *)
Reserved == {"if", "then", "else", "fi", "while", "do", "done", "until"}
check_reserved_word(t) == t \in Reserved

(* check_char(c, 2): the characters of a word (0 also takes the operators).*)
(* "bad" stands for any character the shell does not know.                 *)
IsWord(t) == t \notin White \union Operators \union {"#", "bad"}

None == [type |-> "NONE"]

(* The first position from i on, and the last one up to i, whose token is *)
(* not in S: the while loops that step over spaces and separators.        *)
RECURSIVE SkipForward(_, _, _)
SkipForward(array, i, S) ==
    IF array[i] \in S THEN SkipForward(array, i + 1, S) ELSE i

RECURSIVE SkipBack(_, _, _)
SkipBack(array, i, S) ==
    IF array[i] \in S THEN SkipBack(array, i - 1, S) ELSE i

remove_whitespace(array, beg, end) ==
    SubSeq(array, SkipForward(array, beg, White),
                  SkipBack(array, end, White \union {";"}))

-----------------------------------------------------------------------------
(***************************************************************************)
(* The nesting counters that split_everything and find_semi_pipes both     *)
(* keep: compound_count, with "all" for its entry 0, and done_check, the   *)
(* kind of loop at every depth.                                            *)
(***************************************************************************)
NoCompounds == [w \in Reserved \union {"all"} |-> 0]
Loops(cc) == cc["while"] + cc["until"]

Opened(cc, w) == [cc EXCEPT ![w] = @ + 1, !["all"] = @ + 1]

(* done_check[loops] = w, which overwrites what a deeper loop left there. *)
LoopOpened(dc, cc, w) == Append(SubSeq(dc, 1, Loops(cc)), w)

FiClosed(cc, if) ==
    [cc EXCEPT !["if"] = @ - if, !["then"] = @ - 1, !["all"] = @ - 1,
               !["else"] = IF @ # 0 THEN @ - 1 ELSE @]

DoneClosed(cc, dc) ==
    [cc EXCEPT !["do"] = @ - 1, ![dc[Loops(cc)]] = @ - 1, !["all"] = @ - 1]

(* The end of the word that read_word finds at i: the word itself, or     *)
(* everything up to end when it stops at a character it does not know.    *)
WordEnd(array, i, end) == IF array[i] \in {"#", "bad"} THEN end ELSE i

(* What read_word returns: the character after the word, or the operator  *)
(* (or last character) it started on.                                     *)
Splitter(array, i, end) ==
    IF i = end \/ ~IsWord(array[i]) THEN array[i] ELSE array[i + 1]

-----------------------------------------------------------------------------
(***************************************************************************)
(* find_semi_pipes: one pass over a range that finds the separators (flag  *)
(* set) or the parts of a compound command (flag clear) at depth zero.     *)
(***************************************************************************)
ScanStart == [cpd |-> "", found |-> FALSE, little |-> FALSE, prev |-> "nl",
              cc |-> NoCompounds, dc |-> <<>>, semis |-> <<>>, pipes |-> <<>>,
              loc |-> <<-1, -1, -1, -1>>]

Separated(s) == [s EXCEPT !.found = FALSE, !.little = FALSE]

(* The position of the ")" that closes the "(" before i. *)
RECURSIVE CloseParen(_, _, _, _)
CloseParen(array, i, end, depth) ==
    LET d == CASE i > end -> 0
               [] array[i] = ")" -> depth - 1
               [] array[i] = "(" -> depth + 1
               [] OTHER -> depth
    IN IF d = 0 THEN i ELSE CloseParen(array, i + 1, end, d)

(* Only this compound is open, so its then, else, do, fi or done counts. *)
OnlyIf(cc) == cc["if"] = 1 /\ Loops(cc) = 0
OnlyLoop(cc) == Loops(cc) = 1 /\ cc["if"] = 0

(* Which entry of locations the reserved word w fills in. *)
Part(s, w) ==
    CASE s.cpd = "if" /\ w = "then" /\ OnlyIf(s.cc) -> 2
      [] s.cpd = "if" /\ w = "else" /\ OnlyIf(s.cc) -> 3
      [] s.cpd = "if" /\ w = "fi" /\ OnlyIf(s.cc) -> 4
      [] s.cpd \in {"while", "until"} /\ w = "do" /\ OnlyLoop(s.cc) -> 2
      [] w = "done" /\ s.cc["do"] # 0 /\ OnlyLoop(s.cc) -> 3
      [] OTHER -> 0

Counted(s, w) ==
    CASE w \in {"if", "while", "until"} -> Opened(s.cc, w)
      [] w = "fi" -> FiClosed(s.cc, 1)
      [] w = "done" /\ s.cc["do"] # 0 -> DoneClosed(s.cc, s.dc)
      [] w = "done" /\ s.cc["do"] = 0 -> s.cc
      [] OTHER -> [s.cc EXCEPT ![w] = @ + 1]

ScanReserved(s0, w, i) ==
    LET s == IF s0.cpd = "" THEN [s0 EXCEPT !.cpd = w, !.loc[1] = i] ELSE s0
        cc == Counted(s, w)
        part == Part(s, w)
        over == cc["all"] = 0
    IN [s EXCEPT !.little = TRUE, !.cc = cc,
                 !.loc = IF part = 0 THEN @ ELSE [@ EXCEPT ![part] = i],
                 !.cpd = IF over THEN "" ELSE @,
                 !.found = over,
                 !.dc = CASE over -> <<>>
                          [] w \in {"while", "until"} /\ ~over
                               -> LoopOpened(@, s.cc, w)
                          [] OTHER -> @]

ScanToken(array, i, s) ==
    LET t == array[i] top == s.cpd = "" IN
    CASE t \in Blank \union {"("} -> s
      [] t = ";" -> Separated([s EXCEPT !.semis = IF top THEN Append(@, i) ELSE @])
      [] t = "nl" -> Separated([s EXCEPT !.semis =
             IF top /\ s.prev \notin {"nl", ";"} THEN Append(@, i) ELSE @])
      [] t = "|" -> Separated([s EXCEPT !.pipes = IF top THEN Append(@, i) ELSE @])
      [] ~(t \in White \union {"(", ";", "|"}) ->
             IF s.little /\ s.cc["all"] = 0 THEN s
             ELSE IF check_reserved_word(t) /\ ~s.found
                    THEN ScanReserved(s, t, i)
                    ELSE [s EXCEPT !.little = TRUE, !.found = TRUE]

(* Where the scan goes on after the token at i. *)
ScanNext(array, i, end, s) ==
    CASE array[i] = "(" -> CloseParen(array, i + 1, end, 1) + 1
      [] array[i] \in {"#", "bad"} /\ ~(s.little /\ s.cc["all"] = 0)
            -> WordEnd(array, i, end) + 1
      [] OTHER -> i + 1

RECURSIVE Scan(_, _, _, _)
Scan(array, i, end, s) ==
    IF i > end THEN s
    ELSE LET r == ScanToken(array, i, s) IN
         Scan(array, ScanNext(array, i, end, s), end,
              IF array[i] \in Blank THEN r ELSE [r EXCEPT !.prev = array[i]])

find_semi_pipes(array, beg, end) == Scan(array, beg, end, ScanStart)

-----------------------------------------------------------------------------
(***************************************************************************)
(* format_function: the words and the redirections of a command.           *)
(***************************************************************************)
RECURSIVE Last(_, _, _, _)
Last(array, beg, end, t) ==
    IF end < beg THEN -1 ELSE IF array[end] = t THEN end ELSE Last(array, beg, end - 1, t)

(* The words of array[beg .. stop - 1]: a word ends at a space that follows*)
(* a character of a word, and at the last position.                        *)
RECURSIVE WordsFrom(_, _, _, _, _)
WordsFrom(array, beg, index, stop, prev) ==
    IF index >= stop THEN <<>>
    ELSE LET last == index = stop - 1
             ends == /\ array[index] = "sp" \/ prev = "tab" \/ last
                     /\ IsWord(prev) \/ prev \in Operators \/ last
             rest == WordsFrom(array, IF ends THEN index ELSE beg, index + 1,
                               stop, array[index])
         IN IF ends THEN <<remove_whitespace(array, beg, index)>> \o rest ELSE rest

(* sub is the compound command already made, None for a simple command. *)
format_function(array, beg, end, sub) ==
    LET less == LET l == Last(array, beg, end, "<") IN IF l = -1 THEN end + 1 ELSE l
        greater == LET g == Last(array, beg, end, ">") IN IF g = -1 THEN end + 1 ELSE g
        stop == IF less < greater THEN less ELSE greater
        start == IF beg > end THEN beg ELSE SkipForward(array, beg, White)
    IN [type |-> IF sub = None THEN "SIMPLE" ELSE sub.type,
        word |-> IF sub = None THEN WordsFrom(array, start, start, stop, "nl")
                               ELSE <<>>,
        command |-> IF sub = None THEN <<>> ELSE sub.command,
        input |-> IF less > end THEN <<>>
                  ELSE remove_whitespace(array, less + 1, greater - 1),
        output |-> IF greater > end THEN <<>>
                   ELSE remove_whitespace(array, greater + 1, end)]

-----------------------------------------------------------------------------
(***************************************************************************)
(* complete_command splits a range at its semicolons and newlines,         *)
(* pipe_command a part of it at its pipes, format_command makes one        *)
(* command.  Both splitters share a loop: the first round takes what       *)
(* precedes the first separator, every later one what follows the i-th.    *)
(***************************************************************************)
Joined(type, left, right) ==
    [type |-> type, word |-> <<>>, command |-> <<left, right>>,
     input |-> <<>>, output |-> <<>>]

(* loc2 of both loops: the next separator, or the end of the range when   *)
(* there is none.  In pipe_command the next pipe may be one of a later    *)
(* command of the same list.                                              *)
NextCut(cuts, i, end) == IF i = Len(cuts) THEN end ELSE cuts[i + 1]

RECURSIVE complete_command(_, _, _)
RECURSIVE format_command(_, _, _)

PipePart(array, from, to) ==
    format_command(array, SkipForward(array, from, White \union {"|"}),
                          SkipBack(array, to, White \union {"|"}))

RECURSIVE PipeRest(_, _, _, _, _)
PipeRest(array, left, i, end, pipes) ==
    IF i > Len(pipes) \/ pipes[i] >= end THEN left
    ELSE PipeRest(array,
           Joined("PIPE", left, PipePart(array, pipes[i], NextCut(pipes, i, end))),
           i + 1, end, pipes)

(* The pipes from the j-th on, as pipe_locations and pipe_start. *)
pipe_command(array, beg, end, pipes, j) ==
    IF j > Len(pipes) \/ pipes[j] >= end
      THEN format_command(array, beg, end)
      ELSE PipeRest(array, PipePart(array, beg, pipes[j]), j, end, pipes)

(* The first pipe that is not before loc: the while loop over j. *)
RECURSIVE PipeFrom(_, _, _)
PipeFrom(pipes, j, loc) ==
    IF j <= Len(pipes) /\ pipes[j] < loc
      THEN PipeFrom(pipes, j + 1, loc) ELSE j

ListPart(array, from, to, pipes) ==
    pipe_command(array, SkipForward(array, from, White \union {";"}),
                 SkipBack(array, to, White \union {";"}),
                 pipes, PipeFrom(pipes, 1, from))

RECURSIVE ListRest(_, _, _, _, _, _)
ListRest(array, left, i, end, semis, pipes) ==
    IF i > Len(semis) THEN left
    ELSE ListRest(array,
           Joined("SEQUENCE", left,
                  ListPart(array, semis[i], NextCut(semis, i, end), pipes)),
           i + 1, end, semis, pipes)

complete_command(array, beg0, end0) ==
    LET beg == SkipForward(array, beg0, White \union {";"})
        end == SkipBack(array, end0, White \union {";"})
        s == find_semi_pipes(array, beg, end)
    IN IF s.semis = <<>> THEN pipe_command(array, beg, end, s.pipes, 1)
       ELSE ListRest(array, ListPart(array, beg, s.semis[1], s.pipes),
                     1, end, s.semis, s.pipes)

Compound(type, parts) == [type |-> type, command |-> parts]

IfParts(array, loc) ==
    IF loc[3] = -1
      THEN <<complete_command(array, loc[1] + 1, loc[2] - 1),
             complete_command(array, loc[2] + 1, loc[4] - 1)>>
      ELSE <<complete_command(array, loc[1] + 1, loc[2] - 1),
             complete_command(array, loc[2] + 1, loc[3] - 1),
             complete_command(array, loc[3] + 1, loc[4] - 1)>>

LoopParts(array, loc) ==
    <<complete_command(array, loc[1] + 1, loc[2] - 1),
      complete_command(array, loc[2] + 1, loc[3] - 1)>>

format_command(array, beg0, end) ==
    LET beg == SkipForward(array, beg0, Blank)
        loc == find_semi_pipes(array, beg, end).loc
        close == CHOOSE i \in beg .. end :
                   array[i] = ")" /\ \A j \in i + 1 .. end : array[j] # ")"
    IN CASE array[beg] \in Reserved \ {"if", "while", "until"} ->
              None \* the code allocates a command and never sets its type
         [] array[beg] = "if" ->
              format_function(array, loc[4] + 1, end, Compound("IF", IfParts(array, loc)))
         [] array[beg] \in {"while", "until"} ->
              format_function(array, loc[3] + 1, end,
                Compound(IF array[beg] = "while" THEN "WHILE" ELSE "UNTIL",
                         LoopParts(array, loc)))
         [] Splitter(array, beg, end) = "(" ->
              format_function(array, close + 1, end,
                Compound("SUBSHELL", <<complete_command(array, beg + 1, close - 1)>>))
         [] OTHER -> format_function(array, beg, end, None)
=============================================================================
