------------------------------ MODULE ShellRead ------------------------------
(***************************************************************************)
(* split_everything (read-command.c): the scan that checks the syntax of a *)
(* script, one token per step, and cuts it into the commands of the        *)
(* command stream.  Every step is one round of the while loop: one action  *)
(* per case of its switch, and the checks that follow the switch.          *)
(***************************************************************************)
EXTENDS ShellTree, ShellStream

(* The scripts a run reads: text is a sequence of tokens, means the command *)
(* trees the text was written for, <<>> when it must be refused.            *)
CONSTANT Scripts

VARIABLES
    script,           \* the member of Scripts that is read
    array,            \* the script; the scan blanks some of its newlines
    index,
    scan              \* the local variables of split_everything

readVars == <<script, array, index, scan, commands, phase>>

ScanInit(a) ==
    [in_command |-> FALSE, command_start |-> 1, command_end |-> Len(a),
     num_semi |-> 0, num_endl |-> 0, num_parens |-> 0,
     first_command |-> FALSE, little_command |-> FALSE,
     found_char |-> FALSE, found_word |-> FALSE,
     less |-> 0, greater |-> 0, cpd_sub |-> "", last_reserved |-> "",
     cc |-> NoCompounds, dc |-> <<>>, prev |-> "nl"]

ReadInit ==
    /\ script \in Scripts
    /\ array = script.text
    /\ index = 1
    /\ scan = ScanInit(array)
    /\ commands = <<>>
    /\ phase = "start"

Tok == array[index]
Compounded == scan.cpd_sub # ""

(* The loop that steps over the white space before the first command. *)
Begin ==
    /\ phase = "start"
    /\ index' = SkipForward(array, 1, White)
    /\ phase' = "read"
    /\ UNCHANGED <<script, array, scan, commands>>

-----------------------------------------------------------------------------
(***************************************************************************)
(* The conditions that set invalid, case by case.                          *)
(***************************************************************************)
Dangling == {"|", "<", ">"}          \* operators that need a word after them
Opener == {"if", "while", "until"}

SemiInvalid ==
    \/ scan.prev \in Dangling \union {";", "nl", "("}
    \/ Compounded /\ ~scan.found_word /\ ~scan.first_command
    \/ scan.num_semi >= 1

(* Seeded fault: a pipe may start a line. *)
BadPipeInvalid ==
    \/ scan.prev \in Dangling \union {";"}
    \/ Compounded /\ ~scan.found_word

PipeInvalid ==
    \/ scan.prev \in Dangling \union {";", "nl"}
    \/ Compounded /\ ~scan.found_word

OpenInvalid ==
    \/ scan.prev \in {"<", ">"}
    \/ IsWord(scan.prev) /\ ~Compounded

CloseInvalid == scan.num_parens = 0 \/ scan.prev \in Dangling \union {"("}

LessInvalid ==
    \/ scan.prev \in Dangling \union {";", "nl", "("}
    \/ scan.less > 0 \/ scan.greater > 0

GreaterInvalid ==
    scan.prev \in Dangling \union {";", "nl", "("} \/ scan.greater > 0

(* A word is read when it starts a command, or anywhere in a compound; *)
(* the other words are stepped over character by character.           *)
ReadsWord == ~scan.little_command \/ scan.cc["all"] # 0
IsReserved == ReadsWord /\ check_reserved_word(Tok) /\ ~scan.found_char

Misplaced ==
    IF Tok \in Opener
      THEN scan.last_reserved \in {"fi", "done"} /\ scan.prev \notin {";", "nl", "|", "("}
      ELSE scan.prev \notin {";", "nl"}

Unmatched ==
    \/ Tok = "then" /\ scan.cc["if"] = 0
    \/ Tok = "else" /\ scan.cc["then"] = 0
    \/ Tok = "do" /\ Loops(scan.cc) = 0
    \/ Tok = "fi" /\ (scan.cc["if"] = 0 \/ scan.cc["then"] = 0)
    \/ Tok = "done" /\ scan.cc["do"] = 0

WordInvalid == scan.first_command \/ (IsReserved /\ (Misplaced \/ Unmatched))

Invalid ==
    CASE Tok = ";" -> SemiInvalid
      [] Tok = "nl" -> scan.prev \in Dangling
      [] Tok = "|" -> PipeInvalid
      [] Tok = "(" -> OpenInvalid
      [] Tok = ")" -> CloseInvalid
      [] Tok = "<" -> LessInvalid
      [] Tok = ">" -> GreaterInvalid
      [] Tok = "#" -> scan.prev # "nl"
      [] Tok = "bad" -> TRUE
      [] Tok \in Blank -> FALSE
      [] IsWord(Tok) -> WordInvalid

-----------------------------------------------------------------------------
(***************************************************************************)
(* What follows the switch: a blank line ends the command, the third       *)
(* newline and later ones are passed over, and the last token must not     *)
(* leave anything open.                                                    *)
(***************************************************************************)
Unfinished(s) == s.prev \in Dangling \/ s.num_parens > 0 \/ s.cc["all"] # 0

AfterSwitch(s, a) ==
    LET ends == s.num_endl = 2 /\ Tok \notin Blank
        passed == s.num_endl > 2
        r == [s EXCEPT !.prev = IF Tok \in Blank \/ passed THEN @ ELSE Tok,
                       !.in_command = @ /\ ~ends]
        err == (ends /\ s.num_parens > 0)
               \/ (index = Len(array) /\ ~passed /\ Unfinished(r))
    IN /\ script' = script
       /\ array' = a
       /\ scan' = r
       /\ index' = index + 1
       /\ commands' = IF ends /\ ~err
                        THEN Append(commands, complete_command(a, s.command_start, s.command_end))
                        ELSE commands
       /\ phase' = IF err THEN "error" ELSE "read"

Reading(S) == phase = "read" /\ index <= Len(array) /\ Tok \in S /\ ~Invalid

(* make_error: the message, and exit(-1). *)
SyntaxError ==
    /\ phase = "read" /\ index <= Len(array) /\ Invalid
    /\ phase' = "error"
    /\ UNCHANGED <<script, array, index, scan, commands>>

Space == Reading(Blank) /\ AfterSwitch(scan, array)

(* What a separator clears, and the end of the command before it. *)
Cut(s) ==
    [s EXCEPT !.less = 0, !.greater = 0, !.found_char = FALSE,
              !.first_command = FALSE, !.little_command = FALSE,
              !.command_end = IF s.little_command THEN index - 1 ELSE @]

Semi == Reading({";"}) /\ AfterSwitch([Cut(scan) EXCEPT !.num_semi = @ + 1], array)

(* A newline after a semicolon, or a blank line in a compound, is blanked. *)
Blanked == (Compounded /\ scan.num_endl = 1) \/ scan.prev = ";"

Newline ==
    /\ Reading({"nl"})
    /\ IF Blanked THEN AfterSwitch(scan, [array EXCEPT ![index] = "sp"])
                  ELSE AfterSwitch([Cut(scan) EXCEPT !.num_endl = @ + 1], array)

Pipe ==
    /\ Reading({"|"})
    /\ AfterSwitch([scan EXCEPT !.less = 0, !.greater = 0, !.found_char = FALSE], array)

Started(s) ==
    [s EXCEPT !.in_command = TRUE, !.num_semi = 0, !.num_endl = 0,
              !.command_start = IF s.in_command THEN @ ELSE index]

Open ==
    /\ Reading({"("})
    /\ AfterSwitch([Started(scan) EXCEPT !.num_parens = @ + 1, !.little_command = TRUE],
                   array)

Close ==
    /\ Reading({")"})
    /\ AfterSwitch([scan EXCEPT !.num_parens = @ - 1, !.num_semi = 0, !.num_endl = 0,
                                !.found_char = FALSE], array)

Redirect ==
    /\ Reading({"<", ">"})
    /\ AfterSwitch([scan EXCEPT !.first_command = FALSE,
                                !.less = IF Tok = "<" THEN @ + 1 ELSE @,
                                !.greater = IF Tok = ">" THEN @ + 1 ELSE @], array)

(* A comment line is stepped over, its newline included. *)
Comment ==
    /\ Reading({"#"})
    /\ index' = 1 + (IF \E i \in index .. Len(array) : array[i] = "nl"
                       THEN CHOOSE i \in index .. Len(array) :
                              array[i] = "nl" /\ \A j \in index .. i - 1 : array[j] # "nl"
                       ELSE Len(array) + 1)
    /\ UNCHANGED <<script, array, scan, commands, phase>>

(* The counters after a reserved word; only an outermost if counts its fi *)
(* in compound_count[1].                                                  *)
Counting(s) ==
    CASE Tok \in Opener -> Opened(s.cc, Tok)
      [] Tok \in {"then", "else", "do"} -> [s.cc EXCEPT ![Tok] = @ + 1]
      [] Tok = "fi" -> FiClosed(s.cc, IF s.cpd_sub = "if" THEN 1 ELSE 0)
      [] Tok = "done" -> DoneClosed(s.cc, s.dc)

ReservedWord(s0) ==
    LET s == [s0 EXCEPT !.cpd_sub = IF @ = "" THEN Tok ELSE @]
        cc == Counting(s)
        over == cc["all"] = 0
    IN [s EXCEPT !.cc = cc, !.last_reserved = Tok, !.found_word = FALSE,
                 !.first_command = @ \/ Tok \in {"fi", "done"},
                 !.cpd_sub = IF over THEN "" ELSE @,
                 !.dc = IF over THEN <<>>
                        ELSE IF Tok \in {"while", "until"} THEN LoopOpened(@, s.cc, Tok)
                        ELSE @]

PlainWord(s) == [s EXCEPT !.found_word = TRUE, !.found_char = TRUE]

Word ==
    /\ phase = "read" /\ index <= Len(array) /\ IsWord(Tok) /\ ~Invalid
    /\ LET s == [Started(scan) EXCEPT !.little_command = TRUE] IN
       AfterSwitch(CASE IsReserved -> ReservedWord(s)
                     [] ReadsWord /\ ~IsReserved -> PlainWord(s)
                     [] OTHER -> s, array)

(* The end of the script completes the command under way, whatever       *)
(* in_command says.                                                      *)
Finish ==
    /\ phase = "read" /\ index > Len(array)
    /\ commands' = Append(commands, complete_command(array, scan.command_start, Len(array)))
    /\ phase' = "run"
    /\ UNCHANGED <<script, array, index, scan>>

ReadNext ==
    \/ Begin \/ Space \/ Semi \/ Newline \/ Pipe \/ Open \/ Close \/ Redirect
    \/ Comment \/ Word \/ SyntaxError \/ Finish
=============================================================================
