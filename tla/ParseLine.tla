----------------------------- MODULE ParseLine -----------------------------
(***************************************************************************)
(* What becomes of the characters typed at a shell: main() takes pieces of *)
(* at most MAXLINE - 1 characters by fgets, and eval makes words of each   *)
(* by parseline.  "shiyan" knows quoted words; "eval" (eval.c, and         *)
(* 8_26shiyan.c with the same parseline) does not.                         *)
(*                                                                         *)
(* A character stands for itself, except that "Q" is the text quit and "n" *)
(* the end of a line.                                                      *)
(***************************************************************************)
EXTENDS Naturals, Sequences, FiniteSets

CONSTANTS
    MAXLINE,
    MaxLength,      \* bound: characters of a line that is typed at random
    MaxWords        \* bound: words of a line that is typed word by word

\* An argv of MAXARGS entries takes every line only if MAXLINE is at most
\* 2 * MAXARGS; with the values of shiyan.c nothing in the code sees to it.
ASSUME ParseLineAssumption == MAXLINE \in Nat /\ MAXLINE > 1 /\ MaxLength \in Nat /\ MaxWords \in Nat

Blank == " "
Char == {"a", "Q", "&", "'", Blank}
UpTo(k, S) == UNION {[1..m -> S] : m \in 0..k}
ToSet(s) == {s[k] : k \in DOMAIN s}

VARIABLES
    shell,
    at,             \* "options", "fgets", "eval", or "down": it has exited
    meant,          \* words of a line that was typed word by word
    typed, stdin,   \* what was typed, and what of it has not been read
    cmdline,
    ran,            \* what eval ran: words, and whether in the background
    had, ends       \* history: the characters eval was given, and where in them a piece ended

script == <<shell, meant, typed>>
history == <<had, ends>>
vars == <<script, at, stdin, cmdline, ran, history>>

TypeOK ==
    /\ shell \in {"shiyan", "eval"} /\ at \in {"options", "fgets", "eval", "down"}
    /\ Len(stdin) <= Len(typed)
    /\ Len(cmdline) < MAXLINE /\ (at = "eval" => cmdline # <<>>)
    /\ \A k \in DOMAIN ran : ran[k].words # <<>> /\ ran[k].bg \in BOOLEAN

-----------------------------------------------------------------------------
(* parseline.                                                               *)

Least(S) == CHOOSE x \in S : \A y \in S : x <= y

\* The first place from i on where text has c, or 0.
strchr(text, i, c) ==
    LET found == {k \in i..Len(text) : text[k] = c} IN IF found = {} THEN 0 ELSE Least(found)

skip(text, i) == Least({k \in i..Len(text) : text[k] # Blank} \cup {Len(text) + 1})

isQuoted(text, i) == i <= Len(text) /\ text[i] = "'"

\* Where the next word from i on begins, and the delimiter that ends it, or 0.
quoted_Blank(text, i) == \* mutant: a quoted word ends at a blank
    LET b == skip(text, i) IN
    IF isQuoted(text, b) THEN <<b + 1, strchr(text, b + 1, Blank)>> ELSE <<b, strchr(text, b, Blank)>>
quoted(text, i) ==
    LET b == skip(text, i) IN
    IF isQuoted(text, b) THEN <<b + 1, strchr(text, b + 1, "'")>> ELSE <<b, strchr(text, b, Blank)>>
plain(text, i) == LET b == skip(text, i) IN <<b, strchr(text, b, Blank)>>

next_word(text, i) == IF shell = "shiyan" THEN quoted(text, i) ELSE plain(text, i)

words(text) ==
    LET from[i \in 1..(Len(text) + 1)] ==
          LET next == next_word(text, i) IN
          IF next[2] = 0 THEN <<>> ELSE <<SubSeq(text, next[1], next[2] - 1)>> \o from[next[2] + 1] IN
    from[1]

background(argv) == argv # <<>> /\ argv[Len(argv)] # <<>> /\ argv[Len(argv)][1] = "&"

\* The last character gives way to a blank: the end of the line, unless
\* fgets had no room for it or the file ended before it.
parseline(line) ==
    LET text == [line EXCEPT ![Len(line)] = Blank]
        argv == words(text) IN
    IF background(argv) THEN [words |-> SubSeq(argv, 1, Len(argv) - 1), bg |-> TRUE]
    ELSE [words |-> argv, bg |-> FALSE]

-----------------------------------------------------------------------------
(* main() and eval.                                                         *)

\* A word is typed as it is or in quotes.
Written == {[word |-> w, quotes |-> q] : w \in {<<"a">>, <<"Q", "a">>, <<"&">>, <<"a", Blank>>, <<>>}, q \in BOOLEAN}
Typable == {x \in Written : x.quotes \/ (x.word # <<>> /\ Blank \notin ToSet(x.word))}
write(x) == IF x.quotes THEN <<"'">> \o x.word \o <<"'">> ELSE x.word
line(s) == LET upto[k \in 0..Len(s)] == IF k = 0 THEN <<>> ELSE upto[k - 1] \o <<Blank>> \o write(s[k]) IN
           upto[Len(s)]

Init ==
    /\ shell \in {"shiyan", "eval"} /\ at = "options" /\ cmdline = <<>> /\ ran = <<>> /\ had = <<>> /\ ends = {}
    /\ \E more \in {<<>>, <<"n">>, <<"n", "a", "n">>} :
         \/ \E t \in UpTo(MaxLength, Char) : typed = t \o more /\ meant = <<>>
         \/ \E s \in UpTo(MaxWords, Typable) : typed = line(s) \o more /\ meant = s
    /\ stdin = typed

\* Of the options of shiyan -v and -p are about what is printed; -h, and what
\* is no option, end in usage().
Options ==
    /\ at = "options"
    /\ at' = "fgets" \/ (shell = "shiyan" /\ at' = "down")
    /\ UNCHANGED <<script, stdin, cmdline, ran, history>>

Smaller(a, b) == IF a < b THEN a ELSE b
taken == Smaller(MAXLINE - 1, Least({k \in DOMAIN stdin : stdin[k] = "n"} \cup {Len(stdin)}))

\* feof is true once fgets has met the end of file, with or without characters:
\* a last line without an end is dropped (and stays in stdin here).
atEof == taken = Len(stdin) /\ taken < MAXLINE - 1 /\ (taken = 0 \/ stdin[taken] # "n")

left_Discards == \* mutant: the rest of a line that is too long is thrown away
    LET end == strchr(stdin, taken, "n") IN SubSeq(stdin, (IF end = 0 THEN taken ELSE end) + 1, Len(stdin))
left == SubSeq(stdin, taken + 1, Len(stdin))

Fgets ==
    /\ at = "fgets"
    /\ IF atEof THEN at' = "down" /\ UNCHANGED <<stdin, cmdline>>
       ELSE /\ at' = "eval"
            /\ cmdline' = SubSeq(stdin, 1, taken)
            /\ stdin' = left
    /\ UNCHANGED <<script, ran, history>>

\* An error of fgets ends the shell.
app_error == at = "fgets" /\ at' = "down" /\ UNCHANGED <<script, stdin, cmdline, ran, history>>

builtin_cmd(argv) == argv[1] = <<"&">>

eval ==
    /\ at = "eval"
    /\ LET command == parseline(cmdline)
           argv == command.words IN
       /\ at' = IF argv # <<>> /\ argv[1] = <<"Q">> THEN "down" ELSE "fgets"
       /\ ran' = IF argv = <<>> \/ builtin_cmd(argv) \/ argv[1] = <<"Q">> THEN ran ELSE Append(ran, command)
    /\ had' = had \o cmdline /\ ends' = ends \cup {Len(had) + Len(cmdline)}
    /\ UNCHANGED <<script, stdin, cmdline>>

Next == Options \/ Fgets \/ app_error \/ eval
Spec == Init /\ [][Next]_vars

-----------------------------------------------------------------------------
\* What eval was given, piece after piece, what it is about to be given and
\* what is not read yet are together what was typed: no character is skipped,
\* read twice or moved, however long a line is.  And the pieces end at the
\* newlines, and where MAXLINE - 1 characters went by without an end.
PiecesAreTheInput ==
    /\ TypeOK
    /\ typed = had \o (IF at = "eval" THEN cmdline ELSE <<>>) \o stdin
    /\ \A k \in DOMAIN had :
         k \in ends <=> \/ typed[k] = "n"
                       \/ \E b \in ends \cup {0} : k = b + MAXLINE - 1 /\ ends \cap ((b + 1)..(k - 1)) = {}

\* Without quotes the words of a line are its longest pieces without blanks,
\* in order, whatever blanks come before, between and behind them.  The words
\* that somebody meant, in quotes or not, are the words that shiyan runs, with
\* blanks in them or empty; a last word that begins with & is not among them,
\* not even in quotes, and asks for the background.
WordsAreMeant ==
    /\ at = "eval" /\ ("'" \notin ToSet(cmdline) \/ shell = "eval") =>
         LET text == [cmdline EXCEPT ![Len(cmdline)] = Blank]
             begins == {k \in DOMAIN text : text[k] # Blank /\ (k = 1 \/ text[k - 1] = Blank)}
             argv == parseline(cmdline).words
             dropped == IF parseline(cmdline).bg THEN 1 ELSE 0 IN
         /\ Cardinality(begins) = Len(argv) + dropped
         /\ \A b \in begins : LET k == Cardinality({c \in begins : c <= b}) IN
              IF k > Len(argv) THEN text[b] = "&"
              ELSE /\ argv[k] = SubSeq(text, b, b + Len(argv[k]) - 1)
                   /\ text[b + Len(argv[k])] = Blank
    /\ LET asked == [k \in DOMAIN meant |-> meant[k].word]
           bg == background(asked) IN
       at = "eval" /\ shell = "shiyan" /\ meant # <<>> /\ cmdline = line(meant) \o <<"n">> =>
         parseline(cmdline) = [words |-> SubSeq(asked, 1, Len(asked) - (IF bg THEN 1 ELSE 0)), bg |-> bg]
=============================================================================
