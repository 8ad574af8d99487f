-------------------------- MODULE ParseLineProofs --------------------------
(***************************************************************************)
(* That fgets in main() hands on what was typed, every character once, and *)
(* that parseline makes of each piece the words that are in it, for lines  *)
(* of any length, any buffer and any number of lines.                      *)
(*                                                                         *)
(* What the loops of the code compute is a recursive function of the place *)
(* they have reached.  That it exists and what it yields is shown by the   *)
(* least place (or, where the recursion runs to the end of the line, the   *)
(* last) at which it would be otherwise.                                   *)
(***************************************************************************)
EXTENDS ParseLine, SequenceTheorems, FiniteSetTheorems, WellFoundedInduction, TLAPS

LessThan == {ss \in Nat \X Nat : ss[1] < ss[2]}

LEMMA LessThanWellFounded == IsWellFoundedOn(LessThan, Nat)
  BY NatLessThanWellFounded DEF OpToRel, LessThan

\* Least finds the least element of a set of natural numbers.
LEMMA LeastIsFirst ==
  ASSUME NEW S \in SUBSET Nat, S # {}
  PROVE  Least(S) \in S /\ \A y \in S : Least(S) <= y
<1>1. PICK x \in S : \A y \in S : ~(<<y, x>> \in LessThan)
  BY LessThanWellFounded, WFMin
<1>2. \A y \in S : x <= y
  <2> SUFFICES ASSUME NEW y \in S, y < x PROVE FALSE
    OBVIOUS
  <2>1. <<y, x>> \in LessThan
    BY DEF LessThan
  <2> QED BY <1>1, <2>1
<1> QED BY <1>2 DEF Least

\* The characters of a line, with the one that ends it.
Letter == Char \cup {"n"}

LEMMA BlankIsNone == Blank \notin {"a", "Q", "&", "'", "n"}
  BY Zenon DEF Blank

LEMMA OneBlank == <<Blank>> \in Seq(Letter) /\ Len(<<Blank>>) = 1 /\ <<Blank>>[1] = Blank
<1>1. Blank \in Letter
  BY DEF Letter, Char
<1> QED BY <1>1

LEMMA Letters == {"a", "Q", "&", "'", "n", Blank} = Letter
  BY DEF Letter, Char

-----------------------------------------------------------------------------
(* How a line is typed.                                                    *)

\* What a word looks like: quotes around it may hold anything but a quote,
\* and without them it has characters, none of them a blank or a quote.
LEMMA TypableWords ==
  ASSUME NEW x \in Typable
  PROVE  /\ x.word \in Seq(Char) /\ x.quotes \in BOOLEAN
         /\ \A k \in DOMAIN x.word : x.word[k] # "'"
         /\ ~x.quotes => x.word # <<>> /\ \A k \in DOMAIN x.word : x.word[k] # Blank
<1>1. /\ x.word \in {<<"a">>, <<"Q", "a">>, <<"&">>, <<"a", Blank>>, <<>>}
      /\ x.quotes \in BOOLEAN
      /\ ~x.quotes => x.word # <<>> /\ Blank \notin ToSet(x.word)
  BY DEF Typable, Written
<1>2. \A k \in DOMAIN x.word : x.word[k] # "'"
  BY <1>1, BlankIsNone
<1>3. x.word \in Seq(Char)
  <2>1. "a" \in Char /\ "Q" \in Char /\ "&" \in Char /\ Blank \in Char
    BY DEF Char
  <2>2. <<"a">> \in Seq(Char) /\ <<"Q", "a">> \in Seq(Char) /\ <<"&">> \in Seq(Char)
    BY <2>1
  <2>3. <<"a", Blank>> \in Seq(Char) /\ <<>> \in Seq(Char)
    BY <2>1
  <2> QED BY <1>1, <2>2, <2>3
<1> QED BY <1>1, <1>2, <1>3 DEF ToSet

LEMMA WriteTyped ==
  ASSUME NEW x \in Typable
  PROVE  /\ write(x) \in Seq(Letter) /\ write(x) # <<>>
         /\ write(x)[1] # Blank
         /\ x.quotes => /\ Len(write(x)) = Len(x.word) + 2
                        /\ write(x)[1] = "'" /\ write(x)[Len(write(x))] = "'"
                        /\ \A k \in 1..Len(x.word) : write(x)[k + 1] = x.word[k]
         /\ ~x.quotes => write(x) = x.word
<1>1. x.word \in Seq(Letter) /\ "'" \in Letter
  BY TypableWords, Letters DEF Letter
<1> DEFINE w == x.word
           q == <<"'">>
<1>2. q \in Seq(Letter) /\ Len(q) = 1 /\ q[1] = "'"
  BY <1>1
<1>3. CASE x.quotes
  <2> HIDE DEF w, q
  <2>1. w \in Seq(Letter)
    BY <1>1 DEF w
  <2>2. /\ q \o w \in Seq(Letter) /\ Len(q \o w) = 1 + Len(w)
        /\ \A i \in 1..(1 + Len(w)) : (q \o w)[i] = IF i <= 1 THEN q[i] ELSE w[i - 1]
    <3>1. /\ q \o w \in Seq(Letter) /\ Len(q \o w) = Len(q) + Len(w)
          /\ \A i \in 1..(Len(q) + Len(w)) : (q \o w)[i] = IF i <= Len(q) THEN q[i] ELSE w[i - Len(q)]
      BY <2>1, <1>2, ConcatProperties
    <3> QED BY <3>1, <1>2
  <2>3. /\ (q \o w) \o q \in Seq(Letter) /\ Len((q \o w) \o q) = Len(w) + 2
        /\ \A i \in 1..(2 + Len(w)) : ((q \o w) \o q)[i] = IF i <= 1 + Len(w) THEN (q \o w)[i] ELSE q[i - (1 + Len(w))]
    <3> DEFINE qw == q \o w
    <3> HIDE DEF qw
    <3>1. qw \in Seq(Letter) /\ Len(qw) = 1 + Len(w)
      BY <2>2 DEF qw
    <3>2. Len(w) \in Nat
      BY <2>1
    <3>3. /\ qw \o q \in Seq(Letter) /\ Len(qw \o q) = Len(qw) + Len(q)
          /\ \A i \in 1..(Len(qw) + Len(q)) : (qw \o q)[i] = IF i <= Len(qw) THEN qw[i] ELSE q[i - Len(qw)]
      BY <3>1, <1>2, ConcatProperties
    <3> QED BY <3>1, <3>2, <3>3, <1>2 DEF qw
  <2>4. write(x) = (q \o w) \o q
    BY <1>3 DEF write, q, w
  <2>5. Len(w) \in Nat
    BY <2>1
  <2> DEFINE e == (q \o w) \o q
             qw == q \o w
  <2> HIDE DEF e, qw
  <2>6. /\ e \in Seq(Letter) /\ Len(e) = Len(w) + 2
        /\ \A i \in 1..(2 + Len(w)) : e[i] = IF i <= 1 + Len(w) THEN qw[i] ELSE q[i - (1 + Len(w))]
    BY <2>3 DEF e, qw
  <2>7. \A i \in 1..(1 + Len(w)) : qw[i] = IF i <= 1 THEN q[i] ELSE w[i - 1]
    BY <2>2 DEF qw
  <2>8. e[1] = "'" /\ e[Len(e)] = "'"
    BY <2>5, <2>6, <2>7, <1>2
  <2>9. \A k \in 1..Len(w) : e[k + 1] = w[k]
    BY <2>5, <2>6, <2>7
  <2>10. e # <<>>
    BY <2>5, <2>6
  <2> QED BY <2>4, <2>6, <2>8, <2>9, <2>10, <1>3, BlankIsNone DEF e, w
<1>4. CASE ~x.quotes
  <2>1. write(x) = w /\ w # <<>> /\ \A k \in DOMAIN w : w[k] # Blank
    BY <1>4, TypableWords DEF write
  <2>2. 1 \in DOMAIN w
    BY <1>1, <2>1
  <2> QED BY <1>1, <1>4, <2>1, <2>2
<1>5. x.quotes \in BOOLEAN
  BY TypableWords
<1> QED BY <1>3, <1>4, <1>5

\* The function of line, by name: what is typed up to each word.
Upto(s) == CHOOSE f : f = [k \in 0..Len(s) |->
    IF k = 0 THEN <<>> ELSE f[k - 1] \o <<Blank>> \o write(s[k])]

LEMMA LineIsUpto == \A s : line(s) = Upto(s)[Len(s)]
  BY DEF line, Upto

\* It exists: a least word up to which it did not would have none before it.
LEMMA UptoDefined ==
  ASSUME NEW s \in Seq(Typable)
  PROVE  /\ Upto(s) = [k \in 0..Len(s) |->
               IF k = 0 THEN <<>> ELSE Upto(s)[k - 1] \o <<Blank>> \o write(s[k])]
         /\ Upto(s) \in [0..Len(s) -> Seq(Letter)]
<1> DEFINE N == Len(s)
           Is(f, m) == /\ f \in [0..m -> Seq(Letter)]
                       /\ f = [k \in 0..m |-> IF k = 0 THEN <<>> ELSE f[k - 1] \o <<Blank>> \o write(s[k])]
           Bad == {m \in 0..N : ~ \E f : Is(f, m)}
<1>1. N \in Nat
  OBVIOUS
<1>2. ASSUME NEW m \in 0..N, m = 0 \/ \E f : Is(f, m - 1)
      PROVE  \E f : Is(f, m)
  <2>1. CASE m = 0
    <3> DEFINE f == [k \in 0..0 |-> <<>>]
    <3>1. Is(f, 0)
      OBVIOUS
    <3> QED BY <2>1, <3>1
  <2>2. CASE m # 0
    <3>1. PICK g : Is(g, m - 1)
      BY <1>2, <2>2
    <3> DEFINE new == g[m - 1] \o <<Blank>> \o write(s[m])
               f == [k \in 0..m |-> IF k = m THEN new ELSE g[k]]
    <3>2. m - 1 \in 0..(m - 1) /\ m \in 1..N /\ m \in Nat
      BY <1>1, <2>2
    <3>3. new \in Seq(Letter)
      <4>1. g[m - 1] \in Seq(Letter) /\ write(s[m]) \in Seq(Letter)
        BY <3>1, <3>2, WriteTyped
      <4>2. g[m - 1] \o <<Blank>> \in Seq(Letter)
        BY <4>1, OneBlank, ConcatProperties
      <4> QED BY <4>1, <4>2, ConcatProperties
    <3> HIDE DEF new
    <3>4. f \in [0..m -> Seq(Letter)]
      <4> SUFFICES ASSUME NEW k \in 0..m, k # m PROVE g[k] \in Seq(Letter)
        BY <3>3
      <4>1. k \in 0..(m - 1)
        BY <3>2
      <4> QED BY <4>1, <3>1
    <3>5. ASSUME NEW k \in 0..m PROVE f[k] = IF k = 0 THEN <<>> ELSE f[k - 1] \o <<Blank>> \o write(s[k])
      <4>1. CASE k = m
        <5>1. f[k] = new /\ f[k - 1] = g[m - 1]
          BY <4>1, <3>2
        <5> QED BY <5>1, <4>1, <2>2 DEF new
      <4>2. CASE k # m /\ k = 0
        BY <4>2, <3>1, <3>2
      <4>3. CASE k # m /\ k # 0
        <5>1. k \in 0..(m - 1) /\ k - 1 \in 0..(m - 1) /\ k - 1 \in 0..m /\ k - 1 # m
          BY <4>3, <3>2
        <5>2. g[k] = g[k - 1] \o <<Blank>> \o write(s[k])
          BY <5>1, <4>3, <3>1
        <5>3. f[k] = g[k] /\ f[k - 1] = g[k - 1]
          BY <5>1, <4>3
        <5> QED BY <5>2, <5>3, <4>3
      <4> QED BY <4>1, <4>2, <4>3
    <3>6. f = [k \in 0..m |-> IF k = 0 THEN <<>> ELSE f[k - 1] \o <<Blank>> \o write(s[k])]
      <4> DEFINE h == [k \in 0..m |-> IF k = 0 THEN <<>> ELSE f[k - 1] \o <<Blank>> \o write(s[k])]
      <4>1. DOMAIN f = 0..m /\ DOMAIN h = 0..m /\ \A k \in 0..m : f[k] = h[k]
        BY <3>5
      <4>2. f = [k \in 0..m |-> f[k]] /\ h = [k \in 0..m |-> h[k]]
        OBVIOUS
      <4> HIDE DEF f, h
      <4>3. f = h
        BY <4>1, <4>2
      <4> QED BY <4>3 DEF h
    <3>7. Is(f, m)
      <4> HIDE DEF f
      <4> QED BY <3>4, <3>6
    <3> QED BY <3>7
  <2> QED BY <2>1, <2>2
<1>3. Bad = {}
  <2> SUFFICES ASSUME Bad # {} PROVE FALSE
    OBVIOUS
  <2> HIDE DEF Is
  <2>1. Bad \in SUBSET Nat
    BY <1>1
  <2>2. Least(Bad) \in Bad /\ \A y \in Bad : Least(Bad) <= y
    <3> HIDE DEF Bad
    <3> QED BY <2>1, LeastIsFirst
  <2> DEFINE m == Least(Bad)
  <2> HIDE DEF m
  <2>3. m \in 0..N /\ (m # 0 => m - 1 \in 0..N /\ m - 1 \notin Bad) /\ m \in Bad
    <3>1. m \in Bad /\ \A y \in Bad : m <= y
      BY <2>2 DEF m
    <3>2. m \in 0..N /\ m \in Nat
      BY <3>1, <1>1
    <3> HIDE DEF Bad
    <3> QED BY <3>1, <3>2, <1>1
  <2> QED BY <2>3, <1>2
<1>4. PICK f : Is(f, N)
  <2>1. N \in 0..N
    BY <1>1
  <2> HIDE DEF Is, N
  <2> QED BY <2>1, <1>3
<1>5. Upto(s) = [k \in 0..Len(s) |->
               IF k = 0 THEN <<>> ELSE Upto(s)[k - 1] \o <<Blank>> \o write(s[k])]
  <2> DEFINE R(h) == h = [k \in 0..Len(s) |-> IF k = 0 THEN <<>> ELSE h[k - 1] \o <<Blank>> \o write(s[k])]
  <2>1. R(f)
    BY <1>4
  <2>2. Upto(s) = CHOOSE h : R(h)
    BY DEF Upto
  <2> HIDE DEF R
  <2>3. R(Upto(s))
    BY <2>1, <2>2
  <2> QED BY <2>3 DEF R
<1> DEFINE u == Upto(s)
           Odd == {m \in 0..N : u[m] \notin Seq(Letter)}
<1> HIDE DEF u
<1>6. u = [k \in 0..Len(s) |-> IF k = 0 THEN <<>> ELSE u[k - 1] \o <<Blank>> \o write(s[k])]
  BY <1>5 DEF u
<1>7. Odd = {}
  <2> SUFFICES ASSUME Odd # {} PROVE FALSE
    OBVIOUS
  <2>1. Odd \in SUBSET Nat
    BY <1>1
  <2>2. PICK m \in Odd : \A y \in Odd : m <= y
    <3> HIDE DEF Odd
    <3> QED BY <2>1, LeastIsFirst
  <2>3. m \in 0..N /\ m \in Nat /\ u[m] \notin Seq(Letter)
    BY <2>2, <1>1
  <2>4. CASE m = 0
    BY <2>3, <2>4, <1>6
  <2>5. CASE m # 0
    <3>1. m - 1 \in 0..N /\ m \in 1..N
      BY <2>3, <2>5, <1>1
    <3>2. u[m - 1] \in Seq(Letter)
      <4>1. m - 1 \notin Odd
        <5> HIDE DEF Odd
        <5> QED BY <2>2, <2>3
      <4> QED BY <3>1, <4>1
    <3>3. u[m] = u[m - 1] \o <<Blank>> \o write(s[m])
      BY <3>1, <2>5, <1>6
    <3>4. write(s[m]) \in Seq(Letter)
      BY <3>1, WriteTyped
    <3>5. u[m - 1] \o <<Blank>> \in Seq(Letter)
      BY <3>2, OneBlank, ConcatProperties
    <3>6. u[m] \in Seq(Letter)
      BY <3>3, <3>4, <3>5, ConcatProperties
    <3> QED BY <3>6, <2>3
  <2> QED BY <2>4, <2>5
<1>8. u \in [0..Len(s) -> Seq(Letter)]
  <2>1. \A k \in 0..Len(s) : u[k] \in Seq(Letter)
    BY <1>7
  <2>2. u = [k \in 0..Len(s) |-> u[k]]
    BY <1>6
  <2> QED BY <2>1, <2>2
<1> QED BY <1>5, <1>8 DEF u

LEMMA LineTyped ==
  ASSUME NEW s \in Seq(Typable)
  PROVE  line(s) \in Seq(Letter)
<1>1. Len(s) \in 0..Len(s)
  OBVIOUS
<1> QED BY <1>1, UptoDefined, LineIsUpto

-----------------------------------------------------------------------------
(* What main() reads.                                                       *)

\* A piece that eval has ends where fgets has to stop, and nowhere before.
Piece(c) ==
    /\ c[Len(c)] = "n" \/ Len(c) = MAXLINE - 1
    /\ "n" \notin ToSet(SubSeq(c, 1, Len(c) - 1))

\* A buffer's length behind the last end before it.
Full(E, k) == \E b \in E \cup {0} : k = b + MAXLINE - 1 /\ E \cap ((b + 1)..(k - 1)) = {}

\* The characters that eval was given end with a piece, and end a piece where
\* they have to.
Cuts(t, h, E) ==
    /\ E \subseteq 1..h /\ (h = 0 \/ h \in E)
    /\ \A k \in 1..h : k \in E <=> t[k] = "n" \/ Full(E, k)

\* What eval was given and what has not been read make up what was typed; what
\* eval has in hand comes between them, and is one piece.
InputInv ==
    /\ TypeOK
    /\ typed \in Seq(Letter) /\ stdin \in Seq(Letter) /\ cmdline \in Seq(Letter) /\ had \in Seq(Letter)
    /\ meant \in Seq(Typable)
    /\ ran \in Seq(ToSet(ran))
    /\ Cuts(typed, Len(had), ends)
    /\ at # "eval" => typed = had \o stdin
    /\ at = "eval" => typed = (had \o cmdline) \o stdin /\ Piece(cmdline)

LEMMA InitGivesInput == Init => InputInv
<1> SUFFICES ASSUME Init PROVE InputInv
  OBVIOUS
<1>1. PICK more \in {<<>>, <<"n">>, <<"n", "a", "n">>} :
        \/ \E t \in UpTo(MaxLength, Char) : typed = t \o more /\ meant = <<>>
        \/ \E s \in UpTo(MaxWords, Typable) : typed = line(s) \o more /\ meant = s
  BY DEF Init
<1>2. more \in Seq(Letter)
  <2>1. "n" \in Letter /\ "a" \in Letter
    BY Letters
  <2>2. <<>> \in Seq(Letter) /\ <<"n">> \in Seq(Letter) /\ <<"n", "a", "n">> \in Seq(Letter)
    BY <2>1
  <2>3. more \in {<<>>, <<"n">>, <<"n", "a", "n">>}
    OBVIOUS
  <2> QED BY <2>2, <2>3
<1>3. ASSUME NEW k \in Nat, NEW S, NEW t \in UpTo(k, S) PROVE t \in Seq(S)
  BY <1>3 DEF UpTo
<1>4. typed \in Seq(Letter) /\ meant \in Seq(Typable)
  <2>1. CASE \E t \in UpTo(MaxLength, Char) : typed = t \o more /\ meant = <<>>
    <3>1. PICK t \in UpTo(MaxLength, Char) : typed = t \o more /\ meant = <<>>
      BY <2>1
    <3>2. t \in Seq(Char)
      BY <1>3, ParseLineAssumption
    <3>3. t \in Seq(Letter)
      BY <3>2, SeqMonotonic DEF Letter
    <3>4. t \o more \in Seq(Letter)
      BY <3>3, <1>2, ConcatProperties
    <3> QED BY <3>1, <3>4
  <2>2. CASE \E s \in UpTo(MaxWords, Typable) : typed = line(s) \o more /\ meant = s
    <3>1. PICK s \in UpTo(MaxWords, Typable) : typed = line(s) \o more /\ meant = s
      BY <2>2
    <3>2. s \in Seq(Typable)
      BY <1>3, ParseLineAssumption
    <3>3. line(s) \in Seq(Letter)
      BY <3>2, LineTyped
    <3>4. line(s) \o more \in Seq(Letter)
      BY <3>3, <1>2, ConcatProperties
    <3> QED BY <3>1, <3>2, <3>4
  <2> QED BY <1>1, <2>1, <2>2
<1>5. /\ shell \in {"shiyan", "eval"} /\ at = "options" /\ cmdline = <<>> /\ ran = <<>> /\ stdin = typed
      /\ had = <<>> /\ ends = {}
  BY DEF Init
<1>6. TypeOK
  BY <1>4, <1>5, ParseLineAssumption DEF TypeOK
<1>7. typed = had \o stdin /\ Cuts(typed, Len(had), ends)
  <2>1. <<>> \in Seq(Letter) /\ <<>> \o typed = typed /\ Len(<<>>) = 0
    BY <1>4, ConcatEmptySeq
  <2>2. Cuts(typed, 0, {})
    BY DEF Cuts
  <2> QED BY <2>1, <2>2, <1>5
<1>8. cmdline \in Seq(Letter) /\ ran \in Seq(ToSet(ran)) /\ had \in Seq(Letter)
  BY <1>5
<1> QED BY <1>4, <1>5, <1>6, <1>7, <1>8 DEF InputInv

\* How much fgets takes: up to the end of the line, of the file or of the
\* buffer, whichever comes first.
LEMMA TakenIs ==
  ASSUME stdin \in Seq(Letter)
  PROVE  /\ taken \in 0..Len(stdin) /\ taken <= MAXLINE - 1
         /\ stdin # <<>> => taken > 0
         /\ \A k \in 1..Len(stdin) : k < taken => stdin[k] # "n"
         /\ taken # MAXLINE - 1 /\ taken # Len(stdin) => stdin[taken] = "n"
<1> DEFINE Ends == {k \in DOMAIN stdin : stdin[k] = "n"} \cup {Len(stdin)}
           l == Least(Ends)
<1>1. Ends \in SUBSET Nat /\ Ends # {} /\ Len(stdin) \in Ends /\ Len(stdin) \in Nat
  OBVIOUS
<1>2. l \in Ends /\ \A y \in Ends : l <= y
  <2> HIDE DEF Ends
  <2> QED BY <1>1, LeastIsFirst
<1>3. taken = Smaller(MAXLINE - 1, l)
  BY DEF taken
<1> HIDE DEF l
<1>4. l \in 0..Len(stdin) /\ (stdin # <<>> => l > 0)
  <2>1. l \in Nat /\ l <= Len(stdin)
    BY <1>1, <1>2
  <2>2. stdin # <<>> => 0 \notin Ends
    OBVIOUS
  <2> QED BY <2>1, <2>2, <1>1, <1>2
<1>5. \A k \in 1..Len(stdin) : k < l => stdin[k] # "n"
  <2> SUFFICES ASSUME NEW k \in 1..Len(stdin), k < l, stdin[k] = "n" PROVE FALSE
    OBVIOUS
  <2>1. k \in Ends
    OBVIOUS
  <2> QED BY <2>1, <1>2, <1>4
<1>6. l # Len(stdin) => stdin[l] = "n"
  BY <1>2
<1>7. MAXLINE \in Nat /\ MAXLINE > 1
  BY ParseLineAssumption
<1>8. /\ MAXLINE - 1 <= l => taken = MAXLINE - 1
      /\ ~(MAXLINE - 1 <= l) => taken = l
  BY <1>3, <1>4, <1>7 DEF Smaller
<1>9. taken \in 0..Len(stdin) /\ taken <= MAXLINE - 1 /\ taken <= l /\ (stdin # <<>> => taken > 0)
  BY <1>4, <1>7, <1>8
<1>10. \A k \in 1..Len(stdin) : k < taken => stdin[k] # "n"
  BY <1>4, <1>5, <1>9
<1>11. taken # MAXLINE - 1 /\ taken # Len(stdin) => stdin[taken] = "n"
  BY <1>6, <1>8
<1> QED BY <1>9, <1>10, <1>11

LEMMA FgetsKeepsInput == InputInv /\ Fgets => InputInv'
<1> SUFFICES ASSUME InputInv, Fgets PROVE InputInv'
  OBVIOUS
<1>1. /\ TypeOK /\ typed \in Seq(Letter) /\ stdin \in Seq(Letter) /\ cmdline \in Seq(Letter)
      /\ meant \in Seq(Typable) /\ ran \in Seq(ToSet(ran))
      /\ had \in Seq(Letter) /\ Cuts(typed, Len(had), ends)
      /\ at # "eval" => typed = had \o stdin
  BY DEF InputInv
<1>2. /\ at = "fgets" /\ shell' = shell /\ meant' = meant /\ typed' = typed /\ ran' = ran
      /\ had' = had /\ ends' = ends
  BY DEF Fgets, script, history
<1>3. CASE atEof
  <2>1. at' = "down" /\ stdin' = stdin /\ cmdline' = cmdline
    BY <1>3 DEF Fgets
  <2> QED BY <1>1, <1>2, <2>1 DEF InputInv, TypeOK, ToSet
<1>4. CASE ~atEof
  <2>1. /\ at' = "eval" /\ cmdline' = SubSeq(stdin, 1, taken)
        /\ stdin' = SubSeq(stdin, taken + 1, Len(stdin))
    BY <1>4 DEF Fgets, left
  <2> DEFINE m == taken
             N == Len(stdin)
             s == stdin
  <2>2. /\ m \in 0..N /\ m <= MAXLINE - 1 /\ (s # <<>> => m > 0) /\ N \in Nat
        /\ \A k \in 1..N : k < m => s[k] # "n"
        /\ m # MAXLINE - 1 /\ m # N => s[m] = "n"
    BY <1>1, TakenIs
  <2>3. m # N \/ ~(m < MAXLINE - 1) \/ (m # 0 /\ s[m] = "n")
    BY <1>4 DEF atEof
  <2>4. MAXLINE \in Nat /\ MAXLINE > 1
    BY ParseLineAssumption
  <2>5. s \in Seq(Letter) /\ \A k \in 1..N : s[k] \in Letter
    BY <1>1
  <2>6. cmdline' = SubSeq(s, 1, m) /\ stdin' = SubSeq(s, m + 1, N)
    BY <2>1
  <2> HIDE DEF m, N
  <2>7. m > 0
    <3>1. CASE s # <<>>
      BY <2>2, <3>1
    <3>2. CASE s = <<>>
      <4>1. N = 0
        BY <3>2 DEF N
      <4> QED BY <4>1, <2>2, <2>3, <2>4
    <3> QED BY <3>1, <3>2
  <2> HIDE DEF s
  <2>8. /\ cmdline' \in Seq(Letter) /\ Len(cmdline') = m
        /\ \A i \in 1..m : cmdline'[i] = s[i]
    <3>1. \A i \in 1..m : s[i] \in Letter
      BY <2>2, <2>5
    <3>2. /\ SubSeq(s, 1, m) \in Seq(Letter)
          /\ Len(SubSeq(s, 1, m)) = IF 1 <= m THEN m - 1 + 1 ELSE 0
          /\ \A i \in 1..(m - 1 + 1) : SubSeq(s, 1, m)[i] = s[1 + i - 1]
      BY <3>1, <2>2, SubSeqProperties
    <3> QED BY <3>2, <2>2, <2>6, <2>7
  <2>9. stdin' \in Seq(Letter) /\ Len(stdin') <= N
    <3>1. \A i \in (m + 1)..N : s[i] \in Letter
      BY <2>2, <2>5
    <3>2. /\ SubSeq(s, m + 1, N) \in Seq(Letter)
          /\ Len(SubSeq(s, m + 1, N)) = IF m + 1 <= N THEN N - (m + 1) + 1 ELSE 0
      BY <3>1, <2>2, SubSeqProperties
    <3> QED BY <3>2, <2>2, <2>6
  <2>10. cmdline' \o stdin' = s
    <3>1. 1 \in 1..(Len(s) + 1) /\ m \in (1 - 1)..Len(s) /\ Len(s) \in m..Len(s)
      BY <2>2 DEF N, s
    <3>2. SubSeq(s, 1, m) \o SubSeq(s, m + 1, Len(s)) = SubSeq(s, 1, Len(s))
      BY <3>1, <2>5, ConcatAdjacentSubSeq
    <3>3. SubSeq(s, 1, Len(s)) = s
      BY <2>5, SubSeqFull
    <3> QED BY <3>2, <3>3, <2>6 DEF N, s
  <2>11. typed = had \o s
    BY <1>1, <1>2 DEF s
  <2>12. typed = (had \o cmdline') \o stdin'
    <3> DEFINE c == cmdline'
               t == stdin'
    <3>1. c \in Seq(Letter) /\ t \in Seq(Letter) /\ typed = had \o (c \o t)
      BY <2>8, <2>9, <2>10, <2>11
    <3> HIDE DEF c, t
    <3>2. (had \o c) \o t = had \o (c \o t)
      BY <1>1, <3>1, ConcatAssociative
    <3> QED BY <3>1, <3>2 DEF c, t
  <2>14. Piece(cmdline)'
    <3>1. cmdline'[m] = s[m]
      BY <2>2, <2>7, <2>8
    <3>2. s[m] = "n" \/ m = MAXLINE - 1
      BY <2>2, <2>3, <2>4
    <3> DEFINE c == cmdline'
               head == SubSeq(c, 1, m - 1)
    <3>3. /\ c \in Seq(Letter) /\ Len(c) = m /\ m \in Nat /\ \A i \in 1..m : c[i] = s[i]
      BY <2>2, <2>8
    <3> HIDE DEF c
    <3>4. /\ head \in Seq(Letter) /\ Len(head) = m - 1
          /\ \A i \in 1..(m - 1) : head[i] = c[i]
      <4>1. \A i \in 1..(m - 1) : c[i] \in Letter
        BY <3>3
      <4>2. /\ SubSeq(c, 1, m - 1) \in Seq(Letter)
            /\ Len(SubSeq(c, 1, m - 1)) = IF 1 <= m - 1 THEN m - 1 - 1 + 1 ELSE 0
            /\ \A i \in 1..(m - 1 - 1 + 1) : SubSeq(c, 1, m - 1)[i] = c[1 + i - 1]
        BY <4>1, <3>3, SubSeqProperties
      <4> QED BY <4>2, <3>3, <2>7
    <3> HIDE DEF head
    <3>5. ASSUME NEW k \in DOMAIN head PROVE head[k] # "n"
      <4>1. k \in 1..(m - 1) /\ k \in 1..m /\ k \in 1..N /\ k < m
        BY <3>3, <3>4, <2>2
      <4> QED BY <4>1, <3>3, <3>4, <2>2
    <3>6. "n" \notin ToSet(SubSeq(c, 1, Len(c) - 1))
      BY <3>3, <3>5 DEF ToSet, head
    <3>7. c[Len(c)] = "n" \/ Len(c) = MAXLINE - 1
      BY <3>1, <3>2, <3>3 DEF c
    <3> QED BY <3>6, <3>7 DEF Piece, c
  <2>15. TypeOK'
    <3>1. Len(cmdline)' < MAXLINE /\ cmdline' # <<>>
      BY <2>2, <2>4, <2>7, <2>8
    <3>2. Len(stdin)' <= Len(typed)'
      <4>1. Len(typed) \in Nat /\ N <= Len(typed) /\ Len(stdin') \in Nat
        BY <1>1, <2>9 DEF TypeOK, N
      <4> QED BY <4>1, <2>2, <2>9, <1>2
    <3> QED BY <3>1, <3>2, <1>1, <1>2, <2>1 DEF TypeOK
  <2>16. (ran \in Seq(ToSet(ran)))'
    BY <1>1, <1>2 DEF ToSet
  <2>17. typed' = (had' \o cmdline') \o stdin'
    BY <2>12, <1>2
  <2>18. Cuts(typed, Len(had), ends)'
    BY <1>1, <1>2 DEF Cuts, Full
  <2>19. (typed \in Seq(Letter) /\ stdin \in Seq(Letter) /\ cmdline \in Seq(Letter) /\ meant \in Seq(Typable))' /\ (had \in Seq(Letter))'
    BY <1>1, <1>2, <2>8, <2>9
  <2> QED BY <2>1, <2>14, <2>15, <2>16, <2>17, <2>18, <2>19 DEF InputInv
<1> QED BY <1>3, <1>4

\* One more piece behind what eval was given.
LEMMA PieceCuts ==
  ASSUME NEW t, NEW h \in Nat, NEW E, Cuts(t, h, E),
         NEW c \in Seq(Letter), c # <<>>, Len(c) < MAXLINE, Piece(c),
         \A i \in 1..Len(c) : t[h + i] = c[i]
  PROVE  Cuts(t, h + Len(c), E \cup {h + Len(c)})
<1> DEFINE m == Len(c)
           e == h + m
           new == E \cup {e}
           head == SubSeq(c, 1, m - 1)
<1>1. m \in Nat /\ m > 0 /\ m <= MAXLINE - 1 /\ MAXLINE \in Nat
  BY ParseLineAssumption
<1>2. \A i \in 1..m : c[i] \in Letter
  OBVIOUS
<1>3. \A i \in 1..(m - 1) : c[i] # "n"
  <2>1. /\ head \in Seq(Letter) /\ Len(head) = IF 1 <= m - 1 THEN m - 1 - 1 + 1 ELSE 0
        /\ \A i \in 1..(m - 1 - 1 + 1) : head[i] = c[1 + i - 1]
    <3>1. \A i \in 1..(m - 1) : c[i] \in Letter
      BY <1>1, <1>2
    <3> HIDE DEF m
    <3> QED BY <3>1, <1>1, SubSeqProperties
  <2>2. "n" \notin ToSet(head)
    BY DEF Piece
  <2>3. ASSUME NEW i \in 1..(m - 1) PROVE c[i] # "n"
    <3>1. Len(head) = m - 1 /\ head[i] = c[i] /\ i \in DOMAIN head
      <4> HIDE DEF head, m
      <4> QED BY <1>1, <2>1
    <3> QED BY <3>1, <2>2 DEF ToSet
  <2> QED BY <2>3
<1>4. c[m] = "n" \/ m = MAXLINE - 1
  BY DEF Piece
<1>5. /\ E \subseteq 1..h /\ (h = 0 \/ h \in E)
      /\ \A k \in 1..h : k \in E <=> t[k] = "n" \/ Full(E, k)
  BY DEF Cuts
<1>6. \A i \in 1..m : t[h + i] = c[i]
  OBVIOUS
<1> HIDE DEF m, head
<1>7. e \in Nat /\ e > h /\ new \subseteq 1..e /\ e \in new
  BY <1>1, <1>5
<1>8. ASSUME NEW k \in 1..h PROVE k \in new <=> t[k] = "n" \/ Full(new, k)
  <2>1. k \in new <=> k \in E
    BY <1>7, <1>8
  <2>2. Full(E, k) => Full(new, k)
    <3> SUFFICES ASSUME NEW b \in E \cup {0}, k = b + MAXLINE - 1, E \cap ((b + 1)..(k - 1)) = {}
                 PROVE  Full(new, k)
      BY DEF Full
    <3>1. e \notin (b + 1)..(k - 1)
      BY <1>5, <1>7, <1>8
    <3> QED BY <3>1 DEF Full
  <2>3. Full(new, k) => Full(E, k)
    <3> SUFFICES ASSUME NEW b \in new \cup {0}, k = b + MAXLINE - 1, new \cap ((b + 1)..(k - 1)) = {}
                 PROVE  Full(E, k)
      BY DEF Full
    <3>1. b # e
      BY <1>1, <1>7, <1>8
    <3> QED BY <3>1 DEF Full
  <2> QED BY <2>1, <2>2, <2>3, <1>5
<1>9. ASSUME NEW k \in (h + 1)..(e - 1) PROVE k \notin new /\ t[k] # "n" /\ ~Full(new, k)
  <2>1. k - h \in 1..(m - 1) /\ k - h \in 1..m /\ h + (k - h) = k
    BY <1>1, <1>9
  <2>2. t[k] # "n"
    BY <2>1, <1>3, <1>6
  <2>3. k \notin new
    BY <1>5, <1>7, <1>9
  <2>4. ASSUME NEW b \in new \cup {0}, k = b + MAXLINE - 1 PROVE new \cap ((b + 1)..(k - 1)) # {}
    <3>1. b \in Nat /\ b < h
      BY <1>1, <1>7, <1>9, <2>4
    <3>2. h \in (b + 1)..(k - 1) /\ h \in new
      BY <3>1, <1>5, <1>9
    <3> QED BY <3>2
  <2> QED BY <2>2, <2>3, <2>4 DEF Full
<1>10. t[e] = "n" \/ Full(new, e)
  <2>1. t[e] = c[m]
    BY <1>1, <1>6
  <2>2. CASE m = MAXLINE - 1
    <3>1. h \in new \cup {0} /\ e = h + MAXLINE - 1
      BY <1>5, <1>1, <2>2
    <3>2. new \cap ((h + 1)..(e - 1)) = {}
      BY <1>9
    <3> QED BY <3>1, <3>2 DEF Full
  <2> QED BY <2>1, <2>2, <1>4
<1>11. ASSUME NEW k \in 1..e PROVE k \in new <=> t[k] = "n" \/ Full(new, k)
  <2>1. k \in 1..h \/ k \in (h + 1)..(e - 1) \/ k = e
    BY <1>7, <1>11
  <2> QED BY <2>1, <1>7, <1>8, <1>9, <1>10
<1>12. Cuts(t, e, new)
  <2> HIDE DEF e, new
  <2> QED BY <1>7, <1>11 DEF Cuts
<1> QED BY <1>12 DEF m

LEMMA EvalKeepsInput == InputInv /\ eval => InputInv'
<1> SUFFICES ASSUME InputInv, eval PROVE InputInv'
  OBVIOUS
<1>1. /\ TypeOK /\ typed \in Seq(Letter) /\ stdin \in Seq(Letter) /\ cmdline \in Seq(Letter)
      /\ meant \in Seq(Typable) /\ ran \in Seq(ToSet(ran))
      /\ had \in Seq(Letter) /\ Cuts(typed, Len(had), ends)
      /\ typed = (had \o cmdline) \o stdin /\ Piece(cmdline)
  BY DEF InputInv, eval
<1>2. /\ shell' = shell /\ meant' = meant /\ typed' = typed /\ stdin' = stdin /\ cmdline' = cmdline
      /\ at' \in {"down", "fgets"}
      /\ had' = had \o cmdline /\ ends' = ends \cup {Len(had) + Len(cmdline)}
  BY DEF eval, script
<1>3. PICK c : /\ c.words # <<>> => c.bg \in BOOLEAN
               /\ ran' = ran \/ (ran' = Append(ran, c) /\ c.words # <<>>)
  <2>1. parseline(cmdline).bg \in BOOLEAN
    BY DEF parseline
  <2> QED BY <2>1 DEF eval
<1> DEFINE S == ToSet(ran) \cup {c}
           new == Append(ran, c)
<1>4. ran \in Seq(S) /\ c \in S
  <2>1. ToSet(ran) \subseteq S
    OBVIOUS
  <2> QED BY <2>1, <1>1, SeqMonotonic
<1>5. /\ new \in Seq(S) /\ Len(new) = Len(ran) + 1
      /\ \A i \in 1..Len(ran) : new[i] = ran[i]
      /\ new[Len(ran) + 1] = c
  <2> HIDE DEF S
  <2> QED BY <1>4, AppendProperties
<1> HIDE DEF new, S
<1>6. new \in Seq(ToSet(new))
  BY <1>5 DEF ToSet
<1>7. ASSUME c.words # <<>>, NEW k \in DOMAIN new PROVE new[k].words # <<>> /\ new[k].bg \in BOOLEAN
  <2>1. k \in 1..(Len(ran) + 1) /\ Len(ran) \in Nat
    BY <1>1, <1>5
  <2>2. CASE k \in 1..Len(ran)
    BY <1>1, <1>5, <2>2 DEF TypeOK
  <2>3. CASE k = Len(ran) + 1
    BY <1>3, <1>5, <1>7, <2>3
  <2> QED BY <2>1, <2>2, <2>3
<1>8. ran' \in Seq(ToSet(ran')) /\ \A k \in DOMAIN ran' : ran'[k].words # <<>> /\ ran'[k].bg \in BOOLEAN
  <2>1. CASE ran' = ran
    BY <1>1, <2>1 DEF TypeOK
  <2>2. CASE ran' = new /\ c.words # <<>>
    BY <1>6, <1>7, <2>2
  <2> QED BY <2>1, <2>2, <1>3 DEF new
<1>9. TypeOK'
  BY <1>1, <1>2, <1>8 DEF TypeOK
<1>10. (ran \in Seq(ToSet(ran)))'
  BY <1>8 DEF ToSet
<1>11. had' \in Seq(Letter) /\ Len(had') = Len(had) + Len(cmdline) /\ typed' = had' \o stdin'
  BY <1>1, <1>2, ConcatProperties
<1>12. \A i \in 1..Len(cmdline) : typed[Len(had) + i] = cmdline[i]
  <2> DEFINE h == Len(had)
             m == Len(cmdline)
             both == had \o cmdline
  <2>1. both \in Seq(Letter) /\ Len(both) = h + m /\ h \in Nat /\ m \in Nat
    BY <1>1, ConcatProperties
  <2>2. ASSUME NEW i \in 1..m PROVE typed[h + i] = cmdline[i]
    <3>1. h + i \in 1..(h + m) /\ h + i \in (h + 1)..(h + m) /\ (h + i) - h = i
      BY <2>1
    <3>2. both[h + i] = cmdline[i]
      BY <1>1, <3>1, ConcatProperties
    <3>3. typed[h + i] = both[h + i]
      <4> HIDE DEF both
      <4> QED BY <1>1, <2>1, <3>1, ConcatProperties DEF both
    <3> QED BY <3>2, <3>3
  <2> QED BY <2>2
<1>13. Cuts(typed, Len(had), ends)'
  <2>1. Len(had) \in Nat /\ cmdline # <<>> /\ Len(cmdline) < MAXLINE
    BY <1>1 DEF TypeOK, eval
  <2>2. Cuts(typed, Len(had) + Len(cmdline), ends \cup {Len(had) + Len(cmdline)})
    BY <1>1, <1>12, <2>1, PieceCuts
  <2>3. Cuts(typed', Len(had'), ends')
    BY <2>2, <1>2, <1>11
  <2> QED BY <2>3 DEF Cuts, Full
<1> QED BY <1>1, <1>2, <1>9, <1>10, <1>11, <1>13 DEF InputInv

LEMMA NextKeepsInput == InputInv /\ [Next]_vars => InputInv'
<1> SUFFICES ASSUME InputInv, [Next]_vars PROVE InputInv'
  OBVIOUS
<1>1. ASSUME UNCHANGED <<script, stdin, cmdline, ran, history>>, at' = at \/ (at # "eval" /\ at' \in {"fgets", "down"})
      PROVE  InputInv'
  BY <1>1 DEF InputInv, TypeOK, ToSet, Piece, Cuts, Full, script, history
<1>2. CASE Options
  BY <1>1, <1>2 DEF Options
<1>3. CASE app_error
  BY <1>1, <1>3 DEF app_error
<1>4. CASE UNCHANGED vars
  BY <1>1, <1>4 DEF vars
<1> QED BY <1>2, <1>3, <1>4, FgetsKeepsInput, EvalKeepsInput DEF Next

LEMMA InputGivesPieces == InputInv => PiecesAreTheInput
<1> SUFFICES ASSUME InputInv PROVE PiecesAreTheInput
  OBVIOUS
<1>1. /\ TypeOK /\ had \in Seq(Letter) /\ Cuts(typed, Len(had), ends)
      /\ at # "eval" => typed = had \o stdin
      /\ at = "eval" => typed = (had \o cmdline) \o stdin
  BY DEF InputInv
<1>2. typed = had \o (IF at = "eval" THEN cmdline ELSE <<>>) \o stdin
  <2>1. had \o <<>> = had
    BY <1>1, ConcatEmptySeq
  <2> QED BY <2>1, <1>1
<1>3. \A k \in DOMAIN had :
        k \in ends <=> typed[k] = "n" \/ Full(ends, k)
  BY <1>1 DEF Cuts
<1> QED BY <1>1, <1>2, <1>3 DEF PiecesAreTheInput, Full

\* What eval was given, what it is about to be given and what is not read yet
\* are what was typed, for any buffer and any text: nothing is skipped, read
\* twice or moved, and the pieces end at the newlines and where the buffer is
\* full and nowhere else.
THEOREM PiecesAreTyped == Spec => []PiecesAreTheInput
<1>1. Init => InputInv
  BY InitGivesInput
<1>2. InputInv /\ [Next]_vars => InputInv'
  BY NextKeepsInput
<1>3. InputInv => PiecesAreTheInput
  BY InputGivesPieces
<1> QED BY <1>1, <1>2, <1>3, PTL DEF Spec

-----------------------------------------------------------------------------
(* What parseline makes of a piece.                                         *)

\* A piece as parseline scans it: its last character is a blank.
Text(text) == text \in Seq(Letter) /\ text # <<>> /\ text[Len(text)] = Blank

LEMMA StrchrFinds ==
  ASSUME NEW text \in Seq(Letter), NEW i \in 1..(Len(text) + 2), NEW c,
         NEW d, d = strchr(text, i, c)
  PROVE  /\ d = 0 \/ (d \in i..Len(text) /\ text[d] = c /\ \A k \in i..(d - 1) : text[k] # c)
         /\ d = 0 => \A k \in i..Len(text) : text[k] # c
<1> DEFINE found == {k \in i..Len(text) : text[k] = c}
<1>1. Len(text) \in Nat /\ i \in Nat /\ i > 0
  OBVIOUS
<1>2. found \in SUBSET Nat
  BY <1>1
<1>3. CASE found = {}
  BY <1>1, <1>3 DEF strchr
<1>4. CASE found # {}
  <2>1. strchr(text, i, c) = Least(found)
    BY <1>4 DEF strchr
  <2>2. d \in found /\ \A y \in found : d <= y
    <3> HIDE DEF found
    <3> QED BY <1>2, <1>4, <2>1, LeastIsFirst
  <2>3. d \in i..Len(text) /\ text[d] = c
    BY <2>2
  <2>4. ASSUME NEW k \in i..(d - 1) PROVE text[k] # c
    <3>1. k \in i..Len(text) /\ k < d /\ k \in Nat /\ d \in Nat
      BY <1>1, <2>3
    <3>2. k \notin found
      <4> HIDE DEF found
      <4> QED BY <2>2, <3>1
    <3> QED BY <3>1, <3>2
  <2>5. d # 0
    BY <2>3, <1>1
  <2> QED BY <2>3, <2>4, <2>5
<1> QED BY <1>3, <1>4

\* The loops over blanks stop at the next character that is none, or behind
\* the text.
LEMMA SkipStops ==
  ASSUME NEW text \in Seq(Letter), NEW i \in 1..(Len(text) + 1),
         NEW b, b = skip(text, i)
  PROVE  /\ b \in i..(Len(text) + 1)
         /\ \A k \in i..(b - 1) : text[k] = Blank
         /\ b <= Len(text) => text[b] # Blank
<1> DEFINE S == {k \in i..Len(text) : text[k] # Blank} \cup {Len(text) + 1}
<1>1. Len(text) \in Nat /\ i \in Nat /\ S \in SUBSET Nat /\ S # {}
  OBVIOUS
<1>2. b \in S /\ \A y \in S : b <= y
  <2>1. b = Least(S)
    BY DEF skip
  <2> HIDE DEF S
  <2> QED BY <1>1, <2>1, LeastIsFirst
<1>3. b \in i..(Len(text) + 1) /\ (b <= Len(text) => text[b] # Blank)
  BY <1>1, <1>2
<1>4. ASSUME NEW k \in i..(b - 1) PROVE text[k] = Blank
  <2>1. k \in i..Len(text) /\ k < b /\ k \in Nat /\ b \in Nat
    BY <1>1, <1>3
  <2>2. k \notin S
    <3> HIDE DEF S
    <3> QED BY <1>2, <2>1
  <2> QED BY <2>1, <2>2
<1> QED BY <1>3, <1>4

\* Where the next word is: a delimiter that is found lies behind the place
\* the search began at.
LEMMA NextWordBehind ==
  ASSUME NEW text, Text(text), NEW i \in 1..(Len(text) + 1),
         NEW next, next = next_word(text, i)
  PROVE  /\ next[1] \in 1..(Len(text) + 2) /\ next[2] \in 0..Len(text) /\ i <= next[1]
         /\ next[2] # 0 => next[1] <= next[2] /\ i <= next[2]
<1>1. text \in Seq(Letter) /\ Len(text) \in Nat /\ i \in Nat /\ i > 0 /\ i <= Len(text) + 1
  BY DEF Text
<1> DEFINE b == skip(text, i)
<1>2. b \in i..(Len(text) + 1)
  BY <1>1, SkipStops
<1> HIDE DEF b
<1>3. ASSUME NEW w, w \in 1..(Len(text) + 2), w >= i, NEW c, next = <<w, strchr(text, w, c)>>
      PROVE  /\ next[1] \in 1..(Len(text) + 2) /\ next[2] \in 0..Len(text) /\ i <= next[1]
             /\ next[2] # 0 => next[1] <= next[2] /\ i <= next[2]
  <2> DEFINE d == strchr(text, w, c)
  <2>1. d = 0 \/ d \in w..Len(text)
    BY <1>1, <1>3, StrchrFinds
  <2>2. next[1] = w /\ next[2] = d
    BY <1>3
  <2> HIDE DEF d
  <2> QED BY <1>1, <1>3, <2>1, <2>2
<1>4. b + 1 \in 1..(Len(text) + 2) /\ b \in 1..(Len(text) + 2) /\ b + 1 >= i /\ b >= i
  BY <1>1, <1>2
<1>5. \/ next = <<b, strchr(text, b, Blank)>>
      \/ next = <<b + 1, strchr(text, b + 1, "'")>>
  BY DEF next_word, quoted, plain, b
<1> QED BY <1>3, <1>4, <1>5

\* The function of words, by name: the words from each place on.
From(text) == CHOOSE f : f = [i \in 1..(Len(text) + 1) |->
    IF next_word(text, i)[2] = 0 THEN <<>>
    ELSE <<SubSeq(text, next_word(text, i)[1], next_word(text, i)[2] - 1)>>
           \o f[next_word(text, i)[2] + 1]]

LEMMA WordsAreFrom == \A text : words(text) = From(text)[1]
  BY DEF words, From

WordList == Seq(Seq(Letter))

\* The word that lies before a delimiter.
LEMMA WordTyped ==
  ASSUME NEW text, Text(text), NEW i \in 1..(Len(text) + 1),
         NEW next, next = next_word(text, i), next[2] # 0
  PROVE  LET w == SubSeq(text, next[1], next[2] - 1) IN
         /\ w \in Seq(Letter) /\ Len(w) = next[2] - next[1]
         /\ \A k \in 1..Len(w) : w[k] = text[next[1] + k - 1]
         /\ <<w>> \in WordList /\ Len(<<w>>) = 1 /\ <<w>>[1] = w
<1> DEFINE b == next[1]
           d == next[2]
           w == SubSeq(text, b, d - 1)
<1>1. /\ b \in 1..(Len(text) + 2) /\ d \in 0..Len(text) /\ b <= d
      /\ text \in Seq(Letter) /\ Len(text) \in Nat
  BY NextWordBehind DEF Text
<1> HIDE DEF b, d
<1>2. \A k \in b..(d - 1) : text[k] \in Letter
  BY <1>1
<1>3. /\ w \in Seq(Letter)
      /\ Len(w) = IF b <= d - 1 THEN d - 1 - b + 1 ELSE 0
      /\ \A k \in 1..(d - 1 - b + 1) : w[k] = text[b + k - 1]
  BY <1>1, <1>2, SubSeqProperties
<1> HIDE DEF w
<1>4. Len(w) = d - b /\ \A k \in 1..Len(w) : w[k] = text[b + k - 1]
  BY <1>1, <1>3
<1>5. <<w>> \in Seq(Seq(Letter)) /\ Len(<<w>>) = 1 /\ <<w>>[1] = w
  BY <1>3
<1> QED BY <1>3, <1>4, <1>5 DEF w, b, d, WordList

\* It exists: the words from a place on depend on those from later places
\* only.
LEMMA FromDefined ==
  ASSUME NEW text, Text(text)
  PROVE  /\ \A i \in 1..(Len(text) + 1) : From(text)[i] =
               IF next_word(text, i)[2] = 0 THEN <<>>
               ELSE <<SubSeq(text, next_word(text, i)[1], next_word(text, i)[2] - 1)>>
                      \o From(text)[next_word(text, i)[2] + 1]
         /\ \A i \in 1..(Len(text) + 1) : From(text)[i] \in WordList
<1> DEFINE N == Len(text)
           Rest(f, i) ==
             IF next_word(text, i)[2] = 0 THEN <<>>
             ELSE <<SubSeq(text, next_word(text, i)[1], next_word(text, i)[2] - 1)>>
                    \o f[next_word(text, i)[2] + 1]
           Place(m) == (N + 2 - m)..(N + 1)
           Is(f, m) == f = [i \in Place(m) |-> Rest(f, i)]
           Bad == {m \in 0..(N + 1) : ~ \E f : Is(f, m)}
<1>1. N \in Nat
  BY DEF Text
<1>2. ASSUME NEW i \in 1..(N + 1), next_word(text, i)[2] # 0
      PROVE  next_word(text, i)[2] + 1 \in (i + 1)..(N + 1)
  <2> DEFINE d == next_word(text, i)[2]
  <2>1. d \in 0..N /\ i <= d
    BY <1>2, NextWordBehind
  <2> HIDE DEF d
  <2>2. d + 1 \in (i + 1)..(N + 1)
    BY <2>1, <1>1
  <2> QED BY <2>2 DEF d
<1>3. ASSUME NEW m \in 0..(N + 1), m = 0 \/ \E f : Is(f, m - 1)
      PROVE  \E f : Is(f, m)
  <2>1. CASE m = 0
    <3> DEFINE f == [i \in Place(0) |-> <<>>]
    <3>1. Place(0) = {}
      BY <1>1
    <3>2. Is(f, 0)
      <4> DEFINE h == [i \in Place(0) |-> Rest(f, i)]
      <4>1. f = h
        <5> HIDE DEF Rest
        <5> QED BY <3>1
      <4> QED BY <4>1
    <3> QED BY <2>1, <3>2
  <2>2. CASE m # 0
    <3>1. PICK g : Is(g, m - 1)
      BY <1>3, <2>2
    <3> DEFINE i0 == N + 2 - m
               f == [i \in Place(m) |-> IF i = i0 THEN Rest(g, i0) ELSE g[i]]
    <3>2. /\ i0 \in 1..(N + 1) /\ Place(m - 1) = (i0 + 1)..(N + 1) /\ Place(m) = i0..(N + 1)
      BY <1>1, <2>2
    <3> HIDE DEF i0
    <3>3. ASSUME NEW i \in i0..(N + 1) PROVE Rest(f, i) = Rest(g, i)
      <4>1. CASE next_word(text, i)[2] = 0
        BY <4>1
      <4>2. CASE next_word(text, i)[2] # 0
        <5> DEFINE e == next_word(text, i)[2] + 1
        <5>1. i \in 1..(N + 1)
          BY <1>1, <3>2
        <5>2. e \in (i + 1)..(N + 1)
          BY <4>2, <5>1, <1>2
        <5>3. e \in i0..(N + 1) /\ e # i0
          <6> HIDE DEF e
          <6> QED BY <5>1, <5>2, <3>2, <1>1
        <5>4. f[e] = g[e]
          <6> HIDE DEF e, Rest, Is
          <6> QED BY <5>3, <3>2
        <5> HIDE DEF f, Place, Is
        <5> QED BY <5>4, <4>2
      <4> QED BY <4>1, <4>2
    <3>4. ASSUME NEW i \in i0..(N + 1) PROVE f[i] = Rest(f, i)
      <4>1. i \in Place(m)
        BY <3>2
      <4>2. CASE i = i0
        <5>1. f[i] = Rest(g, i)
          <6> HIDE DEF Rest, Place, Is
          <6> QED BY <4>1, <4>2
        <5> HIDE DEF Rest, f
        <5> QED BY <5>1, <3>3
      <4>3. CASE i # i0
        <5>1. f[i] = g[i]
          <6> HIDE DEF Rest, Place, Is
          <6> QED BY <4>1, <4>3
        <5>2. i \in Place(m - 1)
          BY <3>2, <4>3, <1>1
        <5>3. g[i] = Rest(g, i)
          <6> HIDE DEF Rest, Place
          <6> QED BY <5>2, <3>1
        <5> HIDE DEF Rest, f, Is
        <5> QED BY <5>1, <5>3, <3>3
      <4> QED BY <4>2, <4>3
    <3>5. Is(f, m)
      <4> DEFINE h == [i \in Place(m) |-> Rest(f, i)]
      <4>1. f = [i \in Place(m) |-> f[i]]
        OBVIOUS
      <4>2. \A i \in Place(m) : f[i] = Rest(f, i)
        <5> HIDE DEF Rest, f, Is
        <5> QED BY <3>2, <3>4
      <4> HIDE DEF Rest, f, Place
      <4> QED BY <4>1, <4>2
    <3> HIDE DEF f
    <3> QED BY <3>5
  <2> QED BY <2>1, <2>2
<1>4. \E f : Is(f, N + 1)
  <2> HIDE DEF Is
  <2> SUFFICES ASSUME ~ \E f : Is(f, N + 1) PROVE FALSE
    OBVIOUS
  <2>1. Bad \in SUBSET Nat /\ N + 1 \in Bad
    BY <1>1
  <2>2. PICK m \in Bad : \A y \in Bad : m <= y
    <3> HIDE DEF Bad
    <3> QED BY <2>1, LeastIsFirst
  <2>3. m \in 0..(N + 1) /\ m \in Nat /\ ~ \E f : Is(f, m)
    BY <2>2, <1>1
  <2>4. m # 0 => m - 1 \in 0..(N + 1) /\ m - 1 \notin Bad
    <3> HIDE DEF Bad
    <3> QED BY <2>2, <2>3, <1>1
  <2>5. m # 0 => \E f : Is(f, m - 1)
    BY <2>4
  <2> QED BY <2>3, <2>5, <1>3
<1> DEFINE F == From(text)
<1>5. Is(F, N + 1)
  <2> DEFINE R(f) == f = [i \in 1..(Len(text) + 1) |->
               IF next_word(text, i)[2] = 0 THEN <<>>
               ELSE <<SubSeq(text, next_word(text, i)[1], next_word(text, i)[2] - 1)>>
                      \o f[next_word(text, i)[2] + 1]]
  <2>1. Place(N + 1) = 1..(Len(text) + 1)
    BY <1>1
  <2>2. ASSUME NEW f PROVE Is(f, N + 1) <=> R(f)
    BY <2>1
  <2>3. F = CHOOSE f : R(f)
    BY DEF From
  <2> HIDE DEF R, Is, F
  <2> QED BY <1>4, <2>2, <2>3
<1> HIDE DEF F
<1>6. \A i \in 1..(N + 1) : F[i] = Rest(F, i)
  <2>1. Place(N + 1) = 1..(N + 1)
    BY <1>1
  <2> HIDE DEF Rest, Place
  <2> QED BY <1>5, <2>1
<1> DEFINE Odd == {m \in 0..N : F[N + 1 - m] \notin WordList}
<1>7. Odd = {}
  <2> SUFFICES ASSUME Odd # {} PROVE FALSE
    OBVIOUS
  <2>1. Odd \in SUBSET Nat
    BY <1>1
  <2>2. PICK m \in Odd : \A y \in Odd : m <= y
    <3> HIDE DEF Odd
    <3> QED BY <2>1, LeastIsFirst
  <2> DEFINE i == N + 1 - m
             d == next_word(text, i)[2]
             w == SubSeq(text, next_word(text, i)[1], d - 1)
  <2>3. m \in 0..N /\ m \in Nat /\ i \in 1..(N + 1) /\ F[i] \notin WordList
    BY <2>2, <1>1
  <2> HIDE DEF i
  <2>4. F[i] = IF d = 0 THEN <<>> ELSE <<w>> \o F[d + 1]
    BY <1>6, <2>3
  <2>5. CASE d = 0
    BY <2>3, <2>4, <2>5 DEF WordList
  <2>6. CASE d # 0
    <3>1. d + 1 \in (i + 1)..(N + 1)
      BY <2>3, <2>6, <1>2
    <3>2. <<w>> \in WordList /\ d \in 0..N
      BY <2>3, <2>6, WordTyped, NextWordBehind
    <3> HIDE DEF d, w
    <3> DEFINE n == N - d
    <3>3. n \in 0..N /\ n < m /\ N + 1 - n = d + 1 /\ d \in Int
      <4>1. d + 1 >= N + 2 - m /\ d \in Int /\ d >= 0 /\ d <= N
        <5> HIDE DEF N, Odd
        <5> QED BY <3>1, <3>2, <2>3, <1>1 DEF i
      <4> HIDE DEF N, Odd
      <4> QED BY <4>1, <2>3, <1>1
    <3> HIDE DEF n
    <3>4. F[N + 1 - n] \in WordList
      <4>1. n \notin Odd
        <5> HIDE DEF Odd
        <5> QED BY <2>2, <2>3, <3>3, <1>1
      <4> QED BY <4>1, <3>3
    <3>5. <<w>> \o F[d + 1] \in WordList
      BY <3>2, <3>3, <3>4, ConcatProperties DEF WordList
    <3> QED BY <3>5, <2>3, <2>4, <2>6
  <2> QED BY <2>5, <2>6
<1>8. ASSUME NEW i \in 1..(N + 1) PROVE F[i] \in WordList
  <2> DEFINE m == N + 1 - i
  <2>1. m \in 0..N /\ N + 1 - m = i
    BY <1>1
  <2> HIDE DEF m
  <2>2. F[N + 1 - m] \in WordList
    BY <1>7, <2>1
  <2> QED BY <2>1, <2>2
<1> HIDE DEF Is, Odd
<1> QED BY <1>6, <1>8 DEF F

-----------------------------------------------------------------------------
(* Words without quotes.                                                    *)

\* Quotes mean nothing here: the program does not know them, or the text has
\* none.
Unquoted(text) == shell = "eval" \/ \A k \in DOMAIN text : text[k] # "'"

\* The next word begins at the next character that is no blank and ends
\* before the next blank; there is none if there are only blanks left.
LEMMA PlainWord ==
  ASSUME NEW text, Text(text), Unquoted(text), NEW i \in 1..(Len(text) + 1)
  PROVE  LET b == next_word(text, i)[1]
             d == next_word(text, i)[2] IN
         /\ b \in i..(Len(text) + 1)
         /\ \A k \in i..(b - 1) : text[k] = Blank
         /\ b <= Len(text) => /\ d \in (b + 1)..Len(text) /\ text[d] = Blank
                              /\ \A k \in b..(d - 1) : text[k] # Blank
         /\ b = Len(text) + 1 => d = 0
<1> DEFINE b == skip(text, i)
           d == strchr(text, b, Blank)
           N == Len(text)
<1>1. text \in Seq(Letter) /\ N \in Nat /\ N > 0 /\ text[N] = Blank
  BY DEF Text
<1>2. /\ b \in i..(N + 1)
      /\ \A k \in i..(b - 1) : text[k] = Blank
      /\ b <= N => text[b] # Blank
  BY <1>1, SkipStops
<1>3. next_word(text, i) = <<b, d>>
  <2> HIDE DEF b
  <2>1. CASE shell = "eval"
    BY <2>1 DEF next_word, plain, b
  <2>2. CASE \A k \in DOMAIN text : text[k] # "'"
    <3>1. ~isQuoted(text, b)
      BY <1>1, <1>2, <2>2 DEF isQuoted
    <3> QED BY <3>1 DEF next_word, plain, quoted, b
  <2> QED BY <2>1, <2>2 DEF Unquoted
<1> HIDE DEF b
<1>4. b \in 1..(N + 2)
  BY <1>1, <1>2
<1>5. /\ d = 0 \/ (d \in b..N /\ text[d] = Blank /\ \A k \in b..(d - 1) : text[k] # Blank)
      /\ d = 0 => \A k \in b..N : text[k] # Blank
  BY <1>1, <1>4, StrchrFinds
<1> HIDE DEF d
<1>6. CASE b <= N
  <2>1. N \in b..N
    BY <1>1, <1>2, <1>6
  <2>2. d # 0 /\ d # b
    BY <1>1, <1>2, <1>5, <1>6, <2>1
  <2>3. d \in (b + 1)..N
    BY <1>1, <1>2, <1>5, <1>6, <2>2
  <2> QED BY <1>1, <1>2, <1>3, <1>5, <1>6, <2>2, <2>3
<1>7. CASE b = N + 1
  <2>1. d = 0
    BY <1>1, <1>5, <1>7
  <2> QED BY <1>1, <1>2, <1>3, <1>7, <2>1
<1> QED BY <1>1, <1>2, <1>6, <1>7

\* Where words begin: at what is no blank, behind a blank or at the start.
Begins(text) == {k \in DOMAIN text : text[k] # Blank /\ (k = 1 \/ text[k - 1] = Blank)}
BeginsFrom(text, i) == {k \in Begins(text) : i <= k}
UpToHere(text, i, b) == {c \in BeginsFrom(text, i) : c <= b}

\* What WordsAreMeant says of a line, said of what is left of it from i on.
WordsFrom(text, i) ==
    /\ Cardinality(BeginsFrom(text, i)) = Len(From(text)[i])
    /\ \A b \in BeginsFrom(text, i) : LET k == Cardinality(UpToHere(text, i, b)) IN
         /\ k \in 1..Len(From(text)[i])
         /\ Len(From(text)[i][k]) > 0
         /\ From(text)[i][k] = SubSeq(text, b, b + Len(From(text)[i][k]) - 1)
         /\ text[b + Len(From(text)[i][k])] = Blank

LEMMA BeginsFinite ==
  ASSUME NEW text, Text(text), NEW i, NEW b
  PROVE  /\ IsFiniteSet(BeginsFrom(text, i)) /\ IsFiniteSet(UpToHere(text, i, b))
         /\ Cardinality(BeginsFrom(text, i)) \in Nat /\ Cardinality(UpToHere(text, i, b)) \in Nat
<1>1. Begins(text) \subseteq 1..Len(text) /\ IsFiniteSet(1..Len(text))
  <2>1. DOMAIN text = 1..Len(text) /\ Len(text) \in Int
    BY DEF Text
  <2>2. IsFiniteSet(1..Len(text))
    BY <2>1, FS_Interval
  <2> QED BY <2>1, <2>2 DEF Begins
<1>2. BeginsFrom(text, i) \subseteq 1..Len(text) /\ UpToHere(text, i, b) \subseteq 1..Len(text)
  BY <1>1 DEF BeginsFrom, UpToHere
<1>3. IsFiniteSet(BeginsFrom(text, i)) /\ IsFiniteSet(UpToHere(text, i, b))
  BY <1>1, <1>2, FS_Subset
<1> QED BY <1>3, FS_CardinalityType

LEMMA WordsFromNext ==
  ASSUME NEW text, Text(text), Unquoted(text), NEW i \in 1..(Len(text) + 1),
         i = 1 \/ text[i - 1] = Blank,
         next_word(text, i)[2] = 0 \/ WordsFrom(text, next_word(text, i)[2] + 1)
  PROVE  WordsFrom(text, i)
<1> DEFINE N == Len(text)
           b == next_word(text, i)[1]
           d == next_word(text, i)[2]
           F == From(text)
           B == BeginsFrom(text, i)
<1>1. text \in Seq(Letter) /\ N \in Nat /\ N > 0 /\ DOMAIN text = 1..N /\ i \in Nat
  BY DEF Text
<1>2. /\ b \in i..(N + 1)
      /\ \A k \in i..(b - 1) : text[k] = Blank
      /\ b <= N => /\ d \in (b + 1)..N /\ text[d] = Blank
                   /\ \A k \in b..(d - 1) : text[k] # Blank
      /\ b = N + 1 => d = 0
  BY PlainWord
<1>3. F[i] = IF d = 0 THEN <<>> ELSE <<SubSeq(text, b, d - 1)>> \o F[d + 1]
  BY FromDefined
<1>4. d # 0 => LET w == SubSeq(text, b, d - 1) IN
        /\ w \in Seq(Letter) /\ Len(w) = d - b
        /\ <<w>> \in WordList /\ Len(<<w>>) = 1 /\ <<w>>[1] = w
  BY WordTyped
<1>5. d # 0 => WordsFrom(text, d + 1)
  OBVIOUS
<1> HIDE DEF b, d, F, B
<1>6. CASE b = N + 1
  <2>1. ASSUME NEW k \in B PROVE FALSE
    <3>1. k \in 1..N /\ text[k] # Blank /\ i <= k
      BY <1>1 DEF B, BeginsFrom, Begins
    <3>2. k \in i..(b - 1)
      BY <1>1, <1>6, <3>1
    <3> QED BY <1>2, <3>1, <3>2
  <2>2. B = {} /\ F[i] = <<>>
    BY <2>1, <1>2, <1>3, <1>6
  <2>3. Cardinality(B) = 0 /\ Len(F[i]) = 0
    BY <2>2, FS_EmptySet
  <2> QED BY <2>2, <2>3 DEF WordsFrom, B, F
<1>7. CASE b <= N
  <2> DEFINE w == SubSeq(text, b, d - 1)
             e == d + 1
             C == BeginsFrom(text, e)
  <2>1. /\ d \in (b + 1)..N /\ text[d] = Blank /\ d # 0
        /\ \A k \in b..(d - 1) : text[k] # Blank
        /\ b \in Nat /\ d \in Nat /\ b >= i /\ b >= 1 /\ e \in 1..(N + 1)
    BY <1>1, <1>2, <1>7
  <2>2. F[i] = <<w>> \o F[e]
    BY <1>3, <2>1
  <2>3. /\ w \in Seq(Letter) /\ Len(w) = d - b /\ Len(w) > 0
        /\ <<w>> \in WordList /\ Len(<<w>>) = 1 /\ <<w>>[1] = w
    BY <1>4, <2>1
  <2>4. F[e] \in WordList
    BY <2>1, FromDefined DEF F
  <2>5. WordsFrom(text, e)
    BY <1>5, <2>1
  <2> HIDE DEF w, e
  <2>6. /\ F[i] \in WordList /\ Len(F[i]) = 1 + Len(F[e]) /\ F[i][1] = w
        /\ Len(F[e]) \in Nat
        /\ \A k \in 1..Len(F[e]) : F[i][k + 1] = F[e][k]
    <3> DEFINE v == <<w>>
               r == F[e]
    <3>1. v \in WordList /\ Len(v) = 1 /\ v[1] = w /\ r \in WordList /\ Len(r) \in Nat
      BY <2>3, <2>4 DEF WordList
    <3> HIDE DEF v, r
    <3>2. /\ v \o r \in WordList /\ Len(v \o r) = Len(v) + Len(r)
          /\ \A k \in 1..(Len(v) + Len(r)) : (v \o r)[k] = IF k <= Len(v) THEN v[k] ELSE r[k - Len(v)]
      BY <3>1, ConcatProperties DEF WordList
    <3> DEFINE vr == v \o r
    <3> HIDE DEF vr
    <3>3. /\ vr \in WordList /\ Len(vr) = 1 + Len(r)
          /\ \A k \in 1..(1 + Len(r)) : vr[k] = IF k <= 1 THEN v[k] ELSE r[k - 1]
      BY <3>1, <3>2 DEF vr
    <3>4. vr[1] = w /\ \A k \in 1..Len(r) : vr[k + 1] = r[k]
      BY <3>1, <3>3
    <3>5. F[i] = vr
      BY <2>2 DEF vr, v, r
    <3> QED BY <3>1, <3>3, <3>4, <3>5 DEF r
  <2>7. b \in B
    <3>1. b = 1 \/ text[b - 1] = Blank
      <4>1. CASE b = i
        BY <4>1
      <4>2. CASE b # i
        <5>1. b - 1 \in i..(b - 1)
          BY <1>1, <2>1, <4>2
        <5> QED BY <5>1, <1>2
      <4> QED BY <4>1, <4>2
    <3>2. b \in b..(d - 1) /\ b \in 1..N
      BY <1>1, <1>7, <2>1
    <3> QED BY <1>1, <2>1, <3>1, <3>2 DEF B, BeginsFrom, Begins
  <2>8. ASSUME NEW k \in B, k # b PROVE k \in C
    <3>1. k \in 1..N /\ text[k] # Blank /\ i <= k /\ (k = 1 \/ text[k - 1] = Blank)
      BY <1>1 DEF B, BeginsFrom, Begins
    <3>2. k > b
      <4> SUFFICES ASSUME k < b PROVE FALSE
        BY <2>1, <2>8, <3>1
      <4>1. k \in i..(b - 1)
        BY <1>1, <2>1, <3>1
      <4> QED BY <4>1, <1>2, <3>1
    <3>3. k >= d
      <4> SUFFICES ASSUME k < d PROVE FALSE
        BY <2>1, <3>1
      <4>1. k - 1 \in b..(d - 1) /\ k # 1
        BY <1>1, <2>1, <3>1, <3>2
      <4> QED BY <4>1, <2>1, <3>1
    <3>4. k # d
      BY <2>1, <3>1
    <3>5. e <= k
      BY <2>1, <3>1, <3>3, <3>4 DEF e
    <3> QED BY <1>1, <3>1, <3>5 DEF BeginsFrom, Begins
  <2>9. C \subseteq B /\ b \notin C /\ \A c \in C : b < c /\ c \in Nat
    <3>1. ASSUME NEW c \in C PROVE c \in B /\ b < c /\ c \in Nat
      <4>1. c \in Begins(text) /\ c \in Nat /\ e <= c
        BY <1>1 DEF BeginsFrom, Begins
      <4>2. b < c /\ i <= c
        BY <1>1, <2>1, <4>1 DEF e
      <4> QED BY <4>1, <4>2 DEF B, BeginsFrom
    <3>2. b \notin C
      BY <3>1, <2>1
    <3> QED BY <3>1, <3>2
  <2>10. B = C \cup {b}
    BY <2>7, <2>8, <2>9
  <2>11. IsFiniteSet(C) /\ Cardinality(C) \in Nat
    BY BeginsFinite
  <2> HIDE DEF C
  <2>12. Cardinality(B) = Len(F[i])
    <3>1. Cardinality(C \cup {b}) = Cardinality(C) + 1
      BY <2>9, <2>11, FS_AddElement
    <3>2. Cardinality(C) = Len(F[e])
      BY <2>5 DEF WordsFrom, C, F
    <3> QED BY <3>1, <3>2, <2>6, <2>10, <2>11
  <2>13. ASSUME NEW x \in B
         PROVE  LET k == Cardinality(UpToHere(text, i, x)) IN
                /\ k \in 1..Len(F[i])
                /\ Len(F[i][k]) > 0
                /\ F[i][k] = SubSeq(text, x, x + Len(F[i][k]) - 1)
                /\ text[x + Len(F[i][k])] = Blank
    <3>1. CASE x = b
      <4>1. UpToHere(text, i, x) = {b}
        <5>1. UpToHere(text, i, x) = {c \in B : c <= b}
          BY <3>1 DEF UpToHere, B
        <5> QED BY <5>1, <2>1, <2>9, <2>10
      <4>2. Cardinality(UpToHere(text, i, x)) = 1
        BY <4>1, FS_Singleton
      <4>3. x + Len(w) = d
        BY <3>1, <2>1, <2>3
      <4>4. F[i][1] = w /\ 1 \in 1..Len(F[i])
        BY <2>6
      <4>5. w = SubSeq(text, x, x + Len(w) - 1)
        <5>1. d - 1 = x + Len(w) - 1
          BY <4>3, <2>1, <2>3, <3>1
        <5>2. w = SubSeq(text, b, d - 1)
          BY DEF w
        <5> QED BY <5>1, <5>2, <3>1
      <4> QED BY <4>2, <4>3, <4>4, <4>5, <2>1, <2>3
    <3>2. CASE x # b
      <4> DEFINE S == UpToHere(text, e, x)
                 k == Cardinality(S)
      <4>1. x \in C
        BY <3>2, <2>10
      <4>2. IsFiniteSet(S) /\ k \in Nat
        BY BeginsFinite
      <4>3. S = {c \in C : c <= x}
        BY DEF UpToHere, C
      <4>4. UpToHere(text, i, x) = S \cup {b}
        <5>1. UpToHere(text, i, x) = {c \in B : c <= x}
          BY DEF UpToHere, B
        <5>2. b <= x
          BY <4>1, <2>1, <2>9
        <5> HIDE DEF S
        <5> QED BY <5>1, <5>2, <4>3, <2>10
      <4>5. b \notin S
        BY <4>3, <2>9
      <4> HIDE DEF S
      <4>6. Cardinality(UpToHere(text, i, x)) = k + 1
        BY <4>2, <4>4, <4>5, FS_AddElement
      <4>7. /\ k \in 1..Len(F[e])
            /\ Len(F[e][k]) > 0
            /\ F[e][k] = SubSeq(text, x, x + Len(F[e][k]) - 1)
            /\ text[x + Len(F[e][k])] = Blank
        BY <4>1, <2>5 DEF WordsFrom, C, F, S
      <4> HIDE DEF k
      <4>8. F[i][k + 1] = F[e][k] /\ k + 1 \in 1..Len(F[i])
        BY <4>2, <4>7, <2>6
      <4> QED BY <4>6, <4>7, <4>8
    <3> QED BY <3>1, <3>2
  <2> QED BY <2>12, <2>13 DEF WordsFrom, B, F
<1>8. b <= N \/ b = N + 1
  BY <1>1, <1>2
<1> QED BY <1>6, <1>7, <1>8

\* From every place behind a blank, and from the start.
LEMMA WordsFromAnywhere ==
  ASSUME NEW text, Text(text), Unquoted(text)
  PROVE  WordsFrom(text, 1)
<1> DEFINE N == Len(text)
           Start(i) == i = 1 \/ text[i - 1] = Blank
           Bad == {m \in 0..N : Start(N + 1 - m) /\ ~WordsFrom(text, N + 1 - m)}
<1>1. N \in Nat
  BY DEF Text
<1>2. Bad = {}
  <2> SUFFICES ASSUME Bad # {} PROVE FALSE
    OBVIOUS
  <2>1. Bad \in SUBSET Nat
    BY <1>1
  <2>2. PICK m \in Bad : \A y \in Bad : m <= y
    <3> HIDE DEF Bad
    <3> QED BY <2>1, LeastIsFirst
  <2> DEFINE i == N + 1 - m
             d == next_word(text, i)[2]
  <2>3. m \in 0..N /\ i \in 1..(N + 1) /\ Start(i) /\ ~WordsFrom(text, i)
    BY <2>2, <1>1
  <2>4. d # 0
    <3> HIDE DEF i
    <3> QED BY <2>3, WordsFromNext
  <2>5. d \in i..N /\ text[d] = Blank
    <3> HIDE DEF i
    <3>1. LET b == next_word(text, i)[1] IN
         /\ b \in i..(N + 1)
         /\ b <= N => d \in (b + 1)..N /\ text[d] = Blank
         /\ b = N + 1 => d = 0
      BY <2>3, PlainWord
    <3> HIDE DEF d
    <3> DEFINE b == next_word(text, i)[1]
    <3>2. b \in i..(N + 1) /\ i \in 1..(N + 1)
      BY <3>1, <2>3
    <3>3. b <= N \/ b = N + 1
      <4> HIDE DEF b, N
      <4> QED BY <3>2, <1>1
    <3>4. d \in (b + 1)..N /\ text[d] = Blank
      BY <3>1, <3>3, <2>4
    <3> HIDE DEF b, N, Bad
    <3> QED BY <3>2, <3>4, <1>1
  <2>6. ~WordsFrom(text, d + 1)
    <3> HIDE DEF i
    <3> QED BY <2>3, WordsFromNext
  <2> HIDE DEF d
  <2> DEFINE n == N - d
  <2>7. d \in Nat /\ d >= N + 1 - m
    BY <1>1, <2>3, <2>5
  <2> HIDE DEF Bad
  <2>8. n \in 0..N /\ n < m /\ N + 1 - n = d + 1 /\ (d + 1) - 1 = d
    <3> HIDE DEF N
    <3> QED BY <1>1, <2>3, <2>5, <2>7
  <2> HIDE DEF n
  <2>9. n \in Bad
    BY <2>5, <2>6, <2>8 DEF Bad
  <2> QED BY <2>2, <2>3, <2>8, <2>9, <1>1
<1>3. N \in 0..N /\ N + 1 - N = 1
  BY <1>1
<1> HIDE DEF N
<1> QED BY <1>2, <1>3

\* What parseline returns.
LEMMA ParselineIs ==
  ASSUME NEW c, NEW all, all = words([c EXCEPT ![Len(c)] = Blank])
  PROVE  /\ background(all) => parseline(c) = [words |-> SubSeq(all, 1, Len(all) - 1), bg |-> TRUE]
         /\ ~background(all) => parseline(c) = [words |-> all, bg |-> FALSE]
  BY DEF parseline

LEMMA PieceIsText ==
  ASSUME NEW c \in Seq(Letter), c # <<>>
  PROVE  /\ Text([c EXCEPT ![Len(c)] = Blank])
         /\ Len([c EXCEPT ![Len(c)] = Blank]) = Len(c)
         /\ \A k \in 1..Len(c) : [c EXCEPT ![Len(c)] = Blank][k] = IF k = Len(c) THEN Blank ELSE c[k]
<1>1. Len(c) \in 1..Len(c) /\ Blank \in Letter
  BY DEF Letter, Char
<1> DEFINE t == [c EXCEPT ![Len(c)] = Blank]
<1>2. /\ t \in Seq(Letter) /\ Len(t) = Len(c)
      /\ \A k \in 1..Len(c) : t[k] = IF k = Len(c) THEN Blank ELSE c[k]
  BY <1>1, ExceptSeq
<1> HIDE DEF t
<1>3. Text(t)
  <2>1. t # <<>> /\ t[Len(t)] = Blank
    BY <1>1, <1>2
  <2> QED BY <1>2, <2>1 DEF Text
<1> QED BY <1>2, <1>3 DEF t

\* The first half of WordsAreMeant.
LEMMA PlainWordsAreMeant ==
  ASSUME NEW c \in Seq(Letter), c # <<>>, "'" \notin ToSet(c) \/ shell = "eval"
  PROVE  LET text == [c EXCEPT ![Len(c)] = Blank]
             begins == {k \in DOMAIN text : text[k] # Blank /\ (k = 1 \/ text[k - 1] = Blank)}
             argv == parseline(c).words
             dropped == IF parseline(c).bg THEN 1 ELSE 0 IN
         /\ Cardinality(begins) = Len(argv) + dropped
         /\ \A b \in begins : LET k == Cardinality({x \in begins : x <= b}) IN
              IF k > Len(argv) THEN text[b] = "&"
              ELSE /\ argv[k] = SubSeq(text, b, b + Len(argv[k]) - 1)
                   /\ text[b + Len(argv[k])] = Blank
<1> DEFINE text == [c EXCEPT ![Len(c)] = Blank]
           begins == Begins(text)
           all == words(text)
           argv == parseline(c).words
           bg == background(all)
           N == Len(all)
           rank(b) == Cardinality({x \in begins : x <= b})
<1>1. /\ Text(text) /\ Len(text) = Len(c)
      /\ \A k \in 1..Len(c) : text[k] = IF k = Len(c) THEN Blank ELSE c[k]
  BY PieceIsText
<1>2. Unquoted(text)
  <2> HIDE DEF text
  <2>1. CASE "'" \notin ToSet(c)
    <3>1. ASSUME NEW k \in DOMAIN text PROVE text[k] # "'"
      <4>1. k \in 1..Len(c) /\ k \in DOMAIN c
        BY <1>1 DEF Text
      <4>2. c[k] # "'"
        BY <2>1, <4>1 DEF ToSet
      <4> QED BY <1>1, <4>1, <4>2, BlankIsNone
    <3> QED BY <3>1 DEF Unquoted
  <2>2. CASE shell = "eval"
    BY <2>2 DEF Unquoted
  <2> QED BY <2>1, <2>2
<1>3. /\ bg => argv = SubSeq(all, 1, N - 1) /\ parseline(c).bg = TRUE
      /\ ~bg => argv = all /\ parseline(c).bg = FALSE
  <2> HIDE DEF all
  <2>1. all = words([c EXCEPT ![Len(c)] = Blank])
    BY DEF all
  <2>2. /\ bg => parseline(c) = [words |-> SubSeq(all, 1, N - 1), bg |-> TRUE]
        /\ ~bg => parseline(c) = [words |-> all, bg |-> FALSE]
    BY <2>1, ParselineIs
  <2> HIDE DEF bg, N
  <2> QED BY <2>2
<1> HIDE DEF text
<1>4. WordsFrom(text, 1) /\ all = From(text)[1] /\ all \in WordList /\ N \in Nat
  <2>1. WordsFrom(text, 1)
    BY <1>1, <1>2, WordsFromAnywhere
  <2>2. all = From(text)[1]
    BY WordsAreFrom
  <2>3. 1 \in 1..(Len(text) + 1)
    BY <1>1 DEF Text
  <2>4. all \in WordList
    BY <1>1, <2>2, <2>3, FromDefined
  <2> QED BY <2>1, <2>2, <2>4 DEF WordList
<1>5. BeginsFrom(text, 1) = begins /\ \A b : UpToHere(text, 1, b) = {x \in begins : x <= b}
  BY <1>1 DEF BeginsFrom, UpToHere, Begins, Text
<1> HIDE DEF all, begins
<1>6. /\ Cardinality(begins) = N
      /\ \A b \in begins : /\ rank(b) \in 1..N
                           /\ Len(all[rank(b)]) > 0
                           /\ all[rank(b)] = SubSeq(text, b, b + Len(all[rank(b)]) - 1)
                           /\ text[b + Len(all[rank(b)])] = Blank
  BY <1>4, <1>5 DEF WordsFrom
<1> HIDE DEF argv
<1>7. /\ bg => N > 0 /\ Len(argv) = N - 1 /\ parseline(c).bg = TRUE
      /\ ~bg => Len(argv) = N /\ parseline(c).bg = FALSE
      /\ \A k \in 1..Len(argv) : argv[k] = all[k]
  <2>1. CASE bg
    <3>1. N > 0 /\ N - 1 \in Int
      BY <1>4, <2>1 DEF background, WordList
    <3>2. \A k \in 1..(N - 1) : all[k] \in Seq(Letter)
      BY <1>4 DEF WordList
    <3>3. /\ Len(SubSeq(all, 1, N - 1)) = IF 1 <= N - 1 THEN N - 1 - 1 + 1 ELSE 0
          /\ \A k \in 1..(N - 1 - 1 + 1) : SubSeq(all, 1, N - 1)[k] = all[1 + k - 1]
      BY <3>1, <3>2, SubSeqProperties
    <3>4. Len(SubSeq(all, 1, N - 1)) = N - 1 /\ \A k \in 1..(N - 1) : SubSeq(all, 1, N - 1)[k] = all[k]
      BY <3>1, <3>3, <1>4
    <3> HIDE DEF bg, N
    <3> QED BY <3>1, <3>4, <2>1, <1>3
  <2>2. CASE ~bg
    BY <2>2, <1>3
  <2> QED BY <2>1, <2>2
<1>10. bg => all[N][1] = "&"
  BY DEF background
<1>11. Len(argv) \in Nat
  <2> HIDE DEF bg
  <2> QED BY <1>4, <1>7
<1> HIDE DEF bg, N
<1>12. \A k \in 1..N : all[k] \in Seq(Letter) /\ Len(all[k]) \in Nat
  BY <1>4 DEF WordList, N
<1>8. ASSUME NEW b \in begins
      PROVE  IF rank(b) > Len(argv) THEN text[b] = "&"
             ELSE /\ argv[rank(b)] = SubSeq(text, b, b + Len(argv[rank(b)]) - 1)
                  /\ text[b + Len(argv[rank(b)])] = Blank
  <2> DEFINE k == rank(b)
  <2>1. /\ k \in 1..N /\ Len(all[k]) > 0 /\ all[k] = SubSeq(text, b, b + Len(all[k]) - 1)
        /\ text[b + Len(all[k])] = Blank /\ all[k] \in Seq(Letter) /\ Len(all[k]) \in Nat
    BY <1>6, <1>12
  <2> HIDE DEF k
  <2>2. Len(argv) \in Int /\ N \in Nat
    BY <1>4, <1>11
  <2>3. CASE k > Len(argv)
    <3>1. k = N /\ bg
      BY <2>1, <2>2, <2>3, <1>4, <1>7
    <3>2. all[N][1] = "&"
      BY <3>1, <1>10
    <3>3. b \in Nat /\ b >= 1 /\ b \in 1..Len(text) /\ text \in Seq(Letter)
      BY <1>1 DEF begins, Begins, Text
    <3>4. all[k][1] = text[b]
      <4> DEFINE m == Len(all[k])
      <4>1. m \in Nat /\ m > 0
        BY <2>1
      <4>2. b + m - 1 \in Int /\ b \in Int
        BY <4>1, <3>3
      <4> HIDE DEF m
      <4>3. all[k] = SubSeq(text, b, b + m - 1)
        BY <2>1 DEF m
      <4>4. SubSeq(text, b, b + m - 1)[1] = text[b]
        <5>1. SubSeq(text, b, b + m - 1) = [j \in 1..(1 + (b + m - 1) - b) |-> text[b + j - 1]]
          BY <4>1, <4>2, <3>3
        <5>2. 1 \in 1..(1 + (b + m - 1) - b) /\ b + 1 - 1 = b
          BY <4>1, <3>3
        <5> QED BY <5>1, <5>2
      <4> QED BY <4>3, <4>4
    <3> QED BY <2>3, <3>1, <3>2, <3>4 DEF k
  <2>4. CASE ~(k > Len(argv))
    <3>1. k \in 1..Len(argv)
      BY <2>1, <2>2, <2>4, <1>4
    <3>2. argv[k] = all[k]
      BY <3>1, <1>7
    <3> QED BY <2>1, <2>4, <3>2 DEF k
  <2> QED BY <2>3, <2>4
<1>9. Cardinality(begins) = Len(argv) + (IF parseline(c).bg THEN 1 ELSE 0)
  BY <1>4, <1>6, <1>7
<1> QED BY <1>8, <1>9 DEF text, begins, Begins, argv

-----------------------------------------------------------------------------
(* Words that somebody meant, in quotes or not.                             *)

\* Where the blank before word k + 1 is, or behind the last the end.
BlankAfter(s, k) == Len(Upto(s)[k]) + 1

\* The line as parseline scans it: before each word a blank, behind the last
\* the blank that the end of the line has become.
Typed(s) == line(s) \o <<Blank>>

LEMMA UptoGrows ==
  ASSUME NEW s \in Seq(Typable), NEW k \in 1..Len(s)
  PROVE  LET before == Upto(s)[k - 1]
             after == Upto(s)[k]
             y == write(s[k]) IN
         /\ before \in Seq(Letter) /\ after \in Seq(Letter) /\ y \in Seq(Letter)
         /\ Len(after) = Len(before) + 1 + Len(y)
         /\ \A j \in 1..Len(before) : after[j] = before[j]
         /\ after[Len(before) + 1] = Blank
         /\ \A j \in 1..Len(y) : after[Len(before) + 1 + j] = y[j]
<1> DEFINE a == Upto(s)[k - 1]
           c == Upto(s)[k]
           y == write(s[k])
           bl == <<Blank>>
           ab == a \o bl
<1>1. k \in 0..Len(s) /\ k - 1 \in 0..Len(s) /\ k # 0 /\ s[k] \in Typable
  OBVIOUS
<1>2. a \in Seq(Letter) /\ c \in Seq(Letter)
  BY <1>1, UptoDefined
<1>3. y \in Seq(Letter)
  BY <1>1, WriteTyped
<1>4. c = ab \o y
  BY <1>1, UptoDefined
<1>5. bl \in Seq(Letter) /\ Len(bl) = 1 /\ bl[1] = Blank
  BY OneBlank
<1> HIDE DEF a, c, y, bl
<1>6. /\ ab \in Seq(Letter) /\ Len(ab) = Len(a) + Len(bl)
      /\ \A j \in 1..(Len(a) + Len(bl)) : ab[j] = IF j <= Len(a) THEN a[j] ELSE bl[j - Len(a)]
  BY <1>2, <1>5, ConcatProperties
<1> HIDE DEF ab
<1>7. /\ ab \o y \in Seq(Letter) /\ Len(ab \o y) = Len(ab) + Len(y)
      /\ \A j \in 1..(Len(ab) + Len(y)) : (ab \o y)[j] = IF j <= Len(ab) THEN ab[j] ELSE y[j - Len(ab)]
  <2>1. ab \in Seq(Letter) /\ y \in Seq(Letter)
    BY <1>3, <1>6
  <2> QED BY <2>1, ConcatProperties
<1>8. /\ Len(c) = Len(ab) + Len(y)
      /\ \A j \in 1..(Len(ab) + Len(y)) : c[j] = IF j <= Len(ab) THEN ab[j] ELSE y[j - Len(ab)]
  BY <1>4, <1>7
<1>9. Len(a) \in Nat /\ Len(y) \in Nat /\ Len(ab) = Len(a) + 1
  BY <1>2, <1>3, <1>5, <1>6
<1>10. \A j \in 1..Len(a) : c[j] = a[j]
  BY <1>5, <1>6, <1>8, <1>9
<1>11. c[Len(a) + 1] = Blank
  <2>1. c[Len(a) + 1] = ab[Len(a) + 1]
    BY <1>8, <1>9
  <2>2. ab[Len(a) + 1] = bl[(Len(a) + 1) - Len(a)]
    BY <1>5, <1>6, <1>9
  <2>3. (Len(a) + 1) - Len(a) = 1
    BY <1>9
  <2> QED BY <2>1, <2>2, <2>3, <1>5
<1>12. \A j \in 1..Len(y) : c[Len(a) + 1 + j] = y[j]
  <2> SUFFICES ASSUME NEW j \in 1..Len(y) PROVE c[Len(a) + 1 + j] = y[j]
    OBVIOUS
  <2>1. c[Len(a) + 1 + j] = y[(Len(a) + 1 + j) - Len(ab)]
    <3> DEFINE h == Len(a) + 1 + j
    <3>1. h \in 1..(Len(ab) + Len(y)) /\ ~(h <= Len(ab))
      BY <1>9
    <3> HIDE DEF h
    <3>2. c[h] = y[h - Len(ab)]
      BY <1>8, <3>1
    <3> QED BY <3>2 DEF h
  <2>2. (Len(a) + 1 + j) - Len(ab) = j
    BY <1>9
  <2> QED BY <2>1, <2>2
<1> QED BY <1>2, <1>3, <1>8, <1>9, <1>10, <1>11, <1>12 DEF a, c, y

\* What is typed stays where it is while more is typed.
LEMMA UptoStays ==
  ASSUME NEW s \in Seq(Typable), NEW k \in 0..Len(s), NEW m \in k..Len(s)
  PROVE  /\ Len(Upto(s)[k]) <= Len(Upto(s)[m])
         /\ \A j \in 1..Len(Upto(s)[k]) : Upto(s)[m][j] = Upto(s)[k][j]
<1> DEFINE u == Upto(s)
           Stays(x) == Len(u[k]) <= Len(u[x]) /\ \A j \in 1..Len(u[k]) : u[x][j] = u[k][j]
           Bad == {x \in k..Len(s) : ~Stays(x)}
<1>1. Len(s) \in Nat /\ k \in Nat
  OBVIOUS
<1>2. \A x \in 0..Len(s) : u[x] \in Seq(Letter) /\ Len(u[x]) \in Nat
  <2>1. u \in [0..Len(s) -> Seq(Letter)]
    BY UptoDefined
  <2> HIDE DEF u
  <2> QED BY <2>1
<1>3. ASSUME NEW x \in 1..Len(s)
      PROVE  /\ Len(u[x - 1]) <= Len(u[x]) /\ \A j \in 1..Len(u[x - 1]) : u[x][j] = u[x - 1][j]
  <2>1. /\ Len(u[x]) = Len(u[x - 1]) + 1 + Len(write(s[x])) /\ write(s[x]) \in Seq(Letter)
        /\ \A j \in 1..Len(u[x - 1]) : u[x][j] = u[x - 1][j]
    BY UptoGrows
  <2>2. x - 1 \in 0..Len(s) /\ Len(write(s[x])) \in Nat
    BY <2>1
  <2> HIDE DEF u
  <2>3. Len(u[x - 1]) \in Nat
    BY <1>2, <2>2
  <2> DEFINE p == Len(u[x - 1])
             q == Len(u[x])
             r == Len(write(s[x]))
  <2>4. p \in Nat /\ r \in Nat /\ q = p + 1 + r
    BY <2>1, <2>2, <2>3
  <2> HIDE DEF p, q, r
  <2>5. p <= q
    BY <2>4
  <2> QED BY <2>1, <2>5 DEF p, q
<1> HIDE DEF u
<1>4. Bad = {}
  <2> SUFFICES ASSUME Bad # {} PROVE FALSE
    OBVIOUS
  <2>1. Bad \in SUBSET Nat
    BY <1>1
  <2>2. PICK x \in Bad : \A y \in Bad : x <= y
    <3> HIDE DEF Bad
    <3> QED BY <2>1, LeastIsFirst
  <2>3. x \in k..Len(s) /\ ~Stays(x)
    BY <2>2
  <2>4. x # k
    <3>1. Stays(k)
      BY <1>2
    <3> HIDE DEF Stays
    <3> QED BY <2>3, <3>1
  <2>5. x - 1 \in k..Len(s) /\ x - 1 < x /\ x \in 1..Len(s) /\ x - 1 \in 0..Len(s)
    BY <1>1, <2>3, <2>4
  <2>6. Stays(x - 1)
    <3>1. x - 1 \notin Bad
      <4> HIDE DEF Bad
      <4> QED BY <2>2, <2>5, <1>1
    <3> HIDE DEF Stays
    <3> QED BY <2>5, <3>1
  <2>7. Len(u[k]) \in Nat /\ Len(u[x - 1]) \in Nat /\ Len(u[x]) \in Nat
    <3>1. k \in 0..Len(s) /\ x - 1 \in 0..Len(s) /\ x \in 0..Len(s)
      BY <1>1, <2>5
    <3> HIDE DEF Bad
    <3> QED BY <1>2, <3>1
  <2>8. Stays(x)
    <3>1. Len(u[k]) <= Len(u[x])
      BY <1>3, <2>5, <2>6, <2>7
    <3>2. ASSUME NEW j \in 1..Len(u[k]) PROVE u[x][j] = u[k][j]
      <4>1. j \in 1..Len(u[x - 1])
        BY <2>6, <2>7
      <4> QED BY <1>3, <2>5, <2>6, <4>1
    <3> QED BY <3>1, <3>2
  <2> QED BY <2>3, <2>8
<1>5. Stays(m)
  <2> HIDE DEF Stays
  <2> QED BY <1>4
<1> QED BY <1>5 DEF u

LEMMA LineShape ==
  ASSUME NEW s \in Seq(Typable)
  PROVE  /\ Text(Typed(s)) /\ Len(Typed(s)) = BlankAfter(s, Len(s))
         /\ \A k \in 0..Len(s) : BlankAfter(s, k) \in 1..Len(Typed(s))
         /\ BlankAfter(s, 0) = 1
         /\ \A k \in 1..Len(s) :
              /\ BlankAfter(s, k) = BlankAfter(s, k - 1) + 1 + Len(write(s[k]))
              /\ Typed(s)[BlankAfter(s, k - 1)] = Blank
              /\ \A j \in 1..Len(write(s[k])) : Typed(s)[BlankAfter(s, k - 1) + j] = write(s[k])[j]
<1> DEFINE u == Upto(s)
           n == Len(s)
           l == u[n]
           bl == <<Blank>>
           t == Typed(s)
<1>1. n \in Nat /\ n \in 0..n /\ 0 \in 0..n
  OBVIOUS
<1>2. \A k \in 0..n : u[k] \in Seq(Letter) /\ Len(u[k]) \in Nat
  <2>1. u \in [0..n -> Seq(Letter)]
    BY UptoDefined
  <2> HIDE DEF u
  <2> QED BY <2>1
<1>3. bl \in Seq(Letter) /\ Len(bl) = 1 /\ bl[1] = Blank
  BY OneBlank
<1>4. t = l \o bl
  BY LineIsUpto DEF Typed
<1>5. u[0] = <<>>
  BY <1>1, UptoDefined
<1>6. ASSUME NEW k \in 0..n
      PROVE  Len(u[k]) <= Len(l) /\ \A j \in 1..Len(u[k]) : l[j] = u[k][j]
  <2>1. n \in k..n
    BY <1>1
  <2> QED BY <2>1, UptoStays
<1>7. ASSUME NEW k \in 1..n
      PROVE  /\ Len(u[k]) = Len(u[k - 1]) + 1 + Len(write(s[k])) /\ Len(write(s[k])) \in Nat
             /\ u[k][Len(u[k - 1]) + 1] = Blank
             /\ \A j \in 1..Len(write(s[k])) : u[k][Len(u[k - 1]) + 1 + j] = write(s[k])[j]
  <2>1. write(s[k]) \in Seq(Letter)
    BY UptoGrows
  <2> DEFINE y == write(s[k])
  <2>2. /\ Len(u[k]) = Len(u[k - 1]) + 1 + Len(y)
        /\ u[k][Len(u[k - 1]) + 1] = Blank
        /\ \A j \in 1..Len(y) : u[k][Len(u[k - 1]) + 1 + j] = y[j]
    BY UptoGrows
  <2>3. Len(y) \in Nat
    BY <2>1
  <2> HIDE DEF u, y
  <2> QED BY <2>2, <2>3 DEF y
<1> HIDE DEF u, bl, t, l
<1>8. l \in Seq(Letter) /\ Len(l) \in Nat
  BY <1>1, <1>2 DEF l
<1>9. /\ t \in Seq(Letter) /\ Len(t) = Len(l) + 1
      /\ \A j \in 1..Len(l) : t[j] = l[j]
      /\ t[Len(l) + 1] = Blank
  <2>1. /\ l \o bl \in Seq(Letter) /\ Len(l \o bl) = Len(l) + Len(bl)
        /\ \A j \in 1..(Len(l) + Len(bl)) : (l \o bl)[j] = IF j <= Len(l) THEN l[j] ELSE bl[j - Len(l)]
    BY <1>3, <1>8, ConcatProperties
  <2>2. /\ t \in Seq(Letter) /\ Len(t) = Len(l) + 1
        /\ \A j \in 1..(Len(l) + 1) : t[j] = IF j <= Len(l) THEN l[j] ELSE bl[j - Len(l)]
    BY <2>1, <1>3, <1>4
  <2>3. t[Len(l) + 1] = bl[(Len(l) + 1) - Len(l)] /\ (Len(l) + 1) - Len(l) = 1
    BY <2>2, <1>8
  <2> QED BY <2>2, <2>3, <1>3, <1>8
<1>10. Text(t)
  <2>1. t # <<>> /\ t[Len(t)] = Blank
    BY <1>8, <1>9
  <2> QED BY <2>1, <1>9 DEF Text
<1>11. \A k \in 0..n : BlankAfter(s, k) = Len(u[k]) + 1
  BY DEF BlankAfter, u
<1>12. BlankAfter(s, n) = Len(t) /\ BlankAfter(s, 0) = 1
  BY <1>1, <1>5, <1>9, <1>11 DEF l
<1>13. \A k \in 0..n : BlankAfter(s, k) \in 1..Len(t)
  BY <1>2, <1>6, <1>8, <1>9, <1>11
<1>14. ASSUME NEW k \in 1..n
       PROVE  /\ BlankAfter(s, k) = BlankAfter(s, k - 1) + 1 + Len(write(s[k]))
              /\ t[BlankAfter(s, k - 1)] = Blank
              /\ \A j \in 1..Len(write(s[k])) : t[BlankAfter(s, k - 1) + j] = write(s[k])[j]
  <2> DEFINE y == write(s[k])
             p == Len(u[k - 1])
             q == Len(u[k])
  <2>1. k \in 0..n /\ k - 1 \in 0..n
    OBVIOUS
  <2>2. q = p + 1 + Len(y) /\ p \in Nat /\ q \in Nat /\ Len(y) \in Nat /\ q <= Len(l)
    BY <1>2, <1>6, <1>7, <2>1
  <2>3. BlankAfter(s, k) = q + 1 /\ BlankAfter(s, k - 1) = p + 1
    BY <1>11, <2>1
  <2>4. \A j \in 1..q : t[j] = u[k][j]
    <3> SUFFICES ASSUME NEW j \in 1..q PROVE t[j] = u[k][j]
      OBVIOUS
    <3>1. l[j] = u[k][j]
      BY <1>6, <2>1
    <3>2. j \in 1..Len(l)
      <4> DEFINE m == Len(l)
      <4>1. m \in Nat /\ q \in Nat /\ q <= m
        BY <1>8, <2>2
      <4> HIDE DEF m, q
      <4>2. j \in 1..m
        BY <4>1
      <4> QED BY <4>2 DEF m
    <3> QED BY <1>9, <3>1, <3>2
  <2>5. u[k][p + 1] = Blank /\ \A j \in 1..Len(y) : u[k][p + 1 + j] = y[j]
    BY <1>7
  <2> HIDE DEF y, p, q
  <2>6. t[p + 1] = Blank
    BY <2>2, <2>4, <2>5
  <2>7. \A j \in 1..Len(y) : t[p + 1 + j] = y[j]
    BY <2>2, <2>4, <2>5
  <2>8. q + 1 = p + 1 + 1 + Len(y)
    BY <2>2
  <2> QED BY <2>3, <2>6, <2>7, <2>8 DEF y
<1> QED BY <1>10, <1>12, <1>13, <1>14 DEF t

\* The first place with c is the one with c before which there is none.
LEMMA StrchrExact ==
  ASSUME NEW text \in Seq(Letter), NEW i \in 1..(Len(text) + 2), NEW c,
         NEW d \in i..Len(text), text[d] = c, \A k \in i..(d - 1) : text[k] # c
  PROVE  strchr(text, i, c) = d
<1> DEFINE r == strchr(text, i, c)
<1>1. /\ r = 0 \/ (r \in i..Len(text) /\ text[r] = c /\ \A k \in i..(r - 1) : text[k] # c)
      /\ r = 0 => \A k \in i..Len(text) : text[k] # c
  BY StrchrFinds
<1> HIDE DEF r
<1>2. r \in i..Len(text) /\ text[r] = c /\ \A k \in i..(r - 1) : text[k] # c
  BY <1>1
<1>3. ~(r < d)
  <2> SUFFICES ASSUME r < d PROVE FALSE
    OBVIOUS
  <2>1. r \in i..(d - 1)
    BY <1>2
  <2> QED BY <1>2, <2>1
<1>4. ~(d < r)
  <2> SUFFICES ASSUME d < r PROVE FALSE
    OBVIOUS
  <2>1. d \in i..(r - 1)
    BY <1>2
  <2> QED BY <1>2, <2>1
<1>5. r = d
  BY <1>2, <1>3, <1>4
<1> QED BY <1>5 DEF r

LEMMA SkipExact ==
  ASSUME NEW text \in Seq(Letter), NEW a \in 1..Len(text), text[a] # Blank,
         NEW i \in 1..a, \A k \in i..(a - 1) : text[k] = Blank
  PROVE  skip(text, i) = a
<1> DEFINE b == skip(text, i)
<1>1. i \in 1..(Len(text) + 1)
  OBVIOUS
<1>2. /\ b \in i..(Len(text) + 1)
      /\ \A k \in i..(b - 1) : text[k] = Blank
      /\ b <= Len(text) => text[b] # Blank
  BY <1>1, SkipStops
<1> HIDE DEF b
<1>3. ~(b < a)
  <2> SUFFICES ASSUME b < a PROVE FALSE
    OBVIOUS
  <2>1. b \in i..(a - 1) /\ b <= Len(text)
    BY <1>2
  <2> QED BY <1>2, <2>1
<1>4. ~(a < b)
  <2> SUFFICES ASSUME a < b PROVE FALSE
    OBVIOUS
  <2>1. a \in i..(b - 1)
    BY <1>2
  <2> QED BY <1>2, <2>1
<1>5. b = a
  BY <1>2, <1>3, <1>4
<1> QED BY <1>5 DEF b

\* From the blank before a word, or from the word itself, parseline finds it
\* and goes on at the blank behind it or at what follows that blank.
LEMMA QuotedWord ==
  ASSUME NEW s \in Seq(Typable), shell = "shiyan", NEW k \in 1..Len(s),
         NEW i \in {BlankAfter(s, k - 1), BlankAfter(s, k - 1) + 1}
  PROVE  LET next == next_word(Typed(s), i) IN
         /\ i \in 1..(Len(Typed(s)) + 1)
         /\ next[2] # 0
         /\ SubSeq(Typed(s), next[1], next[2] - 1) = s[k].word
         /\ next[2] + 1 \in {BlankAfter(s, k), BlankAfter(s, k) + 1}
<1> DEFINE t == Typed(s)
           N == Len(t)
           p == BlankAfter(s, k - 1)
           q == BlankAfter(s, k)
           y == write(s[k])
           w == s[k].word
           a == p + 1
<1>1. k \in 0..Len(s) /\ k - 1 \in 0..Len(s) /\ s[k] \in Typable
  OBVIOUS
<1>2. /\ Text(t) /\ p \in 1..N /\ q \in 1..N
      /\ q = p + 1 + Len(y) /\ t[p] = Blank /\ \A j \in 1..Len(y) : t[p + j] = y[j]
  BY <1>1, LineShape
<1>3. /\ y \in Seq(Letter) /\ y # <<>> /\ y[1] # Blank
      /\ s[k].quotes => /\ Len(y) = Len(w) + 2
                        /\ y[1] = "'" /\ y[Len(y)] = "'"
                        /\ \A j \in 1..Len(w) : y[j + 1] = w[j]
      /\ ~s[k].quotes => y = w
  BY <1>1, WriteTyped
<1>4. /\ w \in Seq(Char) /\ s[k].quotes \in BOOLEAN
      /\ \A j \in DOMAIN w : w[j] # "'"
      /\ ~s[k].quotes => w # <<>> /\ \A j \in DOMAIN w : w[j] # Blank
  BY <1>1, TypableWords
<1>5. t[q] = Blank
  <2>1. CASE k = Len(s)
    <3>1. q = N
      BY <2>1, LineShape
    <3> QED BY <1>2, <3>1 DEF Text
  <2>2. CASE k # Len(s)
    <3>1. k + 1 \in 1..Len(s) /\ (k + 1) - 1 = k
      BY <2>2
    <3>2. t[BlankAfter(s, (k + 1) - 1)] = Blank
      BY <3>1, LineShape
    <3> QED BY <3>1, <3>2
  <2> QED BY <2>1, <2>2
<1>6. i \in {p, a}
  OBVIOUS
<1> HIDE DEF t, p, q, y, w
<1>7. t \in Seq(Letter) /\ N \in Nat /\ p \in Nat /\ q \in Nat /\ Len(y) \in Nat /\ Len(y) > 0
  BY <1>2, <1>3 DEF Text
<1>8. a \in 1..N /\ t[a] = y[1]
  <2>1. 1 \in 1..Len(y)
    BY <1>7
  <2> QED BY <1>2, <1>7, <2>1
<1>9. skip(t, i) = a
  <2>1. t[a] # Blank
    BY <1>3, <1>8
  <2>2. i \in 1..a /\ \A j \in i..(a - 1) : t[j] = Blank
    BY <1>2, <1>6, <1>7
  <2> QED BY <1>7, <1>8, <2>1, <2>2, SkipExact
<1>10. i \in 1..(N + 1)
  BY <1>2, <1>6, <1>7, <1>8
<1>11. CASE s[k].quotes
  <2> DEFINE d == a + Len(y) - 1
  <2>1. next_word(t, i) = <<a + 1, strchr(t, a + 1, "'")>>
    <3>1. isQuoted(t, a)
      BY <1>3, <1>7, <1>8, <1>11 DEF isQuoted
    <3> HIDE DEF a
    <3> QED BY <1>9, <3>1 DEF next_word, quoted
  <2>2. Len(w) \in Nat /\ DOMAIN w = 1..Len(w) /\ Len(y) = Len(w) + 2
    BY <1>3, <1>4, <1>11
  <2>3. d \in (a + 1)..N /\ d + 1 = q /\ d = p + Len(y) /\ d = a + Len(w) + 1
    BY <1>2, <1>7, <2>2
  <2>4. t[d] = "'"
    <3>1. Len(y) \in 1..Len(y)
      BY <1>7
    <3> QED BY <1>2, <1>3, <1>11, <2>3, <3>1
  <2>5. ASSUME NEW j \in (a + 1)..(d - 1) PROVE t[j] = w[j - a] /\ j - a \in 1..Len(w)
    <3> DEFINE h == j - a
    <3>1. h \in 1..Len(w) /\ h + 1 \in 1..Len(y) /\ p + (h + 1) = j
      BY <1>7, <2>2, <2>3
    <3> HIDE DEF h
    <3>2. t[p + (h + 1)] = y[h + 1] /\ y[h + 1] = w[h]
      BY <1>2, <1>3, <1>11, <3>1
    <3>3. t[j] = w[h] /\ h \in 1..Len(w)
      BY <3>1, <3>2
    <3> QED BY <3>3 DEF h
  <2>6. strchr(t, a + 1, "'") = d
    <3>1. a + 1 \in 1..(N + 2)
      BY <1>7, <1>8
    <3>2. \A j \in (a + 1)..(d - 1) : t[j] # "'"
      BY <1>4, <2>2, <2>5
    <3> HIDE DEF a, d
    <3> QED BY <1>7, <2>3, <2>4, <3>1, <3>2, StrchrExact
  <2>7. SubSeq(t, a + 1, d - 1) = w
    <3> DEFINE v == SubSeq(t, a + 1, d - 1)
    <3>1. \A j \in (a + 1)..(d - 1) : t[j] \in Letter
      BY <1>7, <1>8, <2>3
    <3>2. a + 1 \in Int /\ d - 1 \in Int /\ (d - 1) - (a + 1) + 1 = Len(w)
      BY <1>7, <2>2, <2>3
    <3>3. /\ v \in Seq(Letter)
          /\ Len(v) = IF a + 1 <= d - 1 THEN (d - 1) - (a + 1) + 1 ELSE 0
          /\ \A j \in 1..((d - 1) - (a + 1) + 1) : v[j] = t[(a + 1) + j - 1]
      <4> HIDE DEF a, d
      <4> QED BY <3>1, <3>2, SubSeqProperties
    <3> HIDE DEF v
    <3>4. Len(v) = Len(w)
      BY <3>2, <3>3, <2>2, <2>3, <1>7
    <3>5. ASSUME NEW j \in 1..Len(w) PROVE v[j] = w[j]
      <4>1. (a + 1) + j - 1 = a + j /\ a + j \in (a + 1)..(d - 1) /\ (a + j) - a = j
        BY <1>7, <2>2, <2>3
      <4>2. v[j] = t[a + j]
        BY <3>2, <3>3, <4>1
      <4> HIDE DEF a, d
      <4> QED BY <2>5, <4>1, <4>2
    <3>6. w \in Seq(Letter)
      BY <1>4, SeqMonotonic DEF Letter
    <3>7. v = w
      BY <3>3, <3>4, <3>5, <3>6, SeqEqual
    <3> QED BY <3>7 DEF v
  <2>8. d # 0
    BY <2>3, <1>7
  <2> HIDE DEF a, d
  <2>9. next_word(t, i)[1] = a + 1 /\ next_word(t, i)[2] = d
    BY <2>1, <2>6
  <2> QED BY <1>10, <2>3, <2>7, <2>8, <2>9 DEF t, q, w
<1>12. CASE ~s[k].quotes
  <2>1. y = w /\ \A j \in 1..Len(y) : y[j] # Blank /\ y[j] # "'"
    <3>1. DOMAIN w = 1..Len(w)
      BY <1>4
    <3> QED BY <1>3, <1>4, <1>12, <3>1
  <2>2. next_word(t, i) = <<a, strchr(t, a, Blank)>>
    <3>1. 1 \in 1..Len(y)
      BY <1>7
    <3>2. ~isQuoted(t, a)
      BY <1>8, <2>1, <3>1 DEF isQuoted
    <3> HIDE DEF a
    <3> QED BY <1>9, <3>2 DEF next_word, quoted
  <2>3. q \in a..N /\ q = a + Len(y)
    BY <1>2, <1>7
  <2>4. ASSUME NEW j \in a..(q - 1) PROVE t[j] = y[j - p] /\ j - p \in 1..Len(y)
    <3> DEFINE h == j - p
    <3>1. h \in 1..Len(y) /\ p + h = j
      BY <1>7, <2>3
    <3> HIDE DEF h
    <3>2. t[j] = y[h] /\ h \in 1..Len(y)
      BY <1>2, <3>1
    <3> QED BY <3>2 DEF h
  <2>5. strchr(t, a, Blank) = q
    <3>1. a \in 1..(N + 2)
      BY <1>7, <1>8
    <3>2. \A j \in a..(q - 1) : t[j] # Blank
      BY <2>1, <2>4
    <3> HIDE DEF a
    <3> QED BY <1>5, <1>7, <2>3, <3>1, <3>2, StrchrExact
  <2>6. SubSeq(t, a, q - 1) = w
    <3> DEFINE v == SubSeq(t, a, q - 1)
    <3>1. \A j \in a..(q - 1) : t[j] \in Letter
      BY <1>7, <1>8, <2>3
    <3>2. a \in Int /\ q - 1 \in Int /\ (q - 1) - a + 1 = Len(y)
      BY <1>7, <2>3
    <3>3. /\ v \in Seq(Letter)
          /\ Len(v) = IF a <= q - 1 THEN (q - 1) - a + 1 ELSE 0
          /\ \A j \in 1..((q - 1) - a + 1) : v[j] = t[a + j - 1]
      <4> HIDE DEF a
      <4> QED BY <3>1, <3>2, SubSeqProperties
    <3> HIDE DEF v
    <3>4. Len(v) = Len(y)
      BY <3>2, <3>3, <2>3, <1>7
    <3>5. ASSUME NEW j \in 1..Len(y) PROVE v[j] = y[j]
      <4>1. a + j - 1 \in a..(q - 1) /\ (a + j - 1) - p = j
        BY <1>7, <2>3
      <4>2. v[j] = t[a + j - 1]
        BY <3>2, <3>3
      <4> HIDE DEF a
      <4> QED BY <2>4, <4>1, <4>2
    <3>6. v = y
      BY <1>3, <3>3, <3>4, <3>5, SeqEqual
    <3> QED BY <2>1, <3>6 DEF v
  <2>7. q # 0
    BY <1>2, <1>7
  <2> HIDE DEF a
  <2>8. next_word(t, i)[1] = a /\ next_word(t, i)[2] = q
    BY <2>2, <2>5
  <2> QED BY <1>10, <2>6, <2>7, <2>8 DEF t, q, w
<1> QED BY <1>4, <1>11, <1>12

\* Behind the last word there are no more.
LEMMA NoWordAtTheEnd ==
  ASSUME NEW text, Text(text), NEW i \in {Len(text), Len(text) + 1}
  PROVE  i \in 1..(Len(text) + 1) /\ next_word(text, i)[2] = 0
<1> DEFINE N == Len(text)
           b == skip(text, i)
<1>1. text \in Seq(Letter) /\ N \in Nat /\ N > 0 /\ text[N] = Blank /\ i \in 1..(N + 1)
  BY DEF Text
<1>2. /\ b \in i..(N + 1) /\ (b <= N => text[b] # Blank)
  BY <1>1, SkipStops
<1> HIDE DEF b
<1>3. b = N + 1
  BY <1>1, <1>2
<1>4. ~isQuoted(text, b)
  BY <1>1, <1>3 DEF isQuoted
<1>5. next_word(text, i) = <<b, strchr(text, b, Blank)>>
  BY <1>4 DEF next_word, quoted, plain, b
<1>6. strchr(text, b, Blank) = 0
  <2> DEFINE d == strchr(text, b, Blank)
  <2>1. b \in 1..(N + 2)
    BY <1>1, <1>3
  <2>2. d = 0 \/ d \in b..N
    BY <1>1, <2>1, StrchrFinds
  <2> HIDE DEF d
  <2>3. d = 0
    BY <1>1, <1>3, <2>2
  <2> QED BY <2>3 DEF d
<1> QED BY <1>1, <1>5, <1>6

\* The words from word k + 1 on.
Remaining(s, k) == [j \in 1..(Len(s) - k) |-> s[k + j].word]

LEMMA WordsOfALine ==
  ASSUME NEW s \in Seq(Typable), shell = "shiyan"
  PROVE  words(Typed(s)) = [k \in DOMAIN s |-> s[k].word]
<1> DEFINE t == Typed(s)
           N == Len(t)
           n == Len(s)
           F == From(t)
           At(k) == {BlankAfter(s, k), BlankAfter(s, k) + 1}
           Right(k) == \A i \in At(k) : F[i] = Remaining(s, k)
           Bad == {m \in 0..n : ~Right(n - m)}
<1>1. n \in Nat /\ Text(t) /\ N \in Nat /\ BlankAfter(s, n) = N
  BY LineShape DEF Text
<1>2. \A i \in 1..(N + 1) : F[i] = IF next_word(t, i)[2] = 0 THEN <<>>
             ELSE <<SubSeq(t, next_word(t, i)[1], next_word(t, i)[2] - 1)>> \o F[next_word(t, i)[2] + 1]
  BY <1>1, FromDefined
<1>3. \A k \in 1..n : \A i \in At(k - 1) : LET next == next_word(t, i) IN
         /\ i \in 1..(N + 1)
         /\ next[2] # 0
         /\ SubSeq(t, next[1], next[2] - 1) = s[k].word
         /\ next[2] + 1 \in At(k)
  BY QuotedWord
<1> HIDE DEF F
<1>4. Right(n)
  <2> SUFFICES ASSUME NEW i \in At(n) PROVE F[i] = Remaining(s, n)
    OBVIOUS
  <2>1. i \in {N, N + 1}
    BY <1>1
  <2> HIDE DEF At, N, t
  <2>2. i \in 1..(N + 1) /\ next_word(t, i)[2] = 0
    BY <1>1, <2>1, NoWordAtTheEnd DEF N
  <2>3. F[i] = <<>>
    BY <1>2, <2>2
  <2>4. Remaining(s, n) = <<>>
    <3>1. 1..(Len(s) - n) = {}
      BY <1>1
    <3>2. Remaining(s, n) = [j \in 1..0 |-> s[n + j].word]
      BY <1>1 DEF Remaining
    <3> QED BY <3>2
  <2> QED BY <2>3, <2>4
<1>5. ASSUME NEW k \in 1..n, Right(k) PROVE Right(k - 1)
  <2> SUFFICES ASSUME NEW i \in At(k - 1) PROVE F[i] = Remaining(s, k - 1)
    OBVIOUS
  <2> DEFINE e == next_word(t, i)[2] + 1
             w == s[k].word
             r == Remaining(s, k)
  <2>1. /\ i \in 1..(N + 1) /\ next_word(t, i)[2] # 0
        /\ SubSeq(t, next_word(t, i)[1], next_word(t, i)[2] - 1) = w
        /\ e \in At(k)
    BY <1>3
  <2>2. F[i] = <<w>> \o F[e]
    BY <1>2, <2>1
  <2>3. F[e] = r
    <3> HIDE DEF e, At
    <3> QED BY <1>5, <2>1
  <2>4. k \in 1..Len(s) /\ \A j \in 1..Len(s) : s[j].word \in Seq(Char)
    <3>1. \A j \in 1..Len(s) : s[j] \in Typable
      OBVIOUS
    <3> QED BY <3>1, TypableWords
  <2>5. /\ r \in Seq(Seq(Char)) /\ Len(r) = n - k
        /\ \A j \in 1..(n - k) : r[j] = s[k + j].word
    <3>1. \A j \in 1..(n - k) : s[k + j].word \in Seq(Char)
      BY <1>1, <2>4
    <3>2. n - k \in Nat
      BY <1>1
    <3>3. r = [j \in 1..(n - k) |-> s[k + j].word]
      BY DEF Remaining
    <3> HIDE DEF r
    <3> QED BY <3>1, <3>2, <3>3
  <2> DEFINE z == Remaining(s, k - 1)
  <2>6. /\ z \in Seq(Seq(Char)) /\ Len(z) = n - k + 1
        /\ \A j \in 1..(n - k + 1) : z[j] = s[k - 1 + j].word
    <3>1. \A j \in 1..(n - k + 1) : s[k - 1 + j].word \in Seq(Char)
      BY <1>1, <2>4
    <3>2. n - k + 1 \in Nat /\ Len(s) - (k - 1) = n - k + 1
      BY <1>1
    <3>3. z = [j \in 1..(Len(s) - (k - 1)) |-> s[k - 1 + j].word]
      BY DEF Remaining
    <3>4. z = [j \in 1..(n - k + 1) |-> s[k - 1 + j].word]
      BY <3>2, <3>3
    <3> HIDE DEF z
    <3> QED BY <3>1, <3>2, <3>4
  <2> DEFINE v == <<w>>
  <2>7. v \in Seq(Seq(Char)) /\ Len(v) = 1 /\ v[1] = w
    BY <2>4
  <2> HIDE DEF v, z, r, w
  <2>8. /\ v \o r \in Seq(Seq(Char)) /\ Len(v \o r) = Len(v) + Len(r)
        /\ \A j \in 1..(Len(v) + Len(r)) : (v \o r)[j] = IF j <= Len(v) THEN v[j] ELSE r[j - Len(v)]
    BY <2>5, <2>7, ConcatProperties
  <2>9. v \o r = z
    <3> DEFINE x == v \o r
    <3>1. x \in Seq(Seq(Char)) /\ Len(x) = Len(z)
      BY <2>5, <2>6, <2>7, <2>8, <1>1
    <3>2. \A j \in 1..(1 + Len(r)) : x[j] = IF j <= 1 THEN v[j] ELSE r[j - 1]
      BY <2>7, <2>8
    <3> HIDE DEF x
    <3>3. ASSUME NEW j \in 1..Len(z) PROVE x[j] = z[j]
      <4>1. j \in 1..(n - k + 1) /\ j \in 1..(1 + Len(r))
        BY <2>5, <2>6, <1>1
      <4>2. z[j] = s[k - 1 + j].word
        BY <2>6, <4>1
      <4>3. CASE j = 1
        <5>1. k - 1 + j = k /\ x[j] = w
          BY <3>2, <4>1, <4>3, <2>7
        <5> QED BY <4>2, <5>1 DEF w
      <4>4. CASE j # 1
        <5>1. j - 1 \in 1..(n - k) /\ k + (j - 1) = k - 1 + j
          BY <4>1, <4>4, <1>1
        <5>2. x[j] = r[j - 1]
          BY <3>2, <4>1, <4>4
        <5> QED BY <2>5, <4>2, <5>1, <5>2
      <4> QED BY <4>3, <4>4
    <3>4. x = z
      BY <2>6, <3>1, <3>3, SeqEqual
    <3> QED BY <3>4 DEF x
  <2> QED BY <2>2, <2>3, <2>9 DEF v, r, z
<1> HIDE DEF Right
<1>6. Bad = {}
  <2> SUFFICES ASSUME Bad # {} PROVE FALSE
    OBVIOUS
  <2>1. Bad \in SUBSET Nat
    BY <1>1
  <2>2. PICK m \in Bad : \A y \in Bad : m <= y
    <3> HIDE DEF Bad
    <3> QED BY <2>1, LeastIsFirst
  <2>3. m \in 0..n /\ ~Right(n - m)
    BY <2>2
  <2>4. m # 0
    <3>1. n - 0 = n
      BY <1>1
    <3> QED BY <1>4, <2>3, <3>1
  <2>5. m - 1 \in 0..n /\ m - 1 < m /\ n - (m - 1) \in 1..n /\ (n - (m - 1)) - 1 = n - m
    BY <1>1, <2>3, <2>4
  <2>6. ~Right(n - (m - 1))
    BY <1>5, <2>3, <2>5
  <2>7. m - 1 \in Bad
    BY <2>5, <2>6
  <2> HIDE DEF Bad
  <2> QED BY <2>2, <2>3, <2>5, <2>7, <1>1
<1>7. Right(0)
  <2>1. n \in 0..n /\ n - n = 0
    BY <1>1
  <2> QED BY <1>6, <2>1
<1>8. 1 \in At(0)
  BY LineShape
<1>9. F[1] = Remaining(s, 0)
  <2> HIDE DEF At
  <2> QED BY <1>7, <1>8 DEF Right
<1>10. Remaining(s, 0) = [k \in DOMAIN s |-> s[k].word]
  <2>1. Len(s) - 0 = Len(s) /\ DOMAIN s = 1..Len(s) /\ \A j \in 1..Len(s) : 0 + j = j
    OBVIOUS
  <2> QED BY <2>1 DEF Remaining
<1>11. words(t) = F[1]
  BY WordsAreFrom DEF F
<1> QED BY <1>9, <1>10, <1>11

\* The second half of WordsAreMeant.
LEMMA MeantWordsAreRun ==
  ASSUME NEW s \in Seq(Typable), shell = "shiyan", s # <<>>
  PROVE  LET asked == [k \in DOMAIN s |-> s[k].word]
             bg == background(asked) IN
         parseline(line(s) \o <<"n">>) =
           [words |-> SubSeq(asked, 1, Len(asked) - (IF bg THEN 1 ELSE 0)), bg |-> bg]
<1> DEFINE l == line(s)
           nl == <<"n">>
           bl == <<Blank>>
           c == l \o nl
           t == Typed(s)
           text == [c EXCEPT ![Len(c)] = Blank]
           asked == [k \in DOMAIN s |-> s[k].word]
           bg == background(asked)
<1>1. l \in Seq(Letter) /\ nl \in Seq(Letter) /\ Len(nl) = 1 /\ Len(l) \in Nat
  <2>1. "n" \in Letter
    BY Letters
  <2>2. l \in Seq(Letter)
    BY LineTyped
  <2> HIDE DEF l
  <2> QED BY <2>1, <2>2
<1>2. bl \in Seq(Letter) /\ Len(bl) = 1 /\ bl[1] = Blank /\ t = l \o bl
  BY OneBlank DEF Typed
<1> HIDE DEF l, nl, bl, t
<1>3. /\ c \in Seq(Letter) /\ Len(c) = Len(l) + Len(nl)
      /\ \A j \in 1..(Len(l) + Len(nl)) : c[j] = IF j <= Len(l) THEN l[j] ELSE nl[j - Len(l)]
  BY <1>1, ConcatProperties
<1>4. /\ t \in Seq(Letter) /\ Len(t) = Len(l) + Len(bl)
      /\ \A j \in 1..(Len(l) + Len(bl)) : t[j] = IF j <= Len(l) THEN l[j] ELSE bl[j - Len(l)]
  BY <1>1, <1>2, ConcatProperties
<1>5. text = t
  <2> DEFINE M == Len(l) + 1
  <2>1. M \in Nat /\ Len(c) = M /\ Len(t) = M /\ M \in 1..M /\ M - Len(l) = 1
    BY <1>1, <1>2, <1>3, <1>4
  <2>2. c # <<>>
    BY <2>1
  <2> HIDE DEF c
  <2>3. /\ Text(text) /\ Len(text) = M
        /\ \A j \in 1..M : text[j] = IF j = M THEN Blank ELSE c[j]
    <3>1. /\ Text(text) /\ Len(text) = Len(c)
          /\ \A j \in 1..Len(c) : text[j] = IF j = Len(c) THEN Blank ELSE c[j]
      BY <1>3, <2>2, PieceIsText
    <3> HIDE DEF text, M
    <3> QED BY <2>1, <3>1
  <2> HIDE DEF text
  <2>4. ASSUME NEW j \in 1..M PROVE text[j] = t[j]
    <3>1. CASE j = M
      <4>1. t[j] = bl[j - Len(l)]
        BY <1>1, <1>2, <1>4, <3>1
      <4> HIDE DEF M
      <4> QED BY <1>2, <2>1, <2>3, <3>1, <4>1
    <3>2. CASE j # M
      <4>1. j <= Len(l)
        BY <1>1, <3>2
      <4>2. t[j] = l[j] /\ c[j] = l[j]
        BY <1>1, <1>2, <1>3, <1>4, <4>1
      <4> QED BY <2>3, <3>2, <4>2
    <3> QED BY <3>1, <3>2
  <2>5. text \in Seq(Letter)
    BY <2>3 DEF Text
  <2> HIDE DEF M
  <2> QED BY <1>4, <2>1, <2>3, <2>4, <2>5, SeqEqual
<1>6. asked = words([c EXCEPT ![Len(c)] = Blank])
  <2>1. words(t) = asked
    BY WordsOfALine DEF t
  <2> HIDE DEF asked, c
  <2> QED BY <1>5, <2>1
<1> HIDE DEF c
<1>7. /\ background(asked) => parseline(c) = [words |-> SubSeq(asked, 1, Len(asked) - 1), bg |-> TRUE]
      /\ ~background(asked) => parseline(c) = [words |-> asked, bg |-> FALSE]
  <2> HIDE DEF asked
  <2> QED BY <1>6, ParselineIs
<1>8. asked \in Seq(Seq(Char)) /\ Len(asked) \in Nat
  <2>1. \A j \in 1..Len(s) : s[j] \in Typable
    OBVIOUS
  <2>2. \A j \in 1..Len(s) : s[j].word \in Seq(Char)
    BY <2>1, TypableWords
  <2>3. DOMAIN s = 1..Len(s) /\ Len(s) \in Nat
    OBVIOUS
  <2>4. asked \in Seq(Seq(Char))
    BY <2>2, <2>3
  <2> HIDE DEF asked
  <2> QED BY <2>4
<1> HIDE DEF asked
<1>9. CASE background(asked)
  <2>1. Len(asked) - (IF bg THEN 1 ELSE 0) = Len(asked) - 1 /\ bg = TRUE
    BY <1>9 DEF background
  <2> QED BY <1>7, <1>9, <2>1 DEF c, l, nl, asked
<1>10. CASE ~background(asked)
  <2>1. Len(asked) - (IF bg THEN 1 ELSE 0) = Len(asked) /\ bg = FALSE
    BY <1>8, <1>10 DEF background
  <2>2. SubSeq(asked, 1, Len(asked)) = asked
    BY <1>8, SubSeqFull
  <2> QED BY <1>7, <1>10, <2>1, <2>2 DEF c, l, nl, asked
<1> QED BY <1>9, <1>10

LEMMA InputGivesWords == InputInv => WordsAreMeant
<1> SUFFICES ASSUME InputInv PROVE WordsAreMeant
  OBVIOUS
<1>1. cmdline \in Seq(Letter) /\ (at = "eval" => cmdline # <<>>) /\ meant \in Seq(Typable)
      /\ shell \in {"shiyan", "eval"}
  BY DEF InputInv, TypeOK
<1>2. ASSUME at = "eval", "'" \notin ToSet(cmdline) \/ shell = "eval"
      PROVE  LET text == [cmdline EXCEPT ![Len(cmdline)] = Blank]
                 begins == {k \in DOMAIN text : text[k] # Blank /\ (k = 1 \/ text[k - 1] = Blank)}
                 argv == parseline(cmdline).words
                 dropped == IF parseline(cmdline).bg THEN 1 ELSE 0 IN
             /\ Cardinality(begins) = Len(argv) + dropped
             /\ \A b \in begins : LET k == Cardinality({c \in begins : c <= b}) IN
                  IF k > Len(argv) THEN text[b] = "&"
                  ELSE /\ argv[k] = SubSeq(text, b, b + Len(argv[k]) - 1)
                       /\ text[b + Len(argv[k])] = Blank
  <2>1. cmdline # <<>>
    BY <1>1, <1>2
  <2> QED BY <1>1, <1>2, <2>1, PlainWordsAreMeant
<1>3. ASSUME at = "eval", shell = "shiyan", meant # <<>>, cmdline = line(meant) \o <<"n">>
      PROVE  LET asked == [k \in DOMAIN meant |-> meant[k].word]
                 bg == background(asked) IN
             parseline(cmdline) = [words |-> SubSeq(asked, 1, Len(asked) - (IF bg THEN 1 ELSE 0)), bg |-> bg]
  BY <1>1, <1>3, MeantWordsAreRun
<1> QED BY <1>2, <1>3 DEF WordsAreMeant

\* The words that are run are the words in the line, for lines of any length
\* and any number of words, with any blanks between them, in quotes or not.
THEOREM WordsAreRun == Spec => []WordsAreMeant
<1>1. Init => InputInv
  BY InitGivesInput
<1>2. InputInv /\ [Next]_vars => InputInv'
  BY NextKeepsInput
<1>3. InputInv => WordsAreMeant
  BY InputGivesWords
<1> QED BY <1>1, <1>2, <1>3, PTL DEF Spec
=============================================================================
