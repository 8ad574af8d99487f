-------------------------- MODULE ExercisesProofs --------------------------
(***************************************************************************)
(* Safety of the machine of module Exercises for any number of processes,  *)
(* of typed lines and of bytes in a file.  What the programs are like is   *)
(* shown first, instruction by instruction: jumps go to lines that exist,  *)
(* and main() and the handlers of an exercise share no instruction.        *)
(***************************************************************************)
EXTENDS Exercises, FiniteSetTheorems, SequenceTheorems, WellFoundedInduction, TLAPS

-----------------------------------------------------------------------------
(* The programs.                                                            *)

VarName == {"i", "n", "child", "pid", "fd1", "fd2", "stdin", "stdout"}
FdVar == {"fd1", "fd2", "stdin", "stdout"}

\* After these operations the next instruction may run.
Falls == {"loop", "background", "foreground", "add", "atexit", "addjob", "deletejob", "put",
          "say", "fork", "exec", "wait", "kill", "signal", "sleep", "pause", "alarm", "leave",
          "open", "pipe", "close", "closeall", "dup2", "read", "write", "mmap", "writefile",
          "stat", "lookup", "thread", "join", "load", "store"}

Lines(P) == {P[k][1] : k \in DOMAIN P}

\* Line l is in main() if instruction k is, and in a handler if k is: the
\* handlers of program P begin at instruction h.  Only fork leads to addjob.
Near(P, h, k, l) ==
  l \in Lines(P) /\ \A j \in DOMAIN P : P[j][1] = l => (j < h <=> k < h) /\ P[j][2] # "addjob"

InMain(P, h, l) ==
  l \in Lines(P) /\ \A j \in DOMAIN P : P[j][1] = l => j < h /\ P[j][2] # "addjob"

InHandlers(P, h, l) ==
  l \in Lines(P) /\ \A j \in DOMAIN P : P[j][1] = l => j >= h

\* Where instruction k may lead to.
GoesOn(P, h, k) ==
  LET i == P[k] IN
  /\ i[2] \in Falls => k + 1 \in DOMAIN P /\ k + 1 # h /\ P[k + 1][2] # "addjob"
  /\ i[2] \in {"goto", "foreground"} => Near(P, h, k, i[3])
  /\ i[2] \in {"loop", "read"} => Near(P, h, k, i[4])
  /\ i[2] \in {"wait", "open"} => i[4] = 0 \/ Near(P, h, k, i[4])
  /\ i[2] \in {"pipe", "mmap", "stat", "lookup"} => i[3] = 0 \/ Near(P, h, k, i[3])
  /\ i[2] = "either" => \A l \in i[3] : Near(P, h, k, l)
  /\ i[2] = "input" => Near(P, h, k, i[4]) /\ \A l \in i[3] : Near(P, h, k, l)
  /\ i[2] = "fork" => /\ i[3] \in Lines(P) /\ \A j \in DOMAIN P : P[j][1] = i[3] => j < h
                      /\ i[4] = 0 \/ InMain(P, h, i[4])
  /\ i[2] = "thread" => InMain(P, h, i[3]) /\ (i[4] = 0 \/ InMain(P, h, i[4]))

\* What starts, leaves or knows of handlers.
Jumps(P, h, k) ==
  LET i == P[k] IN
  /\ i[2] \in {"fork", "thread", "exec", "setjmp", "atexit", "signal", "addjob"} => k < h
  /\ i[2] = "return" => k >= h
  /\ i[2] = "exec" => i[3] \in DOMAIN Program
  /\ i[2] = "signal" /\ i[3] # "KILL" => i[3] \in Sig /\ InHandlers(P, h, i[4])
  /\ \A j \in DOMAIN P : P[j][2] = "atexit" => Near(P, h, k, P[j][3])
  /\ i[2] = "setjmp" => InMain(P, h, i[3][1])
  /\ i[2] = "longjmp" => \A j \in DOMAIN P : P[j][2] = "setjmp" => InMain(P, h, P[j][3][i[3] + 1])

\* The types of lines and arguments.
Typed(P, k) ==
  LET i == P[k] IN
  /\ i[1] \in Nat
  /\ i[2] \in {"put", "say"} => Len(i) = 2 \/ i[3] \in VarName
  /\ i[2] = "add" => i[3] \in Int
  /\ i[2] = "loop" => i[3] \in Nat
  /\ i[2] = "alarm" => i[3] = TRUE \/ i[3] = FALSE
  /\ i[2] = "atexit" => i[3] \in Nat
  /\ i[2] = "signal" => i[4] \in Nat
  /\ i[2] = "open" => i[3] \in {"fd1", "fd2"}
  /\ i[2] \in {"close", "read", "write"} => i[3] \in FdVar
  /\ i[2] = "dup2" => i[3] \in FdVar /\ i[4] \in FdVar
  /\ i[2] = "kill" => i[4] \in Sig

\* The first instruction of the handlers, which come last; 99 in a program
\* that has none.
Handlers == [sigint1 |-> 4, snooze |-> 7, myalarm |-> 4, restart |-> 11, tfgets |-> 11,
             count_signals |-> 12, signal1 |-> 10, signal2 |-> 10, signal3 |-> 10,
             promask1 |-> 6, shell8_26 |-> 18]
cut(c) == IF c \in DOMAIN Handlers THEN Handlers[c] ELSE 99

\* The next instruction and the lines of jumps are in main() or in a handler,
\* like the instruction they come from.
LEMMA ProgramsGoOn == \A c \in DOMAIN Program : \A k \in DOMAIN Program[c] : GoesOn(Program[c], cut(c), k)
<1> USE DEF GoesOn, Falls, Near, InMain, Lines
<1>1. \A k \in DOMAIN exam1 : GoesOn(exam1, 99, k) BY DEF exam1
<1>2. \A k \in DOMAIN exam2 : GoesOn(exam2, 99, k) BY DEF exam2
<1>3. \A k \in DOMAIN exam3 : GoesOn(exam3, 99, k) BY DEF exam3
<1>4. \A k \in DOMAIN test : GoesOn(test, 99, k) BY DEF test
<1>5. \A k \in DOMAIN kill : GoesOn(kill, 99, k) BY DEF kill
<1>6. \A k \in DOMAIN sigint1 : GoesOn(sigint1, 4, k) BY DEF sigint1
<1>7. \A k \in DOMAIN snooze : GoesOn(snooze, 7, k) BY DEF snooze
<1>8. \A k \in DOMAIN myalarm : GoesOn(myalarm, 4, k) BY DEF myalarm
<1>9. \A k \in DOMAIN setjmpmy : GoesOn(setjmpmy, 99, k) BY DEF setjmpmy
<1>10. \A k \in DOMAIN restart : GoesOn(restart, 11, k) BY DEF restart, Passes
<1>11. \A k \in DOMAIN tfgets : GoesOn(tfgets, 11, k) BY DEF tfgets
<1>12. \A k \in DOMAIN count_signals : GoesOn(count_signals, 12, k) BY DEF count_signals
<1>13. \A k \in DOMAIN crashes : GoesOn(crashes, 99, k) BY DEF crashes
<1>14. \A k \in DOMAIN signal1 : GoesOn(signal1, 10, k) BY DEF signal1
<1>15. \A k \in DOMAIN signal2 : GoesOn(signal2, 10, k) BY DEF signal2
<1>16. \A k \in DOMAIN signal3 : GoesOn(signal3, 10, k) BY DEF signal3
<1>17. \A k \in DOMAIN promask1 : GoesOn(promask1, 6, k) BY DEF promask1
<1>18. \A k \in DOMAIN mysystem : GoesOn(mysystem, 99, k) BY DEF mysystem
<1>19. \A k \in DOMAIN eval : GoesOn(eval, 99, k) BY DEF eval
<1>20. \A k \in DOMAIN shell8_26 : GoesOn(shell8_26, 18, k) BY DEF shell8_26
<1>21. \A k \in DOMAIN pipetest : GoesOn(pipetest, 99, k) BY DEF pipetest
<1>22. \A k \in DOMAIN daemon : GoesOn(daemon, 99, k) BY DEF daemon
<1>23. \A k \in DOMAIN open10_1 : GoesOn(open10_1, 99, k) BY DEF open10_1
<1>24. \A k \in DOMAIN share10_5 : GoesOn(share10_5, 99, k) BY DEF share10_5
<1>25. \A k \in DOMAIN open10_6 : GoesOn(open10_6, 99, k) BY DEF open10_6
<1>26. \A k \in DOMAIN cpfile : GoesOn(cpfile, 99, k) BY DEF cpfile
<1>27. \A k \in DOMAIN mmapcopy : GoesOn(mmapcopy, 99, k) BY DEF mmapcopy
<1>28. \A k \in DOMAIN statcheck : GoesOn(statcheck, 99, k) BY DEF statcheck
<1>29. \A k \in DOMAIN fstatcheck : GoesOn(fstatcheck, 99, k) BY DEF fstatcheck
<1>30. \A k \in DOMAIN hostinfo : GoesOn(hostinfo, 99, k) BY DEF hostinfo
<1>31. \A k \in DOMAIN exec8_20 : GoesOn(exec8_20, 99, k) BY DEF exec8_20
<1>32. \A k \in DOMAIN sharing : GoesOn(sharing, 99, k) BY DEF sharing
<1>33. \A k \in DOMAIN threadhello : GoesOn(threadhello, 99, k) BY DEF threadhello
<1>34. \A k \in DOMAIN testthread : GoesOn(testthread, 99, k) BY DEF testthread
<1>35. \A k \in DOMAIN command : GoesOn(command, 99, k) BY DEF command
<1>36. \A k \in DOMAIN ls : GoesOn(ls, 99, k) BY DEF ls
<1>37. \A k \in DOMAIN more : GoesOn(more, 99, k) BY DEF more
<1> HIDE DEF GoesOn, Falls, Near, InMain, Lines
<1> QED BY <1>1, <1>2, <1>3, <1>4, <1>5, <1>6, <1>7, <1>8, <1>9, <1>10, <1>11, <1>12,
           <1>13, <1>14, <1>15, <1>16, <1>17, <1>18, <1>19, <1>20, <1>21, <1>22, <1>23,
           <1>24, <1>25, <1>26, <1>27, <1>28, <1>29, <1>30, <1>31, <1>32, <1>33, <1>34,
           <1>35, <1>36, <1>37     DEF Program, cut, Handlers

\* Handlers are entered and left by signals, "return" and "longjmp" only.
LEMMA ProgramsJump == \A c \in DOMAIN Program : \A k \in DOMAIN Program[c] : Jumps(Program[c], cut(c), k)
<1> USE DEF Jumps, Near, InMain, InHandlers, Lines, Sig, Program
<1>1. \A k \in DOMAIN exam1 : Jumps(exam1, 99, k) BY DEF exam1
<1>2. \A k \in DOMAIN exam2 : Jumps(exam2, 99, k) BY DEF exam2
<1>3. \A k \in DOMAIN exam3 : Jumps(exam3, 99, k) BY DEF exam3
<1>4. \A k \in DOMAIN test : Jumps(test, 99, k) BY DEF test
<1>5. \A k \in DOMAIN kill : Jumps(kill, 99, k) BY DEF kill
<1>6. \A k \in DOMAIN sigint1 : Jumps(sigint1, 4, k) BY DEF sigint1
<1>7. \A k \in DOMAIN snooze : Jumps(snooze, 7, k) BY DEF snooze
<1>8. \A k \in DOMAIN myalarm : Jumps(myalarm, 4, k) BY DEF myalarm
<1>9. \A k \in DOMAIN setjmpmy : Jumps(setjmpmy, 99, k) BY DEF setjmpmy
<1>10. \A k \in DOMAIN restart : Jumps(restart, 11, k) BY DEF restart, Passes
<1>11. \A k \in DOMAIN tfgets : Jumps(tfgets, 11, k) BY DEF tfgets
<1>12. \A k \in DOMAIN count_signals : Jumps(count_signals, 12, k) BY DEF count_signals
<1>13. \A k \in DOMAIN crashes : Jumps(crashes, 99, k) BY DEF crashes
<1>14. \A k \in DOMAIN signal1 : Jumps(signal1, 10, k) BY DEF signal1
<1>15. \A k \in DOMAIN signal2 : Jumps(signal2, 10, k) BY DEF signal2
<1>16. \A k \in DOMAIN signal3 : Jumps(signal3, 10, k) BY DEF signal3
<1>17. \A k \in DOMAIN promask1 : Jumps(promask1, 6, k) BY DEF promask1
<1>18. \A k \in DOMAIN mysystem : Jumps(mysystem, 99, k) BY DEF mysystem
<1>19. \A k \in DOMAIN eval : Jumps(eval, 99, k) BY DEF eval
<1>20. \A k \in DOMAIN shell8_26 : Jumps(shell8_26, 18, k) BY SMTT(60) DEF shell8_26
<1>21. \A k \in DOMAIN pipetest : Jumps(pipetest, 99, k) BY DEF pipetest
<1>22. \A k \in DOMAIN daemon : Jumps(daemon, 99, k) BY DEF daemon
<1>23. \A k \in DOMAIN open10_1 : Jumps(open10_1, 99, k) BY DEF open10_1
<1>24. \A k \in DOMAIN share10_5 : Jumps(share10_5, 99, k) BY DEF share10_5
<1>25. \A k \in DOMAIN open10_6 : Jumps(open10_6, 99, k) BY DEF open10_6
<1>26. \A k \in DOMAIN cpfile : Jumps(cpfile, 99, k) BY DEF cpfile
<1>27. \A k \in DOMAIN mmapcopy : Jumps(mmapcopy, 99, k) BY DEF mmapcopy
<1>28. \A k \in DOMAIN statcheck : Jumps(statcheck, 99, k) BY DEF statcheck
<1>29. \A k \in DOMAIN fstatcheck : Jumps(fstatcheck, 99, k) BY DEF fstatcheck
<1>30. \A k \in DOMAIN hostinfo : Jumps(hostinfo, 99, k) BY DEF hostinfo
<1>31. \A k \in DOMAIN exec8_20 : Jumps(exec8_20, 99, k) BY DEF exec8_20
<1>32. \A k \in DOMAIN sharing : Jumps(sharing, 99, k) BY DEF sharing
<1>33. \A k \in DOMAIN threadhello : Jumps(threadhello, 99, k) BY DEF threadhello
<1>34. \A k \in DOMAIN testthread : Jumps(testthread, 99, k) BY DEF testthread
<1>35. \A k \in DOMAIN command : Jumps(command, 99, k) BY DEF command
<1>36. \A k \in DOMAIN ls : Jumps(ls, 99, k) BY DEF ls
<1>37. \A k \in DOMAIN more : Jumps(more, 99, k) BY DEF more
<1> HIDE DEF Jumps, Near, InMain, InHandlers, Lines, Sig, Program
<1> QED BY <1>1, <1>2, <1>3, <1>4, <1>5, <1>6, <1>7, <1>8, <1>9, <1>10, <1>11, <1>12,
           <1>13, <1>14, <1>15, <1>16, <1>17, <1>18, <1>19, <1>20, <1>21, <1>22, <1>23,
           <1>24, <1>25, <1>26, <1>27, <1>28, <1>29, <1>30, <1>31, <1>32, <1>33, <1>34,
           <1>35, <1>36, <1>37     DEF Program, cut, Handlers

\* Lines are numbers, and arguments what their operations take.
LEMMA ProgramsTyped == \A c \in DOMAIN Program : \A k \in DOMAIN Program[c] : Typed(Program[c], k)
<1> USE DEF Typed, Sig, VarName, FdVar
<1>1. \A k \in DOMAIN exam1 : Typed(exam1, k) BY DEF exam1
<1>2. \A k \in DOMAIN exam2 : Typed(exam2, k) BY DEF exam2
<1>3. \A k \in DOMAIN exam3 : Typed(exam3, k) BY DEF exam3
<1>4. \A k \in DOMAIN test : Typed(test, k) BY DEF test
<1>5. \A k \in DOMAIN kill : Typed(kill, k) BY DEF kill
<1>6. \A k \in DOMAIN sigint1 : Typed(sigint1, k) BY DEF sigint1
<1>7. \A k \in DOMAIN snooze : Typed(snooze, k) BY DEF snooze
<1>8. \A k \in DOMAIN myalarm : Typed(myalarm, k) BY DEF myalarm
<1>9. \A k \in DOMAIN setjmpmy : Typed(setjmpmy, k) BY DEF setjmpmy
<1>10. \A k \in DOMAIN restart : Typed(restart, k) BY DEF restart, Passes
<1>11. \A k \in DOMAIN tfgets : Typed(tfgets, k) BY DEF tfgets
<1>12. \A k \in DOMAIN count_signals : Typed(count_signals, k) BY DEF count_signals
<1>13. \A k \in DOMAIN crashes : Typed(crashes, k) BY DEF crashes
<1>14. \A k \in DOMAIN signal1 : Typed(signal1, k) BY DEF signal1
<1>15. \A k \in DOMAIN signal2 : Typed(signal2, k) BY DEF signal2
<1>16. \A k \in DOMAIN signal3 : Typed(signal3, k) BY DEF signal3
<1>17. \A k \in DOMAIN promask1 : Typed(promask1, k) BY DEF promask1
<1>18. \A k \in DOMAIN mysystem : Typed(mysystem, k) BY DEF mysystem
<1>19. \A k \in DOMAIN eval : Typed(eval, k) BY DEF eval
<1>20. \A k \in DOMAIN shell8_26 : Typed(shell8_26, k) BY DEF shell8_26
<1>21. \A k \in DOMAIN pipetest : Typed(pipetest, k) BY DEF pipetest
<1>22. \A k \in DOMAIN daemon : Typed(daemon, k) BY DEF daemon
<1>23. \A k \in DOMAIN open10_1 : Typed(open10_1, k) BY DEF open10_1
<1>24. \A k \in DOMAIN share10_5 : Typed(share10_5, k) BY DEF share10_5
<1>25. \A k \in DOMAIN open10_6 : Typed(open10_6, k) BY DEF open10_6
<1>26. \A k \in DOMAIN cpfile : Typed(cpfile, k) BY DEF cpfile
<1>27. \A k \in DOMAIN mmapcopy : Typed(mmapcopy, k) BY DEF mmapcopy
<1>28. \A k \in DOMAIN statcheck : Typed(statcheck, k) BY DEF statcheck
<1>29. \A k \in DOMAIN fstatcheck : Typed(fstatcheck, k) BY DEF fstatcheck
<1>30. \A k \in DOMAIN hostinfo : Typed(hostinfo, k) BY DEF hostinfo
<1>31. \A k \in DOMAIN exec8_20 : Typed(exec8_20, k) BY DEF exec8_20
<1>32. \A k \in DOMAIN sharing : Typed(sharing, k) BY DEF sharing
<1>33. \A k \in DOMAIN threadhello : Typed(threadhello, k) BY DEF threadhello
<1>34. \A k \in DOMAIN testthread : Typed(testthread, k) BY DEF testthread
<1>35. \A k \in DOMAIN command : Typed(command, k) BY DEF command
<1>36. \A k \in DOMAIN ls : Typed(ls, k) BY DEF ls
<1>37. \A k \in DOMAIN more : Typed(more, k) BY DEF more
<1> HIDE DEF Typed, Sig, VarName, FdVar
<1> QED BY <1>1, <1>2, <1>3, <1>4, <1>5, <1>6, <1>7, <1>8, <1>9, <1>10, <1>11, <1>12,
           <1>13, <1>14, <1>15, <1>16, <1>17, <1>18, <1>19, <1>20, <1>21, <1>22, <1>23,
           <1>24, <1>25, <1>26, <1>27, <1>28, <1>29, <1>30, <1>31, <1>32, <1>33, <1>34,
           <1>35, <1>36, <1>37     DEF Program, cut, Handlers

\* main() comes first.
LEMMA ProgramsBegin ==
  \A c \in DOMAIN Program : /\ 1 \in DOMAIN Program[c] /\ 1 < cut(c) /\ Program[c][1][2] # "addjob"
                            /\ DOMAIN Program[c] \subseteq Nat
<1>1. 1 \in DOMAIN exam1 /\ exam1[1][2] # "addjob" /\ DOMAIN exam1 \subseteq Nat BY DEF exam1
<1>2. 1 \in DOMAIN exam2 /\ exam2[1][2] # "addjob" /\ DOMAIN exam2 \subseteq Nat BY DEF exam2
<1>3. 1 \in DOMAIN exam3 /\ exam3[1][2] # "addjob" /\ DOMAIN exam3 \subseteq Nat BY DEF exam3
<1>4. 1 \in DOMAIN test /\ test[1][2] # "addjob" /\ DOMAIN test \subseteq Nat BY DEF test
<1>5. 1 \in DOMAIN kill /\ kill[1][2] # "addjob" /\ DOMAIN kill \subseteq Nat BY DEF kill
<1>6. 1 \in DOMAIN sigint1 /\ sigint1[1][2] # "addjob" /\ DOMAIN sigint1 \subseteq Nat BY DEF sigint1
<1>7. 1 \in DOMAIN snooze /\ snooze[1][2] # "addjob" /\ DOMAIN snooze \subseteq Nat BY DEF snooze
<1>8. 1 \in DOMAIN myalarm /\ myalarm[1][2] # "addjob" /\ DOMAIN myalarm \subseteq Nat BY DEF myalarm
<1>9. 1 \in DOMAIN setjmpmy /\ setjmpmy[1][2] # "addjob" /\ DOMAIN setjmpmy \subseteq Nat BY DEF setjmpmy
<1>10. 1 \in DOMAIN restart /\ restart[1][2] # "addjob" /\ DOMAIN restart \subseteq Nat BY DEF restart
<1>11. 1 \in DOMAIN tfgets /\ tfgets[1][2] # "addjob" /\ DOMAIN tfgets \subseteq Nat BY DEF tfgets
<1>12. 1 \in DOMAIN count_signals /\ count_signals[1][2] # "addjob" /\ DOMAIN count_signals \subseteq Nat BY DEF count_signals
<1>13. 1 \in DOMAIN crashes /\ crashes[1][2] # "addjob" /\ DOMAIN crashes \subseteq Nat BY DEF crashes
<1>14. 1 \in DOMAIN signal1 /\ signal1[1][2] # "addjob" /\ DOMAIN signal1 \subseteq Nat BY DEF signal1
<1>15. 1 \in DOMAIN signal2 /\ signal2[1][2] # "addjob" /\ DOMAIN signal2 \subseteq Nat BY DEF signal2
<1>16. 1 \in DOMAIN signal3 /\ signal3[1][2] # "addjob" /\ DOMAIN signal3 \subseteq Nat BY DEF signal3
<1>17. 1 \in DOMAIN promask1 /\ promask1[1][2] # "addjob" /\ DOMAIN promask1 \subseteq Nat BY DEF promask1
<1>18. 1 \in DOMAIN mysystem /\ mysystem[1][2] # "addjob" /\ DOMAIN mysystem \subseteq Nat BY DEF mysystem
<1>19. 1 \in DOMAIN eval /\ eval[1][2] # "addjob" /\ DOMAIN eval \subseteq Nat BY DEF eval
<1>20. 1 \in DOMAIN shell8_26 /\ shell8_26[1][2] # "addjob" /\ DOMAIN shell8_26 \subseteq Nat BY DEF shell8_26
<1>21. 1 \in DOMAIN pipetest /\ pipetest[1][2] # "addjob" /\ DOMAIN pipetest \subseteq Nat BY DEF pipetest
<1>22. 1 \in DOMAIN daemon /\ daemon[1][2] # "addjob" /\ DOMAIN daemon \subseteq Nat BY DEF daemon
<1>23. 1 \in DOMAIN open10_1 /\ open10_1[1][2] # "addjob" /\ DOMAIN open10_1 \subseteq Nat BY DEF open10_1
<1>24. 1 \in DOMAIN share10_5 /\ share10_5[1][2] # "addjob" /\ DOMAIN share10_5 \subseteq Nat BY DEF share10_5
<1>25. 1 \in DOMAIN open10_6 /\ open10_6[1][2] # "addjob" /\ DOMAIN open10_6 \subseteq Nat BY DEF open10_6
<1>26. 1 \in DOMAIN cpfile /\ cpfile[1][2] # "addjob" /\ DOMAIN cpfile \subseteq Nat BY DEF cpfile
<1>27. 1 \in DOMAIN mmapcopy /\ mmapcopy[1][2] # "addjob" /\ DOMAIN mmapcopy \subseteq Nat BY DEF mmapcopy
<1>28. 1 \in DOMAIN statcheck /\ statcheck[1][2] # "addjob" /\ DOMAIN statcheck \subseteq Nat BY DEF statcheck
<1>29. 1 \in DOMAIN fstatcheck /\ fstatcheck[1][2] # "addjob" /\ DOMAIN fstatcheck \subseteq Nat BY DEF fstatcheck
<1>30. 1 \in DOMAIN hostinfo /\ hostinfo[1][2] # "addjob" /\ DOMAIN hostinfo \subseteq Nat BY DEF hostinfo
<1>31. 1 \in DOMAIN exec8_20 /\ exec8_20[1][2] # "addjob" /\ DOMAIN exec8_20 \subseteq Nat BY DEF exec8_20
<1>32. 1 \in DOMAIN sharing /\ sharing[1][2] # "addjob" /\ DOMAIN sharing \subseteq Nat BY DEF sharing
<1>33. 1 \in DOMAIN threadhello /\ threadhello[1][2] # "addjob" /\ DOMAIN threadhello \subseteq Nat BY DEF threadhello
<1>34. 1 \in DOMAIN testthread /\ testthread[1][2] # "addjob" /\ DOMAIN testthread \subseteq Nat BY DEF testthread
<1>35. 1 \in DOMAIN command /\ command[1][2] # "addjob" /\ DOMAIN command \subseteq Nat BY DEF command
<1>36. 1 \in DOMAIN ls /\ ls[1][2] # "addjob" /\ DOMAIN ls \subseteq Nat BY DEF ls
<1>37. 1 \in DOMAIN more /\ more[1][2] # "addjob" /\ DOMAIN more \subseteq Nat BY DEF more
<1> QED BY <1>1, <1>2, <1>3, <1>4, <1>5, <1>6, <1>7, <1>8, <1>9, <1>10, <1>11, <1>12,
           <1>13, <1>14, <1>15, <1>16, <1>17, <1>18, <1>19, <1>20, <1>21, <1>22, <1>23,
           <1>24, <1>25, <1>26, <1>27, <1>28, <1>29, <1>30, <1>31, <1>32, <1>33, <1>34,
           <1>35, <1>36, <1>37 DEF Program, cut, Handlers

-----------------------------------------------------------------------------
(* Processes: their types and their place in their programs.                *)

Blockable == Sig \ {"KILL"}
Frame == [pc : Nat, mask : SUBSET Blockable]
Var == [i : Int, n : Int, child : Pid \cup {0}, pid : Pid \cup {0},
        fd1 : Fd, fd2 : Fd, stdin : Fd, stdout : Fd]
Jump == [pc : Nat, depth : Nat, mask : SUBSET Blockable, left : BOOLEAN]
Process ==
  [st : {"none", "run", "zombie", "gone"}, parent : Pid \cup {0}, leader : Pid,
   code : DOMAIN Program, pc : Nat, var : Var, out : Seq(Entry), frames : Seq(Frame),
   mask : SUBSET Blockable, pending : SUBSET Sig, handler : [Sig -> Nat], alarm : BOOLEAN,
   atexit : Nat, jump : Jump, jobs : SUBSET Pid, fd : [Fd -> Nat]]

text(r) == Program[r.code]

\* Where main() is, though a handler may have interrupted it.
mainPc(r) == IF r.frames = <<>> THEN r.pc ELSE r.frames[1].pc

\* A process is in main() or in a handler, which returns to main() or to
\* another handler; signals are blocked in handlers only.
Nested(r) ==
  /\ r.pc \in DOMAIN text(r) /\ (r.pc < cut(r.code) <=> r.frames = <<>>)
  /\ r.frames = <<>> => r.mask = {}
  /\ r.frames # <<>> => r.frames[1].pc < cut(r.code) /\ r.frames[1].mask = {}
  /\ \A k \in DOMAIN r.frames : /\ r.frames[k].pc \in DOMAIN text(r)
                                /\ k # 1 => ~(r.frames[k].pc < cut(r.code))
  /\ text(r)[mainPc(r)][2] = "addjob" => r.var.child \in Pid

\* Handlers are handlers of the program, never of SIGKILL; atexit and setjmp
\* were called in main().
Installed(r) ==
  /\ \A s \in Sig : r.handler[s] = 0 \/ InHandlers(text(r), cut(r.code), r.handler[s])
  /\ r.handler["KILL"] = 0
  /\ r.atexit # 0 => \E j \in DOMAIN text(r) : text(r)[j][2] = "atexit" /\ text(r)[j][3] = r.atexit
  /\ r.jump.pc # 0 => /\ r.jump.pc \in DOMAIN text(r) /\ text(r)[r.jump.pc][2] = "setjmp"
                      /\ r.jump.depth = 0 /\ r.jump.mask = {}

\* n files have been opened.
Good(r, n) ==
  r \in Process /\ Nested(r) /\ Installed(r) /\ \A f \in Fd : r.fd[f] <= n

LEMMA Setting ==
  /\ MaxPid \in Nat \ {0} /\ MaxTyped \in Nat /\ FileSize \in Nat
  /\ Pid = 1..MaxPid /\ 1 \in Pid /\ Pid \subseteq Nat \ {0}
  BY ExercisesAssumption DEF Pid

LessThan == {ss \in Nat \X Nat : ss[1] < ss[2]}

\* A set of natural numbers has a least element.
LEMMA LeastIsMember ==
  ASSUME NEW S \in SUBSET Nat, S # {}
  PROVE  Least(S) \in S
<1>1. IsWellFoundedOn(LessThan, Nat)
  BY NatLessThanWellFounded DEF OpToRel, LessThan
<1>2. PICK x \in S : \A y \in S : ~(<<y, x>> \in LessThan)
  BY <1>1, WFMin
<1>3. ASSUME NEW y \in S PROVE x <= y
  <2>1. y < x => <<y, x>> \in LessThan
    BY DEF LessThan
  <2> QED BY <1>2, <2>1
<1> QED BY <1>3 DEF Least

\* What is known of the instruction that a process is about to run.
LEMMA InstructionFacts ==
  ASSUME NEW r, NEW n \in Nat, Good(r, n)
  PROVE  /\ r \in Process /\ r.code \in DOMAIN Program /\ r.pc \in DOMAIN text(r) /\ r.pc \in Nat
         /\ cut(r.code) \in Nat /\ DOMAIN text(r) \subseteq Nat
         /\ GoesOn(text(r), cut(r.code), r.pc)
         /\ Jumps(text(r), cut(r.code), r.pc)
         /\ Typed(text(r), r.pc)
<1>1. r \in Process /\ r.code \in DOMAIN Program /\ r.pc \in Nat /\ r.pc \in DOMAIN text(r)
  BY DEF Good, Nested, Process
<1>2. cut(r.code) \in Nat
  BY <1>1 DEF cut, Handlers
<1> QED BY <1>1, <1>2, ProgramsGoOn, ProgramsJump, ProgramsTyped, ProgramsBegin DEF text

\* A process may change its data and move within main() or within a handler;
\* it is at addjob only with a child.
LEMMA MoveGood ==
  ASSUME NEW r, NEW n \in Nat, Good(r, n), NEW s \in Process, NEW m \in Nat,
         s.code = r.code, s.frames = r.frames, s.mask = r.mask,
         s.handler = r.handler, s.atexit = r.atexit, s.jump = r.jump,
         s.pc \in DOMAIN text(r), s.pc < cut(r.code) <=> r.pc < cut(r.code),
         \/ r.frames # <<>> /\ s.var.child = r.var.child
         \/ r.frames = <<>> /\ (text(r)[s.pc][2] = "addjob" => s.var.child \in Pid),
         \A f \in Fd : s.fd[f] <= m
  PROVE  Good(s, m)
<1>1. Nested(s)
  BY DEF Good, Nested, text, mainPc
<1>2. Installed(s)
  BY DEF Good, Installed, text
<1> QED BY <1>1, <1>2 DEF Good

\* A process may change its data.
LEMMA DataGood ==
  ASSUME NEW r, NEW n \in Nat, Good(r, n), NEW s \in Process, NEW m \in Nat,
         s.code = r.code, s.pc = r.pc, s.frames = r.frames, s.mask = r.mask,
         s.handler = r.handler, s.atexit = r.atexit, s.jump = r.jump,
         s.var.child = r.var.child, \A f \in Fd : s.fd[f] <= m
  PROVE  Good(s, m)
  BY MoveGood, InstructionFacts DEF Good, Nested, mainPc

\* It may go on with the next instruction.
LEMMA NextGood ==
  ASSUME NEW r, NEW n \in Nat, Good(r, n), text(r)[r.pc][2] \in Falls
  PROVE  /\ Good(next(r), n) /\ next(r).pc = r.pc + 1 /\ next(r).frames = r.frames
         /\ next(r).var = r.var /\ next(r).fd = r.fd /\ next(r).code = r.code
         /\ next(r).mask = r.mask /\ next(r).handler = r.handler /\ next(r).jump = r.jump
         /\ next(r).st = r.st
<1> DEFINE s == next(r)
<1>1. /\ r.pc + 1 \in DOMAIN text(r) /\ r.pc + 1 # cut(r.code) /\ text(r)[r.pc + 1][2] # "addjob"
      /\ r \in Process /\ r.pc \in Nat /\ r.pc + 1 \in Nat /\ cut(r.code) \in Nat
  BY InstructionFacts DEF GoesOn
<1>2. s \in Process
  BY <1>1 DEF next, Process
<1>3. s.pc = r.pc + 1 /\ s.code = r.code /\ s.frames = r.frames /\ s.mask = r.mask /\ s.var = r.var
  BY <1>1 DEF next, Process
<1>4. /\ s.handler = r.handler /\ s.atexit = r.atexit /\ s.jump = r.jump /\ s.fd = r.fd
      /\ s.st = r.st
  BY <1>1 DEF next, Process
<1>5. s.pc < cut(r.code) <=> r.pc < cut(r.code)
  BY <1>1, <1>3
<1>6. \A f \in Fd : s.fd[f] <= n
  BY <1>4 DEF Good
<1> HIDE DEF s
<1>7. Good(s, n)
  BY <1>1, <1>2, <1>3, <1>4, <1>5, <1>6, MoveGood
<1> QED BY <1>3, <1>4, <1>7 DEF s

\* A jump goes to the first instruction of a line of the program.
LEMMA Landing ==
  ASSUME NEW r, NEW n \in Nat, Good(r, n), NEW l \in Lines(text(r))
  PROVE  /\ goto(r, l) \in Process /\ goto(r, l).pc \in DOMAIN text(r)
         /\ text(r)[goto(r, l).pc][1] = l
         /\ goto(r, l).code = r.code /\ goto(r, l).frames = r.frames /\ goto(r, l).mask = r.mask
         /\ goto(r, l).var = r.var /\ goto(r, l).handler = r.handler /\ goto(r, l).atexit = r.atexit
         /\ goto(r, l).jump = r.jump /\ goto(r, l).fd = r.fd /\ goto(r, l).st = r.st
<1> DEFINE S == {k \in DOMAIN Program[r.code] : Program[r.code][k][1] = l}
           s == [r EXCEPT !.pc = Least(S)]
<1>1. r \in Process /\ DOMAIN text(r) \subseteq Nat
  BY InstructionFacts
<1>2. S \in SUBSET Nat /\ S # {}
  BY <1>1 DEF Lines, text
<1>3. Least(S) \in S
  BY <1>2, LeastIsMember
<1>4. goto(r, l) = s
  BY DEF goto
<1>5. PICK k \in Nat : k \in S /\ k = Least(S)
  BY <1>2, <1>3
<1>6. s = [r EXCEPT !.pc = k]
  BY <1>5
<1> HIDE DEF S, s
<1>7. s \in Process
  BY <1>1, <1>6 DEF Process
<1>8. s.pc = k /\ s.code = r.code /\ s.frames = r.frames /\ s.mask = r.mask /\ s.var = r.var
  BY <1>1, <1>6 DEF Process
<1>9. /\ s.handler = r.handler /\ s.atexit = r.atexit /\ s.jump = r.jump /\ s.fd = r.fd
      /\ s.st = r.st
  BY <1>1, <1>6 DEF Process
<1>10. k \in DOMAIN text(r) /\ text(r)[k][1] = l
  BY <1>5 DEF S, text
<1> QED BY <1>4, <1>7, <1>8, <1>9, <1>10

LEMMA GotoGood ==
  ASSUME NEW r, NEW n \in Nat, Good(r, n), NEW l,
         \/ Near(text(r), cut(r.code), r.pc, l)
         \/ r.frames = <<>> /\ InMain(text(r), cut(r.code), l)
  PROVE  Good(goto(r, l), n)
<1>1. /\ l \in Lines(text(r))
      /\ \A j \in DOMAIN text(r) : text(r)[j][1] = l =>
            (j < cut(r.code) <=> r.pc < cut(r.code)) /\ text(r)[j][2] # "addjob"
  BY DEF Near, InMain, Good, Nested
<1> DEFINE s == goto(r, l)
<1>2. /\ s \in Process /\ s.pc \in DOMAIN text(r) /\ text(r)[s.pc][1] = l
      /\ s.code = r.code /\ s.frames = r.frames /\ s.mask = r.mask /\ s.var = r.var
      /\ s.handler = r.handler /\ s.atexit = r.atexit /\ s.jump = r.jump /\ s.fd = r.fd
  BY <1>1, Landing
<1> HIDE DEF s
<1>3. Good(s, n)
  BY <1>1, <1>2, MoveGood DEF Good
<1> QED BY <1>3 DEF s

-----------------------------------------------------------------------------
(* The invariant, and the ways in which steps keep it.                      *)

OpenFile == [kind : {"terminal", "readEnd", "writeEnd", "file"}, pos : Nat]

MachineInv ==
  /\ exercise \in Exercise /\ forks \in 0..(MaxPid - 1)
  /\ proc \in [Pid -> Process] /\ \A p \in Pid : Good(proc[p], Len(files))
  /\ files \in Seq(OpenFile) /\ Len(files) >= 1
  /\ screen \in Seq(Entry) /\ failed \subseteq Nat /\ typed \in 0..MaxTyped

LEMMA MoreFiles ==
  ASSUME NEW r, NEW n \in Nat, Good(r, n), NEW m \in Nat, n <= m
  PROVE  Good(r, m)
  BY DEF Good, Process

\* A process that does not exist is like one that has just been started.
LEMMA OverGood ==
  ASSUME exercise \in Exercise, NEW how \in {"none", "run", "zombie", "gone"},
         NEW parent \in Pid \cup {0}, NEW n \in Nat, n >= 1
  PROVE  Good(over(how, parent), n)
<1> DEFINE r == over(how, parent)
<1>1. /\ r.st = how /\ r.parent = parent /\ r.leader = 1 /\ r.code = exercise /\ r.pc = 1
      /\ r.frames = <<>> /\ r.mask = {}
  BY DEF over, fresh
<1>2. /\ r.handler = [s \in Sig |-> 0] /\ r.atexit = 0 /\ r.jump = noJump /\ r.var = var0
      /\ r.fd = [f \in Fd |-> IF f <= 2 THEN 1 ELSE 0]
  BY DEF over, fresh
<1>3. exercise \in DOMAIN Program
  BY DEF Exercise
<1>4. r \in Process
  <2>1. var0 \in Var
    BY DEF var0, Var, Fd
  <2>2. noJump \in Jump
    BY DEF noJump, Jump, Blockable
  <2>3. [s \in Sig |-> 0] \in [Sig -> Nat] /\ [f \in Fd |-> IF f <= 2 THEN 1 ELSE 0] \in [Fd -> Nat]
    BY DEF Fd
  <2>4. 1 \in Pid /\ {} \in SUBSET Pid /\ {} \in SUBSET Sig /\ {} \in SUBSET Blockable
    BY Setting
  <2>5. <<>> \in Seq(Entry) /\ <<>> \in Seq(Frame)
    BY EmptySeq
  <2>6. fresh \in Process
    BY <2>1, <2>2, <2>3, <2>4, <2>5, <1>3 DEF fresh, Process
  <2> QED BY <2>6 DEF over, Process
<1> HIDE DEF r
<1>5. Nested(r)
  <2>1. 1 \in DOMAIN Program[exercise] /\ 1 < cut(exercise) /\ Program[exercise][1][2] # "addjob"
    BY <1>3, ProgramsBegin
  <2>2. DOMAIN r.frames = {}
    BY <1>1
  <2> QED BY <1>1, <2>1, <2>2 DEF Nested, text, mainPc
<1>6. Installed(r)
  BY <1>2 DEF Installed, noJump, Sig
<1>7. \A f \in Fd : r.fd[f] <= n
  BY <1>2 DEF Fd
<1> QED BY <1>4, <1>5, <1>6, <1>7 DEF Good, r

\* A signal that is sent is pending.
LEMMA SentGood ==
  ASSUME NEW r, NEW n \in Nat, Good(r, n), NEW s \in Sig
  PROVE  Good(sent(r, s), n)
<1>1. CASE sent(r, s) = r
  BY <1>1
<1>2. CASE sent(r, s) = [r EXCEPT !.pending = r.pending \cup {s}]
  <2> DEFINE t == [r EXCEPT !.pending = r.pending \cup {s}]
  <2>1. r \in Process
    BY DEF Good
  <2>2. t \in Process
    BY <2>1 DEF Process
  <2>3. t.code = r.code /\ t.pc = r.pc /\ t.frames = r.frames /\ t.mask = r.mask /\ t.fd = r.fd
    BY <2>1 DEF Process
  <2>4. t.handler = r.handler /\ t.atexit = r.atexit /\ t.jump = r.jump /\ t.var = r.var
    BY <2>1 DEF Process
  <2> HIDE DEF t
  <2>5. Good(t, n)
    BY <2>2, <2>3, <2>4, DataGood DEF Good
  <2> QED BY <1>2, <2>5 DEF t
<1> QED BY <1>1, <1>2 DEF sent

\* init adopts it.
LEMMA OrphanGood ==
  ASSUME NEW r, NEW n \in Nat, Good(r, n)
  PROVE  Good([r EXCEPT !.parent = 0], n)
<1> DEFINE t == [r EXCEPT !.parent = 0]
<1>1. r \in Process
  BY DEF Good
<1>2. t \in Process
  BY <1>1 DEF Process
<1>3. t.code = r.code /\ t.pc = r.pc /\ t.frames = r.frames /\ t.mask = r.mask /\ t.fd = r.fd
  BY <1>1 DEF Process
<1>4. t.handler = r.handler /\ t.atexit = r.atexit /\ t.jump = r.jump /\ t.var = r.var
  BY <1>1 DEF Process
<1> HIDE DEF t
<1>5. Good(t, n)
  BY <1>2, <1>3, <1>4, DataGood DEF Good
<1> QED BY <1>5 DEF t

LEMMA WithoutGood ==
  ASSUME MachineInv, NEW p \in Pid
  PROVE  /\ without(p) \in [Pid -> Process]
         /\ \A q \in Pid : Good(without(p)[q], Len(files))
<1>1. exercise \in Exercise /\ Len(files) \in Nat /\ Len(files) >= 1
  BY DEF MachineInv
<1>2. /\ proc[p].leader \in Pid /\ proc[proc[p].leader].parent \in Pid \cup {0}
  BY DEF MachineInv, Process
<1>3. ASSUME NEW q \in Pid PROVE Good(without(p)[q], Len(files))
  <2>1. Good(proc[q], Len(files)) /\ "CHLD" \in Sig
    BY DEF MachineInv, Sig
  <2>2. Good(sent(proc[q], "CHLD"), Len(files)) /\ Good([proc[q] EXCEPT !.parent = 0], Len(files))
    BY <1>1, <2>1, SentGood, OrphanGood
  <2>3. \A how \in {"zombie", "gone"}, parent \in Pid \cup {0} : Good(over(how, parent), Len(files))
    BY <1>1, OverGood
  <2> QED BY <1>2, <2>1, <2>2, <2>3 DEF without
<1>4. without(p) = [q \in Pid |-> without(p)[q]]
  BY DEF without
<1> HIDE DEF without
<1> QED BY <1>3, <1>4 DEF Good

LEMMA BecomesKeeps ==
  ASSUME MachineInv, NEW p \in Pid, NEW r, Good(r, Len(files')), Becomes(p, r),
         UNCHANGED world, files' \in Seq(OpenFile), Len(files) <= Len(files'),
         screen' \in Seq(Entry), failed' \subseteq Nat, typed' \in 0..MaxTyped
  PROVE  MachineInv'
<1>1. Len(files) \in Nat /\ Len(files') \in Nat
  BY DEF MachineInv
<1>2. r \in Process /\ proc' = [proc EXCEPT ![p] = r]
  BY DEF Good, Becomes
<1>3. proc' \in [Pid -> Process]
  BY <1>2 DEF MachineInv
<1>4. ASSUME NEW q \in Pid PROVE Good(proc'[q], Len(files'))
  BY <1>1, <1>2, MoreFiles DEF MachineInv
<1>5. Len(files') >= 1
  BY <1>1 DEF MachineInv
<1> QED BY <1>3, <1>4, <1>5 DEF MachineInv, world

LEMMA MovesKeeps ==
  ASSUME MachineInv, NEW p \in Pid, NEW r, Good(r, Len(files)), Moves(p, r)
  PROVE  MachineInv'
<1>1. /\ Becomes(p, r) /\ UNCHANGED world /\ files' = files /\ screen' = screen
      /\ failed' = failed /\ typed' = typed
  BY DEF Moves
<1>2. files \in Seq(OpenFile) /\ screen \in Seq(Entry) /\ failed \subseteq Nat /\ typed \in 0..MaxTyped
  BY DEF MachineInv
<1>3. Len(files) <= Len(files)
  BY <1>2
<1> QED BY <1>1, <1>2, <1>3, BecomesKeeps

LEMMA EndKeeps ==
  ASSUME MachineInv, NEW p \in Pid, proc' = without(p), UNCHANGED <<world, files, typed>>,
         screen' \in Seq(Entry), failed' \subseteq Nat
  PROVE  MachineInv'
<1> HIDE DEF without
<1> QED BY WithoutGood DEF MachineInv, world

\* The instruction of a process, and where it belongs to.
LEMMA Here ==
  ASSUME MachineInv, NEW p \in Pid
  PROVE  /\ Good(proc[p], Len(files)) /\ proc[p] \in Process /\ Len(files) \in Nat /\ Len(files) >= 1
         /\ instr(p) = text(proc[p])[proc[p].pc]
         /\ GoesOn(text(proc[p]), cut(proc[p].code), proc[p].pc)
         /\ Jumps(text(proc[p]), cut(proc[p].code), proc[p].pc)
         /\ Typed(text(proc[p]), proc[p].pc)
         /\ line(p) \in Nat
<1>1. Good(proc[p], Len(files)) /\ proc[p] \in Process /\ Len(files) \in Nat /\ Len(files) >= 1
  BY DEF MachineInv
<1>2. instr(p) = text(proc[p])[proc[p].pc]
  BY DEF instr, text
<1>3. /\ GoesOn(text(proc[p]), cut(proc[p].code), proc[p].pc)
      /\ Jumps(text(proc[p]), cut(proc[p].code), proc[p].pc)
      /\ Typed(text(proc[p]), proc[p].pc)
  BY <1>1, InstructionFacts
<1>4. line(p) \in Nat
  BY <1>2, <1>3 DEF line, Typed
<1> QED BY <1>1, <1>2, <1>3, <1>4

LEMMA ExitsKeeps ==
  ASSUME MachineInv, NEW p \in Pid, Exits(p), failed' \subseteq Nat
  PROVE  MachineInv'
<1>1. screen \in Seq(Entry) /\ proc[p].out \in Seq(Entry)
  BY Here DEF MachineInv, Process
<1>2. screen \o proc[p].out \in Seq(Entry)
  BY <1>1, ConcatProperties
<1>3. screen' \in Seq(Entry) /\ proc' = without(p) /\ UNCHANGED <<world, files, typed>>
  BY <1>1, <1>2 DEF Exits
<1> QED BY <1>3, EndKeeps

\* Where atexit was called, exit() goes on in the function registered there.
LEMMA ExitingKeeps ==
  ASSUME MachineInv, NEW p \in Pid, exit(p), failed' \subseteq Nat
  PROVE  MachineInv'
<1>1. CASE proc[p].atexit # 0
  <2> DEFINE l == proc[p].atexit
             r == goto(proc[p], l)
             s == [r EXCEPT !.atexit = 0]
  <2>1. Near(text(proc[p]), cut(proc[p].code), proc[p].pc, l)
    BY <1>1, Here DEF Good, Installed, Jumps
  <2>2. Good(r, Len(files)) /\ r \in Process /\ Len(files) \in Nat
    BY <2>1, Here, GotoGood DEF Good
  <2>3. Becomes(p, s) /\ UNCHANGED <<world, files, screen, typed>>
    BY <1>1 DEF exit, jumps
  <2> HIDE DEF r
  <2>4. s \in Process /\ s.atexit = 0
    BY <2>2 DEF Process
  <2>5. /\ s.code = r.code /\ s.pc = r.pc /\ s.frames = r.frames /\ s.mask = r.mask
        /\ s.fd = r.fd
    BY <2>2 DEF Process
  <2>6. s.handler = r.handler /\ s.jump = r.jump /\ s.var = r.var
    BY <2>2 DEF Process
  <2> HIDE DEF s
  <2>7. Good(s, Len(files))
    <3>1. Nested(s)
      BY <2>2, <2>5, <2>6 DEF Good, Nested, text, mainPc
    <3>2. Installed(s)
      BY <2>2, <2>4, <2>5, <2>6 DEF Good, Installed, text
    <3> QED BY <3>1, <3>2, <2>2, <2>4, <2>5 DEF Good
  <2>8. /\ UNCHANGED world /\ files' = files /\ screen' = screen /\ typed' = typed
        /\ Len(files) <= Len(files)
    BY <2>2, <2>3
  <2> QED BY <2>3, <2>7, <2>8, BecomesKeeps DEF MachineInv
<1>2. CASE proc[p].atexit = 0
  BY <1>2, ExitsKeeps DEF exit
<1> QED BY <1>1, <1>2

LEMMA ErrorKeeps ==
  ASSUME MachineInv, NEW p \in Pid, unix_error(p)
  PROVE  MachineInv'
<1>1. exit(p) /\ failed' \subseteq Nat
  BY Here DEF unix_error, MachineInv
<1> QED BY <1>1, ExitingKeeps

\* Where a program never calls atexit, exit() is the end of the process.
LEMMA ErrorEnds ==
  ASSUME MachineInv, NEW p \in Pid, unix_error(p),
         \A j \in DOMAIN text(proc[p]) : text(proc[p])[j][2] # "atexit"
  PROVE  Exits(p) /\ failed' = failed \cup {line(p)}
<1>1. proc[p].atexit = 0
  BY Here DEF Good, Installed
<1> QED BY <1>1 DEF unix_error, exit

LEMMA KilledKeeps ==
  ASSUME MachineInv, NEW p \in Pid, Killed(p)
  PROVE  MachineInv'
  BY EndKeeps DEF Killed, MachineInv

LEMMA FailsKeeps ==
  ASSUME MachineInv, NEW p \in Pid, NEW l, Fails(p, l),
         \/ l = 0
         \/ Near(text(proc[p]), cut(proc[p].code), proc[p].pc, l)
         \/ proc[p].frames = <<>> /\ InMain(text(proc[p]), cut(proc[p].code), l)
  PROVE  MachineInv'
<1>1. CASE l = 0
  BY <1>1, ErrorKeeps DEF Fails
<1>2. CASE l # 0
  <2>1. Good(goto(proc[p], l), Len(files))
    BY <1>2, Here, GotoGood
  <2>2. Moves(p, goto(proc[p], l))
    BY <1>2 DEF Fails, jumps
  <2> QED BY <2>1, <2>2, MovesKeeps
<1> QED BY <1>1, <1>2

\* The next instruction with a value of one of the variables.
LEMMA SetsGood ==
  ASSUME MachineInv, NEW p \in Pid, op(p) \in Falls, NEW name, NEW x,
         \/ name \in {"i", "n"} /\ x \in Int
         \/ name = "pid" /\ x \in Pid \cup {0}
         \/ name \in {"fd1", "fd2"} /\ x \in Fd
  PROVE  Good(sets(p, name, x), Len(files)) /\ sets(p, name, x).fd = proc[p].fd
<1> DEFINE r == next(proc[p])
           s == [r EXCEPT !.var[name] = x]
<1>1. /\ Good(r, Len(files)) /\ r \in Process /\ r.fd = proc[p].fd /\ r.var \in Var
      /\ Len(files) \in Nat
  BY Here, NextGood DEF op, Good, Process
<1>2. sets(p, name, x) = s
  BY DEF sets
<1> HIDE DEF r
<1>3. /\ [r.var EXCEPT ![name] = x] \in Var
      /\ [r.var EXCEPT ![name] = x].child = r.var.child
  BY <1>1 DEF Var
<1>4. s = [r EXCEPT !.var = [r.var EXCEPT ![name] = x]]
  OBVIOUS
<1>5. PICK v \in Var : v = [r.var EXCEPT ![name] = x]
  BY <1>3
<1>6. s = [r EXCEPT !.var = v] /\ v.child = r.var.child
  BY <1>3, <1>4, <1>5
<1> HIDE DEF s
<1>7. s \in Process /\ s.var = v
  BY <1>1, <1>6 DEF Process
<1>8. s.code = r.code /\ s.pc = r.pc /\ s.frames = r.frames /\ s.mask = r.mask /\ s.fd = r.fd
  BY <1>1, <1>6 DEF Process
<1>9. s.handler = r.handler /\ s.atexit = r.atexit /\ s.jump = r.jump
  BY <1>1, <1>6 DEF Process
<1>10. \A f \in Fd : s.fd[f] <= Len(files)
  BY <1>1, <1>8 DEF Good
<1>11. Good(s, Len(files))
  BY <1>1, <1>6, <1>7, <1>8, <1>9, <1>10, DataGood
<1> QED BY <1>1, <1>2, <1>8, <1>11

-----------------------------------------------------------------------------
(* The steps, one operation after another.                                  *)

LEMMA ExitKeeps == ASSUME MachineInv, NEW p \in Pid, Exit(p) PROVE MachineInv'
  BY ExitingKeeps DEF Exit, MachineInv

LEMMA CrashKeeps == ASSUME MachineInv, NEW p \in Pid, Crash(p) PROVE MachineInv'
<1>1. Good(sent(proc[p], "SEGV"), Len(files))
  BY Here, SentGood DEF Sig
<1> QED BY <1>1, MovesKeeps DEF Crash

LEMMA ControlKeeps == ASSUME MachineInv, NEW p \in Pid, Control(p) PROVE MachineInv'
<1> DEFINE i == text(proc[p])[proc[p].pc]
<1>0. /\ op(p) = i[2] /\ arg(p) = i[3] /\ arg2(p) = i[4]
      /\ Good(proc[p], Len(files)) /\ proc[p] \in Process /\ Len(files) \in Nat
      /\ proc[p].var.i \in Int /\ proc[p].var.n \in Int
  BY Here DEF op, arg, arg2, Process, Var
<1>1. CASE at(p, "goto") /\ Moves(p, jumps(p, arg(p)))
  BY <1>0, <1>1, Here, GotoGood, MovesKeeps DEF at, jumps, GoesOn
<1>2. CASE at(p, "either") /\ \E l \in arg(p) : Moves(p, jumps(p, l))
  BY <1>0, <1>2, Here, GotoGood, MovesKeeps DEF at, jumps, GoesOn
<1>3. CASE /\ at(p, "loop")
           /\ IF proc[p].var.i < arg(p) THEN Moves(p, sets(p, "i", proc[p].var.i + 1))
              ELSE Moves(p, jumps(p, arg2(p)))
  <2>1. op(p) \in Falls /\ op(p) = "loop" /\ proc[p].var.i + 1 \in Int
    BY <1>0, <1>3 DEF at, Falls
  <2>2. Good(sets(p, "i", proc[p].var.i + 1), Len(files))
    BY <2>1, SetsGood
  <2>3. Good(jumps(p, arg2(p)), Len(files))
    BY <1>0, <2>1, Here, GotoGood DEF jumps, GoesOn
  <2> QED BY <1>3, <2>2, <2>3, MovesKeeps
<1>4. CASE at(p, "background") /\ \E bg \in {0, 1} : Moves(p, sets(p, "n", bg))
  <2>1. op(p) \in Falls
    BY <1>4 DEF at, Falls
  <2>2. \A bg \in {0, 1} : Good(sets(p, "n", bg), Len(files))
    BY <2>1, SetsGood
  <2> QED BY <1>4, <2>2, MovesKeeps
<1>5. CASE /\ at(p, "foreground")
           /\ Moves(p, IF proc[p].var.n = 0 THEN next(proc[p]) ELSE jumps(p, arg(p)))
  <2>1. op(p) \in Falls /\ op(p) = "foreground"
    BY <1>5 DEF at, Falls
  <2>2. Good(next(proc[p]), Len(files))
    BY <1>0, <2>1, NextGood
  <2>3. Good(jumps(p, arg(p)), Len(files))
    BY <1>0, <2>1, Here, GotoGood DEF jumps, GoesOn
  <2> QED BY <1>5, <2>2, <2>3, MovesKeeps
<1>6. CASE at(p, "add") /\ Moves(p, sets(p, "n", proc[p].var.n + arg(p)))
  <2>1. op(p) \in Falls /\ op(p) = "add"
    BY <1>6 DEF at, Falls
  <2>2. arg(p) \in Int
    BY <1>0, <2>1, Here DEF Typed
  <2>3. proc[p].var.n + arg(p) \in Int
    BY <1>0, <2>2
  <2> QED BY <1>6, <2>1, <2>3, SetsGood, MovesKeeps
<1>7. CASE at(p, "atexit") /\ Moves(p, [next(proc[p]) EXCEPT !.atexit = arg(p)])
  <2> DEFINE r == next(proc[p])
             a == i[3]
             s == [r EXCEPT !.atexit = a]
  <2>1. op(p) \in Falls /\ op(p) = "atexit"
    BY <1>7 DEF at, Falls
  <2>2. /\ Good(r, Len(files)) /\ r \in Process /\ r.code = proc[p].code
    BY <1>0, <2>1, NextGood DEF Good
  <2>3. Moves(p, s) /\ a \in Nat
    BY <1>0, <1>7, <2>1, Here DEF Typed
  <2>4. proc[p].pc \in DOMAIN text(proc[p]) /\ text(proc[p])[proc[p].pc][2] = "atexit"
    BY <1>0, <2>1 DEF Good, Nested
  <2> HIDE DEF r
  <2>5. s \in Process /\ s.atexit = a
    BY <2>2, <2>3 DEF Process
  <2>6. /\ s.code = r.code /\ s.pc = r.pc /\ s.frames = r.frames /\ s.mask = r.mask
        /\ s.fd = r.fd
    BY <2>2 DEF Process
  <2>7. s.handler = r.handler /\ s.jump = r.jump /\ s.var = r.var
    BY <2>2 DEF Process
  <2> HIDE DEF s
  <2>8. Nested(s)
    BY <2>2, <2>6, <2>7 DEF Good, Nested, text, mainPc
  <2>9. Installed(s)
    BY <2>2, <2>4, <2>5, <2>6, <2>7 DEF Good, Installed, text
  <2>10. Good(s, Len(files))
    BY <2>2, <2>5, <2>6, <2>8, <2>9 DEF Good
  <2> QED BY <2>3, <2>10, MovesKeeps
<1>8. CASE at(p, "error") /\ unix_error(p)
  BY <1>8, ErrorKeeps
<1> QED BY <1>1, <1>2, <1>3, <1>4, <1>5, <1>6, <1>7, <1>8 DEF Control

\* A step that changes data other than the variables, beside going on.
LEMMA UpdateKeeps ==
  ASSUME MachineInv, NEW p \in Pid, op(p) \in Falls, NEW s \in Process, Moves(p, s),
         s.code = proc[p].code, s.pc = proc[p].pc + 1, s.frames = proc[p].frames,
         s.mask = proc[p].mask, s.handler = proc[p].handler, s.jump = proc[p].jump,
         s.atexit = next(proc[p]).atexit, s.var = proc[p].var,
         \A f \in Fd : s.fd[f] <= Len(files)
  PROVE  MachineInv'
<1>1. /\ Good(next(proc[p]), Len(files)) /\ s.code = next(proc[p]).code /\ s.pc = next(proc[p]).pc
      /\ s.frames = next(proc[p]).frames /\ s.mask = next(proc[p]).mask
      /\ s.handler = next(proc[p]).handler /\ s.jump = next(proc[p]).jump
      /\ s.var = next(proc[p]).var /\ Len(files) \in Nat
  BY Here, NextGood DEF op
<1>2. Good(s, Len(files))
  BY <1>1, DataGood
<1> QED BY <1>2, MovesKeeps

LEMMA JobsKeep == ASSUME MachineInv, NEW p \in Pid, addjob(p) \/ deletejob(p) PROVE MachineInv'
<1> DEFINE r == next(proc[p])
<1>1. op(p) \in Falls /\ (addjob(p) => op(p) = "addjob")
  BY DEF addjob, deletejob, at, Falls
<1>2. /\ Good(proc[p], Len(files)) /\ Good(r, Len(files)) /\ r \in Process
      /\ r.code = proc[p].code /\ r.pc = proc[p].pc + 1 /\ r.frames = proc[p].frames
      /\ r.mask = proc[p].mask /\ r.handler = proc[p].handler /\ r.jump = proc[p].jump
      /\ r.var = proc[p].var /\ r.fd = proc[p].fd
  BY <1>1, Here, NextGood DEF op, Good
<1>3. addjob(p) => proc[p].var.child \in Pid
  BY <1>1, Here DEF op, Good, Nested, mainPc, Jumps
<1>4. PICK S \in SUBSET Pid : Moves(p, [r EXCEPT !.jobs = S])
  <2>1. r.jobs \in SUBSET Pid
    BY <1>2 DEF Process
  <2> HIDE DEF r
  <2>2. CASE addjob(p)
    <3>1. r.jobs \cup {proc[p].var.child} \in SUBSET Pid
      BY <1>3, <2>1, <2>2
    <3> QED BY <2>2, <3>1 DEF addjob, r
  <2>3. CASE deletejob(p)
    <3>1. r.jobs \ {proc[p].var.pid} \in SUBSET Pid
      BY <2>1
    <3> QED BY <2>3, <3>1 DEF deletejob, r
  <2> QED BY <2>2, <2>3
<1> DEFINE s == [r EXCEPT !.jobs = S]
<1>5. \A f \in Fd : r.fd[f] <= Len(files)
  BY <1>2 DEF Good
<1> HIDE DEF r
<1>6. s \in Process
  BY <1>2 DEF Process
<1>7. /\ s.code = r.code /\ s.pc = r.pc /\ s.frames = r.frames /\ s.mask = r.mask
      /\ s.fd = r.fd
  BY <1>2 DEF Process
<1>8. s.handler = r.handler /\ s.jump = r.jump /\ s.var = r.var /\ s.atexit = r.atexit
  BY <1>2 DEF Process
<1>9. Moves(p, s)
  BY <1>4
<1> HIDE DEF s
<1> QED BY <1>1, <1>2, <1>5, <1>6, <1>7, <1>8, <1>9, UpdateKeeps DEF r

\* What is printed names the process, its line and a number.
LEMMA PrintedIsEntry ==
  ASSUME MachineInv, NEW p \in Pid, op(p) \in {"put", "say"}
  PROVE  printed(p) \in Entry
<1> DEFINE v == IF Len(instr(p)) > 2 THEN proc[p].var[arg(p)] ELSE 0
<1>1. v \in Int
  <2>1. Len(instr(p)) = 2 \/ arg(p) \in VarName
    BY Here DEF Typed, op, arg
  <2>2. PICK r \in Var : r = proc[p].var
    BY Here DEF Process
  <2>3. \A name \in VarName : r[name] \in Int
    BY Setting DEF Var, VarName, Fd
  <2>4. CASE arg(p) \in VarName
    BY <2>2, <2>3, <2>4
  <2>5. CASE Len(instr(p)) = 2
    BY <2>5
  <2> QED BY <2>1, <2>4, <2>5
<1>2. line(p) \in Nat
  BY Here
<1>3. printed(p) = <<p, line(p), v>>
  BY DEF printed
<1> HIDE DEF v
<1> QED BY <1>1, <1>2, <1>3 DEF Entry

LEMMA PrintKeeps == ASSUME MachineInv, NEW p \in Pid, Put(p) \/ Say(p) PROVE MachineInv'
<1> DEFINE r == next(proc[p])
           out == Append(proc[p].out, printed(p))
<1>1. op(p) \in Falls /\ op(p) \in {"put", "say"}
  BY DEF Put, Say, at, Falls
<1>2. /\ Good(proc[p], Len(files)) /\ Good(r, Len(files)) /\ r \in Process
      /\ r.code = proc[p].code /\ r.pc = proc[p].pc + 1 /\ r.frames = proc[p].frames
      /\ r.mask = proc[p].mask /\ r.handler = proc[p].handler /\ r.jump = proc[p].jump
      /\ r.var = proc[p].var /\ r.fd = proc[p].fd
  BY <1>1, Here, NextGood DEF op, Good
<1>3. r.out = proc[p].out /\ proc[p].out \in Seq(Entry) /\ proc[p] \in Process
  BY <1>2 DEF next, Good, Process
<1>4. printed(p) \in Entry
  BY <1>1, PrintedIsEntry
<1>5. out \in Seq(Entry) /\ <<>> \in Seq(Entry) /\ screen \o out \in Seq(Entry)
  BY <1>3, <1>4, ConcatProperties, AppendProperties DEF MachineInv
<1>6. ASSUME NEW o \in Seq(Entry) PROVE Good([r EXCEPT !.out = o], Len(files))
  <2> DEFINE s == [r EXCEPT !.out = o]
  <2> HIDE DEF r
  <2>1. s \in Process
    BY <1>2 DEF Process
  <2>2. /\ s.code = r.code /\ s.pc = r.pc /\ s.frames = r.frames /\ s.mask = r.mask
        /\ s.fd = r.fd
    BY <1>2 DEF Process
  <2>3. s.handler = r.handler /\ s.jump = r.jump /\ s.var = r.var /\ s.atexit = r.atexit
    BY <1>2 DEF Process
  <2> HIDE DEF s
  <2>4. Good(s, Len(files))
    BY <1>2, <2>1, <2>2, <2>3, Here, DataGood DEF Good
  <2> QED BY <2>4 DEF s
<1>7. CASE Put(p)
  <2>1. Moves(p, [r EXCEPT !.out = out])
    BY <1>3, <1>7 DEF Put
  <2> HIDE DEF r, out
  <2> QED BY <1>5, <1>6, <2>1, MovesKeeps
<1>8. CASE Say(p) /\ onTerminal(p)
  <2>1. /\ screen' = screen \o out /\ Becomes(p, [r EXCEPT !.out = <<>>])
        /\ UNCHANGED <<world, files, failed, typed>>
    BY <1>8 DEF Say
  <2> HIDE DEF r, out
  <2>2. Good([r EXCEPT !.out = <<>>], Len(files))
    BY <1>5, <1>6
  <2>3. screen' \in Seq(Entry) /\ failed' \subseteq Nat /\ typed' \in 0..MaxTyped /\ files' \in Seq(OpenFile)
        /\ UNCHANGED world /\ Len(files) <= Len(files') /\ Len(files') = Len(files)
    BY <1>5, <2>1, Here DEF MachineInv
  <2> QED BY <2>1, <2>2, <2>3, BecomesKeeps
<1>9. CASE Say(p) /\ ~onTerminal(p)
  <2>1. Moves(p, [r EXCEPT !.out = out])
    BY <1>3, <1>9 DEF Say
  <2> HIDE DEF r, out
  <2> QED BY <1>5, <1>6, <2>1, MovesKeeps
<1> QED BY <1>7, <1>8, <1>9

LEMMA SomeUnused == ASSUME MachineInv, canMake PROVE Least(unused) \in unused /\ unused \subseteq Pid
<1>1. IsFiniteSet(Pid) /\ Cardinality(Pid) = MaxPid
  BY Setting, FS_Interval
<1>2. unused \subseteq Pid /\ IsFiniteSet(unused)
  BY <1>1, FS_Subset DEF unused
<1>3. unused # {}
  <2>1. MaxPid - Cardinality(unused) - 1 < forks /\ forks <= MaxPid - 1
    BY Setting DEF canMake, MachineInv
  <2>2. Cardinality(unused) \in Nat /\ (unused = {} => Cardinality(unused) = 0)
    BY <1>2, FS_CardinalityType, FS_EmptySet
  <2>3. MaxPid \in Nat /\ forks \in Int
    BY Setting DEF MachineInv
  <2> QED BY <2>1, <2>2, <2>3
<1>4. unused \in SUBSET Nat
  BY <1>2, Setting
<1> QED BY <1>2, <1>3, <1>4, LeastIsMember

LEMMA ForkKeeps == ASSUME MachineInv, NEW p \in Pid, Fork(p) PROVE MachineInv'
<1> DEFINE i == text(proc[p])[proc[p].pc]
           r == proc[p]
<1>1. /\ op(p) = "fork" /\ op(p) \in Falls /\ op(p) = i[2] /\ arg(p) = i[3] /\ arg2(p) = i[4]
      /\ Good(r, Len(files)) /\ r \in Process /\ Len(files) \in Nat
  BY Here DEF op, arg, arg2, Fork, at, Falls
<1>2. r.pc < cut(r.code) /\ r.frames = <<>>
  BY <1>1, Here DEF Jumps, Good, Nested
<1>3. CASE ~canMake
  BY <1>1, <1>2, <1>3, Here, FailsKeeps DEF Fork, GoesOn
<1>4. CASE canMake
  <2> DEFINE c == Least(unused)
             child == [next(r) EXCEPT !.parent = p, !.leader = c, !.pending = {},
                                      !.alarm = FALSE, !.var.child = 0]
             mother == [goto(r, arg(p)) EXCEPT !.var.child = c]
  <2>1. c \in Pid
    BY <1>4, SomeUnused
  <2>2. proc' = [proc EXCEPT ![c] = child, ![p] = mother]
        /\ UNCHANGED <<world, files, screen, failed, typed>>
    BY <1>4 DEF Fork
  <2> HIDE DEF c
  <2>3. Good(child, Len(files))
    <3> DEFINE t == next(r)
    <3>0. /\ Good(t, Len(files)) /\ t.pc = r.pc + 1 /\ t.code = r.code
          /\ t.frames = <<>> /\ t.fd = r.fd /\ t.var = r.var
      BY <1>1, <1>2, NextGood
    <3>1. /\ Good(t, Len(files)) /\ t \in Process /\ t.pc = r.pc + 1 /\ t.code = r.code
          /\ t.frames = <<>> /\ t.fd = r.fd /\ t.var \in Var
      <4> HIDE DEF t
      <4>1. t \in Process
        BY <3>0 DEF Good
      <4> QED BY <3>0, <4>1 DEF Process
    <3>2. text(t)[t.pc][2] # "addjob"
      BY <1>1, <3>1, Here DEF GoesOn, text
    <3> HIDE DEF t
    <3>9. [t.var EXCEPT !.child = 0] \in Var /\ [t.var EXCEPT !.child = 0].child = 0
      BY <3>1 DEF Var
    <3>3. PICK v \in Var : v = [t.var EXCEPT !.child = 0] /\ v.child = 0
      BY <3>9
    <3>4. child = [t EXCEPT !.parent = p, !.leader = c, !.pending = {}, !.alarm = FALSE, !.var = v]
      BY <3>3 DEF t
    <3> HIDE DEF child
    <3>5. child \in Process
      BY <3>1, <3>4, <2>1 DEF Process
    <3>6. /\ child.code = t.code /\ child.pc = t.pc /\ child.frames = t.frames /\ child.mask = t.mask
          /\ child.fd = t.fd
      BY <3>1, <3>4 DEF Process
    <3>7. child.handler = t.handler /\ child.jump = t.jump /\ child.var = v /\ child.atexit = t.atexit
      BY <3>1, <3>4 DEF Process
    <3>8. t.pc \in DOMAIN text(t) /\ \A f \in Fd : t.fd[f] <= Len(files)
      BY <3>1 DEF Good, Nested
    <3> QED BY <1>1, <3>1, <3>2, <3>5, <3>6, <3>7, <3>8, MoveGood
  <2>4. Good(mother, Len(files))
    <3> DEFINE t == goto(r, arg(p))
    <3>1. /\ arg(p) \in Lines(text(r))
          /\ \A j \in DOMAIN text(r) : text(r)[j][1] = arg(p) => j < cut(r.code)
      BY <1>1, Here DEF GoesOn
    <3>2. /\ t \in Process /\ t.pc \in DOMAIN text(r) /\ text(r)[t.pc][1] = arg(p)
          /\ t.code = r.code /\ t.frames = r.frames /\ t.mask = r.mask
          /\ t.handler = r.handler /\ t.atexit = r.atexit
          /\ t.jump = r.jump /\ t.fd = r.fd /\ t.var \in Var
      BY <1>1, <3>1, Landing DEF Process
    <3> HIDE DEF t
    <3>9. [t.var EXCEPT !.child = c] \in Var /\ [t.var EXCEPT !.child = c].child = c
      BY <2>1, <3>2 DEF Var
    <3>3. PICK v \in Var : v = [t.var EXCEPT !.child = c] /\ v.child = c
      BY <3>9
    <3>4. mother = [t EXCEPT !.var = v]
      BY <3>3 DEF t
    <3> HIDE DEF mother
    <3>5. mother \in Process
      BY <3>2, <3>4 DEF Process
    <3>6. /\ mother.code = t.code /\ mother.pc = t.pc /\ mother.frames = t.frames
          /\ mother.mask = t.mask /\ mother.fd = t.fd
      BY <3>2, <3>4 DEF Process
    <3>7. /\ mother.handler = t.handler /\ mother.jump = t.jump /\ mother.var = v
          /\ mother.atexit = t.atexit
      BY <3>2, <3>4 DEF Process
    <3>8. \A f \in Fd : mother.fd[f] <= Len(files)
      BY <1>1, <3>2, <3>6 DEF Good
    <3>10. mother.pc < cut(r.code) <=> r.pc < cut(r.code)
      BY <1>2, <3>1, <3>2, <3>6
    <3>11. /\ mother.code = r.code /\ mother.frames = r.frames /\ mother.mask = r.mask
           /\ mother.handler = r.handler /\ mother.atexit = r.atexit /\ mother.jump = r.jump
           /\ mother.pc \in DOMAIN text(r) /\ mother.var.child \in Pid
      BY <2>1, <3>2, <3>3, <3>6, <3>7
    <3> QED BY <1>1, <1>2, <3>5, <3>8, <3>10, <3>11, MoveGood
  <2> HIDE DEF child, mother
  <2>5. proc' \in [Pid -> Process]
    BY <2>1, <2>2, <2>3, <2>4 DEF Good, MachineInv
  <2>6. \A q \in Pid : Good(proc'[q], Len(files'))
    BY <2>1, <2>2, <2>3, <2>4 DEF MachineInv
  <2> QED BY <2>2, <2>5, <2>6 DEF MachineInv, world
<1> QED BY <1>3, <1>4

LEMMA ExecveKeeps == ASSUME MachineInv, NEW p \in Pid, Execve(p) PROVE MachineInv'
<1> DEFINE r == proc[p]
<1>1. /\ op(p) = "exec" /\ op(p) \in Falls /\ Good(r, Len(files)) /\ r \in Process
      /\ arg(p) \in DOMAIN Program /\ r.pc < cut(r.code) /\ r.frames = <<>> /\ r.mask = {}
  BY Here DEF op, arg, Execve, at, Falls, Jumps, Good, Nested
<1>2. CASE Moves(p, next(r))
  BY <1>1, <1>2, Here, NextGood, MovesKeeps DEF op
<1>3. CASE Moves(p, [r EXCEPT !.code = arg(p), !.pc = 1, !.out = <<>>, !.frames = <<>>,
                       !.handler = [s \in Sig |-> 0], !.atexit = 0, !.jump = noJump])
  <2>1. PICK c \in DOMAIN Program : c = arg(p)
    BY <1>1
  <2>2. PICK h \in [Sig -> Nat] : h = [s \in Sig |-> 0]
    OBVIOUS
  <2>3. noJump \in Jump /\ <<>> \in Seq(Entry) /\ <<>> \in Seq(Frame)
    BY EmptySeq DEF noJump, Jump, Blockable
  <2> DEFINE s == [r EXCEPT !.code = c, !.pc = 1, !.out = <<>>, !.frames = <<>>,
                            !.handler = h, !.atexit = 0, !.jump = noJump]
  <2>4. s \in Process
    BY <1>1, <2>1, <2>2, <2>3 DEF Process
  <2>5. s.code = c /\ s.pc = 1 /\ s.frames = <<>> /\ s.mask = {} /\ s.handler = h
    BY <1>1, <2>1, <2>2 DEF Process
  <2>6. s.atexit = 0 /\ s.jump = noJump /\ s.fd = r.fd
    BY <1>1 DEF Process
  <2>7. Moves(p, s)
    BY <1>3, <2>1, <2>2
  <2> HIDE DEF s
  <2>8. Nested(s)
    <3>1. 1 \in DOMAIN Program[c] /\ 1 < cut(c) /\ Program[c][1][2] # "addjob"
      BY <2>1, ProgramsBegin
    <3>2. DOMAIN s.frames = {}
      BY <2>5
    <3> QED BY <2>5, <3>1, <3>2 DEF Nested, text, mainPc
  <2>9. Installed(s)
    BY <2>2, <2>5, <2>6 DEF Installed, noJump, Sig
  <2>10. Good(s, Len(files))
    BY <1>1, <2>4, <2>6, <2>8, <2>9 DEF Good
  <2> QED BY <2>7, <2>10, MovesKeeps
<1> QED BY <1>2, <1>3 DEF Execve

-----------------------------------------------------------------------------
(* Waiting and signals.                                                     *)

\* Other variables, other descriptors.
LEMMA VarGood ==
  ASSUME NEW r, NEW n \in Nat, Good(r, n), NEW v \in Var, v.child = r.var.child
  PROVE  Good([r EXCEPT !.var = v], n) /\ [r EXCEPT !.var = v].fd = r.fd
<1> DEFINE s == [r EXCEPT !.var = v]
<1>1. r \in Process
  BY DEF Good
<1>2. s \in Process /\ s.var = v
  BY <1>1 DEF Process
<1>3. s.code = r.code /\ s.pc = r.pc /\ s.frames = r.frames /\ s.mask = r.mask /\ s.fd = r.fd
  BY <1>1 DEF Process
<1>4. s.handler = r.handler /\ s.atexit = r.atexit /\ s.jump = r.jump
  BY <1>1 DEF Process
<1> HIDE DEF s
<1>5. Good(s, n)
  BY <1>2, <1>3, <1>4, DataGood DEF Good
<1> QED BY <1>3, <1>5 DEF s

LEMMA FdGood ==
  ASSUME NEW r, NEW n \in Nat, Good(r, n), NEW g \in [Fd -> Nat], NEW m \in Nat,
         \A f \in Fd : g[f] <= m
  PROVE  Good([r EXCEPT !.fd = g], m)
<1> DEFINE s == [r EXCEPT !.fd = g]
<1>1. r \in Process
  BY DEF Good
<1>2. s \in Process /\ s.var = r.var
  BY <1>1 DEF Process
<1>3. s.code = r.code /\ s.pc = r.pc /\ s.frames = r.frames /\ s.mask = r.mask /\ s.fd = g
  BY <1>1 DEF Process
<1>4. s.handler = r.handler /\ s.atexit = r.atexit /\ s.jump = r.jump
  BY <1>1 DEF Process
<1> HIDE DEF s
<1>5. Good(s, m)
  BY <1>2, <1>3, <1>4, DataGood DEF Good
<1> QED BY <1>5 DEF s

\* A step of two processes.
LEMMA PairKeeps ==
  ASSUME MachineInv, NEW p \in Pid, NEW q \in Pid, NEW a, NEW b,
         Good(a, Len(files)), Good(b, Len(files)),
         proc' = [proc EXCEPT ![p] = a, ![q] = b],
         UNCHANGED <<world, files, screen, failed, typed>>
  PROVE  MachineInv'
<1>1. proc' \in [Pid -> Process]
  BY DEF Good, MachineInv
<1>2. \A o \in Pid : Good(proc'[o], Len(files'))
  BY DEF MachineInv
<1> QED BY <1>1, <1>2 DEF MachineInv, world

LEMMA WaitpidKeeps == ASSUME MachineInv, NEW p \in Pid, Waitpid(p) PROVE MachineInv'
<1> DEFINE i == text(proc[p])[proc[p].pc]
           children == {q \in Pid : /\ proc[q].parent = p /\ proc[q].st \in {"run", "zombie"}
                                    /\ arg(p) = "own" => q = proc[p].var.child}
<1>1. /\ op(p) = "wait" /\ op(p) \in Falls /\ op(p) = i[2] /\ arg2(p) = i[4]
  BY Here DEF op, arg2, Waitpid, at, Falls
<1>2. CASE children = {}
  <2>1. Fails(p, arg2(p))
    BY <1>2 DEF Waitpid
  <2>2. arg2(p) = 0 \/ Near(text(proc[p]), cut(proc[p].code), proc[p].pc, arg2(p))
    BY <1>1, Here DEF GoesOn
  <2> QED BY <2>1, <2>2, FailsKeeps
<1>3. CASE children # {}
  <2>1. PICK q \in Pid : /\ proc' = [proc EXCEPT ![q] = over("gone", 0), ![p] = sets(p, "pid", q)]
                         /\ UNCHANGED <<world, files, screen, failed, typed>>
    BY <1>3 DEF Waitpid
  <2>2. Good(over("gone", 0), Len(files))
    BY OverGood, Here DEF MachineInv
  <2>3. Good(sets(p, "pid", q), Len(files))
    BY <1>1, SetsGood
  <2> HIDE DEF over, sets
  <2> QED BY <2>1, <2>2, <2>3, PairKeeps
<1> QED BY <1>2, <1>3

LEMMA KillKeeps == ASSUME MachineInv, NEW p \in Pid, Kill(p) PROVE MachineInv'
<1> DEFINE q == IF arg(p) = "parent" THEN proc[p].parent ELSE proc[p].var.child
<1>1. /\ op(p) = "kill" /\ op(p) \in Falls /\ arg2(p) \in Sig
  BY Here DEF op, arg2, Kill, at, Falls, Typed
<1>2. q \in Pid \cup {0}
  BY Here DEF Process, Var
<1>3. CASE q = 0 \/ proc[q].st \notin {"run", "zombie"}
  BY <1>3, ErrorKeeps DEF Kill
<1>4. CASE ~(q = 0 \/ proc[q].st \notin {"run", "zombie"})
  <2>1. /\ proc' = [proc EXCEPT ![p] = next(proc[p]), ![q] = sent(proc[q], arg2(p))]
        /\ UNCHANGED <<world, files, screen, failed, typed>>
    BY <1>4 DEF Kill
  <2>2. q \in Pid
    BY <1>2, <1>4
  <2>3. Good(next(proc[p]), Len(files))
    BY <1>1, Here, NextGood DEF op
  <2> HIDE DEF q
  <2>4. Good(sent(proc[q], arg2(p)), Len(files))
    BY <1>1, <2>2, Here, SentGood
  <2> HIDE DEF next, sent
  <2> QED BY <2>1, <2>2, <2>3, <2>4, PairKeeps
<1> QED BY <1>3, <1>4

LEMMA SignalKeeps == ASSUME MachineInv, NEW p \in Pid, Signal(p) PROVE MachineInv'
<1> DEFINE i == text(proc[p])[proc[p].pc]
           r == next(proc[p])
<1>1. /\ op(p) = "signal" /\ op(p) \in Falls /\ op(p) = i[2] /\ arg(p) = i[3] /\ arg2(p) = i[4]
  BY Here DEF op, arg, arg2, Signal, at, Falls
<1>2. CASE arg(p) = "KILL"
  BY <1>2, ErrorKeeps DEF Signal
<1>3. CASE arg(p) # "KILL"
  <2> DEFINE h == [r.handler EXCEPT ![arg(p)] = arg2(p)]
  <2>1. arg(p) \in Sig /\ InHandlers(text(proc[p]), cut(proc[p].code), arg2(p)) /\ arg2(p) \in Nat
    BY <1>1, <1>3, Here DEF Jumps, Typed
  <2>2. /\ Good(r, Len(files)) /\ r \in Process /\ r.code = proc[p].code /\ Len(files) \in Nat
    BY <1>1, Here, NextGood DEF op, Good
  <2>3. Moves(p, [r EXCEPT !.handler = h])
    BY <1>3 DEF Signal
  <2> HIDE DEF r
  <2>4. r.handler \in [Sig -> Nat]
    BY <2>2 DEF Process
  <2>5. h \in [Sig -> Nat] /\ \A s \in Sig : h[s] = IF s = arg(p) THEN arg2(p) ELSE r.handler[s]
    BY <2>1, <2>4
  <2> HIDE DEF h
  <2> DEFINE t == [r EXCEPT !.handler = h]
  <2>6. t \in Process /\ t.handler = h
    BY <2>2, <2>5 DEF Process
  <2>7. t.code = r.code /\ t.pc = r.pc /\ t.frames = r.frames /\ t.mask = r.mask /\ t.fd = r.fd
    BY <2>2 DEF Process
  <2>8. t.atexit = r.atexit /\ t.jump = r.jump /\ t.var = r.var
    BY <2>2 DEF Process
  <2> HIDE DEF t
  <2>9. Nested(t)
    BY <2>2, <2>7, <2>8 DEF Good, Nested, text, mainPc
  <2>10. Installed(t)
    <3>1. \A s \in Sig : t.handler[s] = 0 \/ InHandlers(text(t), cut(t.code), t.handler[s])
      BY <2>1, <2>2, <2>5, <2>6, <2>7 DEF Good, Installed, text
    <3>2. t.handler["KILL"] = 0
      BY <1>3, <2>2, <2>5, <2>6 DEF Good, Installed, Sig
    <3> QED BY <3>1, <3>2, <2>2, <2>7, <2>8 DEF Good, Installed, text
  <2>11. Good(t, Len(files))
    BY <2>2, <2>6, <2>7, <2>9, <2>10 DEF Good
  <2>12. Moves(p, t)
    BY <2>3 DEF t
  <2> QED BY <2>11, <2>12, MovesKeeps
<1> QED BY <1>2, <1>3

LEMMA SleepKeeps == ASSUME MachineInv, NEW p \in Pid, Sleep(p) \/ Pthread_join(p) PROVE MachineInv'
<1>1. op(p) \in Falls /\ Moves(p, next(proc[p]))
  BY DEF Sleep, Pthread_join, at, Falls
<1> QED BY <1>1, Here, NextGood, MovesKeeps DEF op

\* An alarm is set, or switched off when it has rung.
LEMMA AlarmGood ==
  ASSUME NEW r, NEW n \in Nat, Good(r, n), NEW b \in BOOLEAN
  PROVE  Good([r EXCEPT !.alarm = b], n)
<1> DEFINE s == [r EXCEPT !.alarm = b]
<1>1. r \in Process
  BY DEF Good
<1>2. s \in Process /\ s.var = r.var
  BY <1>1 DEF Process
<1>3. s.code = r.code /\ s.pc = r.pc /\ s.frames = r.frames /\ s.mask = r.mask /\ s.fd = r.fd
  BY <1>1 DEF Process
<1>4. s.handler = r.handler /\ s.atexit = r.atexit /\ s.jump = r.jump
  BY <1>1 DEF Process
<1> HIDE DEF s
<1>5. Good(s, n)
  BY <1>2, <1>3, <1>4, DataGood DEF Good
<1> QED BY <1>5 DEF s

LEMMA AlarmKeeps == ASSUME MachineInv, NEW p \in Pid, Alarm(p) PROVE MachineInv'
<1>1. op(p) = "alarm" /\ op(p) \in Falls /\ Moves(p, [next(proc[p]) EXCEPT !.alarm = arg(p)])
  BY DEF Alarm, at, Falls
<1>2. Good(next(proc[p]), Len(files)) /\ Len(files) \in Nat
  BY <1>1, Here, NextGood DEF op
<1>3. arg(p) \in BOOLEAN
  BY <1>1, Here DEF op, arg, Typed
<1> QED BY <1>1, <1>2, <1>3, AlarmGood, MovesKeeps

LEMMA AlarmRingsKeeps == ASSUME MachineInv, NEW p \in Pid, AlarmRings(p) PROVE MachineInv'
<1>1. Moves(p, [sent(proc[p], "ALRM") EXCEPT !.alarm = FALSE])
  BY DEF AlarmRings
<1>2. Good(sent(proc[p], "ALRM"), Len(files)) /\ Len(files) \in Nat
  BY Here, SentGood DEF Sig
<1> QED BY <1>1, <1>2, AlarmGood, MovesKeeps

LEMMA DeliverKeeps == ASSUME MachineInv, NEW p \in Pid, Deliver(p) PROVE MachineInv'
<1> DEFINE r == proc[p]
<1>1. PICK s \in deliverable(p), back \in {0, 1} :
        /\ back = 1 => op(p) \in NotRestarted
        /\ IF r.handler[s] = 0 THEN Killed(p)
           ELSE Moves(p, handling(r, s, back))
  BY DEF Deliver
<1>2. /\ Good(r, Len(files)) /\ r \in Process /\ r.pc \in Nat /\ r.pc \in DOMAIN text(r)
      /\ cut(r.code) \in Nat /\ Len(files) \in Nat /\ s \in Sig
  BY <1>1, Here, InstructionFacts DEF deliverable, Process
<1>3. CASE r.handler[s] = 0
  BY <1>1, <1>3, KilledKeeps
<1>4. CASE r.handler[s] # 0
  <2> DEFINE l == r.handler[s]
             t == goto(r, l)
             f == [pc |-> r.pc + back, mask |-> r.mask]
             u == [t EXCEPT !.pending = @ \ {s}, !.mask = @ \cup {s}, !.frames = Append(@, f)]
  <2>1. s \in Blockable /\ InHandlers(text(r), cut(r.code), l)
    BY <1>2, <1>4 DEF Good, Installed, Blockable
  <2>2. /\ t \in Process /\ t.pc \in DOMAIN text(r) /\ text(r)[t.pc][1] = l
        /\ t.code = r.code /\ t.frames = r.frames /\ t.mask = r.mask /\ t.var = r.var
        /\ t.handler = r.handler /\ t.atexit = r.atexit /\ t.jump = r.jump /\ t.fd = r.fd
    BY <1>2, <2>1, Landing DEF InHandlers
  <2>3. ~(t.pc < cut(r.code))
    <3>1. t.pc >= cut(r.code) /\ t.pc \in Nat
      BY <2>1, <2>2 DEF InHandlers, Process
    <3> QED BY <1>2, <3>1
  <2>4. /\ r.pc + back \in DOMAIN text(r) /\ r.pc + back \in Nat
        /\ r.pc + back < cut(r.code) <=> r.pc < cut(r.code)
        /\ back = 1 => text(r)[r.pc + back][2] # "addjob"
    <3>1. CASE back = 0
      BY <1>2, <3>1
    <3>2. CASE back = 1
      <4>1. text(r)[r.pc][2] \in {"pause", "sleep"}
        BY <1>1, <3>2, Here DEF NotRestarted, op
      <4>2. GoesOn(text(r), cut(r.code), r.pc)
        BY Here
      <4>3. r.pc + 1 \in DOMAIN text(r) /\ r.pc + 1 # cut(r.code) /\ text(r)[r.pc + 1][2] # "addjob"
        BY <4>1, <4>2 DEF GoesOn, Falls
      <4> QED BY <1>2, <3>2, <4>3
    <3> QED BY <3>1, <3>2
  <2>5. f \in Frame /\ f.pc = r.pc + back /\ f.mask = r.mask
    BY <1>2, <2>4 DEF Frame, Process
  <2>6. Moves(p, u)
    BY <1>1, <1>4 DEF handling
  <2> HIDE DEF f, t, l
  <2>7. PICK g \in Seq(Frame) :
          /\ g = Append(t.frames, f) /\ Len(g) = Len(r.frames) + 1 /\ g # <<>>
          /\ \A k \in 1..Len(r.frames) : g[k] = r.frames[k]
          /\ g[Len(r.frames) + 1] = f
    <3>1. t.frames \in Seq(Frame) /\ r.frames \in Seq(Frame) /\ t.frames = r.frames
      BY <1>2, <2>2 DEF Process
    <3>2. /\ Append(r.frames, f) \in Seq(Frame) /\ Len(Append(r.frames, f)) = Len(r.frames) + 1
          /\ Append(r.frames, f) # <<>> /\ Append(r.frames, f)[Len(r.frames) + 1] = f
          /\ \A k \in 1..Len(r.frames) : Append(r.frames, f)[k] = r.frames[k]
      BY <2>5, <3>1, AppendProperties
    <3>3. Append(t.frames, f) = Append(r.frames, f)
      BY <3>1
    <3> QED BY <3>2, <3>3
  <2>8. u \in Process
    <3>1. t.mask \cup {s} \in SUBSET Blockable
      BY <2>1, <2>2 DEF Process
    <3>2. PICK m \in SUBSET Blockable : m = t.mask \cup {s}
      BY <3>1
    <3>3. PICK e \in SUBSET Sig : e = t.pending \ {s}
      BY <2>2 DEF Process
    <3>4. u = [t EXCEPT !.pending = e, !.mask = m, !.frames = g]
      BY <2>7, <3>2, <3>3
    <3> HIDE DEF u
    <3> QED BY <2>2, <3>4 DEF Process
  <2>9. u.code = r.code /\ u.pc = t.pc /\ u.frames = g /\ u.fd = r.fd /\ u.var = r.var
    BY <2>2, <2>7 DEF Process
  <2>10. u.handler = r.handler /\ u.atexit = r.atexit /\ u.jump = r.jump
    BY <2>2 DEF Process
  <2> HIDE DEF u
  <2>11. Nested(u)
    <3>1. Nested(r) /\ r.frames \in Seq(Frame) /\ Len(r.frames) \in Nat
      BY <1>2 DEF Good, Process
    <3>2. g[1].pc < cut(r.code) /\ g[1].mask = {}
      BY <1>2, <2>4, <2>5, <2>7, <3>1 DEF Nested
    <3>3. ASSUME NEW k \in DOMAIN g
          PROVE  g[k].pc \in DOMAIN text(r) /\ (k # 1 => ~(g[k].pc < cut(r.code)))
      <4>1. CASE k \in 1..Len(r.frames)
        BY <2>7, <3>1, <4>1 DEF Nested
      <4>2. CASE k = Len(r.frames) + 1
        BY <1>2, <2>4, <2>5, <2>7, <3>1, <4>2 DEF Nested
      <4> QED BY <2>7, <3>1, <3>3, <4>1, <4>2
    <3>4. text(r)[g[1].pc][2] = "addjob" => r.var.child \in Pid
      <4>1. CASE r.frames = <<>>
        BY <1>2, <2>4, <2>5, <2>7, <3>1, <4>1 DEF Nested, mainPc
      <4>2. CASE r.frames # <<>>
        BY <2>7, <3>1, <4>2 DEF Nested, mainPc
      <4> QED BY <4>1, <4>2
    <3> QED BY <2>2, <2>3, <2>7, <2>9, <3>2, <3>3, <3>4 DEF Nested, text, mainPc
  <2>12. Installed(u)
    BY <1>2, <2>9, <2>10 DEF Good, Installed, text
  <2>13. Good(u, Len(files))
    BY <1>2, <2>8, <2>9, <2>11, <2>12 DEF Good
  <2> QED BY <2>6, <2>13, MovesKeeps
<1> QED BY <1>3, <1>4

LEMMA ReturnKeeps == ASSUME MachineInv, NEW p \in Pid, Return(p) PROVE MachineInv'
<1> DEFINE r == proc[p]
           k == Len(r.frames)
           s == [r EXCEPT !.pc = r.frames[k].pc, !.mask = r.frames[k].mask,
                          !.frames = SubSeq(r.frames, 1, k - 1)]
<1>1. /\ Good(r, Len(files)) /\ r \in Process /\ r.pc \in Nat /\ cut(r.code) \in Nat
      /\ r.frames \in Seq(Frame) /\ k \in Nat /\ Len(files) \in Nat
  BY Here, InstructionFacts DEF Process
<1>2. r.pc >= cut(r.code)
  BY Here DEF Return, at, op, Jumps
<1>3. r.frames # <<>> /\ k >= 1
  BY <1>1, <1>2 DEF Good, Nested
<1>4. Moves(p, s)
  BY DEF Return
<1>15. r.frames[k] \in Frame /\ \A j \in 1..k : r.frames[j] \in Frame
  BY <1>1, <1>3
<1>5. PICK a \in Nat : a = r.frames[k].pc
  BY <1>15 DEF Frame
<1>6. PICK m \in SUBSET Blockable : m = r.frames[k].mask
  BY <1>15 DEF Frame
<1>16. /\ SubSeq(r.frames, 1, k - 1) \in Seq(Frame) /\ Len(SubSeq(r.frames, 1, k - 1)) = k - 1
       /\ \A j \in 1..(k - 1) : SubSeq(r.frames, 1, k - 1)[j] = r.frames[j]
  BY <1>1, <1>3, <1>15, SubSeqProperties
<1>7. PICK g \in Seq(Frame) : /\ g = SubSeq(r.frames, 1, k - 1) /\ Len(g) = k - 1
                              /\ \A j \in 1..(k - 1) : g[j] = r.frames[j]
  BY <1>16
<1>8. s = [r EXCEPT !.pc = a, !.mask = m, !.frames = g]
  BY <1>5, <1>6, <1>7
<1> HIDE DEF s
<1>9. s \in Process
  BY <1>1, <1>8 DEF Process
<1>10. s.code = r.code /\ s.pc = a /\ s.frames = g /\ s.mask = m /\ s.fd = r.fd
  BY <1>1, <1>8 DEF Process
<1>11. s.handler = r.handler /\ s.atexit = r.atexit /\ s.jump = r.jump /\ s.var = r.var
  BY <1>1, <1>8 DEF Process
<1>12. Nested(s)
  <2>1. Nested(r) /\ DOMAIN r.frames = 1..k /\ k \in DOMAIN r.frames
    BY <1>1, <1>3 DEF Good
  <2>2. a \in DOMAIN text(r)
    BY <1>5, <2>1 DEF Nested
  <2>3. CASE k = 1
    <3>1. g = <<>> /\ DOMAIN g = {}
      BY <1>7, <2>3
    <3> QED BY <1>3, <1>5, <1>6, <1>10, <1>11, <2>1, <2>2, <2>3, <3>1 DEF Nested, text, mainPc
  <2>4. CASE k > 1
    <3>4. 1 \in 1..(k - 1) /\ DOMAIN g = 1..(k - 1)
      BY <1>1, <1>7, <2>4
    <3>5. g[1] = r.frames[1]
      BY <1>7, <3>4
    <3>6. g # <<>>
      BY <3>4
    <3>1. g # <<>> /\ DOMAIN g = 1..(k - 1) /\ g[1] = r.frames[1] /\ 1 \in 1..(k - 1)
      BY <3>4, <3>5, <3>6
    <3>2. ~(a < cut(r.code))
      BY <1>5, <2>1, <2>4 DEF Nested
    <3>3. \A j \in DOMAIN g : /\ g[j].pc \in DOMAIN text(r)
                              /\ j # 1 => ~(g[j].pc < cut(r.code))
      BY <1>1, <1>7, <2>1, <3>1 DEF Nested
    <3> QED BY <1>3, <1>10, <1>11, <2>1, <2>2, <3>1, <3>2, <3>3 DEF Nested, text, mainPc
  <2>6. k \in Nat /\ k >= 1
    BY <1>1, <1>3
  <2> HIDE DEF k
  <2>5. k = 1 \/ k > 1
    BY <2>6
  <2> QED BY <2>3, <2>4, <2>5
<1>13. Installed(s)
  BY <1>1, <1>10, <1>11 DEF Good, Installed, text
<1>14. Good(s, Len(files))
  BY <1>1, <1>9, <1>10, <1>12, <1>13 DEF Good
<1> QED BY <1>4, <1>14, MovesKeeps

LEMMA SetjmpKeeps == ASSUME MachineInv, NEW p \in Pid, Setjmp(p) PROVE MachineInv'
<1> DEFINE r == proc[p]
           i == text(r)[r.pc]
           t == goto(r, i[3][1])
           j == [pc |-> r.pc, depth |-> Len(r.frames), mask |-> r.mask, left |-> FALSE]
           s == [t EXCEPT !.jump = j]
<1>1. i[2] = "setjmp" /\ Moves(p, s)
  BY Here DEF Setjmp, at, op, arg, jumps
<1>2. /\ Good(r, Len(files)) /\ r.pc < cut(r.code) /\ InMain(text(r), cut(r.code), i[3][1])
      /\ r \in Process /\ r.pc \in Nat /\ r.pc \in DOMAIN text(r) /\ Len(files) \in Nat
  BY <1>1, Here, InstructionFacts DEF Jumps
<1>3. r.frames = <<>> /\ r.mask = {}
  BY <1>2 DEF Good, Nested
<1>4. j \in Jump /\ j.pc = r.pc /\ j.depth = 0 /\ j.mask = {}
  BY <1>2, <1>3 DEF Jump
<1>5. Good(t, Len(files)) /\ t \in Process
  BY <1>2, <1>3, GotoGood DEF Good
<1>6. t.code = r.code
  BY <1>2, Landing DEF InMain
<1> HIDE DEF t, j
<1>7. s \in Process /\ s.jump = j
  BY <1>4, <1>5 DEF Process
<1>8. s.code = t.code /\ s.pc = t.pc /\ s.frames = t.frames /\ s.mask = t.mask /\ s.fd = t.fd
  BY <1>5 DEF Process
<1>9. s.handler = t.handler /\ s.atexit = t.atexit /\ s.var = t.var
  BY <1>5 DEF Process
<1> HIDE DEF s
<1>10. Nested(s)
  BY <1>5, <1>8, <1>9 DEF Good, Nested, text, mainPc
<1>11. Installed(s)
  BY <1>1, <1>2, <1>4, <1>5, <1>6, <1>7, <1>8, <1>9 DEF Good, Installed, text
<1>12. Good(s, Len(files))
  BY <1>5, <1>7, <1>8, <1>10, <1>11 DEF Good
<1> QED BY <1>1, <1>12, MovesKeeps

LEMMA LeaveKeeps == ASSUME MachineInv, NEW p \in Pid, Leave(p) PROVE MachineInv'
<1> DEFINE r == next(proc[p])
           s == [r EXCEPT !.jump.left = TRUE]
<1>1. op(p) \in Falls /\ Moves(p, s)
  BY DEF Leave, at, Falls
<1>2. Good(r, Len(files)) /\ r \in Process /\ Len(files) \in Nat
  BY <1>1, Here, NextGood DEF op, Good
<1> HIDE DEF r
<1>3. r.jump \in Jump
  BY <1>2 DEF Process
<1> DEFINE j == [r.jump EXCEPT !.left = TRUE]
<1>4. j \in Jump /\ j.pc = r.jump.pc /\ j.depth = r.jump.depth /\ j.mask = r.jump.mask
  BY <1>3 DEF Jump
<1>5. s = [r EXCEPT !.jump = j]
  OBVIOUS
<1> HIDE DEF j, s
<1>6. s \in Process /\ s.jump = j
  BY <1>2, <1>4, <1>5 DEF Process
<1>7. s.code = r.code /\ s.pc = r.pc /\ s.frames = r.frames /\ s.mask = r.mask /\ s.fd = r.fd
  BY <1>2, <1>5 DEF Process
<1>8. s.handler = r.handler /\ s.atexit = r.atexit /\ s.var = r.var
  BY <1>2, <1>5 DEF Process
<1>9. Nested(s)
  BY <1>2, <1>7, <1>8 DEF Good, Nested, text, mainPc
<1>10. Installed(s)
  BY <1>2, <1>4, <1>6, <1>7, <1>8 DEF Good, Installed, text
<1>11. Good(s, Len(files))
  BY <1>2, <1>6, <1>7, <1>9, <1>10 DEF Good
<1> QED BY <1>1, <1>11, MovesKeeps

\* siglongjmp leads back to main() and restores its mask.
LEMMA LongjmpKeeps == ASSUME MachineInv, NEW p \in Pid, Longjmp(p) PROVE MachineInv'
<1> DEFINE r == proc[p]
           j == r.jump
           l == text(r)[j.pc][3][arg(p) + 1]
           t == goto(r, l)
<1>1. /\ Good(r, Len(files)) /\ r \in Process /\ Len(files) \in Nat /\ op(p) = "longjmp"
      /\ r.frames \in Seq(Frame)
  BY Here DEF Longjmp, at, Process
<1>2. CASE Killed(p)
  BY <1>2, KilledKeeps
<1>3. CASE j.pc # 0 /\ Moves(p, landed(r, l))
  <2>1. /\ j.depth = 0 /\ j.mask = {} /\ j.pc \in DOMAIN text(r) /\ text(r)[j.pc][2] = "setjmp"
    BY <1>1, <1>3 DEF Good, Installed
  <2>2. InMain(text(r), cut(r.code), l)
    BY <1>1, <2>1, Here DEF op, arg, Jumps
  <2>3. /\ t \in Process /\ t.pc \in DOMAIN text(r) /\ text(r)[t.pc][1] = l
        /\ t.code = r.code /\ t.frames = r.frames /\ t.mask = r.mask /\ t.var = r.var
        /\ t.handler = r.handler /\ t.atexit = r.atexit /\ t.jump = r.jump /\ t.fd = r.fd
    BY <1>1, <2>2, Landing DEF InMain
  <2>5. SubSeq(t.frames, 1, r.jump.depth) = <<>>
    BY <1>1, <2>1, <2>3, SubSeqProperties
  <2> DEFINE s == [t EXCEPT !.frames = <<>>, !.mask = {}]
  <2>6. landed(r, l) = s
    BY <2>1, <2>5 DEF landed
  <2> HIDE DEF t, l
  <2>4. t.pc < cut(r.code) /\ text(r)[t.pc][2] # "addjob"
    BY <2>2, <2>3 DEF InMain
  <2>7. s \in Process
    <3>1. <<>> \in Seq(Frame) /\ {} \in SUBSET Blockable
      BY EmptySeq
    <3> QED BY <2>3, <3>1 DEF Process
  <2>8. s.code = r.code /\ s.pc = t.pc /\ s.frames = <<>> /\ s.mask = {} /\ s.fd = r.fd
    BY <2>3 DEF Process
  <2>9. s.handler = r.handler /\ s.atexit = r.atexit /\ s.var = r.var /\ s.jump = r.jump
    BY <2>3 DEF Process
  <2>10. DOMAIN s.frames = {}
    BY <2>8
  <2> HIDE DEF s
  <2>11. Nested(s)
    BY <2>3, <2>4, <2>8, <2>10 DEF Nested, text, mainPc
  <2>12. Installed(s)
    BY <1>1, <2>8, <2>9 DEF Good, Installed, text
  <2>13. Good(s, Len(files))
    BY <1>1, <2>7, <2>8, <2>11, <2>12 DEF Good
  <2> QED BY <1>3, <2>6, <2>13, MovesKeeps
<1> QED BY <1>2, <1>3 DEF Longjmp, text

-----------------------------------------------------------------------------
(* Descriptors, files and the terminal.                                     *)

\* A descriptor variable names a descriptor, and that an open file or none.
LEMMA FileIsOpen ==
  ASSUME MachineInv, NEW p \in Pid, NEW name \in FdVar
  PROVE  /\ proc[p].var[name] \in Fd /\ file(p, name) \in Nat /\ file(p, name) <= Len(files)
         /\ file(p, name) # 0 => file(p, name) \in DOMAIN files /\ files[file(p, name)].pos \in Nat
<1>1. Good(proc[p], Len(files)) /\ Len(files) \in Nat /\ files \in Seq(OpenFile)
  BY Here DEF MachineInv
<1>2. PICK v \in Var : v = proc[p].var
  BY Here DEF Process
<1>3. v[name] \in Fd
  BY <1>2 DEF Var, FdVar
<1>4. proc[p].fd \in [Fd -> Nat] /\ \A f \in Fd : proc[p].fd[f] <= Len(files)
  BY <1>1 DEF Good, Process
<1>5. file(p, name) \in Nat /\ file(p, name) <= Len(files)
  BY <1>2, <1>3, <1>4 DEF file
<1>6. ASSUME NEW k \in Nat, k # 0, k <= Len(files) PROVE k \in DOMAIN files /\ files[k].pos \in Nat
  <2>1. k \in DOMAIN files /\ files[k] \in OpenFile
    BY <1>1, <1>6
  <2> QED BY <2>1 DEF OpenFile
<1> QED BY <1>2, <1>3, <1>5, <1>6

\* A file has advanced: there are as many as before.
LEMMA AdvancesGood ==
  ASSUME MachineInv, NEW k \in DOMAIN files, Advances(k)
  PROVE  files' \in Seq(OpenFile) /\ Len(files') = Len(files) /\ Len(files) <= Len(files')
<1>1. files \in Seq(OpenFile) /\ Len(files) \in Nat /\ files[k] \in OpenFile
  BY DEF MachineInv
<1>2. [files[k] EXCEPT !.pos = @ + 1] \in OpenFile
  BY <1>1 DEF OpenFile
<1>3. PICK f \in OpenFile : f = [files[k] EXCEPT !.pos = @ + 1]
  BY <1>2
<1>4. files' = [files EXCEPT ![k] = f]
  BY <1>3 DEF Advances
<1> QED BY <1>1, <1>4, ExceptSeq

LEMMA OpenKeeps == ASSUME MachineInv, NEW p \in Pid, Open(p) PROVE MachineInv'
<1> DEFINE i == text(proc[p])[proc[p].pc]
           N == Len(files)
<1>1. /\ op(p) = "open" /\ op(p) \in Falls /\ op(p) = i[2] /\ arg(p) = i[3] /\ arg2(p) = i[4]
  BY Here DEF op, arg, arg2, Open, at, Falls
<1>2. CASE Fails(p, arg2(p))
  <2>1. arg2(p) = 0 \/ Near(text(proc[p]), cut(proc[p].code), proc[p].pc, arg2(p))
    BY <1>1, Here DEF GoesOn
  <2> QED BY <1>2, <2>1, FailsKeeps
<1>3. CASE ~Fails(p, arg2(p))
  <2> DEFINE f == Least(free(p))
             t == sets(p, arg(p), f)
             g == [t.fd EXCEPT ![f] = N + 1]
  <2>1. /\ free(p) # {} /\ files' = Append(files, opened("file"))
        /\ Becomes(p, [t EXCEPT !.fd[f] = N + 1])
        /\ UNCHANGED <<world, screen, failed, typed>>
    BY <1>3 DEF Open
  <2>2. f \in Fd
    BY <2>1, LeastIsMember DEF free, Fd
  <2>3. arg(p) \in {"fd1", "fd2"}
    BY <1>1, Here DEF Typed
  <2> HIDE DEF f
  <2>4. Good(t, N) /\ t.fd = proc[p].fd /\ N \in Nat
    BY <1>1, <2>2, <2>3, SetsGood, Here
  <2> HIDE DEF t
  <2>5. t.fd \in [Fd -> Nat] /\ \A x \in Fd : t.fd[x] <= N
    BY <2>4 DEF Good, Process
  <2>6. g \in [Fd -> Nat] /\ \A x \in Fd : g[x] <= N + 1
    BY <2>2, <2>4, <2>5
  <2>7. [t EXCEPT !.fd[f] = N + 1] = [t EXCEPT !.fd = g]
    OBVIOUS
  <2> HIDE DEF g
  <2>8. Good([t EXCEPT !.fd = g], N + 1)
    BY <2>4, <2>6, FdGood
  <2>9. opened("file") \in OpenFile
    BY DEF opened, OpenFile
  <2>10. files' \in Seq(OpenFile) /\ Len(files') = N + 1 /\ N <= Len(files')
    BY <2>1, <2>4, <2>9, AppendProperties DEF MachineInv
  <2> QED BY <2>1, <2>7, <2>8, <2>10, BecomesKeeps DEF MachineInv
<1> QED BY <1>2, <1>3

LEMMA PipeKeeps == ASSUME MachineInv, NEW p \in Pid, Pipe(p) PROVE MachineInv'
<1> DEFINE i == text(proc[p])[proc[p].pc]
           N == Len(files)
<1>1. op(p) = "pipe" /\ op(p) \in Falls /\ op(p) = i[2] /\ arg(p) = i[3]
  BY Here DEF op, arg, Pipe, at, Falls
<1>2. CASE Fails(p, arg(p))
  <2>1. arg(p) = 0 \/ Near(text(proc[p]), cut(proc[p].code), proc[p].pc, arg(p))
    BY <1>1, Here DEF GoesOn
  <2> QED BY <1>2, <2>1, FailsKeeps
<1>3. CASE ~Fails(p, arg(p))
  <2> DEFINE r == Least(free(p))
             w == Least(free(p) \ {r})
             t == sets(p, "fd1", r)
             both == <<opened("readEnd"), opened("writeEnd")>>
  <2>1. /\ free(p) \ {r} # {} /\ files' = files \o both
        /\ Becomes(p, [t EXCEPT !.var.fd2 = w, !.fd[r] = N + 1, !.fd[w] = N + 2])
        /\ UNCHANGED <<world, screen, failed, typed>>
    BY <1>3 DEF Pipe
  <2>2. r \in Fd /\ w \in Fd
    <3>1. free(p) \subseteq Fd /\ Fd \subseteq Nat
      BY DEF free, Fd
    <3>2. r \in free(p)
      BY <2>1, <3>1, LeastIsMember
    <3> HIDE DEF r
    <3>3. w \in free(p) \ {r}
      BY <2>1, <3>1, LeastIsMember
    <3> QED BY <3>1, <3>2, <3>3
  <2> HIDE DEF r, w
  <2>3. Good(t, N) /\ t.fd = proc[p].fd /\ N \in Nat
    BY <1>1, <2>2, SetsGood, Here
  <2> HIDE DEF t
  <2>4. t.var \in Var /\ t.fd \in [Fd -> Nat] /\ \A x \in Fd : t.fd[x] <= N
    BY <2>3 DEF Good, Process
  <2>5. [t.var EXCEPT !.fd2 = w] \in Var /\ [t.var EXCEPT !.fd2 = w].child = t.var.child
    BY <2>2, <2>4 DEF Var
  <2>6. PICK v \in Var : v = [t.var EXCEPT !.fd2 = w] /\ v.child = t.var.child
    BY <2>5
  <2> DEFINE g == [[t.fd EXCEPT ![r] = N + 1] EXCEPT ![w] = N + 2]
             u == [t EXCEPT !.var = v]
  <2>7. g \in [Fd -> Nat] /\ \A x \in Fd : g[x] <= N + 2
    <3> HIDE DEF N
    <3>1. [t.fd EXCEPT ![r] = N + 1] \in [Fd -> Nat] /\ N + 2 \in Nat
      BY <2>2, <2>3, <2>4
    <3>2. g \in [Fd -> Nat]
      BY <3>1
    <3>3. ASSUME NEW x \in Fd PROVE g[x] <= N + 2
      <4>1. g[x] = IF x = w THEN N + 2 ELSE IF x = r THEN N + 1 ELSE t.fd[x]
        BY <2>2, <2>4, <3>1
      <4>2. t.fd[x] <= N /\ t.fd[x] \in Nat
        BY <2>4
      <4> QED BY <2>3, <4>1, <4>2
    <3> QED BY <3>2, <3>3
  <2>8. Good(u, N) /\ u.fd = t.fd
    BY <2>3, <2>6, VarGood
  <2>9. [t EXCEPT !.var.fd2 = w, !.fd[r] = N + 1, !.fd[w] = N + 2] = [u EXCEPT !.fd = g]
    <3>1. t \in Process
      BY <2>3 DEF Good
    <3>2. t = [x \in DOMAIN t |-> t[x]] /\ "var" \in DOMAIN t /\ "fd" \in DOMAIN t
      BY <3>1 DEF Process
    <3> QED BY <2>6, <3>2
  <2> HIDE DEF g, u
  <2>10. Good([u EXCEPT !.fd = g], N + 2)
    BY <2>3, <2>7, <2>8, FdGood
  <2>11. both \in Seq(OpenFile) /\ Len(both) = 2
    BY DEF opened, OpenFile
  <2> HIDE DEF both
  <2>12. files' \in Seq(OpenFile) /\ Len(files') = N + 2 /\ N <= Len(files')
    <3>1. files \in Seq(OpenFile)
      BY DEF MachineInv
    <3>2. files \o both \in Seq(OpenFile) /\ Len(files \o both) = Len(files) + Len(both)
      BY <2>11, <3>1, ConcatProperties
    <3> QED BY <2>1, <2>3, <2>11, <3>2
  <2> QED BY <2>1, <2>9, <2>10, <2>12, BecomesKeeps DEF MachineInv
<1> QED BY <1>2, <1>3

\* Other descriptors for the same files.
LEMMA DescriptorsKeep ==
  ASSUME MachineInv, NEW p \in Pid, op(p) \in Falls, NEW g \in [Fd -> Nat],
         \A f \in Fd : g[f] <= Len(files), Moves(p, [next(proc[p]) EXCEPT !.fd = g])
  PROVE  MachineInv'
<1>1. Good(next(proc[p]), Len(files)) /\ Len(files) \in Nat
  BY Here, NextGood DEF op
<1> HIDE DEF next
<1>2. Good([next(proc[p]) EXCEPT !.fd = g], Len(files))
  BY <1>1, FdGood
<1> QED BY <1>2, MovesKeeps

LEMMA CloseKeeps == ASSUME MachineInv, NEW p \in Pid, Close(p) PROVE MachineInv'
<1> DEFINE r == next(proc[p])
<1>1. op(p) \in {"close", "closeall"} /\ op(p) \in Falls
  BY DEF Close, at, Falls
<1>2. /\ Good(r, Len(files)) /\ Len(files) \in Nat
  BY <1>1, Here, NextGood DEF op
<1> HIDE DEF r
<1>3. r.fd \in [Fd -> Nat] /\ \A f \in Fd : r.fd[f] <= Len(files)
  BY <1>2 DEF Good, Process
<1>4. CASE op(p) = "close" /\ file(p, arg(p)) = 0
  <2>1. unix_error(p)
    BY <1>4 DEF Close, at
  <2> QED BY <2>1, ErrorKeeps
<1>5. CASE op(p) = "close" /\ file(p, arg(p)) # 0
  <2>1. arg(p) \in FdVar
    BY <1>5, Here DEF op, arg, Typed
  <2>2. PICK f \in Fd : f = proc[p].var[arg(p)]
    BY <2>1, FileIsOpen
  <2>3. Moves(p, [r EXCEPT !.fd[f] = 0])
    BY <1>5, <2>2 DEF Close, at, r
  <2> DEFINE g == [r.fd EXCEPT ![f] = 0]
  <2>4. g \in [Fd -> Nat] /\ \A x \in Fd : g[x] <= Len(files)
    BY <1>2, <1>3
  <2>5. [r EXCEPT !.fd[f] = 0] = [r EXCEPT !.fd = g]
    OBVIOUS
  <2> HIDE DEF g
  <2> QED BY <1>1, <2>3, <2>4, <2>5, DescriptorsKeep DEF r
<1>6. CASE op(p) = "closeall"
  <2> DEFINE g == [f \in Fd |-> 0]
  <2>1. Moves(p, [r EXCEPT !.fd = g])
    BY <1>6 DEF Close, at, r
  <2>2. g \in [Fd -> Nat] /\ \A x \in Fd : g[x] <= Len(files)
    BY <1>2
  <2> HIDE DEF g
  <2> QED BY <1>1, <2>1, <2>2, DescriptorsKeep DEF r
<1> QED BY <1>1, <1>4, <1>5, <1>6

LEMMA Dup2Keeps == ASSUME MachineInv, NEW p \in Pid, Dup2(p) PROVE MachineInv'
<1> DEFINE r == next(proc[p])
<1>1. op(p) = "dup2" /\ op(p) \in Falls
  BY DEF Dup2, at, Falls
<1>2. /\ Good(r, Len(files)) /\ Len(files) \in Nat
  BY <1>1, Here, NextGood DEF op
<1> HIDE DEF r
<1>3. r.fd \in [Fd -> Nat] /\ \A f \in Fd : r.fd[f] <= Len(files)
  BY <1>2 DEF Good, Process
<1>4. arg(p) \in FdVar /\ arg2(p) \in FdVar
  BY <1>1, Here DEF op, arg, arg2, Typed
<1>5. PICK f \in Fd : f = proc[p].var[arg2(p)]
  BY <1>4, FileIsOpen
<1>6. PICK k \in Nat : k = file(p, arg(p)) /\ k <= Len(files)
  BY <1>4, FileIsOpen
<1>7. Moves(p, [r EXCEPT !.fd[f] = k])
  BY <1>5, <1>6 DEF Dup2, r
<1> DEFINE g == [r.fd EXCEPT ![f] = k]
<1>8. g \in [Fd -> Nat] /\ \A x \in Fd : g[x] <= Len(files)
  BY <1>2, <1>3, <1>6
<1>9. [r EXCEPT !.fd[f] = k] = [r EXCEPT !.fd = g]
  OBVIOUS
<1> HIDE DEF g
<1> QED BY <1>1, <1>7, <1>8, <1>9, DescriptorsKeep DEF r

LEMMA ReadKeeps == ASSUME MachineInv, NEW p \in Pid, Read(p) PROVE MachineInv'
<1> DEFINE i == text(proc[p])[proc[p].pc]
           k == file(p, arg(p))
<1>1. /\ op(p) = "read" /\ op(p) \in Falls /\ op(p) = i[2] /\ arg(p) = i[3] /\ arg2(p) = i[4]
      /\ Good(proc[p], Len(files)) /\ Len(files) \in Nat
  BY Here DEF op, arg, arg2, Read, at, Falls
<1>2. arg(p) \in FdVar
  BY <1>1, Here DEF Typed
<1>3. k # 0 => k \in DOMAIN files /\ files[k].pos \in Nat
  BY <1>2, FileIsOpen
<1> HIDE DEF k
<1>4. CASE unix_error(p)
  BY <1>4, ErrorKeeps
<1>5. CASE /\ k # 0 /\ Advances(k) /\ Becomes(p, sets(p, "n", files[k].pos + 1))
           /\ UNCHANGED <<world, screen, failed, typed>>
  <2>1. Good(sets(p, "n", files[k].pos + 1), Len(files))
    BY <1>1, <1>3, <1>5, SetsGood
  <2>2. files' \in Seq(OpenFile) /\ Len(files') = Len(files) /\ Len(files) <= Len(files')
    BY <1>3, <1>5, AdvancesGood
  <2> HIDE DEF sets
  <2> QED BY <1>5, <2>1, <2>2, BecomesKeeps DEF MachineInv
<1>6. CASE Moves(p, jumps(p, arg2(p)))
  <2>1. Good(jumps(p, arg2(p)), Len(files))
    BY <1>1, Here, GotoGood DEF jumps, GoesOn
  <2> QED BY <1>6, <2>1, MovesKeeps
<1> QED BY <1>4, <1>5, <1>6 DEF Read, k

LEMMA WriteKeeps == ASSUME MachineInv, NEW p \in Pid, Write(p) PROVE MachineInv'
<1> DEFINE k == file(p, arg(p))
           e == <<p, line(p), proc[p].var.n>>
<1>1. op(p) = "write" /\ op(p) \in Falls
  BY DEF Write, at, Falls
<1>2. Good(next(proc[p]), Len(files)) /\ Len(files) \in Nat
  BY <1>1, Here, NextGood DEF op
<1>3. arg(p) \in FdVar
  BY <1>1, Here DEF Typed, op, arg
<1>4. k # 0 => k \in DOMAIN files
  BY <1>3, FileIsOpen
<1>5. e \in Entry
  <2>1. line(p) \in Nat /\ proc[p].var.n \in Int
    BY Here DEF Process, Var
  <2> QED BY <2>1 DEF Entry
<1> HIDE DEF k, e
<1>6. CASE unix_error(p)
  BY <1>6, ErrorKeeps
<1>7. CASE Killed(p)
  BY <1>7, KilledKeeps
<1>8. CASE /\ screen' = Append(screen, e) /\ Becomes(p, next(proc[p]))
           /\ UNCHANGED <<world, files, failed, typed>>
  <2>1. screen' \in Seq(Entry)
    BY <1>5, <1>8, AppendProperties DEF MachineInv
  <2> HIDE DEF next
  <2>2. Len(files') = Len(files) /\ Len(files) <= Len(files')
    BY <1>2, <1>8
  <2> QED BY <1>2, <1>8, <2>1, <2>2, BecomesKeeps DEF MachineInv
<1>9. CASE /\ k # 0 /\ Advances(k) /\ Becomes(p, next(proc[p]))
           /\ UNCHANGED <<world, screen, failed, typed>>
  <2>1. files' \in Seq(OpenFile) /\ Len(files') = Len(files) /\ Len(files) <= Len(files')
    BY <1>4, <1>9, AdvancesGood
  <2> HIDE DEF next
  <2> QED BY <1>2, <1>9, <2>1, BecomesKeeps DEF MachineInv
<1> QED BY <1>6, <1>7, <1>8, <1>9 DEF Write, k, e

LEMMA FileKeeps ==
  ASSUME MachineInv, NEW p \in Pid, Mmap(p) \/ WriteFile(p) \/ Stat(p) \/ Lookup(p) PROVE MachineInv'
<1>1. /\ op(p) \in {"mmap", "writefile", "stat", "lookup"} /\ op(p) \in Falls
      /\ WriteFile(p) => op(p) = "writefile"
      /\ op(p) = "writefile" => WriteFile(p)
  BY DEF Mmap, WriteFile, Stat, Lookup, at, Falls
<1>2. Good(next(proc[p]), Len(files)) /\ Len(files) \in Nat
  BY <1>1, Here, NextGood DEF op
<1>3. CASE WriteFile(p)
  <2>1. CASE unix_error(p)
    BY <2>1, ErrorKeeps
  <2>2. ASSUME NEW k \in 1..FileSize,
               screen' = screen \o [j \in 1..k |-> <<p, line(p), j>>],
               Becomes(p, next(proc[p])), UNCHANGED <<world, files, failed, typed>>
        PROVE  MachineInv'
    <3> DEFINE e == [j \in 1..k |-> <<p, line(p), j>>]
    <3>1. line(p) \in Nat /\ k \in Nat
      BY Here, Setting
    <3>2. \A j \in 1..k : <<p, line(p), j>> \in Entry
      BY <3>1 DEF Entry
    <3>3. e \in Seq(Entry)
      BY <3>1, <3>2
    <3> HIDE DEF e
    <3>4. screen' \in Seq(Entry)
      BY <2>2, <3>3, ConcatProperties DEF MachineInv, e
    <3> HIDE DEF next
    <3>5. Len(files') = Len(files) /\ Len(files) <= Len(files')
      BY <1>2, <2>2
    <3> QED BY <1>2, <2>2, <3>4, <3>5, BecomesKeeps DEF MachineInv
  <2> QED BY <1>3, <2>1, <2>2 DEF WriteFile
<1>4. CASE ~WriteFile(p)
  <2>1. op(p) \in {"mmap", "stat", "lookup"}
    BY <1>1, <1>4
  <2>2. CASE Fails(p, arg(p))
    <3>1. arg(p) = 0 \/ Near(text(proc[p]), cut(proc[p].code), proc[p].pc, arg(p))
      BY <2>1, Here DEF GoesOn, op, arg
    <3> QED BY <2>2, <3>1, FailsKeeps
  <2>3. CASE Moves(p, next(proc[p]))
    BY <1>2, <2>3, MovesKeeps
  <2>4. CASE \E writable \in {0, 1} : Moves(p, sets(p, "n", writable))
    <3>1. \A writable \in {0, 1} : Good(sets(p, "n", writable), Len(files))
      BY <1>1, SetsGood
    <3> QED BY <2>4, <3>1, MovesKeeps
  <2> QED BY <1>4, <2>2, <2>3, <2>4 DEF Mmap, Stat, Lookup
<1> QED BY <1>3, <1>4

LEMMA TypesKeeps ==
  ASSUME MachineInv, NEW p \in Pid, NEW r, Good(r, Len(files)), Types, Becomes(p, r)
  PROVE  MachineInv'
<1>1. typed' \in 0..MaxTyped
  BY Setting DEF Types, MachineInv
<1>2. Len(files) \in Nat /\ UNCHANGED <<world, files, screen, failed>>
  BY Here DEF Types
<1>3. Len(files') = Len(files) /\ Len(files) <= Len(files')
  BY <1>2
<1> QED BY <1>1, <1>2, <1>3, BecomesKeeps DEF MachineInv

LEMMA FgetsKeeps == ASSUME MachineInv, NEW p \in Pid, Fgets(p) PROVE MachineInv'
<1>1. op(p) = "input" /\ Good(proc[p], Len(files)) /\ Len(files) \in Nat
  BY Here DEF Fgets, at
<1>2. /\ Near(text(proc[p]), cut(proc[p].code), proc[p].pc, arg2(p))
      /\ \A l \in arg(p) : Near(text(proc[p]), cut(proc[p].code), proc[p].pc, l)
  BY <1>1, Here DEF op, arg, arg2, GoesOn
<1>3. /\ Good(jumps(p, arg2(p)), Len(files))
      /\ \A l \in arg(p) : Good(jumps(p, l), Len(files))
  BY <1>1, <1>2, GotoGood DEF jumps
<1>4. CASE Moves(p, jumps(p, arg2(p)))
  BY <1>3, <1>4, MovesKeeps
<1>5. CASE Types /\ \E l \in arg(p) : Becomes(p, jumps(p, l))
  BY <1>3, <1>5, TypesKeeps
<1> QED BY <1>4, <1>5 DEF Fgets

LEMMA ReadTerminalKeeps == ASSUME MachineInv, NEW p \in Pid, ReadTerminal(p) PROVE MachineInv'
<1>1. op(p) = "read" /\ op(p) \in Falls /\ Good(proc[p], Len(files)) /\ Len(files) \in Nat
  BY Here DEF ReadTerminal, at, Falls
<1>2. CASE Types /\ Becomes(p, sets(p, "n", typed + 1))
  <2>1. typed + 1 \in Int
    BY DEF MachineInv
  <2>2. Good(sets(p, "n", typed + 1), Len(files))
    BY <1>1, <2>1, SetsGood
  <2> QED BY <1>2, <2>2, TypesKeeps
<1>3. CASE Moves(p, jumps(p, arg2(p)))
  <2>1. Good(jumps(p, arg2(p)), Len(files))
    BY <1>1, Here, GotoGood DEF jumps, GoesOn, op, arg2
  <2> QED BY <1>3, <2>1, MovesKeeps
<1> QED BY <1>2, <1>3 DEF ReadTerminal

LEMMA CtrlCKeeps == ASSUME MachineInv, CtrlC PROVE MachineInv'
<1>1. /\ Types /\ proc' = [p \in Pid |-> sent(proc[p], "INT")]
      /\ UNCHANGED <<world, files, screen, failed>>
  BY DEF CtrlC, Types
<1>2. typed' \in 0..MaxTyped
  BY <1>1, Setting DEF Types, MachineInv
<1>3. \A p \in Pid : Good(sent(proc[p], "INT"), Len(files))
  BY Here, SentGood DEF Sig
<1> HIDE DEF sent
<1>4. proc' \in [Pid -> Process] /\ \A p \in Pid : Good(proc'[p], Len(files'))
  BY <1>1, <1>3 DEF Good
<1> QED BY <1>1, <1>2, <1>4 DEF MachineInv, world

-----------------------------------------------------------------------------
(* Threads.                                                                 *)

\* In main(), a process may come to have a child.
LEMMA ChildGood ==
  ASSUME NEW r, NEW n \in Nat, Good(r, n), r.frames = <<>>, NEW c \in Pid
  PROVE  Good([r EXCEPT !.var.child = c], n)
<1> DEFINE s == [r EXCEPT !.var.child = c]
<1>1. r \in Process /\ r.pc \in DOMAIN text(r)
  BY DEF Good, Nested
<1>2. r.var \in Var
  BY <1>1 DEF Process
<1>3. [r.var EXCEPT !.child = c] \in Var /\ [r.var EXCEPT !.child = c].child = c
  BY <1>2 DEF Var
<1>4. PICK v \in Var : v = [r.var EXCEPT !.child = c] /\ v.child = c
  BY <1>3
<1>5. s = [r EXCEPT !.var = v]
  BY <1>4
<1> HIDE DEF s
<1>6. s \in Process /\ s.var = v
  BY <1>1, <1>5 DEF Process
<1>7. s.code = r.code /\ s.pc = r.pc /\ s.frames = r.frames /\ s.mask = r.mask /\ s.fd = r.fd
  BY <1>1, <1>5 DEF Process
<1>8. s.handler = r.handler /\ s.atexit = r.atexit /\ s.jump = r.jump
  BY <1>1, <1>5 DEF Process
<1>9. \A f \in Fd : s.fd[f] <= n
  BY <1>7 DEF Good
<1>10. Good(s, n)
  BY <1>1, <1>4, <1>6, <1>7, <1>8, <1>9, MoveGood
<1> QED BY <1>10 DEF s

LEMMA PthreadCreateKeeps == ASSUME MachineInv, NEW p \in Pid, Pthread_create(p) PROVE MachineInv'
<1> DEFINE i == text(proc[p])[proc[p].pc]
           r == proc[p]
<1>1. /\ op(p) = "thread" /\ op(p) \in Falls /\ op(p) = i[2] /\ arg(p) = i[3] /\ arg2(p) = i[4]
      /\ Good(r, Len(files)) /\ r \in Process /\ Len(files) \in Nat
  BY Here DEF op, arg, arg2, Pthread_create, at, Falls
<1>2. /\ r.frames = <<>> /\ InMain(text(r), cut(r.code), arg(p))
      /\ arg2(p) = 0 \/ InMain(text(r), cut(r.code), arg2(p))
  BY <1>1, Here DEF Jumps, GoesOn, Good, Nested
<1>3. CASE ~canMake
  BY <1>1, <1>2, <1>3, FailsKeeps DEF Pthread_create
<1>4. CASE canMake
  <2> DEFINE t == Least(unused)
             u == [r EXCEPT !.parent = 0]
             s == next(r)
  <2>1. t \in Pid
    BY <1>4, SomeUnused
  <2>2. /\ proc' = [proc EXCEPT ![t] = goto(u, arg(p)), ![p] = [s EXCEPT !.var.child = t]]
        /\ UNCHANGED <<world, files, screen, failed, typed>>
    BY <1>4 DEF Pthread_create, threadOf, sets
  <2> HIDE DEF t
  <2>3. Good(goto(u, arg(p)), Len(files))
    <3>1. Good(u, Len(files))
      BY <1>1, OrphanGood
    <3>2. u.code = r.code /\ u.frames = r.frames
      BY <1>1 DEF Process
    <3> HIDE DEF u
    <3>3. InMain(text(u), cut(u.code), arg(p)) /\ u.frames = <<>>
      BY <1>2, <3>2 DEF text
    <3> QED BY <1>1, <3>1, <3>3, GotoGood
  <2>4. Good([s EXCEPT !.var.child = t], Len(files))
    <3>1. Good(s, Len(files)) /\ s.frames = <<>>
      BY <1>1, <1>2, Here, NextGood DEF op
    <3> HIDE DEF s
    <3> QED BY <1>1, <2>1, <3>1, ChildGood
  <2> HIDE DEF u, s
  <2> QED BY <2>1, <2>2, <2>3, <2>4, PairKeeps
<1> QED BY <1>3, <1>4

LEMMA PthreadExitKeeps == ASSUME MachineInv, NEW p \in Pid, Pthread_exit(p) PROVE MachineInv'
<1> DEFINE r == proc[p]
           s == [r EXCEPT !.st = "gone"]
<1>1. Good(r, Len(files)) /\ r \in Process /\ Len(files) \in Nat
  BY Here
<1>2. Moves(p, s)
  BY DEF Pthread_exit
<1>3. s \in Process /\ s.var = r.var
  BY <1>1 DEF Process
<1>4. s.code = r.code /\ s.pc = r.pc /\ s.frames = r.frames /\ s.mask = r.mask /\ s.fd = r.fd
  BY <1>1 DEF Process
<1>5. s.handler = r.handler /\ s.atexit = r.atexit /\ s.jump = r.jump
  BY <1>1 DEF Process
<1> HIDE DEF s
<1>6. Good(s, Len(files))
  BY <1>1, <1>3, <1>4, <1>5, DataGood DEF Good
<1> QED BY <1>2, <1>6, MovesKeeps

LEMMA LoadKeeps == ASSUME MachineInv, NEW p \in Pid, Load(p) PROVE MachineInv'
<1>1. op(p) \in Falls /\ Moves(p, sets(p, "n", proc[proc[p].leader].var.n))
  BY DEF Load, at, Falls
<1>2. proc[p].leader \in Pid
  BY Here DEF Process
<1>3. proc[proc[p].leader].var.n \in Int
  BY <1>2, Here DEF Process, Var
<1> QED BY <1>1, <1>3, SetsGood, MovesKeeps

LEMMA StoreKeeps == ASSUME MachineInv, NEW p \in Pid, Store(p) PROVE MachineInv'
<1> DEFINE l == proc[p].leader
           x == proc[p].var.n + 1
           a == [proc[l] EXCEPT !.var.n = x]
<1>1. op(p) \in Falls
  BY DEF Store, at, Falls
<1>2. /\ proc' = [proc EXCEPT ![l] = a, ![p] = sets(p, "n", x)]
      /\ UNCHANGED <<world, files, screen, failed, typed>>
  BY DEF Store
<1>3. l \in Pid /\ x \in Int /\ Len(files) \in Nat
  BY Here DEF Process, Var
<1> HIDE DEF l, x
<1>4. Good(sets(p, "n", x), Len(files))
  BY <1>1, <1>3, SetsGood
<1>5. Good(proc[l], Len(files)) /\ proc[l].var \in Var
  BY <1>3, Here DEF Process
<1>6. [proc[l].var EXCEPT !.n = x] \in Var /\ [proc[l].var EXCEPT !.n = x].child = proc[l].var.child
  BY <1>3, <1>5 DEF Var
<1>7. PICK v \in Var : v = [proc[l].var EXCEPT !.n = x] /\ v.child = proc[l].var.child
  BY <1>6
<1>8. a = [proc[l] EXCEPT !.var = v]
  BY <1>7
<1>9. Good(a, Len(files))
  BY <1>3, <1>5, <1>7, <1>8, VarGood
<1> HIDE DEF a, sets
<1> QED BY <1>2, <1>3, <1>4, <1>9, PairKeeps

-----------------------------------------------------------------------------
(* The invariant holds.                                                     *)

LEMMA MachineInit == ASSUME Init PROVE MachineInv
<1>1. /\ exercise \in Exercise /\ forks \in 0..(MaxPid - 1)
      /\ files = <<[kind |-> "terminal", pos |-> 0]>> /\ screen = <<>> /\ failed = {} /\ typed = 0
      /\ proc = [p \in Pid |-> [fresh EXCEPT !.st = IF p = 1 THEN "run" ELSE "none"]]
  BY DEF Init
<1>2. files \in Seq(OpenFile) /\ Len(files) = 1
  BY <1>1 DEF OpenFile
<1>3. \A how \in {"none", "run"} : Good(over(how, 0), Len(files))
  BY <1>1, <1>2, OverGood
<1>4. ASSUME NEW how PROVE over(how, 0) = [fresh EXCEPT !.st = how]
  <2> DEFINE t == [fresh EXCEPT !.st = how]
  <2>1. t.parent = 0 /\ "parent" \in DOMAIN t
    BY DEF fresh
  <2>2. t = [x \in DOMAIN t |-> t[x]]
    BY DEF fresh
  <2> HIDE DEF t
  <2>3. [t EXCEPT !.parent = 0] = t
    BY <2>1, <2>2
  <2> QED BY <2>3 DEF over, t
<1>5. ASSUME NEW p \in Pid PROVE proc[p] \in Process /\ Good(proc[p], Len(files))
  <2>1. PICK how \in {"none", "run"} : how = IF p = 1 THEN "run" ELSE "none"
    OBVIOUS
  <2>2. proc[p] = over(how, 0)
    BY <1>1, <1>4, <2>1
  <2> QED BY <1>3, <2>2 DEF Good
<1>6. proc \in [Pid -> Process]
  <2>1. proc = [p \in Pid |-> proc[p]]
    BY <1>1
  <2> QED BY <1>5, <2>1
<1>7. typed \in 0..MaxTyped /\ screen \in Seq(Entry) /\ failed \subseteq Nat
  BY <1>1, Setting, EmptySeq
<1> QED BY <1>1, <1>2, <1>5, <1>6, <1>7 DEF MachineInv

LEMMA MachineStutter == ASSUME MachineInv, UNCHANGED vars PROVE MachineInv'
  BY DEF MachineInv, vars, world

LEMMA MachineStep == ASSUME MachineInv, Next PROVE MachineInv'
<1>1. CASE CtrlC
  BY <1>1, CtrlCKeeps
<1>2. CASE \E p \in Pid : AlarmRings(p) \/ Fgets(p) \/ ReadTerminal(p)
  BY <1>2, AlarmRingsKeeps, FgetsKeeps, ReadTerminalKeeps
<1>3. ASSUME NEW p \in Pid, Runs(p) PROVE MachineInv'
  <2>1. CASE Exit(p) \/ Crash(p) \/ Control(p) \/ addjob(p) \/ deletejob(p) \/ Put(p) \/ Say(p)
    BY <2>1, ExitKeeps, CrashKeeps, ControlKeeps, JobsKeep, PrintKeeps
  <2>2. CASE Fork(p) \/ Execve(p) \/ Waitpid(p) \/ Kill(p) \/ Signal(p) \/ Sleep(p) \/ Alarm(p)
    BY <2>2, ForkKeeps, ExecveKeeps, WaitpidKeeps, KillKeeps, SignalKeeps, SleepKeeps, AlarmKeeps
  <2>3. CASE Deliver(p) \/ Return(p) \/ Setjmp(p) \/ Leave(p) \/ Longjmp(p)
    BY <2>3, DeliverKeeps, ReturnKeeps, SetjmpKeeps, LeaveKeeps, LongjmpKeeps
  <2>4. CASE Open(p) \/ Pipe(p) \/ Close(p) \/ Dup2(p) \/ Read(p) \/ Write(p)
    BY <2>4, OpenKeeps, PipeKeeps, CloseKeeps, Dup2Keeps, ReadKeeps, WriteKeeps
  <2>5. CASE Mmap(p) \/ WriteFile(p) \/ Stat(p) \/ Lookup(p)
    BY <2>5, FileKeeps
  <2>6. CASE Pthread_create(p) \/ Pthread_join(p) \/ Pthread_exit(p) \/ Load(p) \/ Store(p)
    BY <2>6, PthreadCreateKeeps, SleepKeeps, PthreadExitKeeps, LoadKeeps, StoreKeeps
  <2> QED BY <1>3, <2>1, <2>2, <2>3, <2>4, <2>5, <2>6 DEF Runs
<1> QED BY <1>1, <1>2, <1>3 DEF Next

LEMMA MachineAlways == FairSpec => []MachineInv
<1>1. Init => MachineInv
  BY MachineInit
<1>2. MachineInv /\ [Next]_vars => MachineInv'
  BY MachineStep, MachineStutter
<1> QED BY <1>1, <1>2, PTL DEF FairSpec

LEMMA MachineTypes == ASSUME MachineInv PROVE TypeOK
<1>1. ASSUME NEW p \in Pid
      PROVE  LET r == proc[p] IN
             /\ r.st \in {"none", "run", "zombie", "gone"} /\ r.parent \in Pid \cup {0} /\ r.leader \in Pid
             /\ r.code \in DOMAIN Program /\ r.pc \in DOMAIN Program[r.code]
             /\ \A k \in DOMAIN r.out : r.out[k] \in Entry
             /\ r.mask \subseteq Sig \ {"KILL"} /\ r.pending \subseteq Sig /\ r.jobs \subseteq Pid
             /\ r.fd \in [Fd -> 0..Len(files)]
             /\ \A k \in DOMAIN r.frames : r.frames[k].pc \in DOMAIN Program[r.code]
  <2> DEFINE r == proc[p]
  <2>1. /\ r \in Process /\ Nested(r) /\ \A f \in Fd : r.fd[f] <= Len(files)
        /\ Len(files) \in Nat
    BY DEF MachineInv, Good
  <2>2. /\ r.st \in {"none", "run", "zombie", "gone"} /\ r.parent \in Pid \cup {0} /\ r.leader \in Pid
        /\ r.code \in DOMAIN Program
    BY <2>1 DEF Process
  <2>3. /\ r.out \in Seq(Entry) /\ r.mask \in SUBSET Blockable /\ r.pending \in SUBSET Sig
        /\ r.jobs \in SUBSET Pid /\ r.fd \in [Fd -> Nat]
    BY <2>1 DEF Process
  <2>4. /\ r.pc \in DOMAIN Program[r.code]
        /\ \A k \in DOMAIN r.frames : r.frames[k].pc \in DOMAIN Program[r.code]
    BY <2>1 DEF Nested, text
  <2> HIDE DEF r
  <2>5. \A k \in DOMAIN r.out : r.out[k] \in Entry
    BY <2>3
  <2>6. r.fd \in [Fd -> 0..Len(files)]
    BY <2>1, <2>3
  <2> QED BY <2>2, <2>3, <2>4, <2>5, <2>6 DEF r, Blockable
<1>2. \A k \in DOMAIN files : files[k].kind \in {"terminal", "readEnd", "writeEnd", "file"}
  <2>1. \A k \in DOMAIN files : files[k] \in OpenFile
    BY DEF MachineInv
  <2> QED BY <2>1 DEF OpenFile
<1>3. \A k \in DOMAIN screen : screen[k] \in Entry
  BY DEF MachineInv
<1> QED BY <1>1, <1>2, <1>3 DEF MachineInv, TypeOK

\* Whatever the exercises do - handlers that interrupt handlers, that leave by
\* siglongjmp or return into pause or sleep, exec in the middle of it all -
\* the machine keeps its types and no process ever runs main() with a signal
\* blocked.
THEOREM MasksAreRestored == FairSpec => []MaskOnlyInHandlers
<1>1. MachineInv => MaskOnlyInHandlers
  <2>1. ASSUME MachineInv, NEW p \in Pid, ~inHandler(p) PROVE proc[p].mask = {}
    BY <2>1 DEF MachineInv, Good, Nested, inHandler
  <2> QED BY <2>1, MachineTypes DEF MaskOnlyInHandlers
<1> QED BY <1>1, MachineAlways, PTL

-----------------------------------------------------------------------------
(* Exercises that wait for children in a handler of SIGCHLD: no child that  *)
(* has ended is forgotten.                                                  *)

\* What a process runs: an operation, when no signal can be taken, or the
\* beginning of a handler.
LEMMA Operations ==
  ASSUME NEW p \in Pid, Runs(p)
  PROVE  /\ runs(p)
         /\ \/ Deliver(p)
            \/ deliverable(p) = {}
               /\ \/ op(p) = "exit" /\ Exit(p)
                  \/ op(p) = "crash" /\ Crash(p)
                  \/ op(p) \in {"goto", "either", "loop", "background", "foreground", "add", "atexit", "error"}
                     /\ Control(p)
                  \/ op(p) = "addjob" /\ addjob(p)
                  \/ op(p) = "deletejob" /\ deletejob(p)
                  \/ op(p) = "put" /\ Put(p)
                  \/ op(p) = "say" /\ Say(p)
                  \/ op(p) = "fork" /\ Fork(p)
                  \/ op(p) = "exec" /\ Execve(p)
                  \/ op(p) = "wait" /\ Waitpid(p)
                  \/ op(p) = "kill" /\ Kill(p)
                  \/ op(p) = "signal" /\ Signal(p)
                  \/ op(p) = "sleep" /\ Sleep(p)
                  \/ op(p) = "alarm" /\ Alarm(p)
                  \/ op(p) = "return" /\ Return(p)
                  \/ op(p) = "setjmp" /\ Setjmp(p)
                  \/ op(p) = "leave" /\ Leave(p)
                  \/ op(p) = "longjmp" /\ Longjmp(p)
                  \/ op(p) = "thread" /\ Pthread_create(p)
                  \/ op(p) = "join" /\ Pthread_join(p)
                  \/ op(p) = "threadexit" /\ Pthread_exit(p)
                  \/ op(p) = "load" /\ Load(p)
                  \/ op(p) = "store" /\ Store(p)
                  \/ op(p) \in {"open", "pipe", "close", "closeall", "dup2", "read", "write", "mmap",
                                "writefile", "stat", "lookup"}
<1>1. CASE Deliver(p)
  BY <1>1 DEF Deliver
<1>2. CASE Exit(p) \/ Crash(p) \/ addjob(p) \/ deletejob(p) \/ Put(p) \/ Say(p)
  BY <1>2 DEF Exit, Crash, addjob, deletejob, Put, Say, at
<1>3. CASE Control(p)
  BY <1>3 DEF Control, at
<1>4. CASE Fork(p) \/ Execve(p) \/ Waitpid(p) \/ Kill(p) \/ Signal(p) \/ Sleep(p) \/ Alarm(p)
  BY <1>4 DEF Fork, Execve, Waitpid, Kill, Signal, Sleep, Alarm, at
<1>5. CASE Return(p) \/ Setjmp(p) \/ Leave(p) \/ Longjmp(p)
  BY <1>5 DEF Return, Setjmp, Leave, Longjmp, at
<1>6. CASE Open(p) \/ Pipe(p) \/ Close(p) \/ Dup2(p) \/ Read(p) \/ Write(p)
  BY <1>6 DEF Open, Pipe, Close, Dup2, Read, Write, at
<1>7. CASE Mmap(p) \/ WriteFile(p) \/ Stat(p) \/ Lookup(p)
  BY <1>7 DEF Mmap, WriteFile, Stat, Lookup, at
<1>8. CASE Pthread_create(p) \/ Pthread_join(p) \/ Pthread_exit(p) \/ Load(p) \/ Store(p)
  BY <1>8 DEF Pthread_create, Pthread_join, Pthread_exit, Load, Store, at
<1> QED BY <1>1, <1>2, <1>3, <1>4, <1>5, <1>6, <1>7, <1>8 DEF Runs

Reaping == {"signal1", "signal2", "signal3", "promask1"}
waitLine(c) == IF c = "signal1" THEN 6 ELSE 7
childPc(c) == IF c = "promask1" THEN {3} ELSE {4, 5, 6}

\* Instruction k of such a program, whose handler begins at instruction h.
Reaps(P, h, c, k) ==
  LET i == P[k] IN
  /\ i[2] \in {"signal", "loop", "fork", "say", "sleep", "exit", "input", "spin", "wait", "return",
               "error", "addjob", "goto", "deletejob"}
  /\ k = 1 <=> i[2] = "signal"
  /\ i[2] = "signal" => i[3] = "CHLD" /\ i[4] = waitLine(c)
  /\ i[2] = "wait" => k >= h /\ i[1] = waitLine(c) /\ i[3] = "any" /\ (i[4] = 0 <=> c = "signal1")
  /\ i[1] = waitLine(c) => i[2] = "wait"
  /\ i[2] = "fork" => k + 1 \in childPc(c) /\ i[4] = 0
  /\ i[2] \in {"fork", "error"} => i[1] # 6
  /\ k \in childPc(c) => /\ i[2] \in {"say", "sleep", "exit", "error"}
                         /\ i[2] \in {"say", "sleep"} => k + 1 \in childPc(c)
  /\ k >= h => i[2] \in {"wait", "say", "sleep", "goto", "deletejob", "return"}
  /\ k >= h /\ i[2] \in {"wait", "say", "sleep", "deletejob"} =>
       IF c = "signal1" THEN P[k + 1][1] # 6 ELSE P[k + 1][2] # "return"
  /\ k >= h /\ i[2] = "goto" => c # "signal1" /\ i[3] = waitLine(c)
  /\ i[2] = "addjob" => c = "promask1"

LEMMA ProgramsReap ==
  /\ Reaping \subseteq DOMAIN Program
  /\ \A c \in Reaping : \A k \in DOMAIN Program[c] : Reaps(Program[c], cut(c), c, k)
<1>1. \A k \in DOMAIN signal1 : Reaps(signal1, 10, "signal1", k)
  BY DEF Reaps, waitLine, childPc, signal1
<1>2. \A k \in DOMAIN signal2 : Reaps(signal2, 10, "signal2", k)
  BY DEF Reaps, waitLine, childPc, signal2
<1>3. \A k \in DOMAIN signal3 : Reaps(signal3, 10, "signal3", k)
  BY DEF Reaps, waitLine, childPc, signal3
<1>4. \A k \in DOMAIN promask1 : Reaps(promask1, 6, "promask1", k)
  BY DEF Reaps, waitLine, childPc, promask1
<1> QED BY <1>1, <1>2, <1>3, <1>4 DEF Reaping, Program, cut, Handlers

\* A child goes on from where it was forked to its end, without signals.
ChildOf(c, r, q) ==
  r.leader = q /\ r.pc \in childPc(c) /\ r.frames = <<>> /\ r.pending = {} /\ r.alarm = FALSE

\* The first process takes SIGCHLD only, outside of its handler.
ParentOf(c, r) ==
  /\ r.pending \subseteq {"CHLD"} /\ r.alarm = FALSE
  /\ Len(r.frames) <= 1 /\ (r.frames # <<>> => "CHLD" \in r.mask)
  /\ r.handler["CHLD"] \in {0, waitLine(c)} /\ (r.handler["CHLD"] = 0 => r.pc = 1)

Zombies(P) == {q \in Pid : P[q].parent = 1 /\ P[q].st = "zombie"}

\* The handler has yet to call waitpid.
Asking(c, r) ==
  r.frames # <<>> /\ IF c = "signal1" THEN text(r)[r.pc][1] = 6 ELSE text(r)[r.pc][2] # "return"

\* Every zombie will be asked for; the handler that asks once finds one each
\* time: one for the signal that is pending and another for the one it takes.
Accounted(c, P) ==
  /\ P[1].handler["CHLD"] = 0 => \A q \in Pid \ {1} : P[q].st \notin {"run", "zombie"}
  /\ c # "signal1" /\ Zombies(P) # {} => "CHLD" \in P[1].pending \/ Asking(c, P[1])
  /\ c = "signal1" /\ ("CHLD" \in P[1].pending \/ Asking(c, P[1])) => Zombies(P) # {}
  /\ c = "signal1" /\ "CHLD" \in P[1].pending /\ Asking(c, P[1]) => \A z \in Pid : Zombies(P) # {z}

Family(c, P) ==
  /\ \A q \in Pid : P[q].code = c /\ P[q].parent \in {0, 1} /\ (P[q].st # "run" => P[q].leader = 1)
  /\ P[1].parent = 0 /\ P[1].leader = 1
  /\ \A q \in Pid \ {1} : P[q].st = "run" => ChildOf(c, P[q], q)
  /\ P[1].st = "run" => ParentOf(c, P[1]) /\ Accounted(c, P)

FamilyInv ==
  exercise \in Reaping =>
    Family(exercise, proc) /\ (exercise = "signal1" => 6 \notin failed)

\* What a step on data leaves alone.
Alike(s, r) ==
  /\ s.st = r.st /\ s.parent = r.parent /\ s.leader = r.leader /\ s.code = r.code
  /\ s.pending = r.pending /\ s.alarm = r.alarm /\ s.handler = r.handler
  /\ s.frames = r.frames /\ s.mask = r.mask

LEMMA AlikeExcept ==
  ASSUME NEW r \in Process, NEW x
  PROVE  /\ Alike([r EXCEPT !.pc = x], r) /\ [r EXCEPT !.pc = x].pc = x
         /\ Alike([r EXCEPT !.var = x], r) /\ [r EXCEPT !.var = x].pc = r.pc
         /\ Alike([r EXCEPT !.out = x], r) /\ [r EXCEPT !.out = x].pc = r.pc
         /\ Alike([r EXCEPT !.jobs = x], r) /\ [r EXCEPT !.jobs = x].pc = r.pc
<1> DEFINE s == [r EXCEPT !.pc = x]
<1>1. s.st = r.st /\ s.parent = r.parent /\ s.leader = r.leader /\ s.code = r.code
  BY DEF Process
<1>2. s.pending = r.pending /\ s.alarm = r.alarm /\ s.handler = r.handler
  BY DEF Process
<1>3. s.frames = r.frames /\ s.mask = r.mask /\ s.pc = x
  BY DEF Process
<1> DEFINE t == [r EXCEPT !.var = x]
<1>4. t.st = r.st /\ t.parent = r.parent /\ t.leader = r.leader /\ t.code = r.code
  BY DEF Process
<1>5. t.pending = r.pending /\ t.alarm = r.alarm /\ t.handler = r.handler
  BY DEF Process
<1>6. t.frames = r.frames /\ t.mask = r.mask /\ t.pc = r.pc
  BY DEF Process
<1> DEFINE u == [r EXCEPT !.out = x]
<1>7. u.st = r.st /\ u.parent = r.parent /\ u.leader = r.leader /\ u.code = r.code
  BY DEF Process
<1>8. u.pending = r.pending /\ u.alarm = r.alarm /\ u.handler = r.handler
  BY DEF Process
<1>9. u.frames = r.frames /\ u.mask = r.mask /\ u.pc = r.pc
  BY DEF Process
<1> DEFINE v == [r EXCEPT !.jobs = x]
<1>10. v.st = r.st /\ v.parent = r.parent /\ v.leader = r.leader /\ v.code = r.code
  BY DEF Process
<1>11. v.pending = r.pending /\ v.alarm = r.alarm /\ v.handler = r.handler
  BY DEF Process
<1>12. v.frames = r.frames /\ v.mask = r.mask /\ v.pc = r.pc
  BY DEF Process
<1> HIDE DEF s, t, u, v
<1>13. Alike(s, r) /\ Alike(t, r) /\ Alike(u, r) /\ Alike(v, r)
  BY <1>1, <1>2, <1>3, <1>4, <1>5, <1>6, <1>7, <1>8, <1>9, <1>10, <1>11, <1>12 DEF Alike
<1> QED BY <1>3, <1>6, <1>9, <1>12, <1>13 DEF s, t, u, v

\* The next instruction, with other data.
LEMMA AlikeNext ==
  ASSUME MachineInv, NEW p \in Pid, op(p) \in Falls, NEW x
  PROVE  /\ Alike(next(proc[p]), proc[p]) /\ next(proc[p]).pc = proc[p].pc + 1
         /\ \A name : Alike(sets(p, name, x), proc[p]) /\ sets(p, name, x).pc = proc[p].pc + 1
         /\ Alike([next(proc[p]) EXCEPT !.out = x], proc[p])
         /\ [next(proc[p]) EXCEPT !.out = x].pc = proc[p].pc + 1
         /\ Alike([next(proc[p]) EXCEPT !.jobs = x], proc[p])
         /\ [next(proc[p]) EXCEPT !.jobs = x].pc = proc[p].pc + 1
<1> DEFINE r == next(proc[p])
<1>1. r \in Process /\ r.pc = proc[p].pc + 1
  BY Here, NextGood DEF op, Good
<1>2. Alike(r, proc[p])
  <2>1. r = [proc[p] EXCEPT !.pc = proc[p].pc + 1]
    BY DEF next
  <2> HIDE DEF r
  <2> QED BY <2>1, Here, AlikeExcept
<1>3. ASSUME NEW name PROVE sets(p, name, x) = [r EXCEPT !.var = [r.var EXCEPT ![name] = x]]
  BY DEF sets
<1> HIDE DEF r
<1>4. ASSUME NEW name PROVE Alike(sets(p, name, x), r) /\ sets(p, name, x).pc = r.pc
  <2> DEFINE v == [r.var EXCEPT ![name] = x]
  <2>1. sets(p, name, x) = [r EXCEPT !.var = v]
    BY <1>3
  <2> HIDE DEF v, sets
  <2>2. Alike([r EXCEPT !.var = v], r) /\ [r EXCEPT !.var = v].pc = r.pc
    BY <1>1, AlikeExcept
  <2> QED BY <2>1, <2>2
<1>5. /\ Alike([r EXCEPT !.out = x], r) /\ [r EXCEPT !.out = x].pc = r.pc
      /\ Alike([r EXCEPT !.jobs = x], r) /\ [r EXCEPT !.jobs = x].pc = r.pc
  BY <1>1, AlikeExcept
<1>6. \A s : Alike(s, r) => Alike(s, proc[p])
  BY <1>2 DEF Alike
<1> HIDE DEF sets
<1> QED BY <1>1, <1>2, <1>4, <1>5, <1>6 DEF r

LEMMA AlikeGoto ==
  ASSUME MachineInv, NEW p \in Pid, NEW l \in Lines(text(proc[p]))
  PROVE  /\ Alike(jumps(p, l), proc[p]) /\ jumps(p, l).pc \in DOMAIN text(proc[p])
         /\ text(proc[p])[jumps(p, l).pc][1] = l
<1>1. Alike(jumps(p, l), proc[p])
  BY Here, AlikeExcept DEF jumps, goto
<1> QED BY <1>1, Here, Landing DEF jumps

\* An instruction of these exercises.
LEMMA HereReaps ==
  ASSUME MachineInv, FamilyInv, exercise \in Reaping, NEW p \in Pid
  PROVE  /\ text(proc[p]) = Program[exercise] /\ proc[p].code = exercise
         /\ proc[p].pc \in DOMAIN Program[exercise] /\ proc[p].pc \in Nat /\ cut(exercise) \in Nat
         /\ Reaps(Program[exercise], cut(exercise), exercise, proc[p].pc)
         /\ line(p) = Program[exercise][proc[p].pc][1] /\ op(p) = Program[exercise][proc[p].pc][2]
         /\ arg(p) = Program[exercise][proc[p].pc][3] /\ arg2(p) = Program[exercise][proc[p].pc][4]
         /\ proc[p].frames # <<>> <=> proc[p].pc >= cut(exercise)
<1>1. proc[p].code = exercise
  BY DEF FamilyInv, Family
<1>2. text(proc[p]) = Program[exercise] /\ instr(p) = Program[exercise][proc[p].pc]
  BY <1>1, Here DEF text
<1>3. /\ proc[p].pc \in DOMAIN Program[exercise] /\ proc[p].pc \in Nat /\ cut(exercise) \in Nat
      /\ proc[p].frames # <<>> <=> ~(proc[p].pc < cut(exercise))
  BY <1>1, <1>2, Here, InstructionFacts DEF Good, Nested
<1> QED BY <1>1, <1>2, <1>3, ProgramsReap DEF line, op, arg, arg2

\* A step that keeps signals and handlers: a child stays on its way, the
\* handler still asks for what is there.
LEMMA FamilyMoves ==
  ASSUME MachineInv, FamilyInv, exercise \in Reaping, exercise' = exercise, failed' = failed,
         NEW p \in Pid, runs(p), op(p) # "signal", NEW s, proc' = [proc EXCEPT ![p] = s],
         Alike(s, proc[p]),
         p # 1 => s.pc \in childPc(exercise),
         p = 1 /\ inHandler(1) =>
           IF exercise = "signal1" THEN Program[exercise][s.pc][1] # 6
           ELSE Program[exercise][s.pc][2] # "return" \/ Zombies(proc) = {}
  PROVE  FamilyInv'
<1>1. /\ Family(exercise, proc) /\ 1 \in Pid /\ text(s) = Program[exercise] /\ s.code = exercise
      /\ proc \in [Pid -> Process]
  BY Setting, HereReaps DEF FamilyInv, Alike, text, MachineInv
<1> DEFINE Q == [proc EXCEPT ![p] = s]
<1>2. Zombies(Q) = Zombies(proc)
  BY <1>1 DEF Zombies, Alike, Family
<1>3. \A q \in Pid : Q[q].code = exercise /\ Q[q].parent \in {0, 1} /\ (Q[q].st # "run" => Q[q].leader = 1)
  BY <1>1 DEF Family, Alike
<1>4. Q[1].parent = 0 /\ Q[1].leader = 1
  BY <1>1 DEF Family, Alike
<1>5. \A q \in Pid \ {1} : Q[q].st = "run" => ChildOf(exercise, Q[q], q)
  BY <1>1 DEF Family, Alike, ChildOf, runs
<1>6. CASE p # 1
  <2>1. Q[1] = proc[1] /\ \A q \in Pid : Q[q].st = proc[q].st
    BY <1>1, <1>6 DEF Alike
  <2>2. Q[1].st = "run" => ParentOf(exercise, Q[1]) /\ Accounted(exercise, Q)
    BY <1>1, <1>2, <2>1 DEF Family, Accounted
  <2> HIDE DEF Q
  <2>3. Family(exercise, Q)
    BY <1>3, <1>4, <1>5, <2>2 DEF Family
  <2> QED BY <2>3 DEF FamilyInv, Q
<1>7. CASE p = 1
  <2>1. ParentOf(exercise, proc[1]) /\ Accounted(exercise, proc) /\ proc[1].handler["CHLD"] # 0
    <3>1. ParentOf(exercise, proc[1]) /\ Accounted(exercise, proc)
      BY <1>1, <1>7 DEF Family, runs
    <3>2. proc[1].pc = 1 => op(1) = "signal"
      BY <1>7, HereReaps DEF Reaps
    <3> QED BY <1>7, <3>1, <3>2 DEF ParentOf
  <2>2. Q[1] = s
    BY <1>1, <1>7
  <2>3. ParentOf(exercise, s)
    BY <1>7, <2>1 DEF ParentOf, Alike
  <2>4. /\ exercise # "signal1" /\ Asking(exercise, proc[1]) => Asking(exercise, s) \/ Zombies(proc) = {}
        /\ exercise = "signal1" => ~Asking(exercise, s)
    BY <1>1, <1>7 DEF Asking, Alike, inHandler
  <2>5. s.pending = proc[1].pending /\ s.handler = proc[1].handler /\ \A q \in Pid : Q[q].st = proc[q].st
    BY <1>1, <1>7 DEF Alike
  <2> HIDE DEF Q
  <2>6. Accounted(exercise, Q)
    BY <1>2, <2>1, <2>2, <2>4, <2>5 DEF Accounted
  <2>7. Family(exercise, Q)
    BY <1>3, <1>4, <1>5, <2>2, <2>3, <2>6 DEF Family
  <2> QED BY <2>7 DEF FamilyInv, Q
<1> QED BY <1>6, <1>7

\* The end of a child makes a zombie and a signal.
LEMMA ChildEnds ==
  ASSUME MachineInv, FamilyInv, exercise \in Reaping, exercise' = exercise,
         NEW p \in Pid \ {1}, runs(p), proc' = without(p)
  PROVE  Family(exercise, proc')
<1> DEFINE parent == proc[p].parent
           Q == without(p)
<1>1. /\ Family(exercise, proc) /\ 1 \in Pid /\ proc \in [Pid -> Process] /\ 0 \notin Pid
  BY Setting DEF FamilyInv, MachineInv
<1>2. /\ proc[p].leader = p /\ parent \in {0, 1}
      /\ \A q \in Pid : proc[q].parent # p /\ (proc[q].leader = p <=> q = p)
  BY <1>1 DEF Family, ChildOf, runs
<1>3. \A q \in Pid : Q[q] = IF q = p THEN over(IF parent = 1 THEN "zombie" ELSE "gone", parent)
                            ELSE IF q = parent /\ proc[1].st \notin {"none", "gone"} THEN sent(proc[1], "CHLD")
                            ELSE proc[q]
  BY <1>1, <1>2 DEF without, runs
<1> HIDE DEF Q
<1>4. \A how, o : /\ over(how, o).st = how /\ over(how, o).parent = o /\ over(how, o).leader = 1
                  /\ over(how, o).code = exercise
  BY DEF over, fresh
<1> DEFINE r == proc[1]
           s == sent(proc[1], "CHLD")
<1>5. /\ s.st = r.st /\ s.parent = r.parent /\ s.leader = r.leader /\ s.code = r.code
      /\ s.alarm = r.alarm /\ s.frames = r.frames /\ s.mask = r.mask /\ s.handler = r.handler
      /\ s.pc = r.pc
      /\ r.st = "run" /\ r.handler["CHLD"] # 0 => s.pending = r.pending \cup {"CHLD"}
  <2>1. r \in Process
    BY <1>1
  <2> DEFINE t == [r EXCEPT !.pending = r.pending \cup {"CHLD"}]
  <2>2. t.st = r.st /\ t.parent = r.parent /\ t.leader = r.leader /\ t.code = r.code
    BY <2>1 DEF Process
  <2>3. t.alarm = r.alarm /\ t.frames = r.frames /\ t.mask = r.mask /\ t.handler = r.handler
    BY <2>1 DEF Process
  <2>4. t.pc = r.pc /\ t.pending = r.pending \cup {"CHLD"}
    BY <2>1 DEF Process
  <2>5. /\ s = r \/ s = t
        /\ r.st = "run" /\ r.handler["CHLD"] # 0 => s = t
    BY DEF sent
  <2> HIDE DEF r, s, t
  <2> QED BY <2>2, <2>3, <2>4, <2>5
<1> HIDE DEF over, s
<1>6. \A q \in Pid : Q[q].code = exercise /\ Q[q].parent \in {0, 1} /\ (Q[q].st # "run" => Q[q].leader = 1)
  BY <1>1, <1>2, <1>3, <1>4, <1>5 DEF Family, s
<1>7. Q[1].parent = 0 /\ Q[1].leader = 1 /\ (Q[1].st = "run" <=> r.st = "run")
  BY <1>1, <1>3, <1>5 DEF Family, s
<1>8. \A q \in Pid \ {1} : Q[q].st = "run" => ChildOf(exercise, Q[q], q)
  BY <1>1, <1>2, <1>3, <1>4 DEF Family
<1>9. ASSUME r.st = "run" PROVE ParentOf(exercise, Q[1]) /\ Accounted(exercise, Q)
  <2>1. ParentOf(exercise, r) /\ Accounted(exercise, proc)
    BY <1>1, <1>9 DEF Family
  <2>2. r.handler["CHLD"] # 0
    BY <2>1 DEF Accounted, runs
  <2>3. CASE parent = 0
    <3>1. Q[1] = r /\ \A q \in Pid \ {p} : Q[q] = proc[q]
      BY <1>1, <1>3, <2>3
    <3>2. Zombies(Q) = Zombies(proc)
      BY <1>3, <1>4, <2>3, <3>1 DEF Zombies, runs
    <3> QED BY <2>1, <2>2, <3>1, <3>2 DEF Accounted
  <2>4. CASE parent = 1
    <3>1. Q[1] = s
      BY <1>1, <1>3, <1>9, <2>4 DEF s
    <3>2. s.pending = r.pending \cup {"CHLD"} /\ s.handler = r.handler
      BY <1>5, <1>9, <2>2
    <3>3. ParentOf(exercise, s)
      BY <1>5, <2>1, <3>2 DEF ParentOf
    <3>4. Zombies(Q) = Zombies(proc) \cup {p} /\ p \notin Zombies(proc)
      <4>1. Q[p].st = "zombie" /\ Q[p].parent = 1 /\ proc[p].st = "run"
        BY <1>3, <1>4, <2>4 DEF runs
      <4>2. \A q \in Pid \ {p} : Q[q].st = proc[q].st /\ Q[q].parent = proc[q].parent
        BY <1>3, <1>5, <2>4 DEF s
      <4> QED BY <4>1, <4>2 DEF Zombies
    <3>5. Asking(exercise, s) <=> Asking(exercise, r)
      BY <1>5 DEF Asking, text
    <3>6. \A z \in Pid : Asking(exercise, s) /\ exercise = "signal1" => Zombies(Q) # {z}
      BY <2>1, <3>4, <3>5 DEF Accounted
    <3> QED BY <2>2, <3>1, <3>2, <3>3, <3>4, <3>6 DEF Accounted
  <2> QED BY <1>2, <2>3, <2>4
<1> QED BY <1>6, <1>7, <1>8, <1>9 DEF Family, Q

\* After the end of the parent nothing is left to be accounted for.
LEMMA ParentEnds ==
  ASSUME MachineInv, FamilyInv, exercise \in Reaping, exercise' = exercise,
         runs(1), proc' = without(1)
  PROVE  Family(exercise, proc')
<1> DEFINE Q == without(1)
           orphan(q) == [proc[q] EXCEPT !.parent = 0]
<1>1. /\ Family(exercise, proc) /\ 1 \in Pid /\ proc \in [Pid -> Process] /\ 0 \notin Pid
  BY Setting DEF FamilyInv, MachineInv
<1>2. proc[1].parent = 0 /\ proc[1].leader = 1
  BY <1>1 DEF Family
<1>3. \A q \in Pid : \/ Q[q] = proc[q] /\ (proc[q].st \in {"none", "gone"} \/ q # 1)
                     \/ Q[q] = over("gone", 0)
                     \/ q # 1 /\ Q[q] = orphan(q)
  BY <1>1, <1>2 DEF without
<1> HIDE DEF Q
<1>4. /\ over("gone", 0).st = "gone" /\ over("gone", 0).parent = 0 /\ over("gone", 0).leader = 1
      /\ over("gone", 0).code = exercise
  BY DEF over, fresh
<1> HIDE DEF over
<1>5. ASSUME NEW q \in Pid
      PROVE  LET t == orphan(q) IN
             /\ t.st = proc[q].st /\ t.parent = 0 /\ t.leader = proc[q].leader /\ t.code = proc[q].code
             /\ t.pc = proc[q].pc /\ t.frames = proc[q].frames /\ t.pending = proc[q].pending
             /\ t.alarm = proc[q].alarm
  <2>1. proc[q] \in Process
    BY <1>1
  <2> DEFINE t == orphan(q)
  <2>2. t.st = proc[q].st /\ t.parent = 0 /\ t.leader = proc[q].leader /\ t.code = proc[q].code
    BY <2>1 DEF Process
  <2>3. t.pc = proc[q].pc /\ t.frames = proc[q].frames /\ t.pending = proc[q].pending
    BY <2>1 DEF Process
  <2>4. t.alarm = proc[q].alarm
    BY <2>1 DEF Process
  <2> QED BY <2>2, <2>3, <2>4
<1> HIDE DEF orphan
<1>6. \A q \in Pid : Q[q].code = exercise /\ Q[q].parent \in {0, 1} /\ (Q[q].st # "run" => Q[q].leader = 1)
  BY <1>1, <1>3, <1>4, <1>5 DEF Family
<1>7. Q[1].parent = 0 /\ Q[1].leader = 1 /\ Q[1].st # "run"
  BY <1>1, <1>2, <1>3, <1>4 DEF runs
<1>8. ASSUME NEW q \in Pid \ {1}, Q[q].st = "run" PROVE ChildOf(exercise, Q[q], q)
  BY <1>1, <1>3, <1>4, <1>5, <1>8 DEF Family, ChildOf
<1> QED BY <1>6, <1>7, <1>8 DEF Family, Q

LEMMA FamilyEnds ==
  ASSUME MachineInv, FamilyInv, exercise \in Reaping, exercise' = exercise,
         NEW p \in Pid, runs(p), proc' = without(p), exercise = "signal1" => 6 \notin failed'
  PROVE  FamilyInv'
<1>1. Family(exercise, proc')
  BY ChildEnds, ParentEnds
<1> QED BY <1>1 DEF FamilyInv

\* A failing call ends the process, at a line that is not 6.
LEMMA FamilyError ==
  ASSUME MachineInv, FamilyInv, exercise \in Reaping, NEW p \in Pid, runs(p), unix_error(p),
         line(p) # 6
  PROVE  FamilyInv'
<1>1. proc' = without(p) /\ exercise' = exercise /\ failed' = failed \cup {line(p)}
  <2>1. \A j \in DOMAIN text(proc[p]) : text(proc[p])[j][2] # "atexit"
    BY HereReaps, ProgramsReap DEF Reaps
  <2> QED BY <2>1, ErrorEnds DEF Exits, world
<1>2. exercise = "signal1" => 6 \notin failed'
  BY <1>1 DEF FamilyInv
<1> QED BY <1>1, <1>2, FamilyEnds

\* Of a child only its own way is known, of the parent in main() that it is
\* no child and has installed its handler.
LEMMA FirstFacts ==
  ASSUME MachineInv, FamilyInv, exercise \in Reaping, NEW p \in Pid, runs(p)
  PROVE  /\ Family(exercise, proc) /\ 1 \in Pid /\ proc \in [Pid -> Process]
         /\ p # 1 => /\ proc[p].pc \in childPc(exercise) /\ op(p) \in {"say", "sleep", "exit", "error"}
                     /\ op(p) \in {"say", "sleep"} => proc[p].pc + 1 \in childPc(exercise)
                     /\ proc[p].pending = {} /\ proc[p].alarm = FALSE
         /\ p = 1 => /\ ParentOf(exercise, proc[1]) /\ Accounted(exercise, proc)
                     /\ op(1) # "signal" => proc[1].handler["CHLD"] = waitLine(exercise)
<1>1. Family(exercise, proc) /\ 1 \in Pid /\ proc \in [Pid -> Process]
  BY Setting DEF FamilyInv, MachineInv
<1>2. CASE p # 1
  <2>1. ChildOf(exercise, proc[p], p)
    BY <1>1, <1>2 DEF Family, runs
  <2> QED BY <1>1, <1>2, <2>1, HereReaps DEF ChildOf, Reaps
<1>3. CASE p = 1
  <2>1. ParentOf(exercise, proc[1]) /\ Accounted(exercise, proc)
    BY <1>1, <1>3 DEF Family, runs
  <2>2. proc[1].pc = 1 => op(1) = "signal"
    BY <1>3, HereReaps DEF Reaps
  <2> QED BY <1>1, <1>3, <2>1, <2>2 DEF ParentOf
<1> QED BY <1>2, <1>3

LEMMA FamilyDeliver ==
  ASSUME MachineInv, FamilyInv, exercise \in Reaping, NEW p \in Pid, Deliver(p)
  PROVE  FamilyInv'
<1> DEFINE r == proc[1]
<1>1. PICK s \in deliverable(p), back \in {0, 1} :
        IF proc[p].handler[s] = 0 THEN Killed(p) ELSE Moves(p, handling(proc[p], s, back))
  BY DEF Deliver
<1>2. runs(p)
  BY DEF Deliver
<1>3. p = 1 /\ s = "CHLD" /\ "CHLD" \in r.pending /\ "CHLD" \notin r.mask
  BY <1>1, <1>2, FirstFacts DEF deliverable, ParentOf
<1>4. CASE proc[p].handler[s] = 0
  <2>1. proc' = without(p) /\ exercise' = exercise /\ failed' = failed
    BY <1>1, <1>4 DEF Killed, world
  <2> QED BY <1>2, <2>1, FamilyEnds DEF FamilyInv
<1>5. CASE proc[p].handler[s] # 0
  <2> DEFINE l == waitLine(exercise)
             t == goto(r, l)
             f == [pc |-> r.pc + back, mask |-> r.mask]
             u == [t EXCEPT !.pending = t.pending \ {"CHLD"}, !.mask = t.mask \cup {"CHLD"},
                            !.frames = Append(t.frames, f)]
  <2>1. /\ ParentOf(exercise, r) /\ Accounted(exercise, proc) /\ r.handler["CHLD"] = l
        /\ Family(exercise, proc) /\ r.frames = <<>> /\ r.pending = {"CHLD"} /\ r.alarm = FALSE
        /\ 1 \in Pid /\ proc \in [Pid -> Process]
    BY <1>2, <1>3, <1>5, FirstFacts DEF ParentOf
  <2>2. /\ proc' = [proc EXCEPT ![1] = u] /\ exercise' = exercise /\ failed' = failed
    BY <1>1, <1>3, <1>5, <2>1 DEF Moves, Becomes, handling, world
  <2>3. l \in Lines(text(r))
    BY <1>3, <1>5, <2>1, Here DEF Good, Installed, InHandlers, Sig
  <2>4. Alike(t, r) /\ t.pc \in DOMAIN Program[exercise] /\ Program[exercise][t.pc][1] = l
    BY <1>3, <2>3, AlikeGoto, HereReaps DEF jumps
  <2>5. Program[exercise][t.pc][2] = "wait"
    BY <2>4, ProgramsReap DEF Reaps
  <2>6. t \in Process
    BY <1>3, <2>3, Here, Landing
  <2>7. t.frames = <<>> /\ t.pending = {"CHLD"}
    BY <2>1, <2>4 DEF Alike
  <2> HIDE DEF t, f
  <2>8. u.st = t.st /\ u.parent = t.parent /\ u.leader = t.leader /\ u.code = t.code
    BY <2>6 DEF Process
  <2>9. u.alarm = t.alarm /\ u.handler = t.handler /\ u.pc = t.pc
    BY <2>6 DEF Process
  <2>10. u.pending = {} /\ "CHLD" \in u.mask /\ u.frames = <<f>>
    BY <2>6, <2>7 DEF Process
  <2> HIDE DEF u
  <2>11. /\ u.st = "run" /\ u.parent = 0 /\ u.leader = 1 /\ u.code = exercise /\ u.alarm = FALSE
         /\ u.handler["CHLD"] = l
    BY <1>2, <1>3, <2>1, <2>4, <2>8, <2>9 DEF Alike, Family, runs
  <2>12. ParentOf(exercise, u)
    BY <2>10, <2>11 DEF ParentOf, waitLine
  <2>13. Asking(exercise, u)
    BY <2>4, <2>5, <2>9, <2>10, <2>11 DEF Asking, text, waitLine
  <2>14. Zombies(proc') = Zombies(proc)
    BY <1>2, <1>3, <2>1, <2>2, <2>11 DEF Zombies, runs
  <2>15. Accounted(exercise, proc')
    BY <1>3, <2>1, <2>2, <2>10, <2>11, <2>13, <2>14 DEF Accounted, waitLine
  <2>16. Family(exercise, proc')
    BY <2>1, <2>2, <2>11, <2>12, <2>15 DEF Family
  <2> QED BY <2>2, <2>16 DEF FamilyInv
<1> QED BY <1>4, <1>5

LEMMA FamilyReturn ==
  ASSUME MachineInv, FamilyInv, exercise \in Reaping, NEW p \in Pid, Return(p)
  PROVE  FamilyInv'
<1> DEFINE r == proc[1]
           k == Len(r.frames)
           s == [r EXCEPT !.pc = r.frames[k].pc, !.mask = r.frames[k].mask,
                          !.frames = SubSeq(r.frames, 1, k - 1)]
<1>1. runs(p) /\ op(p) = "return"
  BY DEF Return, at
<1>2. p = 1
  BY <1>1, FirstFacts
<1>3. /\ ParentOf(exercise, r) /\ Accounted(exercise, proc) /\ r.handler["CHLD"] = waitLine(exercise)
      /\ Family(exercise, proc) /\ r \in Process /\ r.frames \in Seq(Frame) /\ 1 \in Pid
      /\ proc \in [Pid -> Process]
  BY <1>1, <1>2, FirstFacts, Here DEF Process
<1>4. proc' = [proc EXCEPT ![1] = s] /\ exercise' = exercise /\ failed' = failed
  BY <1>2 DEF Return, Moves, Becomes, world
<1>5. SubSeq(r.frames, 1, k - 1) = <<>>
  <2>1. k \in Nat /\ k <= 1
    BY <1>3, LenProperties DEF ParentOf
  <2> HIDE DEF k
  <2>2. CASE k = 0
    BY <2>2, SubSeqEmpty
  <2>3. CASE k = 1
    BY <2>3, SubSeqEmpty
  <2> QED BY <2>1, <2>2, <2>3
<1>6. ~Asking(exercise, r) \/ exercise = "signal1"
  BY <1>1, <1>2, HereReaps DEF Asking
<1> DEFINE a == r.frames[k].pc
           m == r.frames[k].mask
<1>7. s = [r EXCEPT !.pc = a, !.mask = m, !.frames = <<>>]
  BY <1>5
<1> HIDE DEF a, m, s
<1>8. s.st = r.st /\ s.parent = r.parent /\ s.leader = r.leader /\ s.code = r.code
  BY <1>3, <1>7 DEF Process
<1>9. s.pending = r.pending /\ s.alarm = r.alarm /\ s.handler = r.handler /\ s.frames = <<>>
  BY <1>3, <1>7 DEF Process
<1>10. ParentOf(exercise, s)
  BY <1>3, <1>9 DEF ParentOf, waitLine
<1>11. ~Asking(exercise, s)
  BY <1>9 DEF Asking
<1>12. Zombies(proc') = Zombies(proc)
  BY <1>3, <1>4, <1>8 DEF Zombies
<1>13. Accounted(exercise, proc')
  BY <1>3, <1>4, <1>6, <1>8, <1>9, <1>11, <1>12 DEF Accounted, waitLine
<1>14. Family(exercise, proc')
  BY <1>3, <1>4, <1>8, <1>10, <1>13 DEF Family
<1> QED BY <1>4, <1>14 DEF FamilyInv

LEMMA FamilySignal ==
  ASSUME MachineInv, FamilyInv, exercise \in Reaping, NEW p \in Pid, Signal(p)
  PROVE  FamilyInv'
<1> DEFINE r == proc[1]
           t == next(r)
           l == waitLine(exercise)
           s == [t EXCEPT !.handler["CHLD"] = l]
<1>1. runs(p) /\ op(p) = "signal" /\ op(p) \in Falls
  BY DEF Signal, at, Falls
<1>2. p = 1
  BY <1>1, FirstFacts
<1>3. arg(1) = "CHLD" /\ arg2(1) = l /\ r.pc = 1
  BY <1>1, <1>2, HereReaps DEF Reaps
<1>4. proc' = [proc EXCEPT ![1] = s] /\ exercise' = exercise /\ failed' = failed
  BY <1>2, <1>3 DEF Signal, Moves, Becomes, world
<1>5. /\ ParentOf(exercise, r) /\ Accounted(exercise, proc) /\ Family(exercise, proc) /\ 1 \in Pid
      /\ proc \in [Pid -> Process]
  BY <1>1, <1>2, FirstFacts
<1>6. r.frames = <<>>
  BY <1>1, <1>2, Here DEF Jumps, Good, Nested, op
<1>7. t \in Process /\ Alike(t, r)
  BY <1>1, <1>2, Here, NextGood, AlikeNext DEF op, Good
<1> HIDE DEF t
<1> DEFINE h == [t.handler EXCEPT !["CHLD"] = l]
<1>8. h["CHLD"] = l
  <2>1. t.handler \in [Sig -> Nat]
    BY <1>7 DEF Process
  <2> QED BY <2>1 DEF Sig
<1>9. s = [t EXCEPT !.handler = h]
  OBVIOUS
<1> HIDE DEF h, s
<1>10. s.st = t.st /\ s.parent = t.parent /\ s.leader = t.leader /\ s.code = t.code
  BY <1>7, <1>9 DEF Process
<1>11. s.pending = t.pending /\ s.alarm = t.alarm /\ s.handler = h /\ s.frames = t.frames
  BY <1>7, <1>9 DEF Process
<1>12. /\ s.st = "run" /\ s.parent = 0 /\ s.leader = 1 /\ s.code = exercise /\ s.alarm = FALSE
       /\ s.frames = <<>> /\ s.pending = r.pending /\ s.handler["CHLD"] = l
  BY <1>1, <1>2, <1>5, <1>6, <1>7, <1>8, <1>10, <1>11 DEF Alike, Family, ParentOf, runs
<1>13. ParentOf(exercise, s)
  BY <1>5, <1>12 DEF ParentOf, waitLine
<1>14. ~Asking(exercise, s) /\ ~Asking(exercise, r)
  BY <1>6, <1>12 DEF Asking
<1>15. Zombies(proc') = Zombies(proc)
  BY <1>1, <1>2, <1>4, <1>5, <1>12 DEF Zombies, runs
<1>16. Accounted(exercise, proc')
  <2>1. proc'[1] = s
    BY <1>4, <1>5
  <2>2. /\ exercise # "signal1" /\ Zombies(proc) # {} => "CHLD" \in r.pending
        /\ exercise = "signal1" /\ "CHLD" \in r.pending => Zombies(proc) # {}
    BY <1>5, <1>14 DEF Accounted
  <2>3. l # 0
    BY DEF waitLine
  <2> HIDE DEF l, r
  <2> QED BY <1>12, <1>14, <1>15, <2>1, <2>2, <2>3 DEF Accounted
<1>17. Family(exercise, proc')
  BY <1>4, <1>5, <1>12, <1>13, <1>16 DEF Family
<1> QED BY <1>4, <1>17 DEF FamilyInv


LEMMA FamilyFork ==
  ASSUME MachineInv, FamilyInv, exercise \in Reaping, NEW p \in Pid, Fork(p)
  PROVE  FamilyInv'
<1> DEFINE r == proc[1]
           c == Least(unused)
<1>1. runs(p) /\ op(p) = "fork" /\ op(p) \in Falls
  BY DEF Fork, at, Falls
<1>2. p = 1
  BY <1>1, FirstFacts
<1>3. /\ arg2(1) = 0 /\ line(1) # 6 /\ r.pc + 1 \in childPc(exercise) /\ r.frames = <<>>
      /\ arg(1) \in Lines(text(r))
  <2>1. arg2(1) = 0 /\ line(1) # 6 /\ r.pc + 1 \in childPc(exercise)
    BY <1>1, <1>2, HereReaps DEF Reaps
  <2>2. r.frames = <<>>
    BY <1>1, <1>2, Here DEF Jumps, Good, Nested, op
  <2>3. arg(1) \in Lines(text(r))
    BY <1>1, <1>2, Here DEF GoesOn, op, arg
  <2> QED BY <2>1, <2>2, <2>3
<1>4. CASE ~canMake
  <2>1. unix_error(p)
    BY <1>2, <1>3, <1>4 DEF Fork, Fails
  <2> QED BY <1>1, <1>2, <1>3, <2>1, FamilyError
<1>5. CASE canMake
  <2> DEFINE t == next(r)
             u == goto(r, arg(1))
             child == [t EXCEPT !.parent = 1, !.leader = c, !.pending = {},
                                !.alarm = FALSE, !.var.child = 0]
             mother == [u EXCEPT !.var.child = c]
  <2>1. /\ ParentOf(exercise, r) /\ Accounted(exercise, proc) /\ r.handler["CHLD"] = waitLine(exercise)
        /\ Family(exercise, proc) /\ 1 \in Pid /\ proc \in [Pid -> Process]
    BY <1>1, <1>2, FirstFacts
  <2>2. c \in Pid /\ proc[c].st = "none" /\ c # 1
    BY <1>1, <1>2, <1>5, SomeUnused DEF unused, runs
  <2>3. /\ proc' = [proc EXCEPT ![c] = child, ![1] = mother]
        /\ exercise' = exercise /\ failed' = failed
    BY <1>2, <1>5 DEF Fork, world
  <2>4. t \in Process /\ Alike(t, r) /\ t.pc = r.pc + 1
    BY <1>1, <1>2, Here, NextGood, AlikeNext DEF op, Good
  <2>5. u \in Process /\ Alike(u, r)
    <3>1. u \in Process
      BY <1>2, <1>3, Here, Landing
    <3> QED BY <1>2, <1>3, <3>1, AlikeGoto DEF jumps
  <2> HIDE DEF t, u, c
  <2> DEFINE v == [t.var EXCEPT !.child = 0]
             w == [u.var EXCEPT !.child = c]
  <2>6. /\ child = [t EXCEPT !.parent = 1, !.leader = c, !.pending = {}, !.alarm = FALSE, !.var = v]
        /\ mother = [u EXCEPT !.var = w]
    OBVIOUS
  <2> HIDE DEF child, mother, v, w
  <2>7. child.st = t.st /\ child.parent = 1 /\ child.leader = c /\ child.code = t.code
    BY <2>4, <2>6 DEF Process
  <2>8. child.pc = t.pc /\ child.pending = {} /\ child.alarm = FALSE /\ child.frames = t.frames
    BY <2>4, <2>6 DEF Process
  <2>9. /\ child.st = "run" /\ child.parent = 1 /\ child.leader = c /\ child.code = exercise
        /\ ChildOf(exercise, child, c)
    BY <1>1, <1>2, <1>3, <2>1, <2>4, <2>7, <2>8 DEF Alike, Family, ChildOf, runs
  <2>10. Alike(mother, r)
    <3>1. Alike([u EXCEPT !.var = w], u)
      BY <2>5, AlikeExcept
    <3> QED BY <2>5, <2>6, <3>1 DEF Alike
  <2>11. /\ mother.st = "run" /\ mother.parent = 0 /\ mother.leader = 1 /\ mother.code = exercise
         /\ mother.frames = <<>> /\ mother.handler = r.handler /\ mother.pending = r.pending
    BY <1>1, <1>2, <1>3, <2>1, <2>10 DEF Alike, Family, runs
  <2>12. ParentOf(exercise, mother)
    BY <2>1, <2>10 DEF ParentOf, Alike, waitLine
  <2>13. ~Asking(exercise, mother) /\ ~Asking(exercise, r)
    BY <1>3, <2>11 DEF Asking
  <2>14. proc'[1] = mother /\ proc'[c] = child /\ \A q \in Pid \ {1, c} : proc'[q] = proc[q]
    BY <2>1, <2>2, <2>3
  <2>15. Zombies(proc') = Zombies(proc)
    BY <1>1, <1>2, <2>2, <2>9, <2>11, <2>14 DEF Zombies, runs
  <2>16. Accounted(exercise, proc')
    <3>1. /\ exercise # "signal1" /\ Zombies(proc) # {} => "CHLD" \in r.pending
          /\ exercise = "signal1" /\ "CHLD" \in r.pending => Zombies(proc) # {}
      BY <2>1, <2>13 DEF Accounted
    <3>2. mother.handler["CHLD"] # 0
      BY <2>1, <2>11 DEF waitLine
    <3> HIDE DEF r
    <3> QED BY <2>11, <2>13, <2>14, <2>15, <3>1, <3>2 DEF Accounted
  <2>17. /\ \A q \in Pid : /\ proc'[q].code = exercise /\ proc'[q].parent \in {0, 1}
                           /\ proc'[q].st # "run" => proc'[q].leader = 1
         /\ proc'[1].parent = 0 /\ proc'[1].leader = 1
    BY <2>1, <2>9, <2>11, <2>14 DEF Family
  <2>18. \A q \in Pid \ {1} : proc'[q].st = "run" => ChildOf(exercise, proc'[q], q)
    BY <2>1, <2>9, <2>14 DEF Family
  <2>19. Family(exercise, proc')
    BY <2>12, <2>14, <2>16, <2>17, <2>18 DEF Family
  <2> QED BY <2>3, <2>19 DEF FamilyInv
<1> QED BY <1>4, <1>5

\* The handler finds all that have ended, or has nothing more to ask for.
LEMMA FamilyWait ==
  ASSUME MachineInv, FamilyInv, exercise \in Reaping, NEW p \in Pid, Waitpid(p)
  PROVE  FamilyInv'
<1> DEFINE r == proc[1]
           l == waitLine(exercise)
           children == {q \in Pid : proc[q].parent = 1 /\ proc[q].st \in {"run", "zombie"}}
<1>1. runs(p) /\ op(p) = "wait" /\ op(p) \in Falls /\ op(p) # "signal"
  BY DEF Waitpid, at, Falls
<1>2. p = 1
  BY <1>1, FirstFacts
<1>3. /\ ParentOf(exercise, r) /\ Accounted(exercise, proc) /\ r.handler["CHLD"] = l
      /\ Family(exercise, proc) /\ 1 \in Pid /\ proc \in [Pid -> Process]
  BY <1>1, <1>2, FirstFacts
<1>4. /\ arg(1) = "any" /\ (arg2(1) = 0 <=> exercise = "signal1") /\ line(1) = l
      /\ r.frames # <<>>
      /\ IF exercise = "signal1" THEN Program[exercise][r.pc + 1][1] # 6
         ELSE Program[exercise][r.pc + 1][2] # "return"
  BY <1>1, <1>2, HereReaps DEF Reaps
<1>5. Asking(exercise, r)
  BY <1>1, <1>2, <1>4, HereReaps DEF Asking, waitLine
<1>6. Zombies(proc) \subseteq children
  BY DEF Zombies
<1>7. CASE children = {}
  <2>1. Zombies(proc) = {} /\ exercise # "signal1"
    BY <1>3, <1>5, <1>6, <1>7 DEF Accounted
  <2>2. Fails(1, arg2(1))
    BY <1>2, <1>4, <1>7 DEF Waitpid
  <2>3. Moves(1, jumps(1, arg2(1)))
    BY <1>4, <2>1, <2>2 DEF Fails
  <2>4. arg2(1) \in Lines(text(r))
    BY <1>1, <1>2, <1>4, <2>1, Here DEF GoesOn, Near, op, arg2
  <2>5. Alike(jumps(1, arg2(1)), r)
    BY <1>2, <2>4, AlikeGoto
  <2>6. proc' = [proc EXCEPT ![1] = jumps(1, arg2(1))] /\ exercise' = exercise /\ failed' = failed
    BY <2>3 DEF Moves, Becomes, world
  <2> HIDE DEF jumps
  <2> QED BY <1>1, <1>2, <2>1, <2>5, <2>6, FamilyMoves
<1>8. CASE children # {}
  <2>1. PICK q \in children : /\ proc[q].st = "zombie"
                              /\ proc' = [proc EXCEPT ![q] = over("gone", 0), ![1] = sets(1, "pid", q)]
                              /\ exercise' = exercise /\ failed' = failed
    BY <1>2, <1>4, <1>8 DEF Waitpid, world
  <2> DEFINE s == sets(1, "pid", q)
             g == over("gone", 0)
  <2>2. Alike(s, r) /\ s.pc = r.pc + 1
    BY <1>1, <1>2, <1>3, AlikeNext
  <2>3. g.st = "gone" /\ g.parent = 0 /\ g.leader = 1 /\ g.code = exercise
    BY DEF over, fresh
  <2> HIDE DEF s, g
  <2>4. q \in Pid /\ q # 1 /\ q \in Zombies(proc)
    BY <1>1, <1>2, <2>1 DEF runs, Zombies
  <2>5. proc'[1] = s /\ proc'[q] = g /\ \A x \in Pid \ {1, q} : proc'[x] = proc[x]
    BY <1>3, <2>1, <2>4 DEF s, g
  <2>6. /\ s.st = "run" /\ s.parent = 0 /\ s.leader = 1 /\ s.code = exercise
        /\ s.frames = r.frames /\ s.handler = r.handler /\ s.pending = r.pending
    BY <1>1, <1>2, <1>3, <2>2 DEF Alike, Family, runs
  <2>7. Zombies(proc') = Zombies(proc) \ {q}
    <3>1. r.st = "run" /\ s.st = "run" /\ g.st = "gone"
      BY <1>1, <1>2, <2>3, <2>6 DEF runs
    <3>2. \A x \in Pid \ {1, q} : proc'[x].parent = proc[x].parent /\ proc'[x].st = proc[x].st
      BY <2>5
    <3>3. ASSUME NEW x \in Pid PROVE x \in Zombies(proc') <=> x \in Zombies(proc) \ {q}
      BY <2>5, <3>1, <3>2 DEF Zombies
    <3> QED BY <3>3 DEF Zombies
  <2>8. ParentOf(exercise, s)
    BY <1>3, <2>2 DEF ParentOf, Alike, waitLine
  <2>9. exercise = "signal1" => ~Asking(exercise, s)
    BY <1>4, <2>2, <2>6 DEF Asking, text
  <2>10. exercise # "signal1" => Asking(exercise, s)
    BY <1>4, <2>2, <2>6 DEF Asking, text
  <2>11. Accounted(exercise, proc')
    <3>1. exercise = "signal1" /\ "CHLD" \in r.pending => Zombies(proc) # {q}
      BY <1>3, <1>5, <2>4 DEF Accounted
    <3>2. exercise = "signal1" /\ "CHLD" \in r.pending => Zombies(proc') # {}
      BY <2>4, <2>7, <3>1
    <3>3. s.handler["CHLD"] # 0
      BY <1>3, <2>6 DEF waitLine
    <3> HIDE DEF r
    <3> QED BY <2>5, <2>6, <2>9, <2>10, <3>2, <3>3 DEF Accounted
  <2>12. /\ \A x \in Pid : /\ proc'[x].code = exercise /\ proc'[x].parent \in {0, 1}
                           /\ proc'[x].st # "run" => proc'[x].leader = 1
         /\ proc'[1].parent = 0 /\ proc'[1].leader = 1
    BY <1>3, <2>3, <2>5, <2>6 DEF Family
  <2>13. \A x \in Pid \ {1} : proc'[x].st = "run" => ChildOf(exercise, proc'[x], x)
    BY <1>3, <2>3, <2>5 DEF Family
  <2>14. Family(exercise, proc')
    BY <2>5, <2>8, <2>11, <2>12, <2>13 DEF Family
  <2> QED BY <2>1, <2>14 DEF FamilyInv
<1> QED BY <1>7, <1>8

LEMMA FamilyExit ==
  ASSUME MachineInv, FamilyInv, exercise \in Reaping, NEW p \in Pid, Exit(p)
  PROVE  FamilyInv'
<1>1. runs(p)
  BY DEF Exit, at
<1>2. proc[p].atexit = 0
  <2>1. \A j \in DOMAIN Program[exercise] : Program[exercise][j][2] # "atexit"
    BY ProgramsReap DEF Reaps
  <2>2. text(proc[p]) = Program[exercise]
    BY HereReaps
  <2> QED BY <2>1, <2>2, Here DEF Good, Installed
<1>3. proc' = without(p) /\ exercise' = exercise /\ failed' = failed
  BY <1>2 DEF Exit, exit, Exits, world
<1> QED BY <1>1, <1>3, FamilyEnds DEF FamilyInv

\* The next instruction.  In the handler, where it may follow, something is
\* still asked for.
LEMMA FamilyNext ==
  ASSUME MachineInv, FamilyInv, exercise \in Reaping, exercise' = exercise, failed' = failed,
         NEW p \in Pid, runs(p), op(p) \in {"say", "sleep", "addjob", "deletejob", "loop"},
         NEW s, proc' = [proc EXCEPT ![p] = s], Alike(s, proc[p]), s.pc = proc[p].pc + 1
  PROVE  FamilyInv'
<1>1. op(p) # "signal"
  OBVIOUS
<1>2. p # 1 => s.pc \in childPc(exercise)
  BY FirstFacts
<1>3. p = 1 /\ inHandler(1) =>
        IF exercise = "signal1" THEN Program[exercise][s.pc][1] # 6
        ELSE Program[exercise][s.pc][2] # "return"
  BY HereReaps DEF Reaps, inHandler
<1> QED BY <1>1, <1>2, <1>3, FamilyMoves

\* A jump.  In the handler it goes back to waitpid.
LEMMA FamilyGoto ==
  ASSUME MachineInv, FamilyInv, exercise \in Reaping, exercise' = exercise, failed' = failed,
         NEW p \in Pid, runs(p), op(p) \in {"goto", "loop", "input"},
         NEW l, op(p) = "goto" => l = arg(p), op(p) = "loop" => l = arg2(p),
         op(p) = "input" => l = arg2(p) \/ l \in arg(p),
         proc' = [proc EXCEPT ![p] = jumps(p, l)]
  PROVE  FamilyInv'
<1> DEFINE s == jumps(p, l)
<1>1. l \in Lines(text(proc[p]))
  BY Here DEF GoesOn, Near, op, arg, arg2
<1>2. Alike(s, proc[p]) /\ s.pc \in DOMAIN Program[exercise] /\ Program[exercise][s.pc][1] = l
  BY <1>1, AlikeGoto, HereReaps
<1> HIDE DEF s
<1>3. p = 1 /\ op(p) # "signal"
  BY FirstFacts
<1>4. inHandler(1) => exercise # "signal1" /\ l = waitLine(exercise)
  BY <1>3, HereReaps DEF Reaps, inHandler
<1>5. inHandler(1) => Program[exercise][s.pc][2] = "wait"
  BY <1>2, <1>4, ProgramsReap DEF Reaps
<1> QED BY <1>2, <1>3, <1>4, <1>5, FamilyMoves DEF s

LEMMA FamilyControl ==
  ASSUME MachineInv, FamilyInv, exercise \in Reaping, NEW p \in Pid, Control(p)
  PROVE  FamilyInv'
<1>1. runs(p) /\ op(p) \in {"goto", "loop", "error"}
  <2>1. runs(p) /\ op(p) \in {"goto", "either", "loop", "background", "foreground", "add", "atexit", "error"}
    BY DEF Control, at
  <2> QED BY <2>1, HereReaps DEF Reaps
<1>2. CASE op(p) = "goto"
  <2>1. proc' = [proc EXCEPT ![p] = jumps(p, arg(p))] /\ exercise' = exercise /\ failed' = failed
    BY <1>2 DEF Control, at, Moves, Becomes, world
  <2> QED BY <1>1, <1>2, <2>1, FamilyGoto
<1>3. CASE op(p) = "loop"
  <2> DEFINE x == proc[p].var.i + 1
  <2>1. /\ exercise' = exercise /\ failed' = failed
        /\ \/ proc' = [proc EXCEPT ![p] = sets(p, "i", x)]
           \/ proc' = [proc EXCEPT ![p] = jumps(p, arg2(p))]
    BY <1>3 DEF Control, at, Moves, Becomes, world
  <2>2. op(p) \in Falls
    BY <1>3 DEF Falls
  <2> HIDE DEF x
  <2>3. Alike(sets(p, "i", x), proc[p]) /\ sets(p, "i", x).pc = proc[p].pc + 1
    BY <2>2, AlikeNext
  <2>4. CASE proc' = [proc EXCEPT ![p] = sets(p, "i", x)]
    BY <1>1, <1>3, <2>1, <2>3, <2>4, FamilyNext
  <2>5. CASE proc' = [proc EXCEPT ![p] = jumps(p, arg2(p))]
    BY <1>1, <1>3, <2>1, <2>5, FamilyGoto
  <2> QED BY <2>1, <2>4, <2>5
<1>4. CASE op(p) = "error"
  <2>1. unix_error(p)
    BY <1>4 DEF Control, at
  <2>2. line(p) # 6
    BY <1>4, HereReaps DEF Reaps
  <2> QED BY <1>1, <2>1, <2>2, FamilyError
<1> QED BY <1>1, <1>2, <1>3, <1>4

\* Operations that change data only.
LEMMA FamilyData ==
  ASSUME MachineInv, FamilyInv, exercise \in Reaping, NEW p \in Pid,
         Say(p) \/ Sleep(p) \/ addjob(p) \/ deletejob(p)
  PROVE  FamilyInv'
<1>1. /\ runs(p) /\ op(p) \in {"say", "sleep", "addjob", "deletejob", "loop"} /\ op(p) \in Falls
      /\ exercise' = exercise /\ failed' = failed
  BY DEF Say, Sleep, addjob, deletejob, at, Moves, Becomes, world, Falls
<1>2. PICK s, x : /\ proc' = [proc EXCEPT ![p] = s]
                  /\ \/ s = next(proc[p])
                     \/ s = [next(proc[p]) EXCEPT !.out = x]
                     \/ s = [next(proc[p]) EXCEPT !.jobs = x]
  <2>1. CASE Say(p)
    BY <2>1 DEF Say, Moves, Becomes
  <2>2. CASE Sleep(p)
    BY <2>2 DEF Sleep, Moves, Becomes
  <2>3. CASE addjob(p) \/ deletejob(p)
    <3> DEFINE a == next(proc[p]).jobs \cup {proc[p].var.child}
               b == next(proc[p]).jobs \ {proc[p].var.pid}
    <3>1. proc' = [proc EXCEPT ![p] = [next(proc[p]) EXCEPT !.jobs = a]]
          \/ proc' = [proc EXCEPT ![p] = [next(proc[p]) EXCEPT !.jobs = b]]
      BY <2>3 DEF addjob, deletejob, Moves, Becomes
    <3> HIDE DEF a, b
    <3> QED BY <3>1
  <2> QED BY <2>1, <2>2, <2>3
<1> HIDE DEF next
<1>3. Alike(s, proc[p]) /\ s.pc = proc[p].pc + 1
  <2>1. /\ Alike(next(proc[p]), proc[p]) /\ next(proc[p]).pc = proc[p].pc + 1
        /\ Alike([next(proc[p]) EXCEPT !.out = x], proc[p])
        /\ [next(proc[p]) EXCEPT !.out = x].pc = proc[p].pc + 1
        /\ Alike([next(proc[p]) EXCEPT !.jobs = x], proc[p])
        /\ [next(proc[p]) EXCEPT !.jobs = x].pc = proc[p].pc + 1
    BY <1>1, AlikeNext
  <2>2. CASE s = next(proc[p])
    BY <2>1, <2>2
  <2>3. CASE s = [next(proc[p]) EXCEPT !.out = x]
    BY <2>1, <2>3
  <2>4. CASE s = [next(proc[p]) EXCEPT !.jobs = x]
    BY <2>1, <2>4
  <2> QED BY <1>2, <2>2, <2>3, <2>4
<1> QED BY <1>1, <1>2, <1>3, FamilyNext


LEMMA FamilyStep ==
  ASSUME MachineInv, FamilyInv, exercise \in Reaping, Next
  PROVE  FamilyInv'
<1>1. CASE CtrlC
  BY <1>1 DEF CtrlC, Reaping
<1>2. ASSUME NEW p \in Pid, AlarmRings(p) PROVE FALSE
  <2>1. runs(p) /\ proc[p].alarm
    BY <1>2 DEF AlarmRings
  <2> QED BY <2>1, FirstFacts DEF ParentOf
<1>3. ASSUME NEW p \in Pid, ReadTerminal(p) PROVE FALSE
  <2>1. op(p) = "read"
    BY <1>3 DEF ReadTerminal, at
  <2> QED BY <2>1, HereReaps DEF Reaps
<1>4. ASSUME NEW p \in Pid, Fgets(p) PROVE FamilyInv'
  <2>1. PICK l : /\ proc' = [proc EXCEPT ![p] = jumps(p, l)] /\ exercise' = exercise /\ failed' = failed
                 /\ l = arg2(p) \/ l \in arg(p)
    BY <1>4 DEF Fgets, Types, Moves, Becomes, world
  <2>2. runs(p) /\ op(p) = "input"
    BY <1>4 DEF Fgets, at
  <2> QED BY <2>1, <2>2, FamilyGoto
<1>5. ASSUME NEW p \in Pid, Runs(p) PROVE FamilyInv'
  <2>1. op(p) \in {"signal", "loop", "fork", "say", "sleep", "exit", "input", "spin", "wait", "return",
                   "error", "addjob", "goto", "deletejob"}
    BY HereReaps DEF Reaps
  <2>2. \/ Deliver(p) \/ Exit(p) \/ Control(p) \/ Fork(p) \/ Waitpid(p) \/ Signal(p) \/ Return(p)
        \/ Say(p) \/ Sleep(p) \/ addjob(p) \/ deletejob(p)
    BY <1>5, <2>1, Operations
  <2> QED BY <2>2, FamilyDeliver, FamilyExit, FamilyControl, FamilyFork, FamilyWait, FamilySignal,
             FamilyReturn, FamilyData
<1> QED BY <1>1, <1>2, <1>3, <1>4, <1>5 DEF Next

LEMMA NextKeepsExercise == ASSUME Next PROVE world' = world
<1>1. CASE CtrlC
  BY <1>1 DEF CtrlC, Types
<1>2. ASSUME NEW p \in Pid, AlarmRings(p) \/ Fgets(p) \/ ReadTerminal(p) PROVE world' = world
  BY <1>2 DEF AlarmRings, Fgets, ReadTerminal, Moves, Types
<1>3. ASSUME NEW p \in Pid, Runs(p) PROVE world' = world
  <2> USE DEF Moves, Killed, exit, Exits, Fails, unix_error
  <2>1. CASE Exit(p) \/ Crash(p) \/ Control(p) \/ addjob(p) \/ deletejob(p) \/ Put(p) \/ Say(p)
    BY <2>1 DEF Exit, Crash, Control, addjob, deletejob, Put, Say
  <2>2. CASE Fork(p) \/ Execve(p) \/ Waitpid(p) \/ Kill(p) \/ Signal(p) \/ Sleep(p) \/ Alarm(p)
    BY <2>2 DEF Fork, Execve, Waitpid, Kill, Signal, Sleep, Alarm
  <2>3. CASE Deliver(p) \/ Return(p) \/ Setjmp(p) \/ Leave(p) \/ Longjmp(p)
    BY <2>3 DEF Deliver, Return, Setjmp, Leave, Longjmp
  <2>4. CASE Open(p) \/ Pipe(p) \/ Close(p) \/ Dup2(p) \/ Read(p) \/ Write(p)
    BY <2>4 DEF Open, Pipe, Close, Dup2, Read, Write
  <2>5. CASE Mmap(p) \/ WriteFile(p) \/ Stat(p) \/ Lookup(p)
    BY <2>5 DEF Mmap, WriteFile, Stat, Lookup
  <2>6. CASE Pthread_create(p) \/ Pthread_join(p) \/ Pthread_exit(p) \/ Load(p) \/ Store(p)
    BY <2>6 DEF Pthread_create, Pthread_join, Pthread_exit, Load, Store
  <2> QED BY <1>3, <2>1, <2>2, <2>3, <2>4, <2>5, <2>6 DEF Runs
<1> QED BY <1>1, <1>2, <1>3 DEF Next

\* Only the first process runs at the beginning, and nothing has happened to it.
LEMMA InitialProcess ==
  ASSUME Init, NEW p \in Pid
  PROVE  LET r == proc[p] IN
         /\ r.st = (IF p = 1 THEN "run" ELSE "none") /\ r.parent = 0 /\ r.leader = 1 /\ r.code = exercise
         /\ r.pc = 1 /\ r.var = var0 /\ r.out = <<>> /\ r.frames = <<>> /\ r.pending = {}
         /\ r.handler["CHLD"] = 0 /\ r.alarm = FALSE /\ r.atexit = 0 /\ r.jobs = {} /\ r.fd[1] = 1
<1> DEFINE how == IF p = 1 THEN "run" ELSE "none"
           t == [fresh EXCEPT !.st = how]
<1>1. proc[p] = t
  BY DEF Init
<1>2. t.st = how /\ t.parent = 0 /\ t.leader = 1 /\ t.code = exercise
  BY DEF fresh
<1>3. t.pc = 1 /\ t.var = var0 /\ t.out = <<>> /\ t.frames = <<>> /\ t.pending = {}
  BY DEF fresh
<1>4. t.handler["CHLD"] = 0 /\ t.alarm = FALSE /\ t.atexit = 0 /\ t.jobs = {} /\ t.fd[1] = 1
  BY DEF fresh, Sig, Fd
<1> HIDE DEF t
<1> QED BY <1>1, <1>2, <1>3, <1>4

LEMMA FamilyInit == ASSUME Init, exercise \in Reaping PROVE FamilyInv
<1>1. failed = {} /\ 1 \in Pid
  BY Setting DEF Init
<1>2. \A p \in Pid : /\ proc[p].st = (IF p = 1 THEN "run" ELSE "none") /\ proc[p].parent = 0
                     /\ proc[p].leader = 1 /\ proc[p].code = exercise
  BY InitialProcess
<1>3. /\ proc[1].pending = {} /\ proc[1].alarm = FALSE /\ proc[1].frames = <<>> /\ proc[1].pc = 1
      /\ proc[1].handler["CHLD"] = 0
  BY <1>1, InitialProcess
<1>4. Zombies(proc) = {}
  BY <1>2 DEF Zombies
<1>5. ParentOf(exercise, proc[1])
  BY <1>3 DEF ParentOf
<1>6. Accounted(exercise, proc)
  BY <1>2, <1>3, <1>4 DEF Accounted, Asking
<1>7. Family(exercise, proc)
  BY <1>1, <1>2, <1>5, <1>6 DEF Family
<1> QED BY <1>1, <1>7 DEF FamilyInv

\* No child that has ended is forgotten by the handlers of SIGCHLD, and the
\* one that asks for one child at a time finds one each time.
THEOREM NoChildIsForgotten == FairSpec => []NoLostChild
<1>1. Init => FamilyInv
  BY FamilyInit DEF FamilyInv
<1>2. MachineInv /\ FamilyInv /\ [Next]_vars => FamilyInv'
  <2>1. ASSUME MachineInv, FamilyInv, Next PROVE FamilyInv'
    <3>1. exercise' = exercise
      BY <2>1, NextKeepsExercise DEF world
    <3>2. CASE exercise \in Reaping
      BY <2>1, <3>2, FamilyStep
    <3>3. CASE exercise \notin Reaping
      BY <3>1, <3>3 DEF FamilyInv
    <3> QED BY <3>2, <3>3
  <2>2. FamilyInv /\ UNCHANGED vars => FamilyInv'
    BY DEF FamilyInv, vars, world
  <2> QED BY <2>1, <2>2
<1>3. MachineInv /\ FamilyInv => NoLostChild
  <2> SUFFICES ASSUME MachineInv, FamilyInv, exercise \in Reaping PROVE NoLostChild
    BY DEF NoLostChild, Reaping
  <2>1. Zombies(proc) = zombies(1)
    BY DEF Zombies, zombies
  <2>2. 1 \in Pid /\ (runs(1) => Accounted(exercise, proc) /\ proc[1].handler["CHLD"] \in {0, waitLine(exercise)})
    BY Setting DEF FamilyInv, Family, runs, ParentOf
  <2>3. inHandler(1) /\ exercise # "signal1" /\ op(1) # "return" <=> exercise # "signal1" /\ Asking(exercise, proc[1])
    BY <2>2, HereReaps DEF inHandler, Asking
  <2>4. inHandler(1) /\ exercise = "signal1" /\ line(1) = 6 <=> exercise = "signal1" /\ Asking(exercise, proc[1])
    BY <2>2, HereReaps DEF inHandler, Asking
  <2> QED BY <2>1, <2>2, <2>3, <2>4 DEF NoLostChild, Accounted, FamilyInv, Reaping
<1> QED BY <1>1, <1>2, <1>3, MachineAlways, PTL DEF FairSpec

-----------------------------------------------------------------------------
(* Exercises with threads: each thread prints its own number.               *)

Threaded == {"sharing", "testthread"}
numberLine(c) == IF c = "sharing" THEN 26 ELSE 13
mainPcs(c) == IF c = "sharing" THEN {1, 2, 3, 4} ELSE {1, 2, 3, 4, 5, 6, 9, 10, 11}
startPc(c) == IF c = "sharing" THEN 5 ELSE 12
sayPc(c) == IF c = "sharing" THEN 7 ELSE 12

\* Threads, and the process that testthread forks.
otherPcs(c) == IF c = "sharing" THEN {5, 6, 7, 8} ELSE {7, 8, 12, 13}

\* Before a thread has printed its number.
yetPcs(c) == IF c = "sharing" THEN {5, 6, 7} ELSE {12}

\* While main() creates threads.
creatingPcs(c) == IF c = "sharing" THEN {1, 2, 3} ELSE {1, 2, 3, 4}

\* No signals, and nothing is left in the buffer of stdout.
Plain(c, r) ==
  /\ r.code = c /\ r.out = <<>> /\ r.fd[1] = 1
  /\ r.pending = {} /\ r.handler["CHLD"] = 0 /\ r.alarm = FALSE

Telling(c, P) == {q \in Pid : P[q].st = "run" /\ P[q].pc \in yetPcs(c)}

Told(c, S) == {S[k][3] : k \in {j \in DOMAIN S : S[j][2] = numberLine(c)}}

NumbersDiffer(c, S) ==
  \A j, k \in DOMAIN S : S[j][2] = numberLine(c) /\ S[k][2] = numberLine(c) /\ S[j][3] = S[k][3] => j = k

\* Threads that have yet to print a number, and the numbers on the screen S.
ToldApart(c, P, S) ==
  /\ \A q \in Telling(c, P) : P[q].var.i \notin Told(c, S)
  /\ \A q, x \in Telling(c, P) : P[q].var.i = P[x].var.i => q = x
  /\ NumbersDiffer(c, S)

\* The number that main() has reached is the greatest, and is new when a
\* thread is about to be created.
Creating(c, P, S) ==
  P[1].st = "run" /\ P[1].pc \in creatingPcs(c) =>
    \A n \in Told(c, S) \cup {P[q].var.i : q \in Telling(c, P)} :
      n <= P[1].var.i /\ (Program[c][P[1].pc][2] = "thread" => n # P[1].var.i)

Crowd(c, P) ==
  /\ \A q \in Pid : Plain(c, P[q])
  /\ \A q \in Pid : P[q].st = "run" => P[q].pc \in IF q = 1 THEN mainPcs(c) ELSE otherPcs(c)

CrowdInv ==
  exercise \in Threaded =>
    Crowd(exercise, proc) /\ ToldApart(exercise, proc, screen) /\ Creating(exercise, proc, screen)

\* sharing: the threads, with the numbers 1 and 2, and the ones that have
\* counted.
Workers(P) == {q \in Pid \ {1} : P[q].st # "none"}
Counted(P) == {q \in Pid \ {1} : P[q].pc \in {7, 8}}

\* Whoever has read a count of 1 is not the one who wrote it, so two threads
\* have counted when cnt is 2, and no third one is there to read that.
Counts(P, S) ==
  /\ \A q \in Pid : P[q].leader = 1
  /\ P[1].pc \in mainPcs("sharing") /\ P[1].var.i \in 0..2
  /\ \A q \in Pid \ {1} : P[q].st = "none" => P[q].pc = 1
  /\ \A q \in Workers(P) : P[q].pc \in otherPcs("sharing") /\ P[q].var.i \in 1..2
  /\ \A q, x \in Workers(P) : P[q].var.i = P[x].var.i => q = x
  /\ P[1].st = "run" /\ P[1].pc \in creatingPcs("sharing") =>
       \A q \in Workers(P) : P[q].var.i <= P[1].var.i /\ (P[1].pc = 2 => P[q].var.i # P[1].var.i)
  /\ P[1].pc = 2 => P[1].var.i # 0
  /\ P[1].var.n \in 0..2 /\ (P[1].var.n = 0 <=> Counted(P) = {})
  /\ P[1].var.n = 2 => \E q, x \in Counted(P) : q # x
  /\ \A q \in Workers(P) : P[q].pc = 6 => P[q].var.n \in 0..1 /\ (P[q].var.n = 1 => Counted(P) # {})
  /\ S # <<>> => Counted(P) # {}

CountInv == exercise = "sharing" /\ failed = {} => Counts(proc, screen)

\* The instructions of these exercises, and where they lead to.
Tells(c, k) ==
  LET P == Program[c]
      i == P[k]
      To(l, S) == \A j \in DOMAIN P : P[j][1] = l => j \in S IN
  /\ i[2] \in {"say", "loop", "thread", "goto", "threadexit", "sleep", "fork", "spin", "exit", "load", "store"}
  /\ k \in mainPcs(c) \cup otherPcs(c)
  /\ i[2] = "say" => (i[1] = numberLine(c) <=> k = sayPc(c))
  /\ k = sayPc(c) => i[3] = "i" /\ Len(i) = 3 /\ k + 1 \notin yetPcs(c)
  /\ k \in otherPcs(c) => /\ i[2] \in {"load", "store", "say", "threadexit", "spin"}
                          /\ i[2] \in {"load", "store", "say"} => k + 1 \in otherPcs(c)
                          /\ k + 1 \in yetPcs(c) => k \in yetPcs(c)
  /\ k \in mainPcs(c) => /\ i[2] \notin {"load", "store"}
                         /\ i[2] \in {"say", "loop", "sleep", "thread"} => k + 1 \in mainPcs(c)
                         /\ k + 1 \in creatingPcs(c) => k \in creatingPcs(c)
                         /\ P[k + 1][2] = "thread" => i[2] = "loop"
  /\ i[2] = "loop" => k \in creatingPcs(c) /\ i[3] = 2 /\ To(i[4], mainPcs(c) \ creatingPcs(c))
  /\ i[2] = "goto" => k \in creatingPcs(c) /\ To(i[3], creatingPcs(c)) /\ \A j \in DOMAIN P : P[j][1] = i[3] => P[j][2] # "thread"
  /\ i[2] = "thread" => /\ k \in creatingPcs(c) /\ To(i[3], {j \in otherPcs(c) : j >= startPc(c)})
                        /\ P[startPc(c)][1] = i[3] /\ startPc(c) \in DOMAIN P
                        /\ IF c = "sharing" THEN i[4] = 0 ELSE i[4] # 0 /\ To(i[4], mainPcs(c) \ creatingPcs(c))
  /\ i[2] = "fork" => /\ k + 1 \in otherPcs(c) \ yetPcs(c) /\ To(i[3], mainPcs(c) \ creatingPcs(c))
                      /\ i[4] # 0 /\ To(i[4], mainPcs(c) \ creatingPcs(c))

LEMMA ProgramsTell ==
  /\ Threaded \subseteq DOMAIN Program
  /\ \A c \in Threaded : \A k \in DOMAIN Program[c] : Tells(c, k)
  /\ \A c \in Threaded : mainPcs(c) \cap otherPcs(c) = {} /\ startPc(c) \in yetPcs(c) /\ sayPc(c) \in yetPcs(c)
                         /\ yetPcs(c) \subseteq otherPcs(c) /\ 1 \in mainPcs(c)
  /\ \A c \in Threaded : creatingPcs(c) \subseteq mainPcs(c) /\ sayPc(c) + 1 \notin yetPcs(c)
<1> USE DEF Tells, mainPcs, otherPcs, yetPcs, creatingPcs, startPc, sayPc, numberLine
<1>1. Program["sharing"] = sharing /\ Program["testthread"] = testthread
      /\ "sharing" \in DOMAIN Program /\ "testthread" \in DOMAIN Program
  BY DEF Program
<1>2. \A k \in DOMAIN sharing : Tells("sharing", k)
  BY <1>1 DEF sharing
<1>3. \A k \in DOMAIN testthread : Tells("testthread", k)
  BY <1>1 DEF testthread
<1> QED BY <1>1, <1>2, <1>3 DEF Threaded

\* The least element is below the others.
LEMMA LeastIsLeast ==
  ASSUME NEW S \in SUBSET Nat, NEW x \in S
  PROVE  Least(S) \in S /\ Least(S) <= x
<1>1. IsWellFoundedOn(LessThan, Nat)
  BY NatLessThanWellFounded DEF OpToRel, LessThan
<1>2. PICK m \in S : \A y \in S : ~(<<y, m>> \in LessThan)
  BY <1>1, WFMin
<1>3. ASSUME NEW y \in S PROVE m <= y
  <2>1. y < m => <<y, m>> \in LessThan
    BY DEF LessThan
  <2> QED BY <1>2, <2>1
<1>4. \E z \in S : \A y \in S : z <= y
  BY <1>2, <1>3
<1> QED BY <1>4 DEF Least

\* What these exercises look at in a process.
View(r) == <<r.st, r.pc, r.var, r.leader>>

LEMMA PlainExcept ==
  ASSUME NEW c, NEW r \in Process, Plain(c, r), NEW x
  PROVE  /\ Plain(c, [r EXCEPT !.pc = x]) /\ View([r EXCEPT !.pc = x]) = <<r.st, x, r.var, r.leader>>
         /\ Plain(c, [r EXCEPT !.var = x]) /\ View([r EXCEPT !.var = x]) = <<r.st, r.pc, x, r.leader>>
         /\ Plain(c, [r EXCEPT !.st = x]) /\ View([r EXCEPT !.st = x]) = <<x, r.pc, r.var, r.leader>>
         /\ Plain(c, [r EXCEPT !.parent = x]) /\ View([r EXCEPT !.parent = x]) = View(r)
         /\ Plain(c, [r EXCEPT !.out = <<>>]) /\ View([r EXCEPT !.out = <<>>]) = View(r)
<1> DEFINE s == [r EXCEPT !.pc = x]
<1>1. s.code = r.code /\ s.out = r.out /\ s.fd = r.fd /\ s.pending = r.pending
  BY DEF Process
<1>2. s.handler = r.handler /\ s.alarm = r.alarm
  BY DEF Process
<1>3. s.st = r.st /\ s.pc = x /\ s.var = r.var /\ s.leader = r.leader
  BY DEF Process
<1> DEFINE t == [r EXCEPT !.var = x]
<1>4. t.code = r.code /\ t.out = r.out /\ t.fd = r.fd /\ t.pending = r.pending
  BY DEF Process
<1>5. t.handler = r.handler /\ t.alarm = r.alarm
  BY DEF Process
<1>6. t.st = r.st /\ t.pc = r.pc /\ t.var = x /\ t.leader = r.leader
  BY DEF Process
<1> DEFINE u == [r EXCEPT !.st = x]
<1>7. u.code = r.code /\ u.out = r.out /\ u.fd = r.fd /\ u.pending = r.pending
  BY DEF Process
<1>8. u.handler = r.handler /\ u.alarm = r.alarm
  BY DEF Process
<1>9. u.st = x /\ u.pc = r.pc /\ u.var = r.var /\ u.leader = r.leader
  BY DEF Process
<1> DEFINE v == [r EXCEPT !.parent = x]
<1>10. v.code = r.code /\ v.out = r.out /\ v.fd = r.fd /\ v.pending = r.pending
  BY DEF Process
<1>11. v.handler = r.handler /\ v.alarm = r.alarm
  BY DEF Process
<1>12. v.st = r.st /\ v.pc = r.pc /\ v.var = r.var /\ v.leader = r.leader
  BY DEF Process
<1> DEFINE w == [r EXCEPT !.out = <<>>]
<1>13. w.code = r.code /\ w.out = r.out /\ w.fd = r.fd /\ w.pending = r.pending
  BY DEF Process, Plain
<1>14. w.handler = r.handler /\ w.alarm = r.alarm
  BY DEF Process
<1>15. w.st = r.st /\ w.pc = r.pc /\ w.var = r.var /\ w.leader = r.leader
  BY DEF Process
<1> HIDE DEF s, t, u, v, w
<1>16. Plain(c, s) /\ Plain(c, t) /\ Plain(c, u) /\ Plain(c, v) /\ Plain(c, w)
  BY <1>1, <1>2, <1>4, <1>5, <1>7, <1>8, <1>10, <1>11, <1>13, <1>14 DEF Plain
<1>17. /\ View(s) = <<r.st, x, r.var, r.leader>> /\ View(t) = <<r.st, r.pc, x, r.leader>>
      /\ View(u) = <<x, r.pc, r.var, r.leader>> /\ View(v) = View(r) /\ View(w) = View(r)
  BY <1>3, <1>6, <1>9, <1>12, <1>15 DEF View
<1> QED BY <1>16, <1>17 DEF s, t, u, v, w

\* A step after which no more threads have yet to print their number, and
\* main() has not gone back.
LEMMA CrowdMoves ==
  ASSUME NEW c \in Threaded, NEW P \in [Pid -> Process], NEW Q \in [Pid -> Process], NEW S \in Seq(Entry),
         ToldApart(c, P, S), Creating(c, P, S),
         \A q \in Telling(c, Q) : q \in Telling(c, P) /\ Q[q].var.i = P[q].var.i,
         Q[1].st = "run" /\ Q[1].pc \in creatingPcs(c) =>
           /\ P[1].st = "run" /\ P[1].pc \in creatingPcs(c) /\ P[1].var.i <= Q[1].var.i
           /\ Program[c][Q[1].pc][2] = "thread" =>
                Program[c][P[1].pc][2] = "thread" \/ P[1].var.i < Q[1].var.i
  PROVE  ToldApart(c, Q, S) /\ Creating(c, Q, S)
<1>1. ToldApart(c, Q, S)
  BY DEF ToldApart
<1>2. Creating(c, Q, S)
  <2> SUFFICES ASSUME Q[1].st = "run", Q[1].pc \in creatingPcs(c),
                      NEW n \in Told(c, S) \cup {Q[q].var.i : q \in Telling(c, Q)}
               PROVE  n <= Q[1].var.i /\ (Program[c][Q[1].pc][2] = "thread" => n # Q[1].var.i)
    BY DEF Creating
  <2>1. n \in Told(c, S) \cup {P[q].var.i : q \in Telling(c, P)}
    OBVIOUS
  <2>2. n <= P[1].var.i /\ (Program[c][P[1].pc][2] = "thread" => n # P[1].var.i)
    BY <2>1 DEF Creating
  <2>3. n \in Int
    <3>1. \A q \in Pid : P[q].var.i \in Int
      BY DEF Process, Var
    <3>2. Told(c, S) \subseteq Int
      BY DEF Told, Entry
    <3> QED BY <2>1, <3>1, <3>2 DEF Telling
  <2>4. P[1].var.i \in Int /\ Q[1].var.i \in Int
    BY Setting DEF Process, Var
  <2> QED BY <2>2, <2>3, <2>4
<1> QED BY <1>1, <1>2

\* A text that is no number of a thread.
LEMMA OtherText ==
  ASSUME NEW c, NEW S \in Seq(Entry), NEW e \in Entry, e[2] # numberLine(c)
  PROVE  /\ Told(c, S \o <<e>>) = Told(c, S)
         /\ \A P : ToldApart(c, P, S) => ToldApart(c, P, S \o <<e>>)
         /\ \A P : Creating(c, P, S) => Creating(c, P, S \o <<e>>)
<1> DEFINE R == S \o <<e>>
<1>1. /\ DOMAIN S = 1..Len(S) /\ DOMAIN R = 1..(Len(S) + 1) /\ Len(S) \in Nat
      /\ \A k \in DOMAIN S : R[k] = S[k]
      /\ R[Len(S) + 1] = e
  OBVIOUS
<1> HIDE DEF R
<1>2. ASSUME NEW k \in DOMAIN R, R[k][2] = numberLine(c) PROVE k \in DOMAIN S /\ R[k] = S[k]
  BY <1>1, <1>2
<1>3. Told(c, R) = Told(c, S)
  BY <1>1, <1>2 DEF Told
<1>4. ASSUME NEW P, ToldApart(c, P, S) PROVE ToldApart(c, P, R)
  BY <1>2, <1>3, <1>4 DEF ToldApart, NumbersDiffer
<1>5. ASSUME NEW P, Creating(c, P, S) PROVE Creating(c, P, R)
  BY <1>3, <1>5 DEF Creating
<1> QED BY <1>3, <1>4, <1>5 DEF R

\* A number of a thread.
LEMMA NumberText ==
  ASSUME NEW c, NEW S \in Seq(Entry), NEW e \in Entry, e[2] = numberLine(c)
  PROVE  /\ Told(c, S \o <<e>>) = Told(c, S) \cup {e[3]}
         /\ NumbersDiffer(c, S) /\ e[3] \notin Told(c, S) => NumbersDiffer(c, S \o <<e>>)
<1> DEFINE R == S \o <<e>>
<1>1. /\ DOMAIN S = 1..Len(S) /\ DOMAIN R = 1..(Len(S) + 1) /\ Len(S) \in Nat
      /\ \A k \in DOMAIN S : R[k] = S[k]
      /\ R[Len(S) + 1] = e
  OBVIOUS
<1> HIDE DEF R
<1>2. DOMAIN R = DOMAIN S \cup {Len(S) + 1}
  BY <1>1
<1>3. Told(c, R) = Told(c, S) \cup {e[3]}
  BY <1>1, <1>2 DEF Told
<1>4. ASSUME NumbersDiffer(c, S), e[3] \notin Told(c, S) PROVE NumbersDiffer(c, R)
  <2>1. \A x \in DOMAIN S : S[x][2] = numberLine(c) => S[x][3] # e[3]
    BY <1>4 DEF Told
  <2> QED BY <1>1, <1>2, <1>4, <2>1 DEF NumbersDiffer
<1> QED BY <1>3, <1>4 DEF R

\* An instruction of these exercises.
LEMMA HereTells ==
  ASSUME MachineInv, CrowdInv, exercise \in Threaded, NEW p \in Pid
  PROVE  /\ text(proc[p]) = Program[exercise] /\ proc[p].code = exercise /\ Plain(exercise, proc[p])
         /\ proc[p].pc \in DOMAIN Program[exercise] /\ proc[p].pc \in Nat
         /\ Tells(exercise, proc[p].pc) /\ instr(p) = Program[exercise][proc[p].pc]
         /\ line(p) = Program[exercise][proc[p].pc][1] /\ op(p) = Program[exercise][proc[p].pc][2]
         /\ arg(p) = Program[exercise][proc[p].pc][3] /\ arg2(p) = Program[exercise][proc[p].pc][4]
         /\ runs(p) => proc[p].pc \in IF p = 1 THEN mainPcs(exercise) ELSE otherPcs(exercise)
<1>1. proc[p].code = exercise /\ Plain(exercise, proc[p])
  BY DEF CrowdInv, Crowd, Plain
<1>2. text(proc[p]) = Program[exercise] /\ instr(p) = Program[exercise][proc[p].pc]
  BY <1>1, Here DEF text
<1>3. /\ proc[p].pc \in DOMAIN Program[exercise] /\ proc[p].pc \in Nat
  BY <1>1, <1>2, Here, InstructionFacts DEF Good
<1>4. runs(p) => proc[p].pc \in IF p = 1 THEN mainPcs(exercise) ELSE otherPcs(exercise)
  BY DEF CrowdInv, Crowd, runs
<1> QED BY <1>1, <1>2, <1>3, <1>4, ProgramsTell DEF line, op, arg, arg2

\* Nothing but the next instructions changes for the texts that follow.
LEMMA CrowdLocal ==
  ASSUME MachineInv, MachineInv', CrowdInv, exercise \in Threaded, exercise' = exercise,
         NEW p \in Pid, runs(p), NEW s, proc' = [proc EXCEPT ![p] = s],
         Plain(exercise, s),
         s.st = "run" => s.pc \in IF p = 1 THEN mainPcs(exercise) ELSE otherPcs(exercise),
         p # 1 /\ s.pc \in yetPcs(exercise) => proc[p].pc \in yetPcs(exercise) /\ s.var.i = proc[p].var.i,
         p = 1 /\ s.st = "run" /\ s.pc \in creatingPcs(exercise) =>
           /\ proc[1].pc \in creatingPcs(exercise) /\ proc[1].var.i <= s.var.i
           /\ Program[exercise][s.pc][2] = "thread" => proc[1].var.i < s.var.i,
         \/ screen' = screen
         \/ \E e \in Entry : screen' = screen \o <<e>> /\ e[2] # numberLine(exercise)
  PROVE  CrowdInv'
<1> DEFINE c == exercise
<1>1. /\ Crowd(c, proc) /\ ToldApart(c, proc, screen) /\ Creating(c, proc, screen) /\ 1 \in Pid
      /\ proc \in [Pid -> Process] /\ proc' \in [Pid -> Process] /\ screen \in Seq(Entry)
  BY Setting DEF CrowdInv, MachineInv
<1>2. proc'[p] = s /\ \A q \in Pid \ {p} : proc'[q] = proc[q]
  BY <1>1
<1>3. Crowd(c, proc')
  BY <1>1, <1>2 DEF Crowd
<1>4. \A q \in Telling(c, proc') : q \in Telling(c, proc) /\ proc'[q].var.i = proc[q].var.i
  <2>1. mainPcs(c) \cap yetPcs(c) = {}
    BY ProgramsTell
  <2>2. s.st = "run" /\ s.pc \in yetPcs(c) => p # 1
    BY <2>1
  <2> QED BY <1>2, <2>2 DEF Telling, runs
<1>5. proc'[1].st = "run" /\ proc'[1].pc \in creatingPcs(c) =>
        /\ proc[1].st = "run" /\ proc[1].pc \in creatingPcs(c) /\ proc[1].var.i <= proc'[1].var.i
        /\ Program[c][proc'[1].pc][2] = "thread" =>
             Program[c][proc[1].pc][2] = "thread" \/ proc[1].var.i < proc'[1].var.i
  <2>1. CASE p = 1
    BY <1>2, <2>1 DEF runs
  <2>2. CASE p # 1
    <3>1. proc'[1] = proc[1]
      BY <1>1, <1>2, <2>2
    <3>2. proc[1].var.i \in Int
      BY <1>1 DEF Process, Var
    <3> QED BY <3>1, <3>2
  <2> QED BY <2>1, <2>2
<1>6. ToldApart(c, proc', screen) /\ Creating(c, proc', screen)
  BY <1>1, <1>4, <1>5, CrowdMoves
<1>7. ToldApart(c, proc', screen') /\ Creating(c, proc', screen')
  <2>1. CASE screen' = screen
    BY <1>6, <2>1
  <2>2. ASSUME NEW e \in Entry, screen' = screen \o <<e>>, e[2] # numberLine(exercise)
        PROVE  ToldApart(c, proc', screen') /\ Creating(c, proc', screen')
    BY <1>1, <1>6, <2>2, OtherText
  <2> QED BY <2>1, <2>2
<1> QED BY <1>3, <1>7 DEF CrowdInv

\* The ends of processes leave fewer threads.
LEMMA CrowdEnds ==
  ASSUME MachineInv, MachineInv', CrowdInv, exercise \in Threaded, exercise' = exercise,
         runs(1), proc' = without(1), screen' = screen
  PROVE  CrowdInv'
<1> DEFINE c == exercise
           l == proc[1].leader
           orphan(q) == [proc[q] EXCEPT !.parent = 0]
<1>1. /\ Crowd(c, proc) /\ ToldApart(c, proc, screen) /\ Creating(c, proc, screen) /\ 1 \in Pid
      /\ proc \in [Pid -> Process] /\ proc' \in [Pid -> Process] /\ screen \in Seq(Entry)
  BY Setting DEF CrowdInv, MachineInv
<1>2. \A q \in Pid : sent(proc[q], "CHLD") = proc[q]
  BY <1>1 DEF sent, Crowd, Plain
<1>3. /\ \A q \in Pid : \/ proc'[q] = proc[q]
                        \/ proc'[q] = orphan(q)
                        \/ \E how \in {"gone", "zombie"} : \E o : proc'[q] = over(how, o)
      /\ \E how \in {"gone", "zombie"} : \E o : proc'[1] = over(how, o)
  BY <1>1, <1>2 DEF without, runs
<1>4. ASSUME NEW how, NEW o PROVE Plain(c, over(how, o)) /\ over(how, o).st = how
  BY DEF over, fresh, Plain, Sig, Fd
<1>5. ASSUME NEW q \in Pid PROVE Plain(c, orphan(q)) /\ View(orphan(q)) = View(proc[q])
  BY <1>1, PlainExcept DEF Crowd
<1> HIDE DEF over, orphan
<1>6. ASSUME NEW q \in Pid
      PROVE  /\ Plain(c, proc'[q])
             /\ proc'[q].st = "run" => View(proc'[q]) = View(proc[q])
  BY <1>1, <1>3, <1>4, <1>5 DEF Crowd
<1>7. proc'[1].st # "run"
  BY <1>3, <1>4
<1>8. ASSUME NEW q \in Pid, proc'[q].st = "run"
      PROVE  proc[q].st = "run" /\ proc'[q].pc = proc[q].pc /\ proc'[q].var = proc[q].var
  BY <1>6, <1>8 DEF View
<1>9. Crowd(c, proc')
  BY <1>1, <1>6, <1>8 DEF Crowd
<1>10. \A q \in Telling(c, proc') : q \in Telling(c, proc) /\ proc'[q].var.i = proc[q].var.i
  BY <1>8 DEF Telling
<1>11. ToldApart(c, proc', screen) /\ Creating(c, proc', screen)
  BY <1>1, <1>7, <1>10, CrowdMoves
<1> QED BY <1>9, <1>11 DEF CrowdInv

\* What the operations look like from here.
LEMMA ViewNext ==
  ASSUME MachineInv, CrowdInv, exercise \in Threaded, NEW p \in Pid, op(p) \in Falls, NEW x, NEW name
  PROVE  LET r == proc[p] IN
         /\ Plain(exercise, next(r)) /\ View(next(r)) = <<r.st, r.pc + 1, r.var, r.leader>>
         /\ Plain(exercise, sets(p, name, x))
         /\ View(sets(p, name, x)) = <<r.st, r.pc + 1, [r.var EXCEPT ![name] = x], r.leader>>
         /\ Plain(exercise, [next(r) EXCEPT !.out = <<>>])
         /\ View([next(r) EXCEPT !.out = <<>>]) = <<r.st, r.pc + 1, r.var, r.leader>>
<1> DEFINE r == proc[p]
           t == next(r)
           v == [t.var EXCEPT ![name] = x]
<1>1. r \in Process /\ t \in Process /\ Plain(exercise, r)
  BY Here, NextGood, HereTells DEF op, Good
<1>2. Plain(exercise, t) /\ View(t) = <<r.st, r.pc + 1, r.var, r.leader>>
  <2>1. t = [r EXCEPT !.pc = r.pc + 1]
    BY DEF next
  <2> DEFINE k == r.pc + 1
  <2> HIDE DEF t, k
  <2>2. Plain(exercise, [r EXCEPT !.pc = k]) /\ View([r EXCEPT !.pc = k]) = <<r.st, k, r.var, r.leader>>
    BY <1>1, PlainExcept
  <2> QED BY <2>1, <2>2 DEF k
<1>3. sets(p, name, x) = [t EXCEPT !.var = v]
  BY DEF sets
<1> HIDE DEF t
<1>4. t.st = r.st /\ t.pc = r.pc + 1 /\ t.var = r.var /\ t.leader = r.leader
  BY <1>2 DEF View
<1>5. v = [r.var EXCEPT ![name] = x]
  BY <1>4
<1> HIDE DEF v
<1>6. Plain(exercise, [t EXCEPT !.var = v]) /\ View([t EXCEPT !.var = v]) = <<t.st, t.pc, v, t.leader>>
  BY <1>1, <1>2, PlainExcept
<1>7. Plain(exercise, [t EXCEPT !.out = <<>>]) /\ View([t EXCEPT !.out = <<>>]) = View(t)
  BY <1>1, <1>2, PlainExcept
<1> HIDE DEF sets
<1> QED BY <1>2, <1>3, <1>4, <1>5, <1>6, <1>7 DEF t

LEMMA ViewJump ==
  ASSUME MachineInv, CrowdInv, exercise \in Threaded, NEW p \in Pid, NEW l \in Lines(text(proc[p]))
  PROVE  LET r == jumps(p, l) IN
         /\ r \in Process /\ Plain(exercise, r) /\ View(r) = <<proc[p].st, r.pc, proc[p].var, proc[p].leader>>
         /\ r.pc \in DOMAIN Program[exercise] /\ Program[exercise][r.pc][1] = l
<1> DEFINE r == jumps(p, l)
           k == Least({j \in DOMAIN Program[proc[p].code] : Program[proc[p].code][j][1] = l})
<1>1. proc[p] \in Process /\ Plain(exercise, proc[p]) /\ text(proc[p]) = Program[exercise]
  BY Here, HereTells
<1>2. r = [proc[p] EXCEPT !.pc = k]
  BY DEF jumps, goto
<1>3. r \in Process /\ r.pc \in DOMAIN Program[exercise] /\ Program[exercise][r.pc][1] = l
  BY <1>1, Here, Landing DEF jumps
<1> HIDE DEF r, k
<1>4. Plain(exercise, r) /\ View(r) = <<proc[p].st, k, proc[p].var, proc[p].leader>>
  BY <1>1, <1>2, PlainExcept
<1> QED BY <1>3, <1>4 DEF r, View

\* Numbers that are set and numbers that stay.
LEMMA VarSet ==
  ASSUME NEW v \in Var, NEW x
  PROVE  /\ [v EXCEPT !["i"] = x].i = x /\ [v EXCEPT !["i"] = x].n = v.n
         /\ [v EXCEPT !["n"] = x].n = x /\ [v EXCEPT !["n"] = x].i = v.i
         /\ [v EXCEPT !["child"] = x].i = v.i /\ [v EXCEPT !["child"] = x].n = v.n
  BY DEF Var

LEMMA ViewIs ==
  ASSUME NEW r, NEW a, NEW b, NEW d, NEW e, View(r) = <<a, b, d, e>>
  PROVE  r.st = a /\ r.pc = b /\ r.var = d /\ r.leader = e
  BY DEF View

\* The next instruction of main() or of a thread, whose number stays.
LEMMA CrowdNext ==
  ASSUME MachineInv, MachineInv', CrowdInv, exercise \in Threaded, exercise' = exercise,
         NEW p \in Pid, runs(p), op(p) \in {"say", "sleep", "load", "loop", "thread"},
         NEW s, proc' = [proc EXCEPT ![p] = s], Plain(exercise, s),
         s.st = "run", s.pc = proc[p].pc + 1,
         IF op(p) = "loop" THEN proc[p].var.i < s.var.i ELSE s.var.i = proc[p].var.i,
         \/ screen' = screen
         \/ \E e \in Entry : screen' = screen \o <<e>> /\ e[2] # numberLine(exercise)
  PROVE  CrowdInv'
<1>1. s.pc \in IF p = 1 THEN mainPcs(exercise) ELSE otherPcs(exercise)
  BY HereTells DEF Tells
<1>2. p # 1 /\ s.pc \in yetPcs(exercise) => proc[p].pc \in yetPcs(exercise) /\ s.var.i = proc[p].var.i
  BY HereTells DEF Tells
<1>3. p = 1 /\ s.pc \in creatingPcs(exercise) =>
        /\ proc[1].pc \in creatingPcs(exercise) /\ proc[1].var.i <= s.var.i
        /\ Program[exercise][s.pc][2] = "thread" => proc[1].var.i < s.var.i
  <2>1. \A q \in Pid : proc[q].var.i \in Int /\ proc'[q].var.i \in Int
    BY DEF MachineInv, Process, Var
  <2>2. s.var.i \in Int
    BY <2>1 DEF MachineInv
  <2> QED BY <2>1, <2>2, HereTells DEF Tells
<1> QED BY <1>1, <1>2, <1>3, CrowdLocal

\* A jump of main().
LEMMA CrowdJump ==
  ASSUME MachineInv, MachineInv', CrowdInv, exercise \in Threaded, exercise' = exercise, screen' = screen,
         runs(1), NEW l,
         \/ op(1) = "loop" /\ l = arg2(1)
         \/ op(1) = "goto" /\ l = arg(1)
         \/ op(1) = "thread" /\ exercise = "testthread" /\ l = arg2(1)
         \/ op(1) = "fork" /\ l = arg2(1),
         proc' = [proc EXCEPT ![1] = jumps(1, l)]
  PROVE  CrowdInv'
<1> DEFINE s == jumps(1, l)
<1>1. 1 \in Pid /\ proc[1] \in Process /\ proc[1].var.i \in Int
  BY Setting DEF MachineInv, Process, Var
<1>2. l \in Lines(text(proc[1]))
  <2>1. op(1) = "thread" /\ exercise = "testthread" => arg2(1) # 0
    BY <1>1, HereTells DEF Tells
  <2>2. op(1) = "fork" => arg2(1) # 0
    BY <1>1, HereTells DEF Tells
  <2>3. arg2(1) = instr(1)[4] /\ arg(1) = instr(1)[3] /\ op(1) = instr(1)[2]
    BY DEF arg, arg2, op
  <2> QED BY <1>1, <2>1, <2>2, <2>3, Here DEF GoesOn, Near, InMain
<1>3. /\ Plain(exercise, s) /\ View(s) = <<proc[1].st, s.pc, proc[1].var, proc[1].leader>>
      /\ s.pc \in DOMAIN Program[exercise] /\ Program[exercise][s.pc][1] = l
  BY <1>1, <1>2, ViewJump
<1> HIDE DEF s
<1>4. s.st = "run" /\ s.var = proc[1].var
  BY <1>3, ViewIs DEF runs
<1>5. s.pc \in mainPcs(exercise)
      /\ (s.pc \in creatingPcs(exercise) =>
            proc[1].pc \in creatingPcs(exercise) /\ Program[exercise][s.pc][2] # "thread")
  BY <1>1, <1>3, HereTells, ProgramsTell DEF Tells
<1>6. proc' = [proc EXCEPT ![1] = s]
  BY DEF s
<1>7. s.pc \in creatingPcs(exercise) =>
        /\ proc[1].pc \in creatingPcs(exercise) /\ proc[1].var.i <= s.var.i
        /\ Program[exercise][s.pc][2] = "thread" => proc[1].var.i < s.var.i
  BY <1>1, <1>4, <1>5
<1> QED BY <1>1, <1>3, <1>4, <1>5, <1>6, <1>7, CrowdLocal

LEMMA CrowdControl ==
  ASSUME MachineInv, MachineInv', CrowdInv, exercise \in Threaded, NEW p \in Pid, Control(p)
  PROVE  CrowdInv'
<1>1. runs(p) /\ op(p) \in {"goto", "loop"}
  <2>1. runs(p) /\ op(p) \in {"goto", "either", "loop", "background", "foreground", "add", "atexit", "error"}
    BY DEF Control, at
  <2> QED BY <2>1, HereTells DEF Tells
<1>2. p = 1
  BY <1>1, HereTells DEF Tells
<1>3. screen' = screen /\ exercise' = exercise
  BY <1>1 DEF Control, at, Moves, world
<1>4. CASE op(p) = "goto"
  <2>1. proc' = [proc EXCEPT ![1] = jumps(1, arg(1))]
    BY <1>2, <1>4 DEF Control, at, Moves, Becomes
  <2> QED BY <1>1, <1>2, <1>3, <1>4, <2>1, CrowdJump
<1>5. CASE op(p) = "loop"
  <2> DEFINE x == proc[1].var.i + 1
             s == sets(1, "i", x)
  <2>1. proc' = [proc EXCEPT ![1] = s] \/ proc' = [proc EXCEPT ![1] = jumps(1, arg2(1))]
    BY <1>2, <1>5 DEF Control, at, Moves, Becomes
  <2>2. op(1) \in Falls /\ proc[1].var \in Var /\ proc[1].var.i \in Int
    BY <1>2, <1>5, Here DEF Falls, Process, Var
  <2>3. proc[1].var.i < x
    BY <2>2
  <2> HIDE DEF x
  <2>4. Plain(exercise, s) /\ View(s) = <<proc[1].st, proc[1].pc + 1, [proc[1].var EXCEPT !["i"] = x], proc[1].leader>>
    BY <1>2, <2>2, ViewNext
  <2> HIDE DEF s
  <2>5. s.st = "run" /\ s.pc = proc[1].pc + 1 /\ s.var.i = x
    <3>1. s.st = proc[1].st /\ s.pc = proc[1].pc + 1 /\ s.var = [proc[1].var EXCEPT !["i"] = x]
      BY <2>4, ViewIs
    <3> QED BY <1>1, <1>2, <2>2, <3>1, VarSet DEF runs
  <2>6. CASE proc' = [proc EXCEPT ![1] = s]
    BY <1>1, <1>2, <1>3, <1>5, <2>3, <2>4, <2>5, <2>6, CrowdNext
  <2>7. CASE proc' = [proc EXCEPT ![1] = jumps(1, arg2(1))]
    BY <1>1, <1>2, <1>3, <1>5, <2>7, CrowdJump
  <2> QED BY <2>1, <2>6, <2>7
<1> QED BY <1>1, <1>4, <1>5

LEMMA CrowdSleep ==
  ASSUME MachineInv, MachineInv', CrowdInv, exercise \in Threaded, NEW p \in Pid, Sleep(p) \/ Load(p)
  PROVE  CrowdInv'
<1> DEFINE x == proc[proc[p].leader].var.n
           s == IF op(p) = "sleep" THEN next(proc[p]) ELSE sets(p, "n", x)
<1>1. /\ runs(p) /\ op(p) \in {"sleep", "load"} /\ op(p) \in Falls
      /\ proc' = [proc EXCEPT ![p] = s] /\ screen' = screen /\ exercise' = exercise
  BY DEF Sleep, Load, at, Moves, Becomes, world, Falls
<1> HIDE DEF x
<1>2. /\ Plain(exercise, s)
      /\ \/ View(s) = <<proc[p].st, proc[p].pc + 1, proc[p].var, proc[p].leader>>
         \/ View(s) = <<proc[p].st, proc[p].pc + 1, [proc[p].var EXCEPT !["n"] = x], proc[p].leader>>
  BY <1>1, ViewNext
<1> HIDE DEF s
<1>3. s.st = "run" /\ s.pc = proc[p].pc + 1 /\ s.var.i = proc[p].var.i
  <2>1. proc[p].var \in Var /\ proc[p].st = "run"
    BY <1>1, Here DEF Process, runs
  <2>2. CASE View(s) = <<proc[p].st, proc[p].pc + 1, proc[p].var, proc[p].leader>>
    BY <2>1, <2>2, ViewIs
  <2>3. CASE View(s) = <<proc[p].st, proc[p].pc + 1, [proc[p].var EXCEPT !["n"] = x], proc[p].leader>>
    <3>1. s.st = proc[p].st /\ s.pc = proc[p].pc + 1 /\ s.var = [proc[p].var EXCEPT !["n"] = x]
      BY <2>3, ViewIs
    <3> QED BY <2>1, <3>1, VarSet
  <2> QED BY <1>2, <2>2, <2>3
<1> QED BY <1>1, <1>2, <1>3, CrowdNext

\* Threads print their numbers, others other texts.
LEMMA CrowdSay ==
  ASSUME MachineInv, MachineInv', CrowdInv, exercise \in Threaded, NEW p \in Pid, Say(p)
  PROVE  CrowdInv'
<1> DEFINE s == [next(proc[p]) EXCEPT !.out = <<>>]
           e == printed(p)
           c == exercise
<1>1. runs(p) /\ op(p) = "say" /\ op(p) \in Falls /\ exercise' = exercise
  BY DEF Say, at, Moves, world, Falls
<1>2. Plain(c, proc[p]) /\ proc[p] \in Process /\ proc[p].var \in Var
  BY HereTells, Here DEF Process
<1>3. proc' = [proc EXCEPT ![p] = s] /\ screen' = screen \o <<e>>
  <2>1. onTerminal(p) /\ Append(proc[p].out, e) = <<e>>
    BY <1>2 DEF Plain, onTerminal
  <2> QED BY <2>1 DEF Say, Becomes
<1>4. e \in Entry
  BY <1>1, PrintedIsEntry
<1>5. e[2] = line(p) /\ (Len(instr(p)) = 3 /\ arg(p) = "i" => e[3] = proc[p].var.i)
  <2> DEFINE v == IF Len(instr(p)) > 2 THEN proc[p].var[arg(p)] ELSE 0
  <2>1. e = <<p, line(p), v>>
    BY DEF printed
  <2>2. Len(instr(p)) = 3 /\ arg(p) = "i" => v = proc[p].var.i
    OBVIOUS
  <2> HIDE DEF v, e
  <2> QED BY <2>1, <2>2
<1>6. Plain(c, s) /\ s.st = "run" /\ s.pc = proc[p].pc + 1 /\ s.var = proc[p].var
  <2>1. Plain(c, s) /\ View(s) = <<proc[p].st, proc[p].pc + 1, proc[p].var, proc[p].leader>>
    BY <1>1, ViewNext
  <2> HIDE DEF s
  <2> QED BY <1>1, <2>1, ViewIs DEF runs
<1> HIDE DEF s, e
<1>7. CASE proc[p].pc # sayPc(c)
  <2>1. e[2] # numberLine(c)
    BY <1>1, <1>5, <1>7, HereTells DEF Tells
  <2>2. s.var.i = proc[p].var.i
    BY <1>6
  <2> QED BY <1>1, <1>3, <1>4, <1>6, <2>1, <2>2, CrowdNext
<1>8. CASE proc[p].pc = sayPc(c)
  <2>1. p # 1 /\ e[2] = numberLine(c) /\ e[3] = proc[p].var.i /\ s.pc \notin yetPcs(c)
        /\ s.pc \in otherPcs(c)
    BY <1>1, <1>5, <1>6, <1>8, HereTells, ProgramsTell DEF Tells
  <2>2. /\ Crowd(c, proc) /\ ToldApart(c, proc, screen) /\ Creating(c, proc, screen) /\ 1 \in Pid
        /\ proc \in [Pid -> Process] /\ proc' \in [Pid -> Process] /\ screen \in Seq(Entry)
    BY Setting DEF CrowdInv, MachineInv
  <2>3. proc'[p] = s /\ proc'[1] = proc[1] /\ \A q \in Pid \ {p} : proc'[q] = proc[q]
    BY <1>3, <2>1, <2>2
  <2>4. p \in Telling(c, proc)
    BY <1>1, <1>8, ProgramsTell DEF Telling, runs
  <2>5. Telling(c, proc') = Telling(c, proc) \ {p} /\ \A q \in Telling(c, proc') : proc'[q] = proc[q]
    BY <2>1, <2>3 DEF Telling
  <2>6. /\ Told(c, screen') = Told(c, screen) \cup {e[3]}
        /\ NumbersDiffer(c, screen) /\ e[3] \notin Told(c, screen) => NumbersDiffer(c, screen')
    BY <1>3, <1>4, <2>1, <2>2, NumberText
  <2>7. ToldApart(c, proc', screen')
    BY <2>1, <2>2, <2>4, <2>5, <2>6 DEF ToldApart
  <2>8. Creating(c, proc', screen')
    BY <2>1, <2>2, <2>3, <2>4, <2>5, <2>6 DEF Creating
  <2>9. Crowd(c, proc')
    BY <1>6, <2>1, <2>2, <2>3 DEF Crowd
  <2> QED BY <1>1, <2>7, <2>8, <2>9 DEF CrowdInv
<1> QED BY <1>7, <1>8

LEMMA CrowdThreadExit ==
  ASSUME MachineInv, MachineInv', CrowdInv, exercise \in Threaded, NEW p \in Pid, Pthread_exit(p)
  PROVE  CrowdInv'
<1> DEFINE s == [proc[p] EXCEPT !.st = "gone"]
<1>1. /\ runs(p) /\ exercise' = exercise /\ screen' = screen /\ proc' = [proc EXCEPT ![p] = s]
  BY DEF Pthread_exit, at, Moves, Becomes, world
<1>2. Plain(exercise, s) /\ View(s) = <<"gone", proc[p].pc, proc[p].var, proc[p].leader>>
  <2>1. proc[p] \in Process /\ Plain(exercise, proc[p])
    BY HereTells, Here
  <2> QED BY <2>1, PlainExcept
<1> HIDE DEF s
<1>3. s.st = "gone" /\ s.pc = proc[p].pc /\ s.var = proc[p].var
  BY <1>2, ViewIs
<1>4. p # 1 /\ s.pc \in yetPcs(exercise) => proc[p].pc \in yetPcs(exercise) /\ s.var.i = proc[p].var.i
  BY <1>3
<1>5. s.st # "run"
  BY <1>3
<1> QED BY <1>1, <1>2, <1>4, <1>5, CrowdLocal

LEMMA CrowdExit ==
  ASSUME MachineInv, MachineInv', CrowdInv, exercise \in Threaded, NEW p \in Pid,
         Exit(p) \/ (runs(p) /\ op(p) = "thread" /\ unix_error(p))
  PROVE  CrowdInv'
<1>1. runs(p) /\ op(p) \in {"exit", "thread"}
  BY DEF Exit, at
<1>2. p = 1
  BY <1>1, HereTells DEF Tells
<1>3. proc[p].atexit = 0
  <2>1. \A j \in DOMAIN Program[exercise] : Program[exercise][j][2] # "atexit"
    BY ProgramsTell DEF Tells
  <2> QED BY <2>1, HereTells, Here DEF Good, Installed
<1>4. Exits(p)
  BY <1>3 DEF Exit, exit, unix_error
<1>5. proc' = without(1) /\ screen' = screen /\ exercise' = exercise
  <2>1. proc[p].out = <<>>
    BY HereTells DEF Plain
  <2>2. screen \o <<>> = screen
    BY ConcatEmptySeq DEF MachineInv
  <2> QED BY <1>2, <1>4, <2>1, <2>2 DEF Exits, world
<1> QED BY <1>1, <1>2, <1>5, CrowdEnds

\* A thread that stores changes its n and the n of its leader.
LEMMA StoreEffect ==
  ASSUME MachineInv, CrowdInv, exercise \in Threaded, NEW p \in Pid, Store(p)
  PROVE  LET l == proc[p].leader
             x == proc[p].var.n + 1 IN
         /\ l \in Pid /\ runs(p) /\ op(p) = "store" /\ screen' = screen /\ exercise' = exercise /\ failed' = failed
         /\ \A q \in Pid : Plain(exercise, proc'[q])
         /\ proc'[p].st = proc[p].st /\ proc'[p].pc = proc[p].pc + 1 /\ proc'[p].leader = l
         /\ proc'[p].var.i = proc[p].var.i /\ proc'[p].var.n = x
         /\ l # p => /\ proc'[l].st = proc[l].st /\ proc'[l].pc = proc[l].pc
                     /\ proc'[l].leader = proc[l].leader /\ proc'[l].var.i = proc[l].var.i
                     /\ proc'[l].var.n = x
         /\ \A q \in Pid \ {p, l} : proc'[q] = proc[q]
<1> DEFINE l == proc[p].leader
           x == proc[p].var.n + 1
           v == [proc[l].var EXCEPT !["n"] = x]
           z == [proc[l] EXCEPT !.var = v]
           s == sets(p, "n", x)
<1>1. /\ runs(p) /\ op(p) = "store" /\ op(p) \in Falls /\ proc \in [Pid -> Process]
      /\ screen' = screen /\ exercise' = exercise /\ failed' = failed
      /\ proc' = [proc EXCEPT ![l] = z, ![p] = s]
  BY DEF Store, at, Falls, world, MachineInv
<1>2. l \in Pid /\ proc[p].var \in Var /\ proc[l].var \in Var /\ proc[l] \in Process
  <2>1. l \in Pid
    BY <1>1 DEF Process
  <2> QED BY <1>1, <2>1 DEF Process
<1> HIDE DEF l, x, v
<1>3. Plain(exercise, s) /\ View(s) = <<proc[p].st, proc[p].pc + 1, [proc[p].var EXCEPT !["n"] = x], proc[p].leader>>
  BY <1>1, ViewNext
<1>4. Plain(exercise, z) /\ View(z) = <<proc[l].st, proc[l].pc, v, proc[l].leader>>
  <2>1. Plain(exercise, proc[l])
    BY <1>2, HereTells
  <2> QED BY <1>2, <2>1, PlainExcept
<1> HIDE DEF s, z
<1>5. /\ proc'[p] = s /\ (l # p => proc'[l] = z) /\ \A q \in Pid \ {p, l} : proc'[q] = proc[q]
  BY <1>1, <1>2
<1>6. s.st = proc[p].st /\ s.pc = proc[p].pc + 1 /\ s.leader = l /\ s.var.i = proc[p].var.i /\ s.var.n = x
  <2>1. s.st = proc[p].st /\ s.pc = proc[p].pc + 1 /\ s.leader = proc[p].leader
        /\ s.var = [proc[p].var EXCEPT !["n"] = x]
    BY <1>3, ViewIs
  <2> QED BY <1>2, <2>1, VarSet DEF l
<1>7. z.st = proc[l].st /\ z.pc = proc[l].pc /\ z.leader = proc[l].leader /\ z.var.i = proc[l].var.i /\ z.var.n = x
  <2>1. z.st = proc[l].st /\ z.pc = proc[l].pc /\ z.leader = proc[l].leader /\ z.var = v
    BY <1>4, ViewIs
  <2> QED BY <1>2, <2>1, VarSet DEF v
<1>8. \A q \in Pid : Plain(exercise, proc'[q])
  BY <1>3, <1>4, <1>5, HereTells
<1> QED BY <1>1, <1>2, <1>5, <1>6, <1>7, <1>8 DEF l, x

LEMMA CrowdStore ==
  ASSUME MachineInv, MachineInv', CrowdInv, exercise \in Threaded, NEW p \in Pid, Store(p)
  PROVE  CrowdInv'
<1> DEFINE c == exercise
<1>1. /\ Crowd(c, proc) /\ ToldApart(c, proc, screen) /\ Creating(c, proc, screen) /\ 1 \in Pid
      /\ proc \in [Pid -> Process] /\ proc' \in [Pid -> Process] /\ screen \in Seq(Entry)
  BY Setting DEF CrowdInv, MachineInv
<1>2. runs(p) /\ op(p) = "store" /\ screen' = screen /\ exercise' = exercise
  BY StoreEffect
<1>3. p # 1 /\ proc[p].pc + 1 \in otherPcs(c) /\ (proc[p].pc + 1 \in yetPcs(c) => proc[p].pc \in yetPcs(c))
  BY <1>2, HereTells DEF Tells
<1>4. \A q \in Pid : /\ proc'[q].st = proc[q].st /\ proc'[q].var.i = proc[q].var.i
                     /\ proc'[q].pc = IF q = p THEN proc[p].pc + 1 ELSE proc[q].pc
  <2>1. ASSUME NEW q \in Pid PROVE q = p \/ q = proc[p].leader \/ proc'[q] = proc[q]
    BY StoreEffect
  <2> QED BY <2>1, StoreEffect
<1>5. Crowd(c, proc')
  BY <1>1, <1>3, <1>4, StoreEffect DEF Crowd
<1>6. \A q \in Telling(c, proc') : q \in Telling(c, proc) /\ proc'[q].var.i = proc[q].var.i
  BY <1>3, <1>4 DEF Telling
<1>7. proc'[1].st = proc[1].st /\ proc'[1].pc = proc[1].pc /\ proc'[1].var.i = proc[1].var.i /\ proc[1].var.i \in Int
  BY <1>1, <1>3, <1>4 DEF Process, Var
<1>8. ToldApart(c, proc', screen) /\ Creating(c, proc', screen)
  BY <1>1, <1>6, <1>7, CrowdMoves
<1> QED BY <1>2, <1>5, <1>8 DEF CrowdInv

\* A new thread begins with the data of the one that creates it.
LEMMA CreateEffect ==
  ASSUME MachineInv, CrowdInv, exercise \in Threaded, NEW p \in Pid, Pthread_create(p), canMake
  PROVE  LET c == Least(unused) IN
         /\ p = 1 /\ c \in Pid \ {1} /\ proc[c].st = "none" /\ runs(1) /\ op(1) = "thread"
         /\ screen' = screen /\ exercise' = exercise /\ failed' = failed
         /\ \A q \in Pid : Plain(exercise, proc'[q])
         /\ proc'[c].st = "run" /\ proc'[c].pc = startPc(exercise) /\ proc'[c].leader = proc[1].leader
         /\ proc'[c].var = proc[1].var
         /\ proc'[1].st = "run" /\ proc'[1].pc = proc[1].pc + 1 /\ proc'[1].leader = proc[1].leader
         /\ proc'[1].var.i = proc[1].var.i /\ proc'[1].var.n = proc[1].var.n
         /\ \A q \in Pid \ {1, c} : proc'[q] = proc[q]
<1> DEFINE c == Least(unused)
           r == proc[1]
           u == [r EXCEPT !.parent = 0]
           k == Least({j \in DOMAIN Program[u.code] : Program[u.code][j][1] = arg(1)})
           t == [u EXCEPT !.pc = k]
           s == sets(1, "child", c)
<1>1. runs(p) /\ op(p) = "thread" /\ op(p) \in Falls
  BY DEF Pthread_create, at, Falls
<1>2. p = 1
  BY <1>1, HereTells DEF Tells
<1>3. c \in Pid /\ proc[c].st = "none" /\ c # 1
  BY <1>1, <1>2, SomeUnused DEF unused, runs
<1>4. /\ proc' = [proc EXCEPT ![c] = t, ![1] = s]
      /\ screen' = screen /\ exercise' = exercise /\ failed' = failed
  BY <1>2 DEF Pthread_create, threadOf, goto, world
<1>5. 1 \in Pid /\ proc \in [Pid -> Process] /\ r \in Process /\ r.var \in Var /\ r.code = exercise
  BY <1>2, HereTells, Here DEF MachineInv, Process
<1>6. u \in Process /\ u.code = exercise
  BY <1>5, Setting DEF Process
<1>7. Plain(exercise, u) /\ View(u) = View(r)
  <2>1. Plain(exercise, r)
    BY <1>5, HereTells
  <2> QED BY <1>5, <2>1, PlainExcept
<1>8. k = startPc(exercise)
  <2> DEFINE S == {j \in DOMAIN Program[exercise] : Program[exercise][j][1] = arg(1)}
  <2>1. /\ startPc(exercise) \in S
        /\ \A j \in S : j >= startPc(exercise)
    BY <1>1, <1>2, HereTells DEF Tells
  <2>2. S \in SUBSET Nat
    <3>1. DOMAIN text(proc[1]) \subseteq Nat
      BY <1>5, Here, InstructionFacts
    <3> QED BY <1>5, <3>1, HereTells
  <2> HIDE DEF S
  <2>3. Least(S) \in S /\ Least(S) <= startPc(exercise)
    BY <2>1, <2>2, LeastIsLeast
  <2>4. startPc(exercise) \in Nat /\ Least(S) \in Nat
    BY <2>1, <2>2, <2>3
  <2>5. k = Least(S)
    BY <1>6 DEF S
  <2> QED BY <2>1, <2>3, <2>4, <2>5
<1> HIDE DEF u, k, c
<1>9. Plain(exercise, t) /\ View(t) = <<u.st, k, u.var, u.leader>>
  BY <1>6, <1>7, PlainExcept
<1>10. Plain(exercise, s) /\ View(s) = <<r.st, r.pc + 1, [r.var EXCEPT !["child"] = c], r.leader>>
  BY <1>1, <1>2, ViewNext
<1> HIDE DEF s, t
<1>11. proc'[1] = s /\ proc'[c] = t /\ \A q \in Pid \ {1, c} : proc'[q] = proc[q]
  BY <1>3, <1>4, <1>5
<1>12. t.st = "run" /\ t.pc = startPc(exercise) /\ t.leader = r.leader /\ t.var = r.var
  BY <1>1, <1>2, <1>7, <1>8, <1>9, ViewIs DEF View, runs
<1>13. /\ s.st = "run" /\ s.pc = r.pc + 1 /\ s.leader = r.leader
       /\ s.var.i = r.var.i /\ s.var.n = r.var.n
  <2>1. s.st = r.st /\ s.pc = r.pc + 1 /\ s.leader = r.leader /\ s.var = [r.var EXCEPT !["child"] = c]
    BY <1>10, ViewIs
  <2> QED BY <1>1, <1>2, <1>5, <2>1, VarSet DEF runs
<1>14. \A q \in Pid : Plain(exercise, proc'[q])
  BY <1>9, <1>10, <1>11, HereTells
<1> QED BY <1>1, <1>2, <1>3, <1>4, <1>11, <1>12, <1>13, <1>14 DEF c

LEMMA CrowdCreate ==
  ASSUME MachineInv, MachineInv', CrowdInv, exercise \in Threaded, NEW p \in Pid, Pthread_create(p)
  PROVE  CrowdInv'
<1> DEFINE c == exercise
<1>1. runs(p) /\ op(p) = "thread"
  BY DEF Pthread_create, at
<1>2. p = 1 /\ proc[1].pc \in creatingPcs(c) /\ proc[1].pc + 1 \in mainPcs(c)
      /\ Program[c][proc[1].pc + 1][2] # "thread"
  BY <1>1, HereTells DEF Tells
<1>3. CASE ~canMake
  <2>1. Fails(1, arg2(1))
    BY <1>2, <1>3 DEF Pthread_create
  <2>2. IF c = "sharing" THEN arg2(1) = 0 ELSE arg2(1) # 0
    BY <1>1, <1>2, HereTells DEF Tells
  <2>3. CASE c = "sharing"
    BY <1>1, <1>2, <2>1, <2>2, <2>3, CrowdExit DEF Fails
  <2>4. CASE c = "testthread"
    <3>1. proc' = [proc EXCEPT ![1] = jumps(1, arg2(1))] /\ screen' = screen /\ exercise' = exercise
      BY <2>1, <2>2, <2>4 DEF Fails, Moves, Becomes, world
    <3> QED BY <1>1, <1>2, <2>4, <3>1, CrowdJump
  <2> QED BY <2>3, <2>4 DEF Threaded
<1>4. CASE canMake
  <2> DEFINE t == Least(unused)
             i == proc[1].var.i
  <2>1. /\ Crowd(c, proc) /\ ToldApart(c, proc, screen) /\ Creating(c, proc, screen) /\ 1 \in Pid
        /\ proc \in [Pid -> Process] /\ screen' = screen /\ exercise' = exercise /\ i \in Int
    BY <1>4, Setting, CreateEffect DEF CrowdInv, MachineInv, Process, Var
  <2>2. /\ t \in Pid \ {1} /\ proc[t].st = "none" /\ runs(1)
        /\ proc'[t].st = "run" /\ proc'[t].pc = startPc(c) /\ proc'[t].var.i = i
        /\ proc'[1].st = "run" /\ proc'[1].pc = proc[1].pc + 1 /\ proc'[1].var.i = i
        /\ \A q \in Pid \ {1, t} : proc'[q] = proc[q]
    BY <1>2, <1>4, CreateEffect
  <2> HIDE DEF t
  <2>3. startPc(c) \in yetPcs(c) /\ startPc(c) \in otherPcs(c) /\ mainPcs(c) \cap yetPcs(c) = {}
        /\ proc[1].pc \notin yetPcs(c)
    BY <1>1, <1>2, ProgramsTell
  <2>4. Crowd(c, proc')
    <3>1. \A q \in Pid : Plain(c, proc'[q])
      BY <1>2, <1>4, CreateEffect
    <3> QED BY <1>2, <2>1, <2>2, <2>3, <3>1 DEF Crowd
  <2>5. /\ Telling(c, proc') = Telling(c, proc) \cup {t} /\ t \notin Telling(c, proc)
        /\ \A q \in Telling(c, proc) : proc'[q] = proc[q]
    <3>1. proc'[1].pc \notin yetPcs(c)
      BY <1>2, <2>2, <2>3
    <3>2. ASSUME NEW q \in Pid \ {1, t} PROVE q \in Telling(c, proc') <=> q \in Telling(c, proc)
      BY <2>2 DEF Telling
    <3>3. t \in Telling(c, proc') /\ t \notin Telling(c, proc) /\ 1 \notin Telling(c, proc') /\ 1 \notin Telling(c, proc)
      BY <2>2, <2>3, <3>1 DEF Telling
    <3>4. Telling(c, proc') \subseteq Pid /\ Telling(c, proc) \subseteq Pid
      BY DEF Telling
    <3> QED BY <2>2, <3>2, <3>3, <3>4
  <2>6. \A n \in Told(c, screen) \cup {proc[q].var.i : q \in Telling(c, proc)} : n <= i /\ n # i
    BY <1>1, <1>2, <2>1, <2>2, HereTells DEF Creating, runs
  <2>7. ToldApart(c, proc', screen)
    <3>1. \A q \in Telling(c, proc') : proc'[q].var.i \notin Told(c, screen)
      BY <2>1, <2>2, <2>5, <2>6 DEF ToldApart
    <3>2. \A q, x \in Telling(c, proc') : proc'[q].var.i = proc'[x].var.i => q = x
      BY <2>1, <2>2, <2>5, <2>6 DEF ToldApart
    <3> QED BY <2>1, <3>1, <3>2 DEF ToldApart
  <2>8. Creating(c, proc', screen)
    <3>1. \A n \in Told(c, screen) \cup {proc'[q].var.i : q \in Telling(c, proc')} : n <= i
      BY <2>1, <2>2, <2>5, <2>6
    <3> QED BY <1>2, <2>2, <3>1 DEF Creating
  <2> QED BY <2>1, <2>4, <2>7, <2>8 DEF CrowdInv
<1> QED BY <1>3, <1>4

LEMMA CrowdFork ==
  ASSUME MachineInv, MachineInv', CrowdInv, exercise \in Threaded, NEW p \in Pid, Fork(p)
  PROVE  CrowdInv'
<1> DEFINE c == exercise
           r == proc[1]
           q1 == Least(unused)
<1>1. runs(p) /\ op(p) = "fork" /\ op(p) \in Falls
  BY DEF Fork, at, Falls
<1>2. /\ p = 1 /\ r.pc + 1 \in otherPcs(c) \ yetPcs(c) /\ arg2(1) # 0
      /\ r \in Process /\ Plain(c, r) /\ r.code = c /\ 1 \in Pid /\ proc \in [Pid -> Process]
  <2>1. proc \in [Pid -> Process]
    BY DEF MachineInv
  <2>2. p = 1 /\ r.pc + 1 \in otherPcs(c) \ yetPcs(c) /\ arg2(1) # 0
    BY <1>1, HereTells DEF Tells
  <2> QED BY <2>1, <2>2, HereTells, Here
<1>3. CASE ~canMake
  <2>1. proc' = [proc EXCEPT ![1] = jumps(1, arg2(1))] /\ screen' = screen /\ exercise' = exercise
    BY <1>2, <1>3 DEF Fork, Fails, Moves, Becomes, world
  <2> QED BY <1>1, <1>2, <2>1, CrowdJump
<1>4. CASE canMake
  <2> DEFINE t == next(r)
             u == jumps(1, arg(1))
             child == [t EXCEPT !.parent = 1, !.leader = q1, !.pending = {},
                                !.alarm = FALSE, !.var.child = 0]
             mother == [u EXCEPT !.var.child = q1]
             v == [t.var EXCEPT !.child = 0]
             w == [u.var EXCEPT !.child = q1]
  <2>1. q1 \in Pid /\ proc[q1].st = "none" /\ q1 # 1
    BY <1>1, <1>2, <1>4, SomeUnused DEF unused, runs
  <2>2. /\ proc' = [proc EXCEPT ![q1] = child, ![1] = mother]
        /\ screen' = screen /\ exercise' = exercise
    BY <1>2, <1>4 DEF Fork, jumps, world
  <2>3. t \in Process /\ Plain(c, t) /\ View(t) = <<r.st, r.pc + 1, r.var, r.leader>>
    <3>1. t \in Process
      BY <1>1, <1>2, Here, NextGood DEF op, Good
    <3> QED BY <1>1, <1>2, <3>1, ViewNext
  <2>4. /\ u \in Process /\ Plain(c, u) /\ View(u) = <<r.st, u.pc, r.var, r.leader>>
        /\ u.pc \in DOMAIN Program[c] /\ Program[c][u.pc][1] = arg(1)
    <3>1. arg(1) \in Lines(text(r))
      BY <1>1, <1>2, Here DEF GoesOn, op, arg
    <3> QED BY <1>2, <3>1, ViewJump
  <2> HIDE DEF t, u, q1
  <2>5. u.pc \in mainPcs(c) \ creatingPcs(c)
    BY <1>1, <1>2, <2>4, HereTells DEF Tells
  <2>6. /\ child = [t EXCEPT !.parent = 1, !.leader = q1, !.pending = {}, !.alarm = FALSE, !.var = v]
        /\ mother = [u EXCEPT !.var = w]
    OBVIOUS
  <2> HIDE DEF child, mother, v, w
  <2>7. child.st = t.st /\ child.pc = t.pc /\ child.code = t.code /\ child.out = t.out /\ child.fd = t.fd
    BY <2>3, <2>6 DEF Process
  <2>8. child.pending = {} /\ child.alarm = FALSE /\ child.handler = t.handler
    BY <2>3, <2>6 DEF Process
  <2>9. Plain(c, child)
    BY <2>3, <2>7, <2>8 DEF Plain
  <2>10. child.st = "run" /\ child.pc = r.pc + 1
    BY <1>1, <1>2, <2>3, <2>7, ViewIs DEF runs
  <2>11. Plain(c, mother) /\ View(mother) = <<u.st, u.pc, w, u.leader>>
    <3>1. Plain(c, [u EXCEPT !.var = w]) /\ View([u EXCEPT !.var = w]) = <<u.st, u.pc, w, u.leader>>
      BY <2>4, PlainExcept
    <3> QED BY <2>6, <3>1
  <2>12. mother.pc = u.pc
    BY <2>11, ViewIs
  <2>13. proc'[q1] = child /\ proc'[1] = mother /\ \A q \in Pid \ {1, q1} : proc'[q] = proc[q]
    BY <1>2, <2>1, <2>2
  <2>14. /\ Crowd(c, proc) /\ ToldApart(c, proc, screen) /\ Creating(c, proc, screen)
         /\ proc' \in [Pid -> Process] /\ screen \in Seq(Entry) /\ mainPcs(c) \cap yetPcs(c) = {}
    BY ProgramsTell DEF CrowdInv, MachineInv
  <2>15. Crowd(c, proc')
    BY <1>2, <2>5, <2>9, <2>10, <2>11, <2>12, <2>13, <2>14 DEF Crowd
  <2>16. \A q \in Telling(c, proc') : q \in Telling(c, proc) /\ proc'[q].var.i = proc[q].var.i
    BY <1>2, <2>5, <2>10, <2>12, <2>13, <2>14 DEF Telling
  <2>17. ToldApart(c, proc', screen) /\ Creating(c, proc', screen)
    BY <1>2, <2>5, <2>12, <2>13, <2>14, <2>16, CrowdMoves
  <2> QED BY <2>2, <2>15, <2>17 DEF CrowdInv
<1> QED BY <1>3, <1>4

\* The operations of these exercises.
LEMMA ThreadedSteps ==
  ASSUME MachineInv, CrowdInv, exercise \in Threaded, Next
  PROVE  \E p \in Pid : /\ runs(p)
                        /\ \/ Say(p) \/ Control(p) \/ Pthread_create(p) \/ Pthread_exit(p) \/ Sleep(p)
                           \/ Fork(p) \/ Exit(p) \/ Load(p) \/ Store(p)
<1>1. ~CtrlC
  BY DEF CtrlC, Threaded
<1>2. ASSUME NEW p \in Pid, AlarmRings(p) PROVE FALSE
  BY <1>2, HereTells DEF AlarmRings, Plain
<1>3. ASSUME NEW p \in Pid, ReadTerminal(p) \/ Fgets(p) PROVE FALSE
  <2>1. op(p) \in {"read", "input"}
    BY <1>3 DEF ReadTerminal, Fgets, at
  <2> QED BY <2>1, HereTells DEF Tells
<1>4. ASSUME NEW p \in Pid, Runs(p)
      PROVE  /\ runs(p)
             /\ \/ Say(p) \/ Control(p) \/ Pthread_create(p) \/ Pthread_exit(p) \/ Sleep(p)
                \/ Fork(p) \/ Exit(p) \/ Load(p) \/ Store(p)
  <2>1. op(p) \in {"say", "loop", "thread", "goto", "threadexit", "sleep", "fork", "spin", "exit", "load", "store"}
    BY HereTells DEF Tells
  <2>2. ~Deliver(p)
    BY HereTells DEF Deliver, deliverable, Plain
  <2>3. \/ Say(p) \/ Control(p) \/ Pthread_create(p) \/ Pthread_exit(p) \/ Sleep(p) \/ Fork(p) \/ Exit(p)
        \/ Load(p) \/ Store(p)
    BY <1>4, <2>1, <2>2, Operations
  <2>4. runs(p)
    BY <2>3 DEF Say, Control, Pthread_create, Pthread_exit, Sleep, Fork, Exit, Load, Store, at
  <2> QED BY <2>3, <2>4
<1> QED BY <1>1, <1>2, <1>3, <1>4 DEF Next

LEMMA CrowdStep ==
  ASSUME MachineInv, MachineInv', CrowdInv, exercise \in Threaded, Next
  PROVE  CrowdInv'
  BY ThreadedSteps, CrowdSay, CrowdControl, CrowdCreate, CrowdThreadExit, CrowdSleep, CrowdFork, CrowdExit,
     CrowdStore

LEMMA CrowdInit == ASSUME Init, exercise \in Threaded PROVE CrowdInv
<1> DEFINE c == exercise
<1>1. screen = <<>> /\ 1 \in Pid
  BY Setting DEF Init
<1>2. \A p \in Pid : /\ Plain(c, proc[p]) /\ (proc[p].st = "run" <=> p = 1)
                     /\ proc[p].pc = 1
  BY InitialProcess DEF Plain
<1>3. 1 \in mainPcs(c) /\ 1 \notin yetPcs(c)
  BY DEF mainPcs, yetPcs
<1>4. Telling(c, proc) = {} /\ Told(c, screen) = {}
  BY <1>1, <1>2, <1>3 DEF Telling, Told
<1>5. Crowd(c, proc)
  BY <1>2, <1>3 DEF Crowd
<1>6. ToldApart(c, proc, screen) /\ Creating(c, proc, screen)
  BY <1>1, <1>4 DEF ToldApart, NumbersDiffer, Creating
<1> QED BY <1>5, <1>6 DEF CrowdInv

\* sharing, instruction by instruction.
LEMMA Sharing ==
  LET P == Program["sharing"] IN
  /\ "sharing" \in Threaded /\ DOMAIN P = 1..8
  /\ P[1][2] = "loop" /\ P[2][2] = "thread" /\ P[3][2] = "goto" /\ P[4][2] = "threadexit"
  /\ P[5][2] = "load" /\ P[6][2] = "store" /\ P[7][2] = "say" /\ P[8][2] = "threadexit"
  /\ P[1][3] = 2 /\ P[1][4] = 19 /\ P[3][3] = 17 /\ P[2][4] = 0
  /\ \A k \in 1..8 : (P[k][1] = 17 => k = 1) /\ (P[k][1] = 19 => k = 4)
  /\ mainPcs("sharing") = {1, 2, 3, 4} /\ otherPcs("sharing") = {5, 6, 7, 8}
  /\ creatingPcs("sharing") = {1, 2, 3} /\ startPc("sharing") = 5
<1>1. Program["sharing"] = sharing
  BY DEF Program
<1> QED BY <1>1 DEF sharing, Threaded, mainPcs, otherPcs, creatingPcs, startPc

\* What is known of a process that runs.
LEMMA Worker ==
  ASSUME MachineInv, CrowdInv, exercise = "sharing", Counts(proc, screen), NEW p \in Pid, runs(p)
  PROVE  /\ 1 \in Pid /\ proc \in [Pid -> Process] /\ exercise \in Threaded
         /\ op(p) = Program["sharing"][proc[p].pc][2] /\ proc[p].var.n \in Int
         /\ p = 1 => proc[1].pc \in {1, 2, 3, 4}
         /\ p # 1 => p \in Workers(proc) /\ proc[p].pc \in {5, 6, 7, 8} /\ proc[p].var.i \in 1..2
<1>1. 1 \in Pid /\ proc \in [Pid -> Process] /\ proc[p].var.n \in Int /\ exercise \in Threaded
  BY Setting, Sharing DEF MachineInv, Process, Var
<1>2. op(p) = Program["sharing"][proc[p].pc][2]
  BY <1>1, HereTells
<1>3. p # 1 => p \in Workers(proc)
  BY DEF Workers, runs
<1> QED BY <1>1, <1>2, <1>3, Sharing DEF Counts

\* A step of one process after which the same threads have counted.
LEMMA CountLocal ==
  ASSUME Counts(proc, screen), 1 \in Pid, proc \in [Pid -> Process], NEW p \in Pid, NEW s,
         proc' = [proc EXCEPT ![p] = s], s.leader = 1,
         p = 1 =>
           /\ s.pc \in {1, 2, 3, 4} /\ s.var.n = proc[1].var.n /\ s.var.i \in 0..2
           /\ s.pc = 2 => s.var.i # 0
           /\ s.st = "run" /\ s.pc \in {1, 2, 3} =>
                /\ proc[1].st = "run" /\ proc[1].pc \in {1, 2, 3} /\ proc[1].var.i <= s.var.i
                /\ s.pc = 2 => proc[1].var.i < s.var.i,
         p # 1 =>
           /\ s.st # "none" /\ proc[p].st # "none" /\ s.var.i = proc[p].var.i /\ s.pc \in {5, 6, 7, 8}
           /\ s.pc \in {7, 8} <=> proc[p].pc \in {7, 8}
           /\ s.pc = 6 => s.var.n \in 0..1 /\ (s.var.n = 1 => Counted(proc) # {}),
         screen' = screen \/ Counted(proc) # {}
  PROVE  Counts(proc', screen')
<1>1. proc'[p] = s /\ \A q \in Pid \ {p} : proc'[q] = proc[q]
  OBVIOUS
<1>2. Workers(proc') = Workers(proc) /\ Counted(proc') = Counted(proc)
  BY <1>1 DEF Workers, Counted
<1>3. \A q \in Workers(proc) : proc'[q].var.i = proc[q].var.i /\ proc[q].var.i \in 1..2
  BY <1>1 DEF Workers, Counts
<1>4. proc'[1].var.n = proc[1].var.n
  BY <1>1
<1>5. /\ \A q \in Pid : proc'[q].leader = 1
      /\ proc'[1].pc \in mainPcs("sharing") /\ proc'[1].var.i \in 0..2
      /\ \A q \in Pid \ {1} : proc'[q].st = "none" => proc'[q].pc = 1
      /\ \A q \in Workers(proc') : proc'[q].pc \in otherPcs("sharing") /\ proc'[q].var.i \in 1..2
  <2>1. \A q \in Pid : proc'[q].leader = 1
    BY <1>1 DEF Counts
  <2>2. proc'[1].pc \in mainPcs("sharing") /\ proc'[1].var.i \in 0..2
    BY <1>1, Sharing DEF Counts
  <2>3. \A q \in Pid \ {1} : proc'[q].st = "none" => proc'[q].pc = 1
    BY <1>1 DEF Counts
  <2>4. \A q \in Workers(proc) : q # 1 /\ q \in Pid /\ proc[q].pc \in otherPcs("sharing")
    BY DEF Counts, Workers
  <2>5. \A q \in Workers(proc) : proc'[q].pc \in otherPcs("sharing")
    BY <1>1, <2>4, Sharing
  <2> QED BY <1>2, <1>3, <2>1, <2>2, <2>3, <2>5
<1>6. \A q, x \in Workers(proc') : proc'[q].var.i = proc'[x].var.i => q = x
  BY <1>2, <1>3 DEF Counts
<1>7. /\ proc'[1].st = "run" /\ proc'[1].pc \in creatingPcs("sharing") =>
           \A q \in Workers(proc') : proc'[q].var.i <= proc'[1].var.i /\ (proc'[1].pc = 2 => proc'[q].var.i # proc'[1].var.i)
      /\ proc'[1].pc = 2 => proc'[1].var.i # 0
  <2>1. CASE p = 1
    <3>1. proc[1].var.i \in 0..2 /\ s.var.i \in 0..2 /\ proc'[1] = s
      BY <1>1, <2>1 DEF Counts
    <3>2. s.st = "run" /\ s.pc \in {1, 2, 3} => \A q \in Workers(proc) : proc[q].var.i <= proc[1].var.i
      BY <2>1, Sharing DEF Counts
    <3> QED BY <1>2, <1>3, <2>1, <3>1, <3>2, Sharing
  <2>2. CASE p # 1
    BY <1>1, <1>2, <1>3, <2>2 DEF Counts
  <2> QED BY <2>1, <2>2
<1>8. /\ proc'[1].var.n \in 0..2 /\ (proc'[1].var.n = 0 <=> Counted(proc') = {})
      /\ proc'[1].var.n = 2 => \E q, x \in Counted(proc') : q # x
      /\ screen' # <<>> => Counted(proc') # {}
  BY <1>2, <1>4 DEF Counts
<1>9. \A q \in Workers(proc') : proc'[q].pc = 6 => proc'[q].var.n \in 0..1 /\ (proc'[q].var.n = 1 => Counted(proc') # {})
  BY <1>1, <1>2 DEF Counts, Workers
<1> QED BY <1>5, <1>6, <1>7, <1>8, <1>9 DEF Counts

LEMMA CountControl ==
  ASSUME MachineInv, CrowdInv, exercise = "sharing", Counts(proc, screen), NEW p \in Pid, Control(p)
  PROVE  Counts(proc', screen')
<1> DEFINE r == proc[1]
<1>1. runs(p)
  BY DEF Control, at
<1>2. p = 1 /\ op(1) \in {"goto", "loop"} /\ exercise \in Threaded /\ screen' = screen
  <2>1. op(p) \in {"goto", "either", "loop", "background", "foreground", "add", "atexit", "error"}
    BY DEF Control, at
  <2>2. exercise \in Threaded
    BY Sharing
  <2>3. op(p) \in {"goto", "loop"} /\ p = 1
    BY <1>1, <2>1, <2>2, HereTells DEF Tells
  <2> QED BY <2>2, <2>3 DEF Control, at, Moves
<1>3. /\ 1 \in Pid /\ proc \in [Pid -> Process] /\ r.pc \in {1, 2, 3, 4} /\ op(1) = Program["sharing"][r.pc][2]
      /\ r.var \in Var
  BY <1>1, <1>2, Worker, Here DEF Process
<1>4. r.pc \in {1, 3} /\ arg(1) = Program["sharing"][r.pc][3] /\ arg2(1) = Program["sharing"][r.pc][4]
  BY <1>2, <1>3, HereTells, Sharing
<1>5. r.leader = 1 /\ r.var.i \in 0..2
  BY <1>3 DEF Counts
<1>6. ASSUME NEW l \in {17, 19}, proc' = [proc EXCEPT ![1] = jumps(1, l)], r.pc = 3 => l = 17, r.pc = 1 => l = 19
      PROVE  Counts(proc', screen')
  <2> DEFINE s == jumps(1, l)
  <2>1. l \in Lines(text(r))
    BY <1>2, <1>3, <1>4, <1>6, Here, Sharing DEF GoesOn, Near, op, arg, arg2
  <2>2. /\ View(s) = <<r.st, s.pc, r.var, r.leader>>
        /\ s.pc \in DOMAIN Program[exercise] /\ Program[exercise][s.pc][1] = l
    BY <1>2, <1>3, <2>1, ViewJump
  <2>3. proc' = [proc EXCEPT ![1] = s]
    BY <1>6
  <2> HIDE DEF s
  <2>4. s.st = r.st /\ s.var = r.var /\ s.leader = 1
    BY <1>5, <2>2, ViewIs
  <2>5. s.pc = IF r.pc = 3 THEN 1 ELSE 4
    BY <1>4, <1>6, <2>2, Sharing
  <2>6. /\ s.pc \in {1, 2, 3, 4} /\ s.var.n = r.var.n /\ s.var.i \in 0..2 /\ s.pc # 2
        /\ s.st = "run" /\ s.pc \in {1, 2, 3} =>
             r.st = "run" /\ r.pc \in {1, 2, 3} /\ r.var.i <= s.var.i
    BY <1>1, <1>2, <1>4, <1>5, <2>4, <2>5 DEF runs
  <2> QED BY <1>2, <1>3, <2>3, <2>4, <2>6, CountLocal
<1>7. CASE op(1) = "goto"
  <2>1. proc' = [proc EXCEPT ![1] = jumps(1, arg(1))] /\ r.pc = 3 /\ arg(1) = 17
    <3>1. r.pc = 3
      BY <1>3, <1>4, <1>7, Sharing
    <3> QED BY <1>2, <1>4, <1>7, <3>1, Sharing DEF Control, at, Moves, Becomes
  <2> QED BY <1>6, <2>1
<1>8. CASE op(1) = "loop"
  <2>1. r.pc = 1 /\ arg(1) = 2 /\ arg2(1) = 19
    BY <1>3, <1>4, <1>8, Sharing
  <2>2. CASE r.var.i < 2
    <3> DEFINE x == r.var.i + 1
               s == sets(1, "i", x)
    <3>1. proc' = [proc EXCEPT ![1] = s]
      BY <1>2, <1>8, <2>1, <2>2 DEF Control, at, Moves, Becomes
    <3>2. x \in 0..2 /\ x # 0 /\ r.var.i < x /\ r.var.i <= x
      BY <1>5, <2>2
    <3>3. op(1) \in Falls
      BY <1>8 DEF Falls
    <3> HIDE DEF x
    <3>4. View(s) = <<r.st, r.pc + 1, [r.var EXCEPT !["i"] = x], r.leader>>
      BY <1>2, <1>3, <3>3, ViewNext
    <3> HIDE DEF s
    <3>5. s.st = r.st /\ s.pc = 2 /\ s.leader = 1 /\ s.var = [r.var EXCEPT !["i"] = x]
      BY <1>5, <2>1, <3>4, ViewIs
    <3>6. s.var.i = x /\ s.var.n = r.var.n
      BY <1>3, <3>5, VarSet
    <3> QED BY <1>1, <1>2, <1>3, <2>1, <3>1, <3>2, <3>5, <3>6, CountLocal DEF runs
  <2>3. CASE ~(r.var.i < 2)
    <3>1. proc' = [proc EXCEPT ![1] = jumps(1, 19)]
      BY <1>2, <1>8, <2>1, <2>3 DEF Control, at, Moves, Becomes
    <3> QED BY <1>6, <2>1, <3>1
  <2> QED BY <2>2, <2>3
<1> QED BY <1>2, <1>7, <1>8

LEMMA CountExit ==
  ASSUME MachineInv, CrowdInv, exercise = "sharing", Counts(proc, screen), NEW p \in Pid, Pthread_exit(p)
  PROVE  Counts(proc', screen')
<1> DEFINE r == proc[p]
           s == [r EXCEPT !.st = "gone"]
<1>1. runs(p) /\ op(p) = "threadexit" /\ screen' = screen /\ proc' = [proc EXCEPT ![p] = s]
  BY DEF Pthread_exit, at, Moves, Becomes
<1>2. /\ 1 \in Pid /\ proc \in [Pid -> Process] /\ exercise \in Threaded
      /\ p = 1 => r.pc = 4
      /\ p # 1 => r.pc = 8 /\ p \in Workers(proc)
  BY <1>1, Worker, Sharing
<1>3. r.leader = 1 /\ (p = 1 => r.var.i \in 0..2)
  BY DEF Counts
<1>4. View(s) = <<"gone", r.pc, r.var, r.leader>>
  <2>1. r \in Process /\ Plain(exercise, r)
    BY <1>2, HereTells
  <2> QED BY <2>1, PlainExcept
<1> HIDE DEF s
<1>5. s.st = "gone" /\ s.pc = r.pc /\ s.var = r.var /\ s.leader = 1
  BY <1>3, <1>4, ViewIs
<1>6. r.st # "none"
  BY <1>1 DEF runs
<1>7. p = 1 =>
        /\ s.pc \in {1, 2, 3, 4} /\ s.var.n = proc[1].var.n /\ s.var.i \in 0..2
        /\ s.pc = 2 => s.var.i # 0
        /\ s.st = "run" /\ s.pc \in {1, 2, 3} =>
             /\ proc[1].st = "run" /\ proc[1].pc \in {1, 2, 3} /\ proc[1].var.i <= s.var.i
             /\ s.pc = 2 => proc[1].var.i < s.var.i
  BY <1>2, <1>3, <1>5
<1>8. p # 1 =>
        /\ s.st # "none" /\ proc[p].st # "none" /\ s.var.i = proc[p].var.i /\ s.pc \in {5, 6, 7, 8}
        /\ s.pc \in {7, 8} <=> proc[p].pc \in {7, 8}
        /\ s.pc = 6 => s.var.n \in 0..1 /\ (s.var.n = 1 => Counted(proc) # {})
  BY <1>2, <1>5, <1>6
<1> QED BY <1>1, <1>2, <1>5, <1>7, <1>8, CountLocal

\* There is no third thread to read a count of 2.
LEMMA CountLoad ==
  ASSUME MachineInv, CrowdInv, exercise = "sharing", Counts(proc, screen), NEW p \in Pid, Load(p)
  PROVE  Counts(proc', screen')
<1> DEFINE r == proc[p]
           x == proc[1].var.n
           s == sets(p, "n", x)
<1>1. runs(p) /\ op(p) = "load" /\ op(p) \in Falls /\ screen' = screen /\ proc' = [proc EXCEPT ![p] = s]
  BY DEF Load, at, Moves, Becomes, Falls, Counts
<1>2. /\ 1 \in Pid /\ proc \in [Pid -> Process] /\ exercise \in Threaded
      /\ p # 1 /\ r.pc = 5 /\ p \in Workers(proc) /\ r.leader = 1
  BY <1>1, Worker, Sharing DEF Counts
<1>3. x \in 0..1 /\ (x = 1 => Counted(proc) # {})
  <2>1. x \in 0..2 /\ (x = 0 <=> Counted(proc) = {})
    BY DEF Counts
  <2>2. ASSUME x = 2 PROVE FALSE
    <3>1. PICK q, y \in Counted(proc) : q # y
      BY <2>2 DEF Counts
    <3>2. q \in Workers(proc) /\ y \in Workers(proc) /\ p \notin {q, y}
      BY <1>2 DEF Counted, Workers, Counts
    <3>3. proc[q].var.i \in 1..2 /\ proc[y].var.i \in 1..2 /\ r.var.i \in 1..2
      BY <1>2, <3>2 DEF Counts
    <3>4. proc[q].var.i # proc[y].var.i /\ proc[q].var.i # r.var.i /\ proc[y].var.i # r.var.i
      BY <1>2, <3>1, <3>2 DEF Counts
    <3> QED BY <3>3, <3>4
  <2> QED BY <2>1, <2>2
<1> HIDE DEF x
<1>4. View(s) = <<r.st, r.pc + 1, [r.var EXCEPT !["n"] = x], r.leader>>
  BY <1>1, <1>2, ViewNext
<1> HIDE DEF s
<1>5. s.st = r.st /\ s.pc = 6 /\ s.leader = 1 /\ s.var = [r.var EXCEPT !["n"] = x]
  BY <1>2, <1>4, ViewIs
<1>6. s.var.i = r.var.i /\ s.var.n = x
  <2>1. r.var \in Var
    BY <1>2 DEF Process
  <2> QED BY <1>5, <2>1, VarSet
<1>7. r.st # "none"
  BY <1>1 DEF runs
<1>8. p # 1 =>
        /\ s.st # "none" /\ proc[p].st # "none" /\ s.var.i = proc[p].var.i /\ s.pc \in {5, 6, 7, 8}
        /\ s.pc \in {7, 8} <=> proc[p].pc \in {7, 8}
        /\ s.pc = 6 => s.var.n \in 0..1 /\ (s.var.n = 1 => Counted(proc) # {})
  BY <1>1, <1>2, <1>3, <1>5, <1>6, <1>7 DEF runs
<1>9. screen' = screen
  BY <1>1
<1> HIDE DEF r
<1> QED BY <1>1, <1>2, <1>5, <1>8, <1>9, CountLocal

LEMMA CountSay ==
  ASSUME MachineInv, CrowdInv, exercise = "sharing", Counts(proc, screen), NEW p \in Pid, Say(p)
  PROVE  Counts(proc', screen')
<1> DEFINE r == proc[p]
           s == [next(r) EXCEPT !.out = <<>>]
<1>1. runs(p) /\ op(p) = "say" /\ op(p) \in Falls
  BY DEF Say, at, Falls
<1>2. /\ 1 \in Pid /\ proc \in [Pid -> Process] /\ exercise \in Threaded
      /\ p # 1 /\ r.pc = 7 /\ p \in Workers(proc) /\ r.leader = 1
  BY <1>1, Worker, Sharing DEF Counts
<1>3. proc' = [proc EXCEPT ![p] = s]
  <2>1. onTerminal(p)
    BY <1>2, HereTells DEF Plain, onTerminal
  <2> QED BY <2>1 DEF Say, Becomes
<1>4. View(s) = <<r.st, r.pc + 1, r.var, r.leader>>
  BY <1>1, <1>2, ViewNext
<1> HIDE DEF s
<1>5. s.st = r.st /\ s.pc = 8 /\ s.leader = 1 /\ s.var = r.var
  BY <1>2, <1>4, ViewIs
<1>6. p # 1 =>
        /\ s.st # "none" /\ proc[p].st # "none" /\ s.var.i = proc[p].var.i /\ s.pc \in {5, 6, 7, 8}
        /\ s.pc \in {7, 8} <=> proc[p].pc \in {7, 8}
        /\ s.pc = 6 => s.var.n \in 0..1 /\ (s.var.n = 1 => Counted(proc) # {})
  BY <1>1, <1>2, <1>5 DEF runs
<1>7. Counted(proc) # {}
  BY <1>2 DEF Counted
<1> HIDE DEF r
<1> QED BY <1>2, <1>3, <1>5, <1>6, <1>7, CountLocal

\* A thread that stores has counted; if it has read a 1, so has another.
LEMMA CountStore ==
  ASSUME MachineInv, CrowdInv, exercise = "sharing", Counts(proc, screen), NEW p \in Pid, Store(p)
  PROVE  Counts(proc', screen')
<1> DEFINE x == proc[p].var.n + 1
<1>1. runs(p) /\ op(p) = "store" /\ exercise \in Threaded
  BY Sharing DEF Store, at
<1>2. /\ 1 \in Pid /\ p # 1 /\ proc[p].pc = 6 /\ p \in Workers(proc) /\ proc[p].leader = 1
  BY <1>1, Worker, Sharing DEF Counts
<1>3. x \in 1..2 /\ (x = 2 => Counted(proc) # {})
  BY <1>2 DEF Counts
<1> HIDE DEF x
<1>4. /\ screen' = screen
      /\ proc'[p].st = proc[p].st /\ proc'[p].pc = 7 /\ proc'[p].leader = 1 /\ proc'[p].var.i = proc[p].var.i
      /\ proc'[1].st = proc[1].st /\ proc'[1].pc = proc[1].pc /\ proc'[1].leader = proc[1].leader
      /\ proc'[1].var.i = proc[1].var.i /\ proc'[1].var.n = x
      /\ \A q \in Pid \ {p, 1} : proc'[q] = proc[q]
  BY <1>1, <1>2, StoreEffect DEF x
<1>5. Workers(proc') = Workers(proc)
  BY <1>2, <1>4 DEF Workers
<1>6. Counted(proc') = Counted(proc) \cup {p} /\ p \notin Counted(proc)
  <2>1. p \in Counted(proc') /\ p \notin Counted(proc)
    BY <1>2, <1>4 DEF Counted
  <2>2. \A q \in Pid \ {p, 1} : q \in Counted(proc') <=> q \in Counted(proc)
    BY <1>4 DEF Counted
  <2>3. Counted(proc') \subseteq Pid \ {1} /\ Counted(proc) \subseteq Pid \ {1}
    BY DEF Counted
  <2> QED BY <2>1, <2>2, <2>3
<1>7. \A q \in Workers(proc) : proc'[q].var.i = proc[q].var.i /\ q \in Pid \ {1}
  BY <1>2, <1>4 DEF Workers
<1>8. \A q \in Pid : proc'[q].leader = 1
  BY <1>2, <1>4 DEF Counts
<1>9. /\ proc'[1].pc \in mainPcs("sharing") /\ proc'[1].var.i \in 0..2 /\ (proc'[1].pc = 2 => proc'[1].var.i # 0)
  BY <1>4 DEF Counts
<1>10. \A q \in Pid \ {1} : proc'[q].st = "none" => proc'[q].pc = 1
  BY <1>1, <1>2, <1>4 DEF Counts, runs
<1>11. \A q \in Workers(proc') : proc'[q].pc \in otherPcs("sharing") /\ proc'[q].var.i \in 1..2
  <2>1. \A q \in Workers(proc) : proc[q].pc \in otherPcs("sharing") /\ proc[q].var.i \in 1..2
    BY DEF Counts
  <2>2. 7 \in otherPcs("sharing")
    BY Sharing
  <2>3. ASSUME NEW q \in Workers(proc) PROVE proc'[q].pc \in otherPcs("sharing")
    BY <1>4, <1>7, <2>1, <2>2
  <2> QED BY <1>5, <1>7, <2>1, <2>3
<1>12. \A q, y \in Workers(proc') : proc'[q].var.i = proc'[y].var.i => q = y
  BY <1>5, <1>7 DEF Counts
<1>13. proc'[1].st = "run" /\ proc'[1].pc \in creatingPcs("sharing") =>
         \A q \in Workers(proc') : proc'[q].var.i <= proc'[1].var.i /\ (proc'[1].pc = 2 => proc'[q].var.i # proc'[1].var.i)
  BY <1>4, <1>5, <1>7 DEF Counts
<1>14. /\ proc'[1].var.n \in 0..2 /\ (proc'[1].var.n = 0 <=> Counted(proc') = {})
       /\ proc'[1].var.n = 2 => \E q, y \in Counted(proc') : q # y
       /\ screen' # <<>> => Counted(proc') # {}
  BY <1>3, <1>4, <1>6
<1>15. \A q \in Workers(proc') : proc'[q].pc = 6 => proc'[q].var.n \in 0..1 /\ (proc'[q].var.n = 1 => Counted(proc') # {})
  <2>1. ASSUME NEW q \in Workers(proc), proc'[q].pc = 6 PROVE q \notin {1, p} /\ proc'[q] = proc[q]
    BY <1>4, <1>7, <2>1
  <2> QED BY <1>5, <1>6, <2>1 DEF Counts
<1> QED BY <1>8, <1>9, <1>10, <1>11, <1>12, <1>13, <1>14, <1>15 DEF Counts

\* A new thread has the number of main(), and has not counted.
LEMMA CountCreate ==
  ASSUME MachineInv, CrowdInv, exercise = "sharing", Counts(proc, screen), NEW p \in Pid, Pthread_create(p),
         failed' = {}
  PROVE  Counts(proc', screen')
<1> DEFINE t == Least(unused)
           i == proc[1].var.i
<1>1. runs(p) /\ op(p) = "thread" /\ exercise \in Threaded
  BY Sharing DEF Pthread_create, at
<1>2. p = 1 /\ proc[1].pc = 2 /\ arg2(1) = 0
  <2>1. p = 1 /\ proc[1].pc = 2
    BY <1>1, Worker, Sharing
  <2> QED BY <1>1, <2>1, HereTells, Sharing
<1>3. canMake
  BY <1>2 DEF Pthread_create, Fails, unix_error
<1>4. /\ t \in Pid \ {1} /\ 1 \in Pid /\ proc[t].st = "none" /\ runs(1) /\ screen' = screen
      /\ proc'[t].st = "run" /\ proc'[t].pc = 5 /\ proc'[t].leader = proc[1].leader
      /\ proc'[t].var = proc[1].var
      /\ proc'[1].st = "run" /\ proc'[1].pc = 3 /\ proc'[1].leader = proc[1].leader
      /\ proc'[1].var.i = i /\ proc'[1].var.n = proc[1].var.n
      /\ \A q \in Pid \ {1, t} : proc'[q] = proc[q]
  <2>1. startPc(exercise) = 5
    BY Sharing
  <2> QED BY <1>1, <1>2, <1>3, <2>1, CreateEffect, Setting
<1> HIDE DEF t
<1>5. i \in 1..2 /\ \A q \in Workers(proc) : proc[q].var.i <= i /\ proc[q].var.i # i
  BY <1>2, <1>4, Sharing DEF Counts, runs
<1>6. Workers(proc') = Workers(proc) \cup {t} /\ t \notin Workers(proc)
  <2>1. t \in Workers(proc') /\ t \notin Workers(proc)
    BY <1>4 DEF Workers
  <2>2. \A q \in Pid \ {t, 1} : q \in Workers(proc') <=> q \in Workers(proc)
    BY <1>4 DEF Workers
  <2>3. Workers(proc') \subseteq Pid \ {1} /\ Workers(proc) \subseteq Pid \ {1}
    BY DEF Workers
  <2> QED BY <2>1, <2>2, <2>3
<1>7. Counted(proc') = Counted(proc)
  <2>1. t \notin Counted(proc') /\ t \notin Counted(proc)
    BY <1>4 DEF Counted, Counts
  <2>2. \A q \in Pid \ {t, 1} : q \in Counted(proc') <=> q \in Counted(proc)
    BY <1>4 DEF Counted
  <2>3. Counted(proc') \subseteq Pid \ {1} /\ Counted(proc) \subseteq Pid \ {1}
    BY DEF Counted
  <2> QED BY <2>1, <2>2, <2>3
<1>8. \A q \in Workers(proc) : proc'[q] = proc[q]
  BY <1>4, <1>6 DEF Workers
<1>9. proc'[t].var.i = i /\ t \in Workers(proc')
  BY <1>4, <1>6
<1>10. \A q \in Pid : proc'[q].leader = 1
  BY <1>4 DEF Counts
<1>11. /\ proc'[1].pc \in mainPcs("sharing") /\ proc'[1].var.i \in 0..2 /\ proc'[1].pc # 2
       /\ proc'[1].pc \in creatingPcs("sharing")
  BY <1>4, <1>5, Sharing
<1>12. \A q \in Pid \ {1} : proc'[q].st = "none" => proc'[q].pc = 1
  BY <1>4 DEF Counts
<1>13. \A q \in Workers(proc') : proc'[q].pc \in otherPcs("sharing") /\ proc'[q].var.i \in 1..2
  BY <1>4, <1>5, <1>6, <1>8, <1>9, Sharing DEF Counts
<1>14. \A q, y \in Workers(proc') : proc'[q].var.i = proc'[y].var.i => q = y
  BY <1>5, <1>6, <1>8, <1>9 DEF Counts
<1>15. \A q \in Workers(proc') : proc'[q].var.i <= proc'[1].var.i
  BY <1>4, <1>5, <1>6, <1>8, <1>9
<1>16. /\ proc'[1].var.n \in 0..2 /\ (proc'[1].var.n = 0 <=> Counted(proc') = {})
       /\ proc'[1].var.n = 2 => \E q, y \in Counted(proc') : q # y
       /\ screen' # <<>> => Counted(proc') # {}
  BY <1>4, <1>7 DEF Counts
<1>17. \A q \in Workers(proc') : proc'[q].pc = 6 => proc'[q].var.n \in 0..1 /\ (proc'[q].var.n = 1 => Counted(proc') # {})
  BY <1>4, <1>6, <1>7, <1>8 DEF Counts
<1> QED BY <1>10, <1>11, <1>12, <1>13, <1>14, <1>15, <1>16, <1>17 DEF Counts

LEMMA CountStep ==
  ASSUME MachineInv, CrowdInv, exercise = "sharing", Counts(proc, screen), failed' = {}, Next
  PROVE  Counts(proc', screen')
<1>1. exercise \in Threaded
  BY Sharing
<1>2. PICK p \in Pid : /\ runs(p)
                       /\ \/ Say(p) \/ Control(p) \/ Pthread_create(p) \/ Pthread_exit(p) \/ Sleep(p)
                          \/ Fork(p) \/ Exit(p) \/ Load(p) \/ Store(p)
  BY <1>1, ThreadedSteps
<1>3. op(p) \notin {"sleep", "fork", "exit"}
  <2>1. op(p) = Program["sharing"][proc[p].pc][2] /\ proc[p].pc \in 1..8
    BY <1>1, <1>2, HereTells, Sharing
  <2> QED BY <2>1, Sharing
<1>4. ~Sleep(p) /\ ~Fork(p) /\ ~Exit(p)
  BY <1>3 DEF Sleep, Fork, Exit, at
<1> QED BY <1>2, <1>4, CountSay, CountControl, CountCreate, CountExit, CountLoad, CountStore

LEMMA CountInit == ASSUME Init, exercise = "sharing" PROVE Counts(proc, screen)
<1>1. screen = <<>> /\ 1 \in Pid
  BY Setting DEF Init
<1>2. \A p \in Pid : /\ (proc[p].st = "none" <=> p # 1) /\ proc[p].pc = 1 /\ proc[p].leader = 1
                     /\ proc[p].var = var0
  BY InitialProcess
<1>3. var0.i = 0 /\ var0.n = 0
  BY DEF var0
<1>4. Workers(proc) = {} /\ Counted(proc) = {}
  BY <1>2 DEF Workers, Counted
<1> QED BY <1>1, <1>2, <1>3, <1>4, Sharing DEF Counts

\* Nothing else than the texts of the exercise is on the screen.
Said(c) == {Program[c][k][1] : k \in {j \in DOMAIN Program[c] : Program[c][j][2] = "say"}}
SaidInv == exercise \in Threaded => \A k \in DOMAIN screen : screen[k][2] \in Said(exercise)

LEMMA OwnTexts == Said("sharing") \cap {13, 26} = {26} /\ Said("testthread") \cap {13, 26} = {13}
<1>1. Program["sharing"] = sharing /\ Program["testthread"] = testthread
  BY DEF Program
<1>2. \A k \in DOMAIN sharing : sharing[k][2] = "say" <=> k = 7
  BY DEF sharing
<1>3. 7 \in DOMAIN sharing /\ sharing[7][1] = 26
  BY DEF sharing
<1>4. \A k \in DOMAIN testthread : testthread[k][2] = "say" <=> k \in {1, 7, 10, 12}
  BY DEF testthread
<1>5. {1, 7, 10, 12} \subseteq DOMAIN testthread /\ testthread[1][1] = 24 /\ testthread[7][1] = 35
      /\ testthread[10][1] = 28 /\ testthread[12][1] = 13
  BY DEF testthread
<1>6. Said("sharing") = {26}
  BY <1>1, <1>2, <1>3 DEF Said
<1>7. Said("testthread") = {24, 35, 28, 13}
  BY <1>1, <1>4, <1>5 DEF Said
<1> QED BY <1>6, <1>7

LEMMA SaidStep ==
  ASSUME MachineInv, CrowdInv, SaidInv, exercise \in Threaded, Next
  PROVE  SaidInv'
<1> DEFINE c == exercise
<1>1. PICK p \in Pid : /\ runs(p)
                       /\ \/ Say(p) \/ Control(p) \/ Pthread_create(p) \/ Pthread_exit(p) \/ Sleep(p)
                          \/ Fork(p) \/ Exit(p) \/ Load(p) \/ Store(p)
  BY ThreadedSteps
<1>2. exercise' = exercise /\ proc[p].out = <<>> /\ screen \in Seq(Entry)
  BY NextKeepsExercise, HereTells DEF world, Plain, MachineInv
<1>3. screen \o <<>> = screen
  BY <1>2, ConcatEmptySeq
<1>4. CASE screen' = screen
  BY <1>2, <1>4 DEF SaidInv
<1>5. CASE Say(p)
  <2> DEFINE e == printed(p)
  <2>1. op(p) = "say" /\ onTerminal(p) /\ Append(proc[p].out, e) = <<e>>
    <3>1. op(p) = "say"
      BY <1>5 DEF Say, at
    <3>2. onTerminal(p)
      BY HereTells DEF Plain, onTerminal
    <3> QED BY <1>2, <3>1, <3>2
  <2>2. screen' = screen \o <<e>>
    BY <1>5, <2>1 DEF Say
  <2>3. e \in Entry /\ e[2] = line(p)
    BY <1>1, <2>1, PrintedIsEntry DEF printed
  <2> HIDE DEF e
  <2>4. e[2] \in Said(c)
    BY <2>1, <2>3, HereTells DEF Said
  <2>5. \A k \in DOMAIN screen' : screen'[k] = e \/ (k \in DOMAIN screen /\ screen'[k] = screen[k])
    BY <1>2, <2>2, <2>3
  <2> QED BY <1>2, <2>4, <2>5 DEF SaidInv
<1>6. CASE ~Say(p)
  <2>1. CASE Fork(p) \/ Pthread_create(p) \/ Exit(p)
    BY <1>2, <1>3, <1>4, <2>1 DEF Fork, Pthread_create, Exit, Fails, unix_error, exit, Exits, Moves
  <2>2. CASE Pthread_exit(p) \/ Sleep(p) \/ Load(p) \/ Store(p)
    BY <1>4, <2>2 DEF Pthread_exit, Sleep, Load, Store, Moves
  <2>3. CASE Control(p)
    BY <1>2, <1>3, <1>4, <2>3 DEF Control, unix_error, exit, Exits, Moves
  <2> QED BY <1>1, <1>6, <2>1, <2>2, <2>3
<1> QED BY <1>5, <1>6

\* The lines at which calls have failed are never forgotten.
LEMMA FailedGrows == ASSUME Next PROVE failed \subseteq failed'
<1>1. CASE CtrlC
  BY <1>1 DEF CtrlC, Types
<1>2. ASSUME NEW p \in Pid, AlarmRings(p) \/ Fgets(p) \/ ReadTerminal(p) PROVE failed \subseteq failed'
  BY <1>2 DEF AlarmRings, Fgets, ReadTerminal, Moves, Types
<1>3. ASSUME NEW p \in Pid, Runs(p) PROVE failed \subseteq failed'
  <2> USE DEF Moves, Killed, Fails, unix_error
  <2>1. CASE Exit(p) \/ Crash(p) \/ Control(p) \/ addjob(p) \/ deletejob(p) \/ Put(p) \/ Say(p)
    BY <2>1 DEF Exit, Crash, Control, addjob, deletejob, Put, Say
  <2>2. CASE Fork(p) \/ Execve(p) \/ Waitpid(p) \/ Kill(p) \/ Signal(p) \/ Sleep(p) \/ Alarm(p)
    BY <2>2 DEF Fork, Execve, Waitpid, Kill, Signal, Sleep, Alarm
  <2>3. CASE Deliver(p) \/ Return(p) \/ Setjmp(p) \/ Leave(p) \/ Longjmp(p)
    BY <2>3 DEF Deliver, Return, Setjmp, Leave, Longjmp
  <2>4. CASE Open(p) \/ Pipe(p) \/ Close(p) \/ Dup2(p) \/ Read(p) \/ Write(p)
    BY <2>4 DEF Open, Pipe, Close, Dup2, Read, Write
  <2>5. CASE Mmap(p) \/ WriteFile(p) \/ Stat(p) \/ Lookup(p)
    BY <2>5 DEF Mmap, WriteFile, Stat, Lookup
  <2>6. CASE Pthread_create(p) \/ Pthread_join(p) \/ Pthread_exit(p) \/ Load(p) \/ Store(p)
    BY <2>6 DEF Pthread_create, Pthread_join, Pthread_exit, Load, Store
  <2> QED BY <1>3, <2>1, <2>2, <2>3, <2>4, <2>5, <2>6 DEF Runs
<1> QED BY <1>1, <1>2, <1>3 DEF Next

\* Each thread prints its own number, however the threads and main() are
\* scheduled; and of two increments of cnt at least one is seen.
ThreadsInv == CrowdInv /\ SaidInv /\ CountInv

LEMMA ThreadsStep ==
  ASSUME MachineInv, MachineInv', ThreadsInv, Next
  PROVE  ThreadsInv'
<1>1. exercise' = exercise /\ failed \subseteq failed' /\ "sharing" \in Threaded
  BY NextKeepsExercise, FailedGrows, Sharing DEF world
<1>2. CrowdInv'
  <2>1. CASE exercise \in Threaded
    BY <2>1, CrowdStep DEF ThreadsInv
  <2>2. CASE exercise \notin Threaded
    BY <1>1, <2>2 DEF CrowdInv
  <2> QED BY <2>1, <2>2
<1>3. SaidInv'
  <2>1. CASE exercise \in Threaded
    BY <2>1, SaidStep DEF ThreadsInv
  <2>2. CASE exercise \notin Threaded
    BY <1>1, <2>2 DEF SaidInv
  <2> QED BY <2>1, <2>2
<1>4. CountInv'
  <2>1. ASSUME exercise = "sharing", failed' = {} PROVE Counts(proc', screen')
    <3>1. Counts(proc, screen) /\ CrowdInv
      BY <1>1, <2>1 DEF ThreadsInv, CountInv
    <3> QED BY <2>1, <3>1, CountStep
  <2> QED BY <1>1, <2>1 DEF CountInv
<1> QED BY <1>2, <1>3, <1>4 DEF ThreadsInv

THEOREM EachThreadPrintsItsNumber == FairSpec => []EachThreadItsMessage
<1>1. Init => ThreadsInv
  <2>1. Init => SaidInv
    BY DEF Init, SaidInv
  <2>2. Init => CrowdInv
    BY CrowdInit DEF CrowdInv
  <2>3. Init => CountInv
    BY CountInit DEF CountInv
  <2> QED BY <2>1, <2>2, <2>3 DEF ThreadsInv
<1>2. MachineInv /\ MachineInv' /\ ThreadsInv /\ [Next]_vars => ThreadsInv'
  <2>1. ThreadsInv /\ UNCHANGED vars => ThreadsInv'
    BY DEF ThreadsInv, CrowdInv, SaidInv, CountInv, vars, world
  <2> QED BY <2>1, ThreadsStep
<1>3. MachineInv /\ ThreadsInv => EachThreadItsMessage
  <2> SUFFICES ASSUME MachineInv, ThreadsInv PROVE EachThreadItsMessage
    OBVIOUS
  <2>1. ASSUME exercise \in Threaded, NEW j \in DOMAIN screen, NEW k \in DOMAIN screen, j # k,
               texts[j] \in {13, 26}, texts[k] = texts[j]
        PROVE  screen[j][3] # screen[k][3]
    <3>1. texts[j] = screen[j][2] /\ texts[k] = screen[k][2]
      BY DEF texts
    <3>2. screen[j][2] \in Said(exercise) \cap {13, 26}
      BY <2>1, <3>1 DEF ThreadsInv, SaidInv
    <3>3. screen[j][2] = numberLine(exercise)
      BY <2>1, <3>2, OwnTexts DEF Threaded, numberLine
    <3> QED BY <2>1, <3>1, <3>3 DEF ThreadsInv, CrowdInv, ToldApart, NumbersDiffer
  <2>2. exercise = "sharing" /\ screen # <<>> /\ failed = {} => proc[1].var.n \in 1..2
    <3>1. ASSUME Counts(proc, screen), screen # <<>> PROVE proc[1].var.n \in 1..2
      <4>1. proc[1].var.n \in 0..2 /\ proc[1].var.n # 0
        BY <3>1 DEF Counts
      <4> QED BY <4>1
    <3> QED BY <3>1 DEF ThreadsInv, CountInv
  <2> QED BY <2>1, <2>2 DEF EachThreadItsMessage, Threaded
<1> QED BY <1>1, <1>2, <1>3, MachineAlways, PTL DEF FairSpec

-----------------------------------------------------------------------------
(* Exercises whose first process knows which of its children are left.      *)

Kin == {"eval", "promask1", "exam1", "exam2", "count_signals", "crashes", "mysystem"}

\* These wait for all their children before they end.
Waiting == Kin \ {"eval", "promask1"}

\* Where a child goes from its fork to its end.
kidPcs(c) == CASE c = "eval" -> {7, 8, 9}
               [] c = "exam1" -> {2, 3}
               [] c = "count_signals" -> 3..8
               [] c \in {"exam2", "mysystem"} -> {3, 4}
               [] OTHER -> {3}

\* Where the first process has a child that it has only in a variable.
holdPcs(c) == CASE c = "eval" -> {10, 11, 13}
                [] c = "exam1" -> {4, 5}
                [] c = "count_signals" -> {9}
                [] c \in {"exam2", "mysystem"} -> {5}
                [] c = "promask1" -> {4}
                [] OTHER -> {}

\* The signals that it has a handler for.
taken(c) == CASE c = "promask1" -> {"CHLD"} [] c = "count_signals" -> {"USR2"} [] OTHER -> {}

\* main() of the first process goes from instruction k to l without a change
\* of what it holds.
Flows(c, k, l) ==
  /\ l \notin kidPcs(c) /\ (l \in holdPcs(c) <=> k \in holdPcs(c))
  /\ ~(c = "crashes" /\ l = 7)

\* The first instruction of line l is in S.
Leads(P, l, S) == \A j \in DOMAIN P : P[j][1] = l /\ (\A m \in DOMAIN P : m < j => P[m][1] # l) => j \in S

\* The instructions of children, of main() in the first process, and of
\* handlers, which begin at instruction h.
KidCode(c, P, k) ==
  LET i == P[k] IN
  /\ i[2] \in {"put", "exit", "add", "loop", "kill", "say", "sleep", "goto", "crash", "exec", "error"}
  /\ i[2] \in {"put", "add", "loop", "kill", "say", "sleep", "exec"} => k + 1 \in kidPcs(c)
  /\ i[2] = "loop" => Leads(P, i[4], kidPcs(c))
  /\ i[2] = "goto" => Leads(P, i[3], kidPcs(c))
  /\ i[2] = "kill" => c = "count_signals" /\ i[3] = "parent" /\ i[4] = "USR2"
  /\ i[2] = "exec" => i[3] = "command"

MainCode(c, P, k) ==
  LET i == P[k]
      on == {l \in DOMAIN P : Flows(c, k, l) /\ ~(c = "eval" /\ l = 2)} IN
  /\ i[2] \in {"fork", "put", "wait", "exit", "add", "say", "signal", "loop", "goto", "either", "input",
               "background", "foreground", "addjob"}
  /\ i[2] \in {"add", "signal", "loop", "background", "foreground"} \/ (i[2] = "put" /\ c # "eval") => k + 1 \in on
  /\ i[2] = "say" => Flows(c, k, k + 1)
  /\ i[2] \in {"goto", "foreground"} => Leads(P, i[3], on)
  /\ i[2] = "loop" => Leads(P, i[4], on)
  /\ i[2] \in {"either", "input"} => \A l \in i[3] : Leads(P, l, on)
  /\ i[2] = "input" => Leads(P, i[4], on)
  /\ i[2] = "signal" => i[3] \in taken(c) /\ i[4] # 0
  /\ i[2] = "addjob" => c = "promask1" /\ k + 1 \notin kidPcs(c) \cup holdPcs(c)
  /\ i[2] = "put" /\ c = "eval" => /\ Len(i) = 3 /\ i[3] = "child" /\ i[1] = 49
                                   /\ k + 1 \notin kidPcs(c) \cup holdPcs(c) /\ k + 1 # 2
  /\ i[2] = "fork" => /\ k \notin holdPcs(c) /\ k + 1 \in kidPcs(c)
                      /\ Leads(P, i[3], {l \in DOMAIN P : l \notin kidPcs(c) /\ ~(c = "eval" /\ l = 2)
                                                          /\ (c = "crashes" => l # 7)
                                                          /\ (c # "crashes" => l \in holdPcs(c))})
                      /\ i[4] # 0 => /\ c \notin {"eval", "promask1", "crashes"}
                                     /\ Leads(P, i[4], {l \in DOMAIN P : l \notin kidPcs(c)})
  /\ i[2] = "wait" => /\ c # "promask1" /\ i[3] \in {"any", "own"} /\ (c = "eval" => i[3] = "own" /\ i[4] = 0)
                      /\ k + 1 \notin kidPcs(c) \cup holdPcs(c)
                      /\ c = "eval" => k + 1 # 2
                      /\ c = "crashes" => i[3] = "any" /\ k + 1 # 7
                      /\ i[4] # 0 => Leads(P, i[4], {l \in DOMAIN P : l \notin kidPcs(c)})
  /\ i[2] = "exit" => k \notin holdPcs(c) /\ (c = "crashes" => k = 7)

HandlerCode(c, P, k) ==
  LET i == P[k] IN
  /\ c \in {"promask1", "count_signals"}
  /\ i[2] \in {"wait", "deletejob", "goto", "add", "sleep", "return"}
  /\ i[2] = "wait" => i[3] = "any" /\ i[4] # 0
  /\ i[2] = "deletejob" => c = "promask1"

Knows(c, P, h, k) ==
  /\ k \in kidPcs(c) => k < h /\ KidCode(c, P, k)
  /\ k < h /\ k \notin kidPcs(c) => MainCode(c, P, k)
  /\ k >= h => HandlerCode(c, P, k)
  /\ taken(c) # {} => (k = 1 <=> P[k][2] = "signal")
  /\ c = "eval" => (P[k][1] = 16 <=> k = 2)
  /\ c = "promask1" /\ k < h => (P[k][1] = 20 <=> k = 2)
  /\ P[k][2] # "atexit"

LEMMA ProgramsKnow ==
  /\ Kin \subseteq DOMAIN Program
  /\ \A c \in Kin : \A k \in DOMAIN Program[c] : Knows(c, Program[c], cut(c), k)
  /\ \A c \in Kin : 1 \notin kidPcs(c) \cup holdPcs(c)
<1> USE DEF Knows, KidCode, MainCode, HandlerCode, Flows, Leads, kidPcs, holdPcs, taken
<1>1. \A k \in DOMAIN eval : Knows("eval", eval, 99, k)
  BY DEF eval
<1>2. \A k \in DOMAIN promask1 : Knows("promask1", promask1, 6, k)
  BY DEF promask1
<1>3. \A k \in DOMAIN exam1 : Knows("exam1", exam1, 99, k)
  BY DEF exam1
<1>4. \A k \in DOMAIN exam2 : Knows("exam2", exam2, 99, k)
  BY DEF exam2
<1>5. \A k \in DOMAIN count_signals : Knows("count_signals", count_signals, 12, k)
  BY DEF count_signals
<1>6. \A k \in DOMAIN crashes : Knows("crashes", crashes, 99, k)
  BY DEF crashes
<1>7. \A k \in DOMAIN mysystem : Knows("mysystem", mysystem, 99, k)
  BY DEF mysystem
<1>8. \A c \in Kin : 1 \notin kidPcs(c) \cup holdPcs(c)
  BY DEF Kin
<1> QED BY <1>1, <1>2, <1>3, <1>4, <1>5, <1>6, <1>7, <1>8 DEF Kin, Program, cut, Handlers

left(P) == {q \in Pid \ {1} : P[q].st \in {"run", "zombie"}}
Numbers(l, S) == {S[k][3] : k \in {j \in DOMAIN S : S[j][2] = l}}

\* The children that the first process r has listed, or announced on the
\* screen S or in its buffer.
listed(c, r, S) ==
  CASE c = "eval" -> Numbers(49, S) \cup Numbers(49, r.out)
    [] c = "promask1" -> r.jobs
    [] c = "crashes" -> IF mainPc(r) = 7 THEN {} ELSE Pid
    [] OTHER -> {}
known(c, r, S) == listed(c, r, S) \cup (IF mainPc(r) \in holdPcs(c) THEN {r.var.child} ELSE {})

\* A child runs its part of the program, or a command; only a crash sends it
\* a signal.
KidOf(c, r, q) ==
  /\ r.leader = q /\ r.frames = <<>> /\ r.alarm = FALSE
  /\ r.pending \subseteq {"SEGV"} /\ r.handler["SEGV"] = 0
  /\ (r.code = c /\ r.pc \in kidPcs(c)) \/ r.code = "command"

\* The first process is in main() or in its one handler, which is there for
\* the signals that come.
FirstOf(c, r) ==
  /\ r.code = c /\ r.alarm = FALSE /\ mainPc(r) \notin kidPcs(c)
  /\ r.pending \subseteq {s \in taken(c) : r.handler[s] # 0}
  /\ mainPc(r) # 1 => \A s \in taken(c) : r.handler[s] # 0
  /\ \A s \in Sig \ taken(c) : r.handler[s] = 0
  /\ Len(r.frames) <= 1 /\ (r.frames # <<>> => taken(c) \subseteq r.mask)
  /\ c = "eval" => r.fd[1] = 1 /\ (mainPc(r) = 2 => r.out = <<>>)

\* It knows the children that are left, and the last one it has waited for
\* is gone.
Knowing(c, P, S) ==
  /\ FirstOf(c, P[1]) /\ left(P) \subseteq known(c, P[1], S)
  /\ \A q \in left(P) : P[q].parent = 1
  /\ P[1].var.pid # 0 => P[P[1].var.pid].st = "gone"

Kinship(c, P, S, F) ==
  /\ \A q \in Pid : P[q].parent \in {0, 1} /\ (P[q].st # "run" => P[q].leader = 1)
  /\ P[1].parent = 0 /\ P[1].leader = 1
  /\ \A q \in Pid \ {1} : P[q].st = "run" => KidOf(c, P[q], q)
  /\ P[1].st = "run" => Knowing(c, P, S)
  /\ c \in Waiting /\ P[1].st # "run" /\ F = {} => left(P) = {}

KinInv == exercise \in Kin => Kinship(exercise, proc, screen, failed)

\* Numbers on the screen stay there.
LEMMA NumbersGrow ==
  ASSUME NEW l, NEW S \in Seq(Entry), NEW T \in Seq(Entry)
  PROVE  Numbers(l, S \o T) = Numbers(l, S) \cup Numbers(l, T)
<1> DEFINE R == S \o T
<1>1. /\ DOMAIN S = 1..Len(S) /\ DOMAIN T = 1..Len(T) /\ DOMAIN R = 1..(Len(S) + Len(T))
      /\ Len(S) \in Nat /\ Len(T) \in Nat
      /\ \A k \in DOMAIN S : R[k] = S[k]
      /\ \A k \in DOMAIN T : R[Len(S) + k] = T[k]
  OBVIOUS
<1> HIDE DEF R
<1>2. ASSUME NEW k \in DOMAIN R, k \notin DOMAIN S
      PROVE  k - Len(S) \in DOMAIN T /\ R[k] = T[k - Len(S)]
  <2>1. k - Len(S) \in 1..Len(T) /\ Len(S) + (k - Len(S)) = k
    BY <1>1, <1>2
  <2> QED BY <1>1, <2>1
<1>3. Numbers(l, R) \subseteq Numbers(l, S) \cup Numbers(l, T)
  BY <1>1, <1>2 DEF Numbers
<1>4. Numbers(l, S) \subseteq Numbers(l, R)
  <2>1. DOMAIN S \subseteq DOMAIN R
    BY <1>1
  <2> QED BY <1>1, <2>1 DEF Numbers
<1>5. Numbers(l, T) \subseteq Numbers(l, R)
  <2>1. ASSUME NEW k \in DOMAIN T PROVE Len(S) + k \in DOMAIN R
    BY <1>1
  <2> QED BY <1>1, <2>1 DEF Numbers
<1> QED BY <1>3, <1>4, <1>5 DEF R

\* What a step that changes the place and the counters i and n leaves alone.
Same(s, r) ==
  /\ Alike(s, r) /\ s.out = r.out /\ s.jobs = r.jobs /\ s.fd = r.fd
  /\ s.var.child = r.var.child /\ s.var.pid = r.var.pid

LEMMA SameExcept ==
  ASSUME NEW r \in Process, NEW x
  PROVE  /\ Same([r EXCEPT !.pc = x], r)
         /\ x.child = r.var.child /\ x.pid = r.var.pid => Same([r EXCEPT !.var = x], r)
<1> DEFINE s == [r EXCEPT !.pc = x]
<1>1. s.out = r.out /\ s.jobs = r.jobs /\ s.fd = r.fd /\ s.var = r.var
  BY DEF Process
<1> DEFINE t == [r EXCEPT !.var = x]
<1>2. t.out = r.out /\ t.jobs = r.jobs /\ t.fd = r.fd /\ t.var = x
  BY DEF Process
<1>3. Alike(s, r) /\ Alike(t, r)
  BY AlikeExcept
<1> HIDE DEF s, t
<1>4. Same(s, r) /\ (x.child = r.var.child /\ x.pid = r.var.pid => Same(t, r))
  BY <1>1, <1>2, <1>3 DEF Same
<1> QED BY <1>4 DEF s, t

LEMMA SameNext ==
  ASSUME MachineInv, NEW p \in Pid, op(p) \in Falls, NEW x
  PROVE  /\ Same(next(proc[p]), proc[p]) /\ next(proc[p]).pc = proc[p].pc + 1
         /\ \A name \in {"i", "n"} : /\ Same(sets(p, name, x), proc[p])
                                     /\ sets(p, name, x).pc = proc[p].pc + 1
<1> DEFINE r == next(proc[p])
           k == proc[p].pc + 1
<1>1. r \in Process /\ r.pc = k
  BY Here, NextGood DEF op, Good
<1>2. Same(r, proc[p])
  <2>1. r = [proc[p] EXCEPT !.pc = k]
    BY DEF next
  <2> HIDE DEF r, k
  <2> QED BY <2>1, Here, SameExcept
<1>3. ASSUME NEW name \in {"i", "n"} PROVE Same(sets(p, name, x), r) /\ sets(p, name, x).pc = r.pc
  <2> DEFINE v == [r.var EXCEPT ![name] = x]
  <2>1. sets(p, name, x) = [r EXCEPT !.var = v]
    BY DEF sets
  <2>2. v.child = r.var.child /\ v.pid = r.var.pid
    BY <1>1 DEF Process, Var
  <2> HIDE DEF r, v, sets
  <2>3. Same([r EXCEPT !.var = v], r) /\ [r EXCEPT !.var = v].pc = r.pc
    BY <1>1, <2>2, SameExcept, AlikeExcept
  <2> QED BY <2>1, <2>3
<1>4. ASSUME NEW s, Same(s, r) PROVE Same(s, proc[p])
  BY <1>2, <1>4 DEF Same, Alike
<1> HIDE DEF sets, r
<1> QED BY <1>1, <1>2, <1>3, <1>4 DEF r

\* A jump goes to the first instruction of a line.
LEMMA SameJump ==
  ASSUME MachineInv, NEW p \in Pid, NEW l \in Lines(text(proc[p]))
  PROVE  /\ Same(jumps(p, l), proc[p]) /\ jumps(p, l).pc \in DOMAIN text(proc[p])
         /\ \A S : Leads(text(proc[p]), l, S) => jumps(p, l).pc \in S
<1> DEFINE P == Program[proc[p].code]
           L == {k \in DOMAIN P : P[k][1] = l}
           m == Least(L)
<1>1. jumps(p, l) = [proc[p] EXCEPT !.pc = m]
  BY DEF jumps, goto
<1>2. L \in SUBSET Nat /\ L # {}
  <2>1. DOMAIN text(proc[p]) \subseteq Nat
    BY Here, InstructionFacts
  <2> QED BY <2>1 DEF Lines, text
<1>3. m \in L /\ \A k \in L : m <= k
  <2> HIDE DEF L
  <2> QED BY <1>2, LeastIsLeast
<1>4. m \in DOMAIN P /\ P[m][1] = l /\ \A k \in DOMAIN P : k < m => P[k][1] # l
  <2>1. m \in DOMAIN P /\ P[m][1] = l /\ m \in Nat
    BY <1>2, <1>3
  <2>2. ASSUME NEW k \in DOMAIN P, k < m, P[k][1] = l PROVE FALSE
    <3>1. k \in L /\ k \in Nat
      BY <1>2, <2>2
    <3> HIDE DEF L
    <3>2. m <= k /\ m \in Nat
      BY <1>2, <1>3, <3>1
    <3> HIDE DEF m
    <3> QED BY <2>2, <3>1, <3>2
  <2> QED BY <2>1, <2>2
<1> HIDE DEF m
<1>5. Same([proc[p] EXCEPT !.pc = m], proc[p]) /\ [proc[p] EXCEPT !.pc = m].pc = m
  <2> DEFINE r == proc[p]
  <2>1. r \in Process
    BY Here
  <2> HIDE DEF r
  <2>2. Same([r EXCEPT !.pc = m], r)
    BY <2>1, SameExcept
  <2>3. [r EXCEPT !.pc = m].pc = m
    BY <2>1, AlikeExcept
  <2> QED BY <2>2, <2>3 DEF r
<1>6. \A S : Leads(text(proc[p]), l, S) => m \in S
  BY <1>4 DEF Leads, text
<1> HIDE DEF jumps
<1> QED BY <1>1, <1>4, <1>5, <1>6 DEF text

\* The first process, and where it is.
LEMMA HereFirst ==
  ASSUME MachineInv, KinInv, exercise \in Kin, runs(1)
  PROVE  /\ 1 \in Pid /\ proc \in [Pid -> Process] /\ proc[1].st = "run"
         /\ proc[1].parent = 0 /\ proc[1].leader = 1
         /\ Kinship(exercise, proc, screen, failed) /\ Knowing(exercise, proc, screen)
         /\ text(proc[1]) = Program[exercise] /\ proc[1].code = exercise
         /\ proc[1].pc \in DOMAIN Program[exercise] /\ proc[1].pc \in Nat /\ cut(exercise) \in Nat
         /\ Knows(exercise, Program[exercise], cut(exercise), proc[1].pc)
         /\ instr(1) = Program[exercise][proc[1].pc]
         /\ line(1) = Program[exercise][proc[1].pc][1] /\ op(1) = Program[exercise][proc[1].pc][2]
         /\ arg(1) = Program[exercise][proc[1].pc][3] /\ arg2(1) = Program[exercise][proc[1].pc][4]
         /\ proc[1].frames = <<>> => /\ mainPc(proc[1]) = proc[1].pc /\ proc[1].pc < cut(exercise)
                                     /\ MainCode(exercise, Program[exercise], proc[1].pc)
         /\ proc[1].frames # <<>> => ~(proc[1].pc < cut(exercise))
                                     /\ HandlerCode(exercise, Program[exercise], proc[1].pc)
<1>1. /\ 1 \in Pid /\ proc \in [Pid -> Process] /\ proc[1].st = "run"
      /\ proc[1].parent = 0 /\ proc[1].leader = 1
      /\ Kinship(exercise, proc, screen, failed) /\ Knowing(exercise, proc, screen)
  BY Setting DEF KinInv, Kinship, MachineInv, runs
<1>2. proc[1].code = exercise
  BY <1>1 DEF Knowing, FirstOf
<1>3. text(proc[1]) = Program[exercise] /\ instr(1) = Program[exercise][proc[1].pc]
  BY <1>1, <1>2, Here DEF text
<1>4. /\ proc[1].pc \in DOMAIN Program[exercise] /\ proc[1].pc \in Nat /\ cut(exercise) \in Nat
      /\ proc[1].frames = <<>> <=> proc[1].pc < cut(exercise)
  BY <1>1, <1>2, <1>3, Here, InstructionFacts DEF Good, Nested
<1>5. Knows(exercise, Program[exercise], cut(exercise), proc[1].pc)
  BY <1>4, ProgramsKnow
<1>6. proc[1].frames = <<>> => mainPc(proc[1]) = proc[1].pc
  BY DEF mainPc
<1>7. proc[1].frames = <<>> => MainCode(exercise, Program[exercise], proc[1].pc)
  BY <1>1, <1>4, <1>5, <1>6 DEF Knows, Knowing, FirstOf
<1>8. proc[1].frames # <<>> => HandlerCode(exercise, Program[exercise], proc[1].pc)
  BY <1>4, <1>5 DEF Knows
<1> QED BY <1>1, <1>2, <1>3, <1>4, <1>5, <1>6, <1>7, <1>8 DEF line, op, arg, arg2

\* A child, and where it is.
LEMMA HereKid ==
  ASSUME MachineInv, KinInv, exercise \in Kin, NEW p \in Pid \ {1}, runs(p)
  PROVE  /\ proc \in [Pid -> Process] /\ Kinship(exercise, proc, screen, failed)
         /\ KidOf(exercise, proc[p], p) /\ proc[p].parent \in {0, 1} /\ proc[p].atexit = 0
         /\ proc[p].mask = {}
         /\ \/ /\ proc[p].code = "command" /\ op(p) = "exit"
            \/ /\ proc[p].code = exercise /\ text(proc[p]) = Program[exercise]
               /\ KidCode(exercise, Program[exercise], proc[p].pc)
               /\ op(p) = Program[exercise][proc[p].pc][2] /\ arg(p) = Program[exercise][proc[p].pc][3]
               /\ arg2(p) = Program[exercise][proc[p].pc][4]
<1>1. /\ proc \in [Pid -> Process] /\ Kinship(exercise, proc, screen, failed)
      /\ KidOf(exercise, proc[p], p) /\ proc[p].parent \in {0, 1}
  BY DEF KinInv, Kinship, MachineInv, runs
<1>2. proc[p].mask = {}
  BY <1>1, Here DEF Good, Nested, KidOf
<1>3. CASE proc[p].code = "command"
  <2>1. text(proc[p]) = command /\ instr(p) = command[proc[p].pc]
    BY <1>3, Here DEF text, Program
  <2>2. proc[p].pc \in DOMAIN command
    BY <2>1, Here, InstructionFacts
  <2>3. op(p) = "exit" /\ \A j \in DOMAIN command : command[j][2] # "atexit"
    BY <2>1, <2>2 DEF command, op
  <2>4. proc[p].atexit = 0
    BY <2>1, <2>3, Here DEF Good, Installed
  <2> QED BY <1>1, <1>2, <1>3, <2>3, <2>4
<1>4. CASE proc[p].code # "command"
  <2>1. proc[p].code = exercise /\ proc[p].pc \in kidPcs(exercise)
    BY <1>1, <1>4 DEF KidOf
  <2>2. text(proc[p]) = Program[exercise] /\ instr(p) = Program[exercise][proc[p].pc]
    BY <2>1, Here DEF text
  <2>3. proc[p].pc \in DOMAIN Program[exercise]
    BY <2>2, Here, InstructionFacts
  <2>4. KidCode(exercise, Program[exercise], proc[p].pc)
    BY <2>1, <2>3, ProgramsKnow DEF Knows
  <2>5. \A j \in DOMAIN Program[exercise] : Program[exercise][j][2] # "atexit"
    BY ProgramsKnow DEF Knows
  <2>6. proc[p].atexit = 0
    BY <2>2, <2>5, Here DEF Good, Installed
  <2> QED BY <1>1, <1>2, <2>1, <2>2, <2>4, <2>6 DEF op, arg, arg2
<1> QED BY <1>3, <1>4

\* What grows with the screen.
LEMMA KnownGrows ==
  ASSUME NEW c, NEW r, NEW S \in Seq(Entry), NEW T \in Seq(Entry)
  PROVE  known(c, r, S) \subseteq known(c, r, S \o T)
  BY NumbersGrow DEF known, listed

Longer(S) == \E T \in Seq(Entry) : S = screen \o T

LEMMA SameLonger == ASSUME MachineInv PROVE Longer(screen)
<1>1. <<>> \in Seq(Entry) /\ screen \o <<>> = screen
  BY DEF MachineInv
<1> QED BY <1>1 DEF Longer

\* A step of a child, which prints at most.
LEMMA KidStep ==
  ASSUME MachineInv, KinInv, exercise \in Kin, exercise' = exercise, failed' = failed,
         NEW p \in Pid \ {1}, runs(p), NEW s, proc' = [proc EXCEPT ![p] = s],
         s.st = "run", s.parent = proc[p].parent, KidOf(exercise, s, p), Longer(screen')
  PROVE  KinInv'
<1> DEFINE Q == [proc EXCEPT ![p] = s]
<1>1. /\ Kinship(exercise, proc, screen, failed) /\ 1 \in Pid /\ proc \in [Pid -> Process]
      /\ screen \in Seq(Entry)
  BY Setting DEF KinInv, MachineInv
<1>2. /\ Q[p] = s /\ Q[1] = proc[1] /\ \A q \in Pid \ {p} : Q[q] = proc[q]
      /\ \A q \in Pid : Q[q].st = proc[q].st /\ Q[q].parent = proc[q].parent
  BY <1>1 DEF runs
<1> HIDE DEF Q
<1>3. left(Q) = left(proc)
  BY <1>2 DEF left
<1>4. proc[1].st = "run" => Knowing(exercise, Q, screen')
  <2> SUFFICES ASSUME proc[1].st = "run" PROVE Knowing(exercise, Q, screen')
    OBVIOUS
  <2>1. Knowing(exercise, proc, screen)
    BY <1>1 DEF Kinship
  <2>2. known(exercise, proc[1], screen) \subseteq known(exercise, proc[1], screen')
    BY <1>1, KnownGrows DEF Longer
  <2>3. proc[1].var.pid \in Pid \cup {0}
    BY <1>1 DEF Process, Var
  <2>4. \A q \in left(Q) : Q[q].parent = 1
    BY <1>2, <1>3, <2>1 DEF Knowing, left
  <2> QED BY <1>2, <1>3, <2>1, <2>2, <2>3, <2>4 DEF Knowing
<1>5. Kinship(exercise, Q, screen', failed)
  BY <1>1, <1>2, <1>3, <1>4 DEF Kinship
<1> QED BY <1>5 DEF KinInv, Q

\* A child ends: it is a zombie, and the first process may get a signal.
LEMMA KidEnds ==
  ASSUME MachineInv, KinInv, exercise \in Kin, exercise' = exercise, failed \subseteq failed',
         NEW p \in Pid \ {1}, runs(p), proc' = without(p), Longer(screen')
  PROVE  KinInv'
<1> DEFINE parent == proc[p].parent
           Q == without(p)
           r == proc[1]
           s == sent(r, "CHLD")
<1>1. /\ Kinship(exercise, proc, screen, failed) /\ 1 \in Pid /\ proc \in [Pid -> Process] /\ 0 \notin Pid
      /\ screen \in Seq(Entry)
  BY Setting DEF KinInv, MachineInv
<1>2. /\ proc[p].leader = p /\ parent \in {0, 1}
      /\ \A q \in Pid : proc[q].parent # p /\ (proc[q].leader = p <=> q = p)
  BY <1>1 DEF Kinship, KidOf, runs
<1>3. \A q \in Pid : Q[q] = IF q = p THEN over(IF parent = 1 THEN "zombie" ELSE "gone", parent)
                            ELSE IF q = parent /\ proc[1].st \notin {"none", "gone"} THEN s
                            ELSE proc[q]
  BY <1>1, <1>2 DEF without, runs
<1>4. \A how, o : over(how, o).st = how /\ over(how, o).parent = o /\ over(how, o).leader = 1
  BY DEF over, fresh
<1> DEFINE t == [r EXCEPT !.pending = r.pending \cup {"CHLD"}]
<1>5. r \in Process
  BY <1>1
<1>6. t.st = r.st /\ t.parent = r.parent /\ t.leader = r.leader /\ t.code = r.code
  BY <1>5 DEF Process
<1>7. t.alarm = r.alarm /\ t.frames = r.frames /\ t.mask = r.mask /\ t.handler = r.handler
  BY <1>5 DEF Process
<1>8. t.pc = r.pc /\ t.pending = r.pending \cup {"CHLD"} /\ t.out = r.out /\ t.jobs = r.jobs
  BY <1>5 DEF Process
<1>9. t.var = r.var /\ t.fd = r.fd
  BY <1>5 DEF Process
<1>10. s = r \/ (s = t /\ r.handler["CHLD"] # 0)
  BY DEF sent
<1> HIDE DEF Q, over, r, s, t
<1>11. /\ s.st = r.st /\ s.parent = r.parent /\ s.leader = r.leader /\ s.var = r.var
       /\ mainPc(s) = mainPc(r)
       /\ \A c, S : known(c, s, S) = known(c, r, S)
  <2>1. s.st = r.st /\ s.parent = r.parent /\ s.leader = r.leader /\ s.var = r.var
    BY <1>6, <1>9, <1>10
  <2>2. s.out = r.out /\ s.jobs = r.jobs /\ mainPc(s) = mainPc(r)
    BY <1>7, <1>8, <1>10 DEF mainPc
  <2> QED BY <2>1, <2>2 DEF known, listed
<1>12. FirstOf(exercise, r) => FirstOf(exercise, s)
  <2> SUFFICES ASSUME FirstOf(exercise, r), s = t, r.handler["CHLD"] # 0 PROVE FirstOf(exercise, t)
    BY <1>10
  <2> DEFINE c == exercise
  <2>5. "CHLD" \in taken(c)
    BY DEF FirstOf, Sig
  <2>1. t.code = c /\ t.alarm = FALSE /\ mainPc(t) \notin kidPcs(c)
    BY <1>6, <1>7, <1>11 DEF FirstOf
  <2>2. t.pending \subseteq {x \in taken(c) : t.handler[x] # 0}
    BY <1>7, <1>8, <2>5 DEF FirstOf
  <2>3. /\ mainPc(t) # 1 => \A x \in taken(c) : t.handler[x] # 0
        /\ \A x \in Sig \ taken(c) : t.handler[x] = 0
    BY <1>7, <1>11 DEF FirstOf
  <2>4. /\ Len(t.frames) <= 1 /\ (t.frames # <<>> => taken(c) \subseteq t.mask)
        /\ c = "eval" => t.fd[1] = 1 /\ (mainPc(t) = 2 => t.out = <<>>)
    BY <1>7, <1>8, <1>9, <1>11 DEF FirstOf
  <2> QED BY <2>1, <2>2, <2>3, <2>4 DEF FirstOf
<1>13. /\ \A q \in Pid : Q[q].parent \in {0, 1} /\ (Q[q].st # "run" => Q[q].leader = 1)
       /\ Q[1].parent = 0 /\ Q[1].leader = 1 /\ (Q[1].st = "run" <=> r.st = "run")
       /\ \A q \in Pid \ {1, p} : Q[q] = proc[q]
       /\ Q[1] = r \/ Q[1] = s
  BY <1>1, <1>2, <1>3, <1>4, <1>11 DEF Kinship, r
<1>14. Q[p].st \in {"zombie", "gone"} /\ Q[p].parent = parent /\ (Q[p].st = "zombie" => parent = 1)
  BY <1>3, <1>4
<1>15. left(Q) \subseteq left(proc) /\ p \in left(proc)
  BY <1>13, <1>14 DEF left, runs
<1>16. \A q \in Pid \ {1} : Q[q].st = "run" => KidOf(exercise, Q[q], q)
  BY <1>1, <1>13, <1>14 DEF Kinship
<1>17. ASSUME r.st = "run" PROVE Knowing(exercise, Q, screen')
  <2>1. Knowing(exercise, proc, screen) /\ FirstOf(exercise, r)
    BY <1>1, <1>17 DEF Kinship, Knowing, r
  <2>2. known(exercise, r, screen) \subseteq known(exercise, r, screen')
    BY <1>1, KnownGrows DEF Longer
  <2>3. FirstOf(exercise, Q[1]) /\ left(Q) \subseteq known(exercise, Q[1], screen')
    BY <1>11, <1>12, <1>13, <1>15, <2>1, <2>2 DEF Knowing, r
  <2>4. \A q \in left(Q) : Q[q].parent = 1
    BY <1>13, <1>14, <1>15, <2>1 DEF Knowing, left
  <2>5. Q[1].var = r.var /\ r.var.pid \in Pid \cup {0}
    BY <1>5, <1>11, <1>13 DEF Process, Var
  <2>6. r.var.pid # 0 => Q[r.var.pid].st = "gone"
    <3> SUFFICES ASSUME r.var.pid # 0 PROVE Q[r.var.pid].st = "gone"
      OBVIOUS
    <3>1. proc[r.var.pid].st = "gone" /\ r.var.pid \in Pid
      BY <2>1, <2>5 DEF Knowing, r
    <3>2. r.var.pid # 1 /\ r.var.pid # p
      BY <1>17, <3>1 DEF r, runs
    <3> QED BY <1>13, <3>1, <3>2
  <2> QED BY <2>3, <2>4, <2>5, <2>6 DEF Knowing
<1>18. exercise \in Waiting /\ Q[1].st # "run" /\ failed' = {} => left(Q) = {}
  BY <1>1, <1>13, <1>15 DEF Kinship, r
<1>19. Kinship(exercise, Q, screen', failed')
  BY <1>13, <1>16, <1>17, <1>18 DEF Kinship
<1> QED BY <1>19 DEF KinInv, Q

\* The first process ends: in the exercises that wait, without children or
\* because a call has failed.
LEMMA FirstEnds ==
  ASSUME MachineInv, KinInv, exercise \in Kin, exercise' = exercise, runs(1), proc' = without(1),
         exercise \in Waiting /\ failed' = {} => left(proc) = {}
  PROVE  KinInv'
<1> DEFINE Q == without(1)
           orphan(q) == [proc[q] EXCEPT !.parent = 0]
<1>1. /\ Kinship(exercise, proc, screen, failed) /\ 1 \in Pid /\ proc \in [Pid -> Process] /\ 0 \notin Pid
  BY Setting DEF KinInv, MachineInv
<1>2. proc[1].parent = 0 /\ proc[1].leader = 1
  BY <1>1 DEF Kinship
<1>3. \A q \in Pid : \/ Q[q] = proc[q] /\ (proc[q].st \in {"none", "gone"} \/ q # 1)
                     \/ Q[q] = over("gone", 0)
                     \/ q # 1 /\ Q[q] = orphan(q)
  BY <1>1, <1>2 DEF without
<1> HIDE DEF Q
<1>4. over("gone", 0).st = "gone" /\ over("gone", 0).parent = 0 /\ over("gone", 0).leader = 1
  BY DEF over, fresh
<1> HIDE DEF over
<1>5. ASSUME NEW q \in Pid
      PROVE  LET t == orphan(q) IN
             /\ t.st = proc[q].st /\ t.parent = 0 /\ t.leader = proc[q].leader /\ t.code = proc[q].code
             /\ t.pc = proc[q].pc /\ t.frames = proc[q].frames /\ t.pending = proc[q].pending
             /\ t.alarm = proc[q].alarm /\ t.handler = proc[q].handler
  <2>1. proc[q] \in Process
    BY <1>1
  <2> DEFINE t == orphan(q)
  <2>2. t.st = proc[q].st /\ t.parent = 0 /\ t.leader = proc[q].leader /\ t.code = proc[q].code
    BY <2>1 DEF Process
  <2>3. t.pc = proc[q].pc /\ t.frames = proc[q].frames /\ t.pending = proc[q].pending
    BY <2>1 DEF Process
  <2>4. t.alarm = proc[q].alarm /\ t.handler = proc[q].handler
    BY <2>1 DEF Process
  <2> QED BY <2>2, <2>3, <2>4
<1> HIDE DEF orphan
<1>6. \A q \in Pid : Q[q].parent \in {0, 1} /\ (Q[q].st # "run" => Q[q].leader = 1)
  BY <1>1, <1>3, <1>4, <1>5 DEF Kinship
<1>7. Q[1].parent = 0 /\ Q[1].leader = 1 /\ Q[1].st # "run"
  BY <1>1, <1>2, <1>3, <1>4 DEF runs
<1>8. ASSUME NEW q \in Pid \ {1}, Q[q].st = "run" PROVE KidOf(exercise, Q[q], q)
  BY <1>1, <1>3, <1>4, <1>5, <1>8 DEF Kinship, KidOf
<1>9. left(Q) \subseteq left(proc)
  BY <1>3, <1>4, <1>5 DEF left
<1>10. Kinship(exercise, Q, screen', failed')
  BY <1>6, <1>7, <1>8, <1>9 DEF Kinship
<1> QED BY <1>10 DEF KinInv, Q

\* A step of the first process that leaves its children alone.
LEMMA FirstStep ==
  ASSUME MachineInv, KinInv, exercise \in Kin, exercise' = exercise, failed' = failed,
         runs(1), NEW s, proc' = [proc EXCEPT ![1] = s],
         s.st = "run", s.parent = 0, s.leader = 1, s.var.pid = proc[1].var.pid,
         FirstOf(exercise, s), left(proc) \subseteq known(exercise, s, screen')
  PROVE  KinInv'
<1> DEFINE Q == [proc EXCEPT ![1] = s]
<1>1. Kinship(exercise, proc, screen, failed) /\ 1 \in Pid /\ proc \in [Pid -> Process]
  BY Setting DEF KinInv, MachineInv
<1>2. /\ Q[1] = s /\ \A q \in Pid \ {1} : Q[q] = proc[q]
      /\ \A q \in Pid : Q[q].st = proc[q].st /\ Q[q].parent = proc[q].parent
  BY <1>1 DEF Kinship, runs
<1> HIDE DEF Q
<1>3. left(Q) = left(proc)
  BY <1>2 DEF left
<1>4. Knowing(exercise, Q, screen')
  <2>1. Knowing(exercise, proc, screen)
    BY <1>1 DEF Kinship, runs
  <2>2. \A q \in left(Q) : Q[q].parent = 1
    BY <1>2, <1>3, <2>1 DEF Knowing, left
  <2>3. proc[1].var.pid \in Pid \cup {0}
    BY <1>1 DEF Process, Var
  <2> QED BY <1>2, <1>3, <2>1, <2>2, <2>3 DEF Knowing
<1>5. Kinship(exercise, Q, screen', failed)
  BY <1>1, <1>2, <1>4 DEF Kinship
<1> QED BY <1>5 DEF KinInv, Q

\* A child goes on.
LEMMA KidGoes ==
  ASSUME MachineInv, KinInv, exercise \in Kin, exercise' = exercise, failed' = failed,
         NEW p \in Pid \ {1}, runs(p), NEW s, proc' = [proc EXCEPT ![p] = s],
         proc[p].code = exercise, Alike(s, proc[p]), s.pc \in kidPcs(exercise), Longer(screen')
  PROVE  KinInv'
<1>1. KidOf(exercise, s, p)
  <2>1. KidOf(exercise, proc[p], p)
    BY HereKid
  <2> QED BY <2>1 DEF KidOf, Alike
<1>2. s.st = "run" /\ s.parent = proc[p].parent
  BY DEF Alike, runs
<1> QED BY <1>1, <1>2, KidStep

LEMMA KidError ==
  ASSUME MachineInv, KinInv, exercise \in Kin, NEW p \in Pid \ {1}, runs(p),
         \/ unix_error(p)
         \/ Killed(p)
         \/ Exits(p) /\ UNCHANGED failed
  PROVE  KinInv'
<1>1. /\ exercise' = exercise /\ failed \subseteq failed' /\ proc' = without(p)
      /\ screen' = screen \/ screen' = screen \o proc[p].out
  BY HereKid DEF unix_error, Killed, exit, Exits, world
<1>2. proc[p].out \in Seq(Entry)
  BY Here DEF Process
<1>3. Longer(screen')
  BY <1>1, <1>2, SameLonger DEF Longer
<1> QED BY <1>1, <1>3, KidEnds

\* A child that prints.
LEMMA KidPrints ==
  ASSUME MachineInv, KinInv, exercise \in Kin, NEW p \in Pid \ {1}, runs(p), proc[p].code = exercise,
         op(p) \in {"put", "say"}, Put(p) \/ Say(p)
  PROVE  KinInv'
<1> DEFINE out == Append(proc[p].out, printed(p))
           r == next(proc[p])
<1>1. op(p) \in Falls
  BY DEF Falls
<1>2. proc[p].pc + 1 \in kidPcs(exercise)
  BY HereKid DEF KidCode
<1>3. r.out = proc[p].out
  BY <1>1, SameNext DEF Same
<1>4. out \in Seq(Entry)
  BY Here, PrintedIsEntry DEF Process
<1>5. PICK x : proc' = [proc EXCEPT ![p] = [r EXCEPT !.out = x]]
  <2>1. CASE Put(p)
    <3>1. proc' = [proc EXCEPT ![p] = [r EXCEPT !.out = out]]
      BY <1>3, <2>1 DEF Put, Moves, Becomes
    <3> HIDE DEF r, out
    <3> QED BY <3>1
  <2>2. CASE Say(p)
    <3>1. \/ proc' = [proc EXCEPT ![p] = [r EXCEPT !.out = out]]
          \/ proc' = [proc EXCEPT ![p] = [r EXCEPT !.out = <<>>]]
      BY <2>2 DEF Say, Moves, Becomes
    <3> HIDE DEF r, out
    <3> QED BY <3>1
  <2> QED BY <2>1, <2>2
<1>6. /\ exercise' = exercise /\ failed' = failed
      /\ screen' = screen \/ screen' = screen \o out
  BY DEF Put, Say, Moves, Becomes, world
<1>7. Longer(screen')
  <2> HIDE DEF out
  <2> QED BY <1>4, <1>6, SameLonger DEF Longer
<1>8. Alike([r EXCEPT !.out = x], proc[p]) /\ [r EXCEPT !.out = x].pc = proc[p].pc + 1
  BY <1>1, AlikeNext
<1> HIDE DEF r
<1> QED BY <1>2, <1>5, <1>6, <1>7, <1>8, KidGoes

LEMMA KidControl ==
  ASSUME MachineInv, KinInv, exercise \in Kin, NEW p \in Pid \ {1}, runs(p), proc[p].code = exercise,
         Control(p)
  PROVE  KinInv'
<1>1. /\ text(proc[p]) = Program[exercise] /\ KidCode(exercise, Program[exercise], proc[p].pc)
      /\ op(p) = Program[exercise][proc[p].pc][2] /\ arg(p) = Program[exercise][proc[p].pc][3]
      /\ arg2(p) = Program[exercise][proc[p].pc][4]
  <2>1. proc[p].code = "command" => op(p) = "exit"
    BY Here, InstructionFacts DEF op, text, Program, command
  <2>2. op(p) \in {"goto", "either", "loop", "background", "foreground", "add", "atexit", "error"}
    BY DEF Control, at
  <2> QED BY <2>1, <2>2, HereKid
<1>2. op(p) \in {"goto", "loop", "add", "error"}
  <2>1. op(p) \in {"goto", "either", "loop", "background", "foreground", "add", "atexit", "error"}
    BY DEF Control, at
  <2> QED BY <1>1, <2>1 DEF KidCode
<1>3. CASE op(p) = "error"
  <2>1. unix_error(p)
    BY <1>3 DEF Control, at
  <2> QED BY <2>1, KidError
<1>4. ASSUME NEW l, op(p) = "goto" => l = arg(p), op(p) = "loop" => l = arg2(p), op(p) \in {"goto", "loop"},
             exercise' = exercise, failed' = failed, screen' = screen,
             proc' = [proc EXCEPT ![p] = jumps(p, l)]
      PROVE  KinInv'
  <2>1. l \in Lines(text(proc[p]))
    BY <1>4, Here DEF GoesOn, Near, op, arg, arg2
  <2>2. Leads(text(proc[p]), l, kidPcs(exercise))
    BY <1>1, <1>4 DEF KidCode
  <2>3. Alike(jumps(p, l), proc[p]) /\ jumps(p, l).pc \in kidPcs(exercise)
    BY <2>1, <2>2, SameJump DEF Same
  <2> HIDE DEF jumps
  <2> QED BY <1>4, <2>3, SameLonger, KidGoes
<1>5. CASE op(p) = "goto"
  <2>1. /\ proc' = [proc EXCEPT ![p] = jumps(p, arg(p))]
        /\ exercise' = exercise /\ failed' = failed /\ screen' = screen
    BY <1>5 DEF Control, at, Moves, Becomes, world
  <2> QED BY <1>4, <1>5, <2>1
<1>6. op(p) \in {"loop", "add"} => op(p) \in Falls /\ proc[p].pc + 1 \in kidPcs(exercise)
  BY <1>1 DEF KidCode, Falls
<1>7. CASE op(p) = "loop"
  <2> DEFINE s == sets(p, "i", proc[p].var.i + 1)
  <2>1. /\ exercise' = exercise /\ failed' = failed /\ screen' = screen
        /\ \/ proc' = [proc EXCEPT ![p] = s]
           \/ proc' = [proc EXCEPT ![p] = jumps(p, arg2(p))]
    BY <1>7 DEF Control, at, Moves, Becomes, world
  <2>2. op(p) \in Falls /\ proc[p].pc + 1 \in kidPcs(exercise)
    BY <1>6, <1>7
  <2>3. Alike(s, proc[p]) /\ s.pc = proc[p].pc + 1
    BY <2>2, AlikeNext
  <2> HIDE DEF s
  <2>4. CASE proc' = [proc EXCEPT ![p] = jumps(p, arg2(p))]
    BY <1>4, <1>7, <2>1, <2>4
  <2> HIDE DEF jumps
  <2> QED BY <2>1, <2>2, <2>3, <2>4, SameLonger, KidGoes
<1>8. CASE op(p) = "add"
  <2> DEFINE s == sets(p, "n", proc[p].var.n + arg(p))
  <2>1. /\ exercise' = exercise /\ failed' = failed /\ screen' = screen
        /\ proc' = [proc EXCEPT ![p] = s]
    BY <1>8 DEF Control, at, Moves, Becomes, world
  <2>2. op(p) \in Falls /\ proc[p].pc + 1 \in kidPcs(exercise)
    BY <1>6, <1>8
  <2>3. Alike(s, proc[p]) /\ s.pc = proc[p].pc + 1
    BY <2>2, AlikeNext
  <2> HIDE DEF s
  <2> QED BY <2>1, <2>2, <2>3, SameLonger, KidGoes
<1> QED BY <1>2, <1>3, <1>5, <1>7, <1>8

\* A child of crashes.c ends by the signal it has got.
LEMMA KidDeliver ==
  ASSUME MachineInv, KinInv, exercise \in Kin, NEW p \in Pid \ {1}, Deliver(p)
  PROVE  KinInv'
<1>1. runs(p) /\ \E s \in deliverable(p) : (proc[p].handler[s] = 0 => Killed(p))
  BY DEF Deliver
<1>2. KidOf(exercise, proc[p], p)
  BY <1>1, HereKid
<1>3. \A s \in deliverable(p) : proc[p].handler[s] = 0
  BY <1>2 DEF deliverable, KidOf
<1>4. Killed(p)
  BY <1>1, <1>3
<1> QED BY <1>1, <1>4, KidError

LEMMA KidCrash ==
  ASSUME MachineInv, KinInv, exercise \in Kin, NEW p \in Pid \ {1}, Crash(p)
  PROVE  KinInv'
<1> DEFINE r == proc[p]
           s == [r EXCEPT !.pending = r.pending \cup {"SEGV"}]
<1>1. runs(p) /\ KidOf(exercise, r, p) /\ r \in Process
  BY HereKid, Here DEF Crash, at
<1>2. /\ proc' = [proc EXCEPT ![p] = s] /\ exercise' = exercise /\ failed' = failed /\ screen' = screen
  BY <1>1 DEF Crash, sent, runs, Moves, Becomes, world
<1> HIDE DEF r
<1>3. s.st = r.st /\ s.parent = r.parent /\ s.leader = r.leader /\ s.code = r.code /\ s.pc = r.pc
  BY <1>1 DEF Process
<1>4. s.pending = r.pending \cup {"SEGV"} /\ s.alarm = r.alarm /\ s.handler = r.handler /\ s.frames = r.frames
  BY <1>1 DEF Process
<1> HIDE DEF s
<1>5. KidOf(exercise, s, p) /\ s.st = "run" /\ s.parent = proc[p].parent
  BY <1>1, <1>3, <1>4 DEF KidOf, runs, r
<1> QED BY <1>1, <1>2, <1>5, SameLonger, KidStep

\* It becomes the command, or goes on.
LEMMA KidExec ==
  ASSUME MachineInv, KinInv, exercise \in Kin, NEW p \in Pid \ {1}, runs(p), proc[p].code = exercise,
         op(p) = "exec", Execve(p)
  PROVE  KinInv'
<1> DEFINE r == proc[p]
           h == [x \in Sig |-> 0]
           s == [r EXCEPT !.code = "command", !.pc = 1, !.out = <<>>, !.frames = <<>>,
                          !.handler = h, !.atexit = 0, !.jump = noJump]
<1>1. /\ KidOf(exercise, r, p) /\ r \in Process /\ arg(p) = "command" /\ op(p) \in Falls
      /\ r.pc + 1 \in kidPcs(exercise)
  BY HereKid, Here DEF KidCode, Falls
<1>2. /\ exercise' = exercise /\ failed' = failed /\ screen' = screen
      /\ proc' = [proc EXCEPT ![p] = next(r)] \/ proc' = [proc EXCEPT ![p] = s]
  BY <1>1 DEF Execve, Moves, Becomes, world
<1>3. CASE proc' = [proc EXCEPT ![p] = next(r)]
  <2>1. Alike(next(r), r) /\ next(r).pc = r.pc + 1
    BY <1>1, AlikeNext
  <2> HIDE DEF next
  <2> QED BY <1>1, <1>2, <1>3, <2>1, SameLonger, KidGoes
<1>4. CASE proc' = [proc EXCEPT ![p] = s]
  <2>1. h["SEGV"] = 0
    BY DEF Sig
  <2> HIDE DEF r, h
  <2>2. s.st = r.st /\ s.parent = r.parent /\ s.leader = r.leader /\ s.code = "command"
    BY <1>1 DEF Process
  <2>3. s.pending = r.pending /\ s.alarm = r.alarm /\ s.handler = h /\ s.frames = <<>>
    BY <1>1 DEF Process
  <2> HIDE DEF s
  <2>4. KidOf(exercise, s, p) /\ s.st = "run" /\ s.parent = proc[p].parent
    BY <1>1, <2>1, <2>2, <2>3 DEF KidOf, runs, r
  <2> QED BY <1>2, <1>4, <2>4, SameLonger, KidStep
<1> QED BY <1>2, <1>3, <1>4

\* The child of 8_23.c sends a signal to its parent, which waits for it and
\* has its handler.
LEMMA KidKill ==
  ASSUME MachineInv, KinInv, exercise \in Kin, NEW p \in Pid \ {1}, runs(p), proc[p].code = exercise,
         op(p) = "kill", Kill(p)
  PROVE  KinInv'
<1> DEFINE r == proc[1]
           s == sent(r, "USR2")
           t == [r EXCEPT !.pending = r.pending \cup {"USR2"}]
           u == next(proc[p])
           Q == [proc EXCEPT ![p] = u, ![1] = s]
<1>1. /\ exercise = "count_signals" /\ arg(p) = "parent" /\ arg2(p) = "USR2" /\ op(p) \in Falls
      /\ proc[p].pc + 1 \in kidPcs(exercise)
  <2>1. proc[p].code # "command"
    BY ProgramsKnow DEF Kin
  <2> QED BY <2>1, HereKid DEF KidCode, Falls
<1>2. CASE unix_error(p)
  BY <1>2, KidError
<1>3. CASE ~unix_error(p)
  <2>1. /\ Kinship(exercise, proc, screen, failed) /\ 1 \in Pid /\ proc \in [Pid -> Process]
        /\ screen \in Seq(Entry) /\ KidOf(exercise, proc[p], p) /\ proc[p].parent \in {0, 1}
    BY Setting, HereKid DEF MachineInv
  <2>2. /\ proc[p].parent = 1 /\ r.st \in {"run", "zombie"} /\ proc' = Q
        /\ exercise' = exercise /\ failed' = failed /\ screen' = screen
    BY <1>1, <1>3, <2>1 DEF Kill, world
  <2>3. Alike(u, proc[p]) /\ u.pc \in kidPcs(exercise)
    BY <1>1, AlikeNext
  <2>4. r \in Process /\ (s = r \/ (s = t /\ r.st = "run"))
    BY <2>1 DEF sent
  <2> HIDE DEF r, u
  <2>5. t.st = r.st /\ t.parent = r.parent /\ t.leader = r.leader /\ t.code = r.code
    BY <2>4 DEF Process
  <2>6. t.alarm = r.alarm /\ t.frames = r.frames /\ t.mask = r.mask /\ t.handler = r.handler
    BY <2>4 DEF Process
  <2>7. t.pc = r.pc /\ t.pending = r.pending \cup {"USR2"} /\ t.var = r.var
    BY <2>4 DEF Process
  <2> HIDE DEF s, t
  <2>8. /\ Q[p] = u /\ Q[1] = s /\ \A q \in Pid \ {1, p} : Q[q] = proc[q]
    BY <2>1
  <2> HIDE DEF Q
  <2>9. /\ s.st = r.st /\ s.parent = r.parent /\ s.leader = r.leader /\ s.var = r.var
        /\ mainPc(s) = mainPc(r)
    BY <2>4, <2>5, <2>6, <2>7 DEF mainPc
  <2>10. KidOf(exercise, u, p) /\ u.st = "run" /\ u.parent = 1
    BY <2>1, <2>2, <2>3 DEF KidOf, Alike, runs
  <2>11. left(Q) = left(proc) /\ \A q \in Pid : Q[q].st = proc[q].st /\ Q[q].parent = proc[q].parent
    BY <2>2, <2>8, <2>9, <2>10 DEF left, runs, r
  <2>12. ASSUME r.st = "run" PROVE Knowing(exercise, Q, screen)
    <3>1. Knowing(exercise, proc, screen) /\ FirstOf(exercise, r)
      BY <2>1, <2>12 DEF Kinship, Knowing, r
    <3>2. p \in left(proc)
      BY DEF left, runs
    <3>3. mainPc(r) = 9 /\ r.handler["USR2"] # 0
      BY <1>1, <3>1, <3>2 DEF Knowing, known, listed, holdPcs, FirstOf, taken, r
    <3>4. FirstOf(exercise, s)
      <4> DEFINE c == exercise
      <4>1. taken(c) = {"USR2"} /\ c # "eval"
        BY <1>1 DEF taken
      <4>2. s.code = r.code /\ s.alarm = r.alarm /\ s.frames = r.frames /\ s.mask = r.mask /\ s.handler = r.handler
            /\ s.pending \subseteq r.pending \cup {"USR2"}
        BY <2>4, <2>5, <2>6, <2>7
      <4>3. s.pending \subseteq {x \in taken(c) : s.handler[x] # 0}
        BY <3>1, <3>3, <4>1, <4>2 DEF FirstOf
      <4> QED BY <2>9, <3>1, <4>1, <4>2, <4>3 DEF FirstOf
    <3>5. left(Q) \subseteq known(exercise, s, screen)
      BY <1>1, <2>9, <2>11, <3>1 DEF Knowing, known, listed, r
    <3>6. r.var.pid \in Pid \cup {0}
      BY <2>4 DEF Process, Var
    <3>7. \A q \in left(Q) : Q[q].parent = 1
      BY <2>11, <3>1 DEF Knowing, left
    <3> QED BY <2>8, <2>9, <2>11, <3>1, <3>4, <3>5, <3>6, <3>7 DEF Knowing, r
  <2>13. /\ \A q \in Pid : Q[q].parent \in {0, 1} /\ (Q[q].st # "run" => Q[q].leader = 1)
         /\ Q[1].parent = 0 /\ Q[1].leader = 1
    BY <2>1, <2>8, <2>9, <2>10, <2>11 DEF Kinship, r
  <2>14. Kinship(exercise, Q, screen, failed)
    BY <2>1, <2>8, <2>9, <2>10, <2>11, <2>12, <2>13 DEF Kinship, r
  <2> QED BY <2>2, <2>14 DEF KinInv
<1> QED BY <1>2, <1>3

LEMMA KidRuns ==
  ASSUME MachineInv, KinInv, exercise \in Kin, NEW p \in Pid \ {1}, Runs(p)
  PROVE  KinInv'
<1>1. runs(p)
  BY Operations
<1>2. CASE Deliver(p)
  BY <1>2, KidDeliver
<1>3. CASE Exit(p)
  <2>1. Exits(p) /\ UNCHANGED failed
    BY <1>1, <1>3, HereKid DEF Exit, exit
  <2> QED BY <1>1, <2>1, KidError
<1>4. CASE ~Deliver(p) /\ ~Exit(p)
  <2>1. op(p) # "exit"
    BY <1>4, Operations
  <2>2. proc[p].code = exercise /\ op(p) \in {"put", "add", "loop", "kill", "say", "sleep", "goto", "crash", "exec", "error"}
    BY <1>1, <2>1, HereKid DEF KidCode
  <2>3. \/ Deliver(p)
        \/ op(p) = "exit" /\ Exit(p)
        \/ op(p) = "crash" /\ Crash(p)
        \/ op(p) \in {"goto", "loop", "add", "error"} /\ Control(p)
        \/ op(p) = "put" /\ Put(p)
        \/ op(p) = "say" /\ Say(p)
        \/ op(p) = "exec" /\ Execve(p)
        \/ op(p) = "kill" /\ Kill(p)
        \/ op(p) = "sleep" /\ Sleep(p)
        \/ op(p) \notin {"put", "add", "loop", "kill", "say", "sleep", "goto", "crash", "exec", "error"}
    BY Operations
  <2>5. \/ Crash(p) \/ Control(p)
        \/ op(p) = "exec" /\ Execve(p)
        \/ op(p) = "kill" /\ Kill(p)
        \/ op(p) \in {"put", "say"} /\ (Put(p) \/ Say(p))
        \/ op(p) = "sleep" /\ Sleep(p)
    BY <1>4, <2>2, <2>3
  <2>4. CASE op(p) = "sleep" /\ Sleep(p)
    <3>1. op(p) \in Falls /\ proc[p].pc + 1 \in kidPcs(exercise)
      BY <1>1, <2>1, <2>4, HereKid DEF KidCode, Falls
    <3>2. /\ proc' = [proc EXCEPT ![p] = next(proc[p])]
          /\ exercise' = exercise /\ failed' = failed /\ screen' = screen
      BY <2>4 DEF Sleep, Moves, Becomes, world
    <3>3. Alike(next(proc[p]), proc[p]) /\ next(proc[p]).pc = proc[p].pc + 1
      BY <3>1, AlikeNext
    <3> HIDE DEF next
    <3> QED BY <1>1, <2>2, <3>1, <3>2, <3>3, SameLonger, KidGoes
  <2> QED BY <1>1, <2>2, <2>4, <2>5, KidCrash, KidControl, KidExec, KidKill, KidPrints
<1> QED BY <1>2, <1>3, <1>4

\* The first process stays in its part of the program.
LEMMA FirstStays ==
  ASSUME NEW c, NEW r, NEW s, FirstOf(c, r), Alike(s, r), s.fd = r.fd, mainPc(s) \notin kidPcs(c),
         c = "eval" /\ mainPc(s) = 2 => s.out = <<>>,
         mainPc(r) # 1 \/ mainPc(s) = 1 \/ taken(c) = {}
  PROVE  FirstOf(c, s)
<1>1. /\ s.code = c /\ s.alarm = FALSE /\ s.handler = r.handler /\ s.pending = r.pending
      /\ s.frames = r.frames /\ s.mask = r.mask
  BY DEF FirstOf, Alike
<1>2. /\ s.pending \subseteq {x \in taken(c) : s.handler[x] # 0}
      /\ mainPc(s) # 1 => \A x \in taken(c) : s.handler[x] # 0
      /\ \A x \in Sig \ taken(c) : s.handler[x] = 0
  BY <1>1 DEF FirstOf
<1>3. /\ Len(s.frames) <= 1 /\ (s.frames # <<>> => taken(c) \subseteq s.mask)
      /\ c = "eval" => s.fd[1] = 1 /\ (mainPc(s) = 2 => s.out = <<>>)
  BY <1>1 DEF FirstOf
<1> QED BY <1>1, <1>2, <1>3 DEF FirstOf

\* It goes on, and keeps what it holds.
LEMMA FirstGoes ==
  ASSUME MachineInv, KinInv, exercise \in Kin, exercise' = exercise, failed' = failed, screen' = screen,
         runs(1), op(1) # "signal", NEW s, proc' = [proc EXCEPT ![1] = s], Same(s, proc[1]),
         proc[1].frames = <<>> => Flows(exercise, proc[1].pc, s.pc) /\ ~(exercise = "eval" /\ s.pc = 2)
  PROVE  KinInv'
<1> DEFINE c == exercise
           r == proc[1]
<1>1. Knowing(c, proc, screen) /\ FirstOf(c, r) /\ left(proc) \subseteq known(c, r, screen)
  BY HereFirst DEF Knowing
<1>2. Alike(s, r) /\ s.fd = r.fd /\ s.out = r.out /\ s.jobs = r.jobs
      /\ s.var.child = r.var.child /\ s.var.pid = r.var.pid /\ s.frames = r.frames
  BY DEF Same, Alike
<1>3. s.st = "run" /\ s.parent = 0 /\ s.leader = 1
  BY <1>2, HereFirst DEF Alike
<1>4. /\ mainPc(s) \notin kidPcs(c) /\ (mainPc(s) \in holdPcs(c) <=> mainPc(r) \in holdPcs(c))
      /\ c = "crashes" /\ mainPc(r) # 7 => mainPc(s) # 7
      /\ c = "eval" /\ mainPc(s) = 2 => s.out = <<>>
      /\ mainPc(r) # 1 \/ mainPc(s) = 1 \/ taken(c) = {}
  <2>1. CASE r.frames = <<>>
    <3>1. mainPc(s) = s.pc /\ mainPc(r) = r.pc
      BY <1>2, <2>1 DEF mainPc
    <3>2. r.pc # 1 \/ taken(c) = {}
      BY HereFirst DEF Knows
    <3> QED BY <2>1, <3>1, <3>2 DEF Flows
  <2>2. CASE r.frames # <<>>
    <3>1. mainPc(s) = mainPc(r)
      BY <1>2, <2>2 DEF mainPc
    <3> QED BY <1>1, <1>2, <3>1 DEF FirstOf
  <2> QED BY <2>1, <2>2
<1>5. FirstOf(c, s)
  BY <1>1, <1>2, <1>4, FirstStays
<1>6. listed(c, s, screen) = listed(c, r, screen) \/ listed(c, s, screen) = Pid
  BY <1>2, <1>4 DEF listed
<1>7. left(proc) \subseteq known(c, s, screen)
  <2>1. left(proc) \subseteq Pid
    BY DEF left
  <2> QED BY <1>1, <1>2, <1>4, <1>6, <2>1 DEF known
<1> QED BY <1>2, <1>3, <1>5, <1>7, FirstStep

\* It goes on when no child is left.
LEMMA FirstAlone ==
  ASSUME MachineInv, KinInv, exercise \in Kin, exercise' = exercise, failed' = failed, screen' = screen,
         runs(1), op(1) # "signal", NEW s, proc' = [proc EXCEPT ![1] = s], Same(s, proc[1]),
         left(proc) = {}, proc[1].frames = <<>>, s.pc \notin kidPcs(exercise), exercise # "eval"
  PROVE  KinInv'
<1> DEFINE r == proc[1]
<1>1. Alike(s, r) /\ s.fd = r.fd /\ s.var.pid = r.var.pid
  BY DEF Same
<1>2. s.st = "run" /\ s.parent = 0 /\ s.leader = 1
  BY <1>1, HereFirst DEF Alike
<1>3. mainPc(s) = s.pc /\ mainPc(r) = r.pc
  BY <1>1 DEF mainPc, Alike
<1>4. FirstOf(exercise, r) /\ (r.pc # 1 \/ taken(exercise) = {})
  BY HereFirst DEF Knowing, Knows
<1>5. FirstOf(exercise, s)
  BY <1>1, <1>3, <1>4, FirstStays
<1> QED BY <1>1, <1>2, <1>5, FirstStep

LEMMA FirstNext ==
  ASSUME MachineInv, KinInv, exercise \in Kin, exercise' = exercise, failed' = failed, screen' = screen,
         runs(1), op(1) \in {"loop", "background", "foreground", "add", "sleep"},
         NEW s, proc' = [proc EXCEPT ![1] = s], Same(s, proc[1]), s.pc = proc[1].pc + 1
  PROVE  KinInv'
<1>1. ASSUME proc[1].frames = <<>>
      PROVE  Flows(exercise, proc[1].pc, s.pc) /\ ~(exercise = "eval" /\ s.pc = 2)
  <2>1. MainCode(exercise, Program[exercise], proc[1].pc) /\ op(1) = Program[exercise][proc[1].pc][2]
    BY <1>1, HereFirst
  <2> QED BY <2>1 DEF MainCode
<1>2. op(1) # "signal"
  OBVIOUS
<1> QED BY <1>1, <1>2, FirstGoes

LEMMA FirstJump ==
  ASSUME MachineInv, KinInv, exercise \in Kin, exercise' = exercise, failed' = failed, screen' = screen,
         runs(1), NEW l, proc' = [proc EXCEPT ![1] = jumps(1, l)],
         \/ op(1) \in {"goto", "foreground"} /\ l = arg(1)
         \/ op(1) \in {"loop", "input"} /\ l = arg2(1)
         \/ op(1) \in {"either", "input"} /\ l \in arg(1)
  PROVE  KinInv'
<1> DEFINE s == jumps(1, l)
           P == Program[exercise]
           k == proc[1].pc
<1>1. l \in Lines(text(proc[1])) /\ 1 \in Pid
  BY Setting, Here DEF GoesOn, Near, op, arg, arg2
<1>2. Same(s, proc[1]) /\ \A S : Leads(text(proc[1]), l, S) => s.pc \in S
  BY <1>1, SameJump
<1>3. ASSUME proc[1].frames = <<>>
      PROVE  Flows(exercise, k, s.pc) /\ ~(exercise = "eval" /\ s.pc = 2)
  <2> DEFINE on == {j \in DOMAIN P : Flows(exercise, k, j) /\ ~(exercise = "eval" /\ j = 2)}
  <2>1. /\ MainCode(exercise, P, k) /\ op(1) = P[k][2] /\ arg(1) = P[k][3] /\ arg2(1) = P[k][4]
        /\ text(proc[1]) = P
    BY <1>3, HereFirst
  <2>2. Leads(P, l, on)
    BY <2>1 DEF MainCode
  <2>3. s.pc \in on
    BY <1>2, <2>1, <2>2
  <2> HIDE DEF s
  <2> QED BY <2>3
<1>4. op(1) # "signal"
  OBVIOUS
<1> HIDE DEF s
<1> QED BY <1>2, <1>3, <1>4, FirstGoes DEF s

LEMMA FirstError ==
  ASSUME MachineInv, KinInv, exercise \in Kin, runs(1), unix_error(1)
  PROVE  KinInv'
<1>1. exercise' = exercise /\ proc' = without(1) /\ failed' # {}
  <2>1. \A j \in DOMAIN text(proc[1]) : text(proc[1])[j][2] # "atexit"
    BY HereFirst, ProgramsKnow DEF Knows
  <2>2. 1 \in Pid
    BY Setting
  <2> QED BY <2>1, <2>2, ErrorEnds DEF Exits, world
<1> QED BY <1>1, FirstEnds

LEMMA FirstExit ==
  ASSUME MachineInv, KinInv, exercise \in Kin, runs(1), op(1) = "exit", Exit(1)
  PROVE  KinInv'
<1>1. /\ Knows(exercise, Program[exercise], cut(exercise), proc[1].pc)
      /\ left(proc) \subseteq known(exercise, proc[1], screen) /\ 1 \in Pid /\ text(proc[1]) = Program[exercise]
  BY HereFirst DEF Knowing
<1>2. proc[1].frames = <<>>
  <2>1. proc[1].frames # <<>> => HandlerCode(exercise, Program[exercise], proc[1].pc)
        /\ op(1) = Program[exercise][proc[1].pc][2]
    BY HereFirst
  <2> QED BY <2>1 DEF HandlerCode
<1>3. MainCode(exercise, Program[exercise], proc[1].pc) /\ op(1) = Program[exercise][proc[1].pc][2]
      /\ mainPc(proc[1]) = proc[1].pc
  BY <1>2, HereFirst
<1>4. proc[1].atexit = 0
  <2>1. \A j \in DOMAIN Program[exercise] : Program[exercise][j][2] # "atexit"
    BY ProgramsKnow DEF Knows
  <2> QED BY <1>1, <2>1, Here DEF Good, Installed
<1>5. exercise' = exercise /\ proc' = without(1)
  BY <1>4 DEF Exit, exit, Exits, world
<1>6. exercise \in Waiting => left(proc) = {}
  <2>1. proc[1].pc \notin holdPcs(exercise) /\ (exercise = "crashes" => proc[1].pc = 7)
    BY <1>3 DEF MainCode
  <2> QED BY <1>1, <1>3, <2>1 DEF Waiting, known, listed
<1> QED BY <1>5, <1>6, FirstEnds

LEMMA FirstControl ==
  ASSUME MachineInv, KinInv, exercise \in Kin, runs(1), Control(1), op(1) \notin {"error", "atexit"}
  PROVE  KinInv'
<1> DEFINE Still == exercise' = exercise /\ failed' = failed /\ screen' = screen
<1>1. op(1) \in {"goto", "either", "loop", "background", "foreground", "add"} /\ Still /\ 1 \in Pid
  BY Setting DEF Control, at, Moves, world
<1>2. CASE op(1) \in {"goto", "either"}
  <2>1. PICK l : /\ proc' = [proc EXCEPT ![1] = jumps(1, l)]
                 /\ \/ op(1) = "goto" /\ l = arg(1)
                    \/ op(1) = "either" /\ l \in arg(1)
    BY <1>2 DEF Control, at, Moves, Becomes
  <2> QED BY <1>1, <2>1, FirstJump
<1>3. op(1) \in {"loop", "background", "add", "foreground"} => op(1) \in Falls
  BY DEF Falls
<1>4. CASE op(1) = "loop"
  <2> DEFINE s == sets(1, "i", proc[1].var.i + 1)
  <2>1. \/ proc' = [proc EXCEPT ![1] = jumps(1, arg2(1))]
        \/ proc' = [proc EXCEPT ![1] = s]
    BY <1>4 DEF Control, at, Moves, Becomes
  <2>2. CASE proc' = [proc EXCEPT ![1] = jumps(1, arg2(1))]
    BY <1>1, <1>4, <2>2, FirstJump
  <2>3. Same(s, proc[1]) /\ s.pc = proc[1].pc + 1
    BY <1>1, <1>3, <1>4, SameNext
  <2> HIDE DEF s
  <2> QED BY <1>1, <1>4, <2>1, <2>2, <2>3, FirstNext
<1>5. CASE op(1) = "background"
  <2>1. PICK x : proc' = [proc EXCEPT ![1] = sets(1, "n", x)]
    BY <1>5 DEF Control, at, Moves, Becomes
  <2> DEFINE s == sets(1, "n", x)
  <2>2. Same(s, proc[1]) /\ s.pc = proc[1].pc + 1
    BY <1>1, <1>3, <1>5, SameNext
  <2>3. proc' = [proc EXCEPT ![1] = s]
    BY <2>1
  <2> HIDE DEF s
  <2> QED BY <1>1, <1>5, <2>2, <2>3, FirstNext
<1>6. CASE op(1) = "add"
  <2> DEFINE s == sets(1, "n", proc[1].var.n + arg(1))
  <2>1. proc' = [proc EXCEPT ![1] = s]
    BY <1>6 DEF Control, at, Moves, Becomes
  <2>2. Same(s, proc[1]) /\ s.pc = proc[1].pc + 1
    BY <1>1, <1>3, <1>6, SameNext
  <2> HIDE DEF s
  <2> QED BY <1>1, <1>6, <2>1, <2>2, FirstNext
<1>7. CASE op(1) = "foreground"
  <2>1. \/ proc' = [proc EXCEPT ![1] = jumps(1, arg(1))]
        \/ proc' = [proc EXCEPT ![1] = next(proc[1])]
    BY <1>7 DEF Control, at, Moves, Becomes
  <2>2. CASE proc' = [proc EXCEPT ![1] = jumps(1, arg(1))]
    BY <1>1, <1>7, <2>2, FirstJump
  <2>3. CASE proc' = [proc EXCEPT ![1] = next(proc[1])]
    <3>1. Same(next(proc[1]), proc[1]) /\ next(proc[1]).pc = proc[1].pc + 1
      BY <1>1, <1>3, <1>7, SameNext
    <3> HIDE DEF next
    <3> QED BY <1>1, <1>7, <2>3, <3>1, FirstNext
  <2> QED BY <2>1, <2>2, <2>3
<1> QED BY <1>1, <1>2, <1>4, <1>5, <1>6, <1>7

\* What it prints goes to the screen or stays in its buffer.
LEMMA FirstPrints ==
  ASSUME MachineInv, KinInv, exercise \in Kin, runs(1), op(1) \in {"put", "say"}, Put(1) \/ Say(1)
  PROVE  KinInv'
<1> DEFINE c == exercise
           r == proc[1]
           P == Program[exercise]
           k == proc[1].pc
           x == <<printed(1)>>
           out == Append(r.out, printed(1))
           t == next(r)
<1>1. /\ 1 \in Pid /\ FirstOf(c, r) /\ left(proc) \subseteq known(c, r, screen)
      /\ op(1) = P[k][2] /\ Knows(c, P, cut(c), k)
      /\ t \in Process /\ op(1) \in Falls /\ op(1) # "signal"
  <2>1. op(1) \in Falls
    BY DEF Falls
  <2>2. 1 \in Pid
    BY Setting
  <2>3. t \in Process
    BY <2>1, <2>2, Here, NextGood DEF op, Good
  <2> QED BY <2>1, <2>2, <2>3, HereFirst DEF Knowing
<1>2. r.frames = <<>>
  <2>1. r.frames # <<>> => HandlerCode(c, P, k)
    BY HereFirst
  <2> QED BY <1>1, <2>1 DEF HandlerCode
<1>3. MainCode(c, P, k) /\ mainPc(r) = k /\ arg(1) = P[k][3] /\ line(1) = P[k][1] /\ instr(1) = P[k]
  BY <1>2, HereFirst
<1>4. /\ Same(t, r) /\ t.pc = k + 1
      /\ \A y : Alike([t EXCEPT !.out = y], r) /\ [t EXCEPT !.out = y].pc = k + 1
  BY <1>1, SameNext, AlikeNext
<1>5. /\ r.out \in Seq(Entry) /\ printed(1) \in Entry /\ x \in Seq(Entry) /\ out = r.out \o x
      /\ out \in Seq(Entry) /\ screen \in Seq(Entry)
  <2>1. r.out \in Seq(Entry) /\ printed(1) \in Entry
    BY <1>1, Here, PrintedIsEntry DEF Process
  <2>2. ASSUME NEW q \in Seq(Entry), NEW e \in Entry
        PROVE  Append(q, e) = q \o <<e>> /\ Append(q, e) \in Seq(Entry) /\ <<e>> \in Seq(Entry)
    OBVIOUS
  <2>3. screen \in Seq(Entry)
    BY DEF MachineInv
  <2> QED BY <2>1, <2>2, <2>3
<1>6. Numbers(49, out) = Numbers(49, r.out) \cup Numbers(49, x)
  <2> HIDE DEF out, x
  <2> QED BY <1>5, NumbersGrow
<1>7. PICK y : /\ proc' = [proc EXCEPT ![1] = [t EXCEPT !.out = y]] /\ exercise' = exercise /\ failed' = failed
               /\ \/ screen' = screen /\ y = out
                  \/ op(1) = "say" /\ screen' = screen \o out /\ y = <<>>
               /\ op(1) = "say" /\ onTerminal(1) => y = <<>>
  <2>1. CASE Put(1)
    <3>1. op(1) = "put"
      BY <2>1 DEF Put, at
    <3>2. t.out = r.out
      BY <1>4 DEF Same
    <3>3. /\ proc' = [proc EXCEPT ![1] = [t EXCEPT !.out = out]] /\ exercise' = exercise /\ failed' = failed
          /\ screen' = screen
      BY <2>1, <3>2 DEF Put, Moves, Becomes, world
    <3> HIDE DEF t, out
    <3> QED BY <3>1, <3>3
  <2>2. CASE Say(1)
    <3>1. \/ /\ proc' = [proc EXCEPT ![1] = [t EXCEPT !.out = <<>>]] /\ screen' = screen \o out
             /\ exercise' = exercise /\ failed' = failed /\ op(1) = "say"
          \/ /\ proc' = [proc EXCEPT ![1] = [t EXCEPT !.out = out]] /\ screen' = screen
             /\ exercise' = exercise /\ failed' = failed /\ ~onTerminal(1)
      BY <2>2 DEF Say, Moves, Becomes, world, at
    <3> HIDE DEF t, out
    <3> QED BY <3>1
  <2> QED BY <2>1, <2>2
<1> DEFINE s == [t EXCEPT !.out = y]
<1> HIDE DEF t
<1>8. s.out = y /\ s.jobs = r.jobs /\ s.fd = r.fd /\ s.var.child = r.var.child /\ s.var.pid = r.var.pid
  <2>1. s.out = y /\ s.jobs = t.jobs /\ s.fd = t.fd /\ s.var = t.var
    BY <1>1 DEF Process
  <2> HIDE DEF s
  <2> QED BY <1>4, <2>1 DEF Same
<1>9. Alike(s, r) /\ s.pc = k + 1
  BY <1>4
<1> HIDE DEF s
<1>10. mainPc(s) = k + 1
  BY <1>2, <1>9 DEF mainPc, Alike
<1>11. s.st = "run" /\ s.parent = 0 /\ s.leader = 1
  BY <1>9, HereFirst DEF Alike
<1>12. /\ k + 1 \notin kidPcs(c) /\ (c = "eval" /\ k + 1 = 2 => op(1) = "say")
       /\ c = "crashes" /\ k # 7 => k + 1 # 7
       /\ c # "eval" => (k + 1 \in holdPcs(c) <=> k \in holdPcs(c))
       /\ c = "eval" /\ op(1) = "say" => (k + 1 \in holdPcs(c) <=> k \in holdPcs(c))
  BY <1>1, <1>3 DEF MainCode, Flows
<1>13. FirstOf(c, s)
  <2>1. c = "eval" /\ mainPc(s) = 2 => s.out = <<>>
    BY <1>1, <1>7, <1>8, <1>10, <1>12 DEF FirstOf, onTerminal
  <2>2. k # 1 \/ taken(c) = {}
    BY <1>1 DEF Knows
  <2> QED BY <1>1, <1>3, <1>8, <1>9, <1>10, <1>12, <2>1, <2>2, FirstStays
<1>14. left(proc) \subseteq known(c, s, screen')
  <2>1. CASE c # "eval"
    <3>1. left(proc) \subseteq Pid
      BY DEF left
    <3>2. left(proc) \subseteq listed(c, r, screen) \cup (IF k \in holdPcs(c) THEN {r.var.child} ELSE {})
      BY <1>1, <1>3 DEF known
    <3>3. left(proc) \subseteq listed(c, s, screen') \cup (IF k \in holdPcs(c) THEN {r.var.child} ELSE {})
      BY <1>3, <1>8, <1>10, <1>12, <2>1, <3>1, <3>2 DEF listed
    <3> QED BY <1>8, <1>10, <1>12, <2>1, <3>3 DEF known
  <2>2. CASE c = "eval"
    <3> DEFINE L == Numbers(49, screen) \cup Numbers(49, r.out) \cup Numbers(49, x)
    <3>1. listed(c, s, screen') = L \/ listed(c, s, screen') = L \cup Numbers(49, <<>>)
      <4> HIDE DEF x, out
      <4>1. Numbers(49, screen \o out) = Numbers(49, screen) \cup Numbers(49, out)
        <5>1. \A S, T \in Seq(Entry) : Numbers(49, S \o T) = Numbers(49, S) \cup Numbers(49, T)
          BY NumbersGrow
        <5> QED BY <1>5, <5>1
      <4> QED BY <1>6, <1>7, <1>8, <2>2, <4>1 DEF listed
    <3>2. listed(c, r, screen) \subseteq listed(c, s, screen') /\ Numbers(49, x) \subseteq listed(c, s, screen')
      <4> HIDE DEF x
      <4> QED BY <2>2, <3>1 DEF listed
    <3>3. CASE op(1) = "say"
      BY <1>1, <1>3, <1>8, <1>10, <1>12, <2>2, <3>2, <3>3 DEF known
    <3>4. CASE op(1) = "put"
      <4>1. Len(P[k]) = 3 /\ arg(1) = "child" /\ line(1) = 49
        BY <1>1, <1>3, <2>2, <3>4 DEF MainCode
      <4>2. printed(1) = <<1, 49, r.var.child>>
        BY <1>3, <4>1 DEF printed
      <4>3. Numbers(49, x) = {r.var.child}
        BY <4>2 DEF Numbers
      <4> HIDE DEF x
      <4> QED BY <1>1, <3>2, <4>3 DEF known
    <3> QED BY <1>1, <3>3, <3>4
  <2> QED BY <2>1, <2>2
<1> QED BY <1>7, <1>8, <1>11, <1>13, <1>14, FirstStep DEF s

\* The job list of promask1: the child that main() has just made, and the
\* child that the handler has waited for.
LEMMA FirstJobs ==
  ASSUME MachineInv, KinInv, exercise \in Kin, runs(1),
         (op(1) = "addjob" /\ addjob(1)) \/ (op(1) = "deletejob" /\ deletejob(1))
  PROVE  KinInv'
<1> DEFINE c == exercise
           r == proc[1]
           P == Program[exercise]
           k == proc[1].pc
           t == next(r)
<1>1. /\ 1 \in Pid /\ Knowing(c, proc, screen) /\ FirstOf(c, r) /\ left(proc) \subseteq known(c, r, screen)
      /\ op(1) = P[k][2] /\ Knows(c, P, cut(c), k)
      /\ t \in Process /\ op(1) \in Falls /\ op(1) # "signal"
  <2>1. op(1) \in Falls
    BY DEF Falls
  <2>2. 1 \in Pid
    BY Setting
  <2>3. t \in Process
    BY <2>1, <2>2, Here, NextGood DEF op, Good
  <2> QED BY <2>1, <2>2, <2>3, HereFirst DEF Knowing
<1>2. PICK J : /\ proc' = [proc EXCEPT ![1] = [t EXCEPT !.jobs = J]]
               /\ exercise' = exercise /\ failed' = failed /\ screen' = screen
               /\ \/ op(1) = "addjob" /\ J = r.jobs \cup {r.var.child}
                  \/ op(1) = "deletejob" /\ J = r.jobs \ {r.var.pid}
  <2>1. t.jobs = r.jobs
    BY <1>1, SameNext DEF Same
  <2>2. CASE op(1) = "addjob"
    <3> DEFINE J == r.jobs \cup {r.var.child}
    <3>1. /\ proc' = [proc EXCEPT ![1] = [t EXCEPT !.jobs = J]]
          /\ exercise' = exercise /\ failed' = failed /\ screen' = screen
      BY <2>1, <2>2 DEF addjob, Moves, Becomes, world
    <3> HIDE DEF t
    <3> QED BY <2>2, <3>1
  <2>3. CASE op(1) = "deletejob"
    <3> DEFINE J == r.jobs \ {r.var.pid}
    <3>1. /\ proc' = [proc EXCEPT ![1] = [t EXCEPT !.jobs = J]]
          /\ exercise' = exercise /\ failed' = failed /\ screen' = screen
      BY <2>1, <2>3 DEF deletejob, Moves, Becomes, world
    <3> HIDE DEF t
    <3> QED BY <2>3, <3>1
  <2> QED BY <2>2, <2>3
<1> DEFINE s == [t EXCEPT !.jobs = J]
<1>3. Alike(s, r) /\ s.pc = k + 1 /\ Same(t, r)
  BY <1>1, SameNext, AlikeNext
<1> HIDE DEF t
<1>4. s.jobs = J /\ s.out = r.out /\ s.fd = r.fd /\ s.var.child = r.var.child /\ s.var.pid = r.var.pid
  <2>1. s.jobs = J /\ s.out = t.out /\ s.fd = t.fd /\ s.var = t.var
    BY <1>1 DEF Process
  <2> HIDE DEF s
  <2> QED BY <1>3, <2>1 DEF Same
<1> HIDE DEF s
<1>5. s.st = "run" /\ s.parent = 0 /\ s.leader = 1 /\ s.frames = r.frames
  BY <1>3, HereFirst DEF Alike
<1>6. /\ c = "promask1"
      /\ op(1) = "addjob" => /\ r.frames = <<>> /\ mainPc(r) = k /\ mainPc(s) = k + 1 /\ k # 1
                             /\ k + 1 \notin kidPcs(c)
      /\ op(1) = "deletejob" => mainPc(s) = mainPc(r)
  <2>1. /\ r.frames = <<>> => MainCode(c, P, k)
        /\ r.frames # <<>> => HandlerCode(c, P, k)
    BY HereFirst
  <2>2. op(1) = "addjob" => r.frames = <<>> /\ c = "promask1" /\ k + 1 \notin kidPcs(c)
    BY <1>1, <2>1 DEF MainCode, HandlerCode
  <2>3. op(1) = "deletejob" => r.frames # <<>> /\ c = "promask1"
    BY <1>1, <2>1 DEF MainCode, HandlerCode
  <2>4. k = 1 => op(1) = "signal" \/ taken(c) = {}
    BY <1>1 DEF Knows
  <2> QED BY <1>1, <1>3, <1>5, <2>2, <2>3, <2>4 DEF mainPc, taken
<1>7. FirstOf(c, s)
  <2>1. mainPc(s) \notin kidPcs(c) /\ (mainPc(r) # 1 \/ mainPc(s) = 1) /\ c # "eval"
    BY <1>1, <1>2, <1>6 DEF FirstOf
  <2> QED BY <1>1, <1>3, <1>4, <2>1, FirstStays
<1>8. left(proc) \subseteq known(c, s, screen)
  <2>1. left(proc) \subseteq r.jobs \cup (IF mainPc(r) \in holdPcs(c) THEN {r.var.child} ELSE {})
    BY <1>1, <1>6 DEF known, listed
  <2>2. r.var.pid \notin left(proc)
    <3>1. r.var.pid # 0 => proc[r.var.pid].st = "gone"
      BY <1>1 DEF Knowing
    <3> QED BY <3>1, Setting DEF left
  <2>3. left(proc) \subseteq J \cup (IF mainPc(s) \in holdPcs(c) THEN {s.var.child} ELSE {})
    BY <1>2, <1>4, <1>6, <2>1, <2>2
  <2> QED BY <1>4, <1>6, <2>3 DEF known, listed
<1> QED BY <1>2, <1>4, <1>5, <1>7, <1>8, FirstStep DEF s

LEMMA FirstSignal ==
  ASSUME MachineInv, KinInv, exercise \in Kin, runs(1), op(1) = "signal", Signal(1)
  PROVE  KinInv'
<1> DEFINE c == exercise
           r == proc[1]
           P == Program[exercise]
           k == proc[1].pc
           t == next(r)
           g == arg(1)
           h == [t.handler EXCEPT ![g] = arg2(1)]
           s == [t EXCEPT !.handler = h]
<1>1. /\ 1 \in Pid /\ FirstOf(c, r) /\ left(proc) \subseteq known(c, r, screen)
      /\ op(1) = P[k][2] /\ g = P[k][3] /\ arg2(1) = P[k][4] /\ op(1) \in Falls
  <2>1. op(1) \in Falls
    BY DEF Falls
  <2> QED BY <2>1, HereFirst DEF Knowing
<1>2. r.frames = <<>>
  <2>1. r.frames # <<>> => HandlerCode(c, P, k)
    BY HereFirst
  <2> QED BY <1>1, <2>1 DEF HandlerCode
<1>3. /\ MainCode(c, P, k) /\ mainPc(r) = k
  BY <1>2, HereFirst
<1>4. /\ Flows(c, k, k + 1) /\ ~(c = "eval" /\ k + 1 = 2) /\ g \in taken(c) /\ arg2(1) # 0
  BY <1>1, <1>3 DEF MainCode
<1>5. /\ taken(c) = {g} /\ g \in Sig /\ g # "KILL"
  BY <1>4 DEF taken, Sig
<1>6. /\ proc' = [proc EXCEPT ![1] = s] /\ exercise' = exercise /\ failed' = failed /\ screen' = screen
  BY <1>5 DEF Signal, Moves, Becomes, world
<1>7. t \in Process /\ Same(t, r) /\ t.pc = k + 1
  BY <1>1, Here, NextGood, SameNext DEF op, Good
<1> HIDE DEF t
<1>8. /\ h[g] # 0 /\ \A x \in Sig \ {g} : h[x] = t.handler[x]
  <2>1. t.handler \in [Sig -> Nat]
    BY <1>7 DEF Process
  <2> QED BY <1>4, <1>5, <2>1
<1> HIDE DEF h
<1>9. s.st = t.st /\ s.parent = t.parent /\ s.leader = t.leader /\ s.code = t.code
  BY <1>7 DEF Process
<1>10. s.pending = t.pending /\ s.alarm = t.alarm /\ s.handler = h /\ s.frames = t.frames /\ s.mask = t.mask
  BY <1>7 DEF Process
<1>11. s.pc = t.pc /\ s.var = t.var /\ s.out = t.out /\ s.jobs = t.jobs /\ s.fd = t.fd
  BY <1>7 DEF Process
<1> HIDE DEF s
<1>12. /\ s.st = "run" /\ s.parent = 0 /\ s.leader = 1 /\ s.code = c /\ s.alarm = FALSE
       /\ s.pending = r.pending /\ s.handler = h /\ s.frames = <<>> /\ t.handler = r.handler
  BY <1>1, <1>2, <1>7, <1>9, <1>10, HereFirst DEF Same, Alike, FirstOf
<1>13. /\ s.var.child = r.var.child /\ s.var.pid = r.var.pid /\ s.out = r.out /\ s.jobs = r.jobs /\ s.fd = r.fd
       /\ mainPc(s) = k + 1
  BY <1>7, <1>11, <1>12 DEF Same, mainPc
<1>14. FirstOf(c, s)
  <2>1. s.pending \subseteq {x \in taken(c) : s.handler[x] # 0}
    BY <1>1, <1>5, <1>8, <1>12 DEF FirstOf
  <2>2. /\ mainPc(s) # 1 => \A x \in taken(c) : s.handler[x] # 0
        /\ \A x \in Sig \ taken(c) : s.handler[x] = 0
    BY <1>1, <1>5, <1>8, <1>12 DEF FirstOf
  <2>3. Len(s.frames) <= 1 /\ c # "eval" /\ mainPc(s) \notin kidPcs(c)
    BY <1>4, <1>12, <1>13 DEF Flows, taken
  <2> QED BY <1>12, <2>1, <2>2, <2>3 DEF FirstOf
<1>15. left(proc) \subseteq known(c, s, screen)
  <2>1. listed(c, s, screen) = listed(c, r, screen)
    BY <1>4, <1>5, <1>13 DEF listed, taken
  <2> QED BY <1>1, <1>3, <1>4, <1>13, <2>1 DEF known, Flows
<1> QED BY <1>6, <1>12, <1>13, <1>14, <1>15, FirstStep DEF s

\* The failure of a call when no child is left: it goes on, or ends.
LEMMA FirstFails ==
  ASSUME MachineInv, KinInv, exercise \in Kin, runs(1), op(1) \in {"fork", "wait"},
         Fails(1, arg2(1)), proc[1].frames = <<>>, arg2(1) # 0 => left(proc) = {}
  PROVE  KinInv'
<1> DEFINE s == jumps(1, arg2(1))
           P == Program[exercise]
           k == proc[1].pc
<1>1. CASE arg2(1) = 0
  BY <1>1, FirstError DEF Fails
<1>2. CASE arg2(1) # 0
  <2>1. /\ MainCode(exercise, P, k) /\ op(1) = P[k][2] /\ arg2(1) = P[k][4] /\ text(proc[1]) = P /\ 1 \in Pid
    BY HereFirst
  <2>2. /\ exercise # "eval" /\ Leads(P, arg2(1), {l \in DOMAIN P : l \notin kidPcs(exercise)})
    BY <1>2, <2>1 DEF MainCode
  <2>3. arg2(1) \in Lines(text(proc[1]))
    BY <1>2, <2>1, Here DEF GoesOn, Near, InMain, op, arg2
  <2>4. Same(s, proc[1]) /\ s.pc \notin kidPcs(exercise)
    BY <2>1, <2>2, <2>3, SameJump
  <2>5. proc' = [proc EXCEPT ![1] = s] /\ exercise' = exercise /\ failed' = failed /\ screen' = screen
    BY <1>2 DEF Fails, Moves, Becomes, world
  <2> HIDE DEF s
  <2> QED BY <1>2, <2>2, <2>4, <2>5, FirstAlone
<1> QED BY <1>1, <1>2

LEMMA FirstFork ==
  ASSUME MachineInv, KinInv, exercise \in Kin, runs(1), op(1) = "fork", Fork(1)
  PROVE  KinInv'
<1> DEFINE e == exercise
           r == proc[1]
           P == Program[exercise]
           k == proc[1].pc
           c == Least(unused)
<1>1. /\ 1 \in Pid /\ proc \in [Pid -> Process] /\ Kinship(e, proc, screen, failed)
      /\ Knowing(e, proc, screen) /\ FirstOf(e, r) /\ left(proc) \subseteq known(e, r, screen)
      /\ op(1) = P[k][2] /\ arg(1) = P[k][3] /\ arg2(1) = P[k][4] /\ text(r) = P /\ op(1) \in Falls
      /\ r.parent = 0 /\ r.leader = 1 /\ r.st = "run" /\ Knows(e, P, cut(e), k)
  <2>1. op(1) \in Falls
    BY DEF Falls
  <2> QED BY <2>1, HereFirst DEF Knowing
<1>2. r.frames = <<>>
  <2>1. r.frames # <<>> => HandlerCode(e, P, k)
    BY HereFirst
  <2> QED BY <1>1, <2>1 DEF HandlerCode
<1>3. MainCode(e, P, k) /\ mainPc(r) = k
  BY <1>2, HereFirst
<1>4. k \notin holdPcs(e) /\ k + 1 \in kidPcs(e) /\ (arg2(1) # 0 => e \notin {"eval", "promask1", "crashes"})
  BY <1>1, <1>3 DEF MainCode
<1>5. CASE ~canMake
  <2>1. Fails(1, arg2(1))
    BY <1>5 DEF Fork
  <2>2. arg2(1) # 0 => left(proc) = {}
    BY <1>1, <1>3, <1>4 DEF known, listed
  <2> QED BY <1>2, <2>1, <2>2, FirstFails
<1>6. CASE canMake
  <2> DEFINE t == next(r)
             u == goto(r, arg(1))
             child == [t EXCEPT !.parent = 1, !.leader = c, !.pending = {},
                                !.alarm = FALSE, !.var.child = 0]
             mother == [u EXCEPT !.var.child = c]
  <2>1. c \in Pid /\ proc[c].st = "none" /\ c # 1
    BY <1>1, <1>6, SomeUnused DEF unused
  <2>2. /\ proc' = [proc EXCEPT ![c] = child, ![1] = mother]
        /\ exercise' = exercise /\ failed' = failed /\ screen' = screen
    BY <1>6 DEF Fork, world
  <2>3. t \in Process /\ Same(t, r) /\ t.pc = k + 1
    BY <1>1, Here, NextGood, SameNext DEF op, Good
  <2>4. /\ u \in Process /\ Same(u, r)
        /\ u.pc \notin kidPcs(e) /\ ~(e = "eval" /\ u.pc = 2) /\ (e = "crashes" => u.pc # 7)
        /\ e # "crashes" => u.pc \in holdPcs(e)
    <3> DEFINE to == {l \in DOMAIN P : l \notin kidPcs(e) /\ ~(e = "eval" /\ l = 2)
                                       /\ (e = "crashes" => l # 7) /\ (e # "crashes" => l \in holdPcs(e))}
    <3>1. arg(1) \in Lines(text(r))
      BY <1>1, Here DEF GoesOn, op, arg
    <3>2. u \in Process
      BY <1>1, <3>1, Here, Landing
    <3>3. Leads(text(r), arg(1), to)
      BY <1>1, <1>3 DEF MainCode
    <3>4. u = jumps(1, arg(1))
      BY DEF jumps
    <3>5. Same(u, r) /\ u.pc \in to
      <4> HIDE DEF u, to
      <4> QED BY <1>1, <3>1, <3>3, <3>4, SameJump
    <3> HIDE DEF u
    <3> QED BY <3>2, <3>5
  <2> HIDE DEF t, u, c
  <2> DEFINE v == [t.var EXCEPT !.child = 0]
             w == [u.var EXCEPT !.child = c]
  <2>5. /\ child = [t EXCEPT !.parent = 1, !.leader = c, !.pending = {}, !.alarm = FALSE, !.var = v]
        /\ mother = [u EXCEPT !.var = w]
    OBVIOUS
  <2>6. w.child = c /\ w.pid = u.var.pid
    BY <2>4 DEF Process, Var
  <2> HIDE DEF child, mother, v, w
  <2>7. child.st = t.st /\ child.parent = 1 /\ child.leader = c /\ child.code = t.code
    BY <2>3, <2>5 DEF Process
  <2>8. child.pc = t.pc /\ child.pending = {} /\ child.alarm = FALSE /\ child.frames = t.frames
    BY <2>3, <2>5 DEF Process
  <2>9. child.handler = t.handler
    BY <2>3, <2>5 DEF Process
  <2>10. child.st = "run" /\ KidOf(e, child, c)
    <3>1. child.handler["SEGV"] = 0
      <4>1. "SEGV" \in Sig \ taken(e)
        BY DEF Sig, taken
      <4>2. child.handler = r.handler
        BY <2>3, <2>9 DEF Same, Alike
      <4> QED BY <1>1, <4>1, <4>2 DEF FirstOf
    <3> QED BY <1>1, <1>2, <1>4, <2>3, <2>7, <2>8, <3>1 DEF Same, Alike, FirstOf, KidOf
  <2>11. /\ Alike(mother, r) /\ mother.pc = u.pc /\ mother.fd = r.fd /\ mother.out = r.out
         /\ mother.jobs = r.jobs /\ mother.var.child = c /\ mother.var.pid = r.var.pid
    <3>1. Alike(mother, u) /\ mother.pc = u.pc
      BY <2>4, <2>5, AlikeExcept
    <3>2. mother.fd = u.fd /\ mother.out = u.out /\ mother.jobs = u.jobs /\ mother.var = w
      BY <2>4, <2>5 DEF Process
    <3> QED BY <2>4, <2>6, <3>1, <3>2 DEF Same, Alike
  <2>12. /\ mother.st = "run" /\ mother.parent = 0 /\ mother.leader = 1 /\ mother.frames = <<>>
         /\ mainPc(mother) = u.pc
    BY <1>1, <1>2, <2>11 DEF Alike, mainPc
  <2>13. proc'[1] = mother /\ proc'[c] = child /\ \A q \in Pid \ {1, c} : proc'[q] = proc[q]
    BY <1>1, <2>1, <2>2
  <2>14. left(proc') = left(proc) \cup {c}
    BY <2>1, <2>10, <2>13 DEF left
  <2>15. FirstOf(e, mother)
    <3>1. mainPc(r) # 1 \/ taken(e) = {}
      BY <1>1, <1>3 DEF Knows
    <3> QED BY <1>1, <2>4, <2>11, <2>12, <3>1, FirstStays
  <2>16. left(proc') \subseteq known(e, mother, screen)
    <3>1. left(proc) \subseteq listed(e, r, screen) /\ left(proc') \subseteq Pid
      BY <1>1, <1>3, <1>4 DEF known, left
    <3>2. CASE e = "crashes"
      BY <2>4, <2>12, <3>1, <3>2 DEF known, listed
    <3>3. CASE e # "crashes"
      <4>1. listed(e, mother, screen) = listed(e, r, screen)
        BY <2>11, <3>3 DEF listed
      <4> QED BY <2>4, <2>11, <2>12, <2>14, <3>1, <3>3, <4>1 DEF known
    <3> QED BY <3>2, <3>3
  <2>17. /\ \A q \in left(proc') : proc'[q].parent = 1
         /\ \A q \in Pid : proc'[q].parent \in {0, 1} /\ (proc'[q].st # "run" => proc'[q].leader = 1)
         /\ proc'[1].parent = 0 /\ proc'[1].leader = 1 /\ proc'[1].st = "run"
         /\ \A q \in Pid \ {1} : proc'[q].st = "run" => KidOf(e, proc'[q], q)
    <3>1. \A q \in left(proc') : q = c \/ (q \in left(proc) /\ q \in Pid \ {1, c})
      BY <2>1, <2>14 DEF left
    <3>2. \A q \in left(proc') : proc'[q].parent = 1
      BY <1>1, <2>7, <2>13, <3>1 DEF Knowing
    <3>3. /\ \A q \in Pid : proc'[q].parent \in {0, 1} /\ (proc'[q].st # "run" => proc'[q].leader = 1)
      BY <1>1, <2>7, <2>10, <2>12, <2>13 DEF Kinship
    <3>4. \A q \in Pid \ {1} : proc'[q].st = "run" => KidOf(e, proc'[q], q)
      BY <1>1, <2>10, <2>13 DEF Kinship
    <3> QED BY <2>12, <2>13, <3>2, <3>3, <3>4
  <2>18. mother.var.pid # 0 => proc'[mother.var.pid].st = "gone"
    <3> SUFFICES ASSUME r.var.pid # 0 PROVE proc'[r.var.pid].st = "gone"
      BY <2>11
    <3>1. proc[r.var.pid].st = "gone" /\ r.var.pid \in Pid
      BY <1>1 DEF Knowing, Process, Var
    <3>2. r.var.pid # 1 /\ r.var.pid # c
      BY <1>1, <2>1, <3>1
    <3> QED BY <2>13, <3>1, <3>2
  <2>19. Kinship(e, proc', screen', failed')
    BY <2>2, <2>13, <2>15, <2>16, <2>17, <2>18 DEF Kinship, Knowing
  <2> QED BY <2>2, <2>19 DEF KinInv
<1> QED BY <1>5, <1>6

\* One of its children is gone, the one that it has waited for.
LEMMA FirstWaits ==
  ASSUME MachineInv, KinInv, exercise \in Kin, runs(1), op(1) = "wait", Waitpid(1)
  PROVE  KinInv'
<1> DEFINE e == exercise
           r == proc[1]
           P == Program[exercise]
           k == proc[1].pc
           children == {q \in Pid : proc[q].parent = 1 /\ proc[q].st \in {"run", "zombie"}
                                    /\ (arg(1) = "own" => q = r.var.child)}
<1>1. /\ 1 \in Pid /\ proc \in [Pid -> Process] /\ Kinship(e, proc, screen, failed)
      /\ Knowing(e, proc, screen) /\ FirstOf(e, r) /\ left(proc) \subseteq known(e, r, screen)
      /\ op(1) = P[k][2] /\ arg(1) = P[k][3] /\ arg2(1) = P[k][4] /\ text(r) = P /\ op(1) \in Falls
      /\ r.parent = 0 /\ r.leader = 1 /\ r.st = "run" /\ Knows(e, P, cut(e), k)
  <2>1. op(1) \in Falls
    BY DEF Falls
  <2> QED BY <2>1, HereFirst DEF Knowing
<1>2. /\ r.frames = <<>> => MainCode(e, P, k) /\ mainPc(r) = k
      /\ r.frames # <<>> => HandlerCode(e, P, k)
  BY HereFirst
<1>3. CASE children = {}
  <2>1. Fails(1, arg2(1))
    BY <1>3 DEF Waitpid
  <2>2. CASE r.frames = <<>>
    <3>1. arg2(1) # 0 => left(proc) = {}
      <4> SUFFICES ASSUME arg2(1) # 0, NEW q \in left(proc) PROVE FALSE
        OBVIOUS
      <4>1. /\ e \notin {"eval", "promask1"} /\ arg(1) \in {"any", "own"} /\ (e = "crashes" => arg(1) = "any")
        BY <1>1, <1>2, <2>2 DEF MainCode
      <4>2. q \in Pid /\ proc[q].parent = 1 /\ proc[q].st \in {"run", "zombie"} /\ q \in known(e, r, screen)
        BY <1>1 DEF Knowing, left
      <4>3. e # "crashes" => q = r.var.child
        BY <4>1, <4>2 DEF known, listed, Kin
      <4> QED BY <1>3, <4>1, <4>2, <4>3
    <3> QED BY <2>1, <2>2, <3>1, FirstFails
  <2>3. CASE r.frames # <<>>
    <3> DEFINE s == jumps(1, arg2(1))
    <3>1. arg2(1) # 0
      BY <1>1, <1>2, <2>3 DEF HandlerCode
    <3>2. arg2(1) \in Lines(text(r))
      BY <1>1, <3>1, Here DEF GoesOn, Near, op, arg2
    <3>3. Same(s, r)
      BY <1>1, <3>2, SameJump
    <3>4. proc' = [proc EXCEPT ![1] = s] /\ exercise' = exercise /\ failed' = failed /\ screen' = screen
      BY <2>1, <3>1 DEF Fails, Moves, Becomes, world
    <3>5. op(1) # "signal"
      OBVIOUS
    <3> HIDE DEF s
    <3> QED BY <2>3, <3>3, <3>4, <3>5, FirstGoes
  <2> QED BY <2>2, <2>3
<1>4. CASE children # {}
  <2>1. PICK q \in children : /\ proc[q].st = "zombie"
                              /\ proc' = [proc EXCEPT ![q] = over("gone", 0), ![1] = sets(1, "pid", q)]
                              /\ exercise' = exercise /\ failed' = failed /\ screen' = screen
    BY <1>4 DEF Waitpid, world
  <2> DEFINE s == sets(1, "pid", q)
             g == over("gone", 0)
             t == next(r)
             w == [t.var EXCEPT !["pid"] = q]
  <2>2. t \in Process /\ Same(t, r) /\ t.pc = k + 1
    BY <1>1, Here, NextGood, SameNext DEF op, Good
  <2>3. s = [t EXCEPT !.var = w]
    BY DEF sets
  <2>4. g.st = "gone" /\ g.parent = 0 /\ g.leader = 1
    BY DEF over, fresh
  <2>5. q \in Pid /\ q # 1 /\ q \in left(proc) /\ (arg(1) = "own" => q = r.var.child)
    BY <1>1, <2>1 DEF left
  <2> HIDE DEF t, g, s
  <2>6. w.pid = q /\ w.child = t.var.child
    BY <2>2 DEF Process, Var
  <2> HIDE DEF w
  <2>7. Alike(s, t) /\ s.pc = t.pc
    BY <2>2, <2>3, AlikeExcept
  <2>8. s.out = t.out /\ s.jobs = t.jobs /\ s.fd = t.fd /\ s.var = w
    BY <2>2, <2>3 DEF Process
  <2>9. /\ Alike(s, r) /\ s.pc = k + 1 /\ s.out = r.out /\ s.jobs = r.jobs /\ s.fd = r.fd
        /\ s.var.child = r.var.child /\ s.var.pid = q
    BY <2>2, <2>6, <2>7, <2>8 DEF Same, Alike
  <2>10. s.st = "run" /\ s.parent = 0 /\ s.leader = 1 /\ s.frames = r.frames
    BY <1>1, <2>9 DEF Alike
  <2>11. proc'[1] = s /\ proc'[q] = g /\ \A x \in Pid \ {1, q} : proc'[x] = proc[x]
    BY <1>1, <2>1, <2>5 DEF s, g
  <2>12. left(proc') = left(proc) \ {q}
    BY <2>4, <2>5, <2>11 DEF left
  <2>13. FirstOf(e, s) /\ left(proc') \subseteq known(e, s, screen)
    <3>1. CASE r.frames # <<>>
      <4>1. mainPc(s) = mainPc(r)
        BY <2>10, <3>1 DEF mainPc
      <4>2. FirstOf(e, s)
        <5>1. mainPc(s) \notin kidPcs(e) /\ (e = "eval" /\ mainPc(s) = 2 => s.out = <<>>)
          BY <1>1, <2>9, <4>1 DEF FirstOf
        <5> QED BY <1>1, <2>9, <4>1, <5>1, FirstStays
      <4>3. known(e, s, screen) = known(e, r, screen)
        BY <2>9, <4>1 DEF known, listed
      <4> QED BY <1>1, <2>12, <4>2, <4>3
    <3>2. CASE r.frames = <<>>
      <4>1. /\ e # "promask1" /\ arg(1) \in {"any", "own"} /\ (e = "eval" => arg(1) = "own")
            /\ k + 1 \notin kidPcs(e) \cup holdPcs(e) /\ (e = "eval" => k + 1 # 2)
            /\ e = "crashes" => k + 1 # 7
        BY <1>1, <1>2, <3>2 DEF MainCode
      <4>2. mainPc(s) = k + 1 /\ mainPc(r) = k
        BY <1>2, <2>9, <2>10, <3>2 DEF mainPc
      <4>3. k # 1 \/ taken(e) = {}
        BY <1>1 DEF Knows
      <4>4. FirstOf(e, s)
        BY <1>1, <2>9, <4>1, <4>2, <4>3, FirstStays
      <4>5. left(proc') \subseteq listed(e, s, screen)
        <5>1. CASE e = "crashes"
          <6>1. left(proc') \subseteq Pid
            BY DEF left
          <6> QED BY <4>1, <4>2, <5>1, <6>1 DEF listed
        <5>2. CASE e = "eval"
          BY <1>1, <2>5, <2>9, <2>12, <4>1, <5>2 DEF known, listed
        <5>3. CASE e \notin {"eval", "crashes"}
          <6>1. left(proc) \subseteq {r.var.child}
            BY <1>1, <4>1, <5>3 DEF known, listed
          <6> QED BY <2>5, <2>12, <6>1
        <5> QED BY <5>1, <5>2, <5>3
      <4> QED BY <4>4, <4>5 DEF known
    <3> QED BY <3>1, <3>2
  <2>14. /\ \A x \in left(proc') : proc'[x].parent = 1
         /\ \A x \in Pid : proc'[x].parent \in {0, 1} /\ (proc'[x].st # "run" => proc'[x].leader = 1)
         /\ proc'[1].parent = 0 /\ proc'[1].leader = 1 /\ proc'[1].st = "run"
         /\ \A x \in Pid \ {1} : proc'[x].st = "run" => KidOf(e, proc'[x], x)
    <3>1. \A x \in left(proc') : x \in left(proc) /\ x \in Pid \ {1, q}
      BY <2>12 DEF left
    <3>2. \A x \in left(proc') : proc'[x].parent = 1
      BY <1>1, <2>11, <3>1 DEF Knowing
    <3>3. \A x \in Pid : proc'[x].parent \in {0, 1} /\ (proc'[x].st # "run" => proc'[x].leader = 1)
      BY <1>1, <2>4, <2>10, <2>11 DEF Kinship
    <3>4. \A x \in Pid \ {1} : proc'[x].st = "run" => KidOf(e, proc'[x], x)
      BY <1>1, <2>4, <2>11 DEF Kinship
    <3> QED BY <2>10, <2>11, <3>2, <3>3, <3>4
  <2>15. proc'[s.var.pid].st = "gone"
    BY <2>4, <2>9, <2>11
  <2>16. Kinship(e, proc', screen', failed')
    BY <2>1, <2>11, <2>13, <2>14, <2>15 DEF Kinship, Knowing
  <2> QED BY <2>1, <2>16 DEF KinInv
<1> QED BY <1>3, <1>4

\* Its handler interrupts main() and returns to where it was.
LEMMA FirstHandler ==
  ASSUME MachineInv, KinInv, exercise \in Kin, runs(1), exercise' = exercise, failed' = failed, screen' = screen,
         NEW s, proc' = [proc EXCEPT ![1] = s], mainPc(s) = mainPc(proc[1]), Len(s.frames) <= 1,
         s.frames # <<>> => taken(exercise) \subseteq s.mask, s.pending \subseteq proc[1].pending,
         s.st = proc[1].st, s.parent = proc[1].parent, s.leader = proc[1].leader, s.code = proc[1].code,
         s.alarm = proc[1].alarm, s.handler = proc[1].handler, s.var = proc[1].var, s.out = proc[1].out,
         s.jobs = proc[1].jobs, s.fd = proc[1].fd
  PROVE  KinInv'
<1> DEFINE c == exercise
           r == proc[1]
<1>1. /\ FirstOf(c, r) /\ left(proc) \subseteq known(c, r, screen)
      /\ s.st = "run" /\ s.parent = 0 /\ s.leader = 1
  BY HereFirst DEF Knowing
<1>2. FirstOf(c, s)
  <2>1. s.code = c /\ s.alarm = FALSE /\ mainPc(s) \notin kidPcs(c)
    BY <1>1 DEF FirstOf
  <2>2. /\ s.pending \subseteq {x \in taken(c) : s.handler[x] # 0}
        /\ mainPc(s) # 1 => \A x \in taken(c) : s.handler[x] # 0
        /\ \A x \in Sig \ taken(c) : s.handler[x] = 0
    BY <1>1 DEF FirstOf
  <2>3. c = "eval" => s.fd[1] = 1 /\ (mainPc(s) = 2 => s.out = <<>>)
    BY <1>1 DEF FirstOf
  <2> QED BY <2>1, <2>2, <2>3 DEF FirstOf
<1>3. known(c, s, screen) = known(c, r, screen)
  BY DEF known, listed
<1> QED BY <1>1, <1>2, <1>3, FirstStep

LEMMA FirstDeliver ==
  ASSUME MachineInv, KinInv, exercise \in Kin, Deliver(1)
  PROVE  KinInv'
<1> DEFINE c == exercise
           r == proc[1]
<1>1. PICK g \in deliverable(1), back \in {0, 1} :
        /\ back = 1 => op(1) \in NotRestarted
        /\ IF r.handler[g] = 0 THEN Killed(1) ELSE Moves(1, handling(r, g, back))
  BY DEF Deliver
<1>2. runs(1)
  BY DEF Deliver
<1>3. /\ FirstOf(c, r) /\ 1 \in Pid /\ text(r) = Program[c] /\ op(1) = Program[c][r.pc][2]
      /\ r.pc \in Nat /\ r \in Process
  BY <1>2, HereFirst DEF Knowing
<1>4. g \in taken(c) /\ r.handler[g] # 0 /\ g \in r.pending /\ g \notin r.mask
  BY <1>1, <1>3 DEF deliverable, FirstOf
<1>5. r.frames = <<>> /\ taken(c) = {g} /\ g \in Sig
  BY <1>3, <1>4 DEF FirstOf, taken, Sig
<1>6. back = 0
  <2>1. MainCode(c, Program[c], r.pc)
    BY <1>2, <1>5, HereFirst
  <2> QED BY <1>1, <1>3, <2>1 DEF MainCode, NotRestarted
<1> DEFINE l == r.handler[g]
           t == goto(r, l)
           f == [pc |-> r.pc, mask |-> r.mask]
           u == [t EXCEPT !.pending = t.pending \ {g}, !.mask = t.mask \cup {g},
                          !.frames = Append(t.frames, f)]
<1>7. /\ proc' = [proc EXCEPT ![1] = u] /\ exercise' = exercise /\ failed' = failed /\ screen' = screen
  <2>1. r.pc + back = r.pc
    BY <1>3, <1>6
  <2> QED BY <1>1, <1>4, <2>1 DEF Moves, Becomes, handling, world
<1>8. l \in Lines(text(r))
  BY <1>3, <1>4, <1>5, Here DEF Good, Installed, InHandlers
<1>9. t \in Process /\ Same(t, r) /\ t.var = r.var
  <2>1. t \in Process
    BY <1>3, <1>8, Here, Landing
  <2>2. Same(t, r)
    BY <1>3, <1>8, SameJump DEF jumps
  <2>3. t.var = r.var
    BY <1>3 DEF goto, Process
  <2> QED BY <2>1, <2>2, <2>3
<1>10. t.frames = <<>> /\ t.pending = r.pending
  BY <1>5, <1>9 DEF Same, Alike
<1>11. f.pc = r.pc
  OBVIOUS
<1> HIDE DEF t, f
<1>12. u.st = t.st /\ u.parent = t.parent /\ u.leader = t.leader /\ u.code = t.code
  BY <1>9 DEF Process
<1>13. u.alarm = t.alarm /\ u.handler = t.handler /\ u.var = t.var /\ u.out = t.out
  BY <1>9 DEF Process
<1>14. u.jobs = t.jobs /\ u.fd = t.fd /\ u.pending = r.pending \ {g}
  BY <1>9, <1>10 DEF Process
<1>15. g \in u.mask /\ u.frames = <<f>>
  BY <1>9, <1>10 DEF Process
<1> HIDE DEF u
<1>16. mainPc(u) = mainPc(r) /\ Len(u.frames) <= 1
  BY <1>5, <1>11, <1>15 DEF mainPc
<1>17. /\ u.st = r.st /\ u.parent = r.parent /\ u.leader = r.leader /\ u.code = r.code
       /\ u.alarm = r.alarm /\ u.handler = r.handler /\ u.var = r.var /\ u.out = r.out
       /\ u.jobs = r.jobs /\ u.fd = r.fd
  BY <1>9, <1>12, <1>13, <1>14 DEF Same, Alike
<1>18. taken(c) \subseteq u.mask /\ u.pending \subseteq r.pending
  BY <1>5, <1>14, <1>15
<1> QED BY <1>2, <1>7, <1>16, <1>17, <1>18, FirstHandler

LEMMA FirstReturn ==
  ASSUME MachineInv, KinInv, exercise \in Kin, runs(1), op(1) = "return", Return(1)
  PROVE  KinInv'
<1> DEFINE c == exercise
           r == proc[1]
           k == Len(r.frames)
           s == [r EXCEPT !.pc = r.frames[k].pc, !.mask = r.frames[k].mask,
                          !.frames = SubSeq(r.frames, 1, k - 1)]
<1>1. FirstOf(c, r) /\ r \in Process /\ r.frames \in Seq(Frame)
  BY HereFirst DEF Knowing, Process
<1>2. r.frames # <<>>
  <2>1. r.frames = <<>> => MainCode(c, Program[c], r.pc) /\ op(1) = Program[c][r.pc][2]
    BY HereFirst
  <2> QED BY <2>1 DEF MainCode
<1>3. k = 1
  <2>1. k \in Nat \ {0}
    BY <1>1, <1>2, EmptySeq
  <2>2. k <= 1
    BY <1>1 DEF FirstOf
  <2> HIDE DEF k
  <2> QED BY <2>1, <2>2
<1>4. /\ proc' = [proc EXCEPT ![1] = s] /\ exercise' = exercise /\ failed' = failed /\ screen' = screen
  BY DEF Return, Moves, Becomes, world
<1> DEFINE a == r.frames[1].pc
           m == r.frames[1].mask
<1>5. s = [r EXCEPT !.pc = a, !.mask = m, !.frames = <<>>]
  <2>1. SubSeq(r.frames, 1, k - 1) = <<>>
    <3>1. k - 1 < 1
      BY <1>3
    <3> HIDE DEF k
    <3> QED BY <1>1, <1>3, <3>1, SubSeqEmpty
  <2> HIDE DEF k
  <2> QED BY <1>3, <2>1
<1>6. mainPc(r) = a
  BY <1>2 DEF mainPc
<1> HIDE DEF a, m, s
<1>7. s.st = r.st /\ s.parent = r.parent /\ s.leader = r.leader /\ s.code = r.code
  BY <1>1, <1>5 DEF Process
<1>8. s.alarm = r.alarm /\ s.handler = r.handler /\ s.var = r.var /\ s.out = r.out
  BY <1>1, <1>5 DEF Process
<1>9. s.jobs = r.jobs /\ s.fd = r.fd /\ s.pending = r.pending
  BY <1>1, <1>5 DEF Process
<1>10. s.frames = <<>> /\ s.pc = a
  BY <1>1, <1>5 DEF Process
<1>11. mainPc(s) = mainPc(r) /\ Len(s.frames) <= 1
  BY <1>6, <1>10 DEF mainPc
<1> QED BY <1>4, <1>7, <1>8, <1>9, <1>10, <1>11, FirstHandler

LEMMA FirstRuns ==
  ASSUME MachineInv, KinInv, exercise \in Kin, Runs(1)
  PROVE  KinInv'
<1>1. runs(1) /\ 1 \in Pid
  BY Setting, Operations
<1>2. CASE Deliver(1)
  BY <1>2, FirstDeliver
<1>3. CASE ~Deliver(1)
  <2>1. op(1) \in {"fork", "put", "wait", "exit", "add", "say", "signal", "loop", "goto", "either", "input",
                   "background", "foreground", "addjob", "deletejob", "sleep", "return"}
    <3>1. \/ MainCode(exercise, Program[exercise], proc[1].pc)
          \/ HandlerCode(exercise, Program[exercise], proc[1].pc)
      BY <1>1, HereFirst
    <3>2. op(1) = Program[exercise][proc[1].pc][2]
      BY <1>1, HereFirst
    <3> QED BY <3>1, <3>2 DEF MainCode, HandlerCode
  <2>2. \/ op(1) = "exit" /\ Exit(1)
        \/ op(1) \notin {"error", "atexit"} /\ Control(1)
        \/ op(1) = "addjob" /\ addjob(1)
        \/ op(1) = "deletejob" /\ deletejob(1)
        \/ op(1) = "put" /\ Put(1)
        \/ op(1) = "say" /\ Say(1)
        \/ op(1) = "fork" /\ Fork(1)
        \/ op(1) = "wait" /\ Waitpid(1)
        \/ op(1) = "signal" /\ Signal(1)
        \/ op(1) = "sleep" /\ Sleep(1)
        \/ op(1) = "return" /\ Return(1)
    BY <1>1, <1>3, <2>1, Operations
  <2>3. CASE op(1) = "sleep" /\ Sleep(1)
    <3>1. op(1) \in Falls
      BY <2>3 DEF Falls
    <3>2. Same(next(proc[1]), proc[1]) /\ next(proc[1]).pc = proc[1].pc + 1
      BY <1>1, <3>1, SameNext
    <3>3. /\ proc' = [proc EXCEPT ![1] = next(proc[1])]
          /\ exercise' = exercise /\ failed' = failed /\ screen' = screen
      BY <2>3 DEF Sleep, Moves, Becomes, world
    <3> HIDE DEF next
    <3> QED BY <1>1, <2>3, <3>2, <3>3, FirstNext
  <2>4. CASE (op(1) = "exit" /\ Exit(1)) \/ (op(1) \notin {"error", "atexit"} /\ Control(1))
    BY <1>1, <2>4, FirstExit, FirstControl
  <2>5. CASE (op(1) = "addjob" /\ addjob(1)) \/ (op(1) = "deletejob" /\ deletejob(1))
    BY <1>1, <2>5, FirstJobs
  <2>6. CASE (op(1) = "put" /\ Put(1)) \/ (op(1) = "say" /\ Say(1))
    BY <1>1, <2>6, FirstPrints
  <2>7. CASE (op(1) = "fork" /\ Fork(1)) \/ (op(1) = "wait" /\ Waitpid(1))
    BY <1>1, <2>7, FirstFork, FirstWaits
  <2>8. CASE (op(1) = "signal" /\ Signal(1)) \/ (op(1) = "return" /\ Return(1))
    BY <1>1, <2>8, FirstSignal, FirstReturn
  <2> QED BY <2>2, <2>3, <2>4, <2>5, <2>6, <2>7, <2>8
<1> QED BY <1>2, <1>3

\* What is typed, and alarms.
LEMMA KinTyped ==
  ASSUME MachineInv, KinInv, exercise \in Kin, NEW p \in Pid, Fgets(p) \/ AlarmRings(p) \/ ReadTerminal(p)
  PROVE  KinInv'
<1>1. runs(p) /\ (op(p) \in {"input", "read"} \/ AlarmRings(p))
  BY DEF Fgets, AlarmRings, ReadTerminal, at
<1>2. CASE p # 1
  <2>1. KidOf(exercise, proc[p], p)
        /\ op(p) \in {"put", "exit", "add", "loop", "kill", "say", "sleep", "goto", "crash", "exec", "error"}
    BY <1>1, <1>2, HereKid DEF KidCode
  <2> QED BY <1>1, <2>1 DEF AlarmRings, KidOf
<1>3. CASE p = 1
  <2>1. proc[1].alarm = FALSE
    BY <1>1, <1>3, HereFirst DEF Knowing, FirstOf
  <2>2. op(1) # "read"
    <3>1. \/ MainCode(exercise, Program[exercise], proc[1].pc)
          \/ HandlerCode(exercise, Program[exercise], proc[1].pc)
      BY <1>1, <1>3, HereFirst
    <3>2. op(1) = Program[exercise][proc[1].pc][2]
      BY <1>1, <1>3, HereFirst
    <3> QED BY <3>1, <3>2 DEF MainCode, HandlerCode
  <2>3. Fgets(1) /\ op(1) = "input"
    BY <1>1, <1>3, <2>1, <2>2 DEF AlarmRings, ReadTerminal, Fgets, at
  <2>4. PICK l : /\ proc' = [proc EXCEPT ![1] = jumps(1, l)] /\ (l = arg2(1) \/ l \in arg(1))
                 /\ exercise' = exercise /\ failed' = failed /\ screen' = screen
    BY <2>3 DEF Fgets, Types, Moves, Becomes, world
  <2> QED BY <1>1, <1>3, <2>3, <2>4, FirstJump
<1> QED BY <1>2, <1>3

LEMMA KinStep == ASSUME MachineInv, KinInv, exercise \in Kin, Next PROVE KinInv'
<1>1. ~CtrlC
  BY DEF CtrlC, Kin
<1>2. PICK p \in Pid : Runs(p) \/ AlarmRings(p) \/ Fgets(p) \/ ReadTerminal(p)
  BY <1>1 DEF Next
<1>3. CASE Runs(p)
  BY <1>3, FirstRuns, KidRuns
<1>4. CASE ~Runs(p)
  BY <1>2, <1>4, KinTyped
<1> QED BY <1>3, <1>4

LEMMA KinInit == ASSUME Init, exercise \in Kin PROVE KinInv
<1> DEFINE c == exercise
           r == proc[1]
<1>1. 1 \in Pid
  BY Setting
<1>2. \A p \in Pid : /\ proc[p].st = (IF p = 1 THEN "run" ELSE "none") /\ proc[p].parent = 0
                     /\ proc[p].leader = 1
  BY InitialProcess
<1>3. /\ r.code = c /\ r.pc = 1 /\ r.var = var0 /\ r.out = <<>> /\ r.frames = <<>> /\ r.pending = {}
      /\ r.alarm = FALSE /\ r.fd[1] = 1
  BY <1>1, InitialProcess
<1>4. \A x \in Sig : r.handler[x] = 0
  <2> DEFINE t == [fresh EXCEPT !.st = "run"]
  <2>1. r = t
    BY <1>1 DEF Init
  <2>2. t.handler = [x \in Sig |-> 0]
    BY DEF fresh
  <2> HIDE DEF t
  <2> QED BY <2>1, <2>2
<1>5. mainPc(r) = 1 /\ 1 \notin kidPcs(c) /\ r.var.pid = 0 /\ Len(r.frames) = 0
  BY <1>3, ProgramsKnow DEF mainPc, var0
<1>6. left(proc) = {}
  BY <1>2 DEF left
<1>7. FirstOf(c, r)
  <2> HIDE DEF r
  <2> QED BY <1>3, <1>4, <1>5 DEF FirstOf
<1>8. Knowing(c, proc, screen)
  BY <1>5, <1>6, <1>7 DEF Knowing
<1>9. Kinship(c, proc, screen, failed)
  BY <1>1, <1>2, <1>6, <1>8 DEF Kinship
<1> QED BY <1>9 DEF KinInv

\* The first process of these exercises knows the children that are left: by
\* what it has announced, by its job list, or because it has waited for them.
THEOREM ChildrenStayKnown == FairSpec => []ChildrenAreKnown
<1>1. Init => KinInv
  BY KinInit DEF KinInv
<1>2. MachineInv /\ KinInv /\ [Next]_vars => KinInv'
  <2>1. ASSUME MachineInv, KinInv, Next PROVE KinInv'
    <3>1. exercise' = exercise
      BY <2>1, NextKeepsExercise DEF world
    <3>2. CASE exercise \in Kin
      BY <2>1, <3>2, KinStep
    <3>3. CASE exercise \notin Kin
      BY <3>1, <3>3 DEF KinInv
    <3> QED BY <3>2, <3>3
  <2>2. KinInv /\ UNCHANGED vars => KinInv'
    BY DEF KinInv, vars, world, Kinship, Knowing, left
  <2> QED BY <2>1, <2>2
<1>3. MachineInv /\ KinInv => ChildrenAreKnown
  <2> SUFFICES ASSUME MachineInv, KinInv PROVE ChildrenAreKnown
    OBVIOUS
  <2>1. exercise = "eval" /\ runs(1) /\ line(1) = 16 => left(proc) \subseteq numbers(49)
    <3> SUFFICES ASSUME exercise = "eval", runs(1), line(1) = 16 PROVE left(proc) \subseteq numbers(49)
      OBVIOUS
    <3>1. exercise \in Kin /\ taken(exercise) = {}
      BY DEF Kin, taken
    <3>2. /\ FirstOf(exercise, proc[1]) /\ left(proc) \subseteq known(exercise, proc[1], screen)
          /\ proc[1].pc = 2
      BY <3>1, HereFirst DEF Knowing, Knows
    <3>3. proc[1].frames = <<>>
      <4>1. proc[1].frames # <<>> => HandlerCode(exercise, Program[exercise], proc[1].pc)
        BY <3>1, HereFirst
      <4> QED BY <4>1 DEF HandlerCode
    <3>4. mainPc(proc[1]) = 2 /\ proc[1].out = <<>>
      BY <3>2, <3>3 DEF mainPc, FirstOf
    <3>5. Numbers(49, <<>>) = {} /\ Numbers(49, screen) = numbers(49)
      BY DEF Numbers, numbers
    <3> QED BY <3>2, <3>4, <3>5 DEF known, listed, holdPcs
  <2>2. exercise = "promask1" /\ runs(1) /\ ~inHandler(1) /\ line(1) = 20 => left(proc) \subseteq proc[1].jobs
    <3> SUFFICES ASSUME exercise = "promask1", runs(1), ~inHandler(1), line(1) = 20
                 PROVE  left(proc) \subseteq proc[1].jobs
      OBVIOUS
    <3>1. exercise \in Kin /\ proc[1].frames = <<>>
      BY DEF Kin, inHandler
    <3>2. left(proc) \subseteq known(exercise, proc[1], screen) /\ mainPc(proc[1]) = 2
      BY <3>1, HereFirst DEF Knowing, Knows
    <3> QED BY <3>2 DEF known, listed, holdPcs
  <2>3. exercise \in {"exam1", "exam2", "count_signals", "crashes", "mysystem"} /\ ~runs(1) /\ failed = {} =>
          left(proc) = {}
    BY DEF KinInv, Kinship, Kin, Waiting, runs
  <2> QED BY <2>1, <2>2, <2>3 DEF ChildrenAreKnown, left
<1> QED BY <1>1, <1>2, <1>3, MachineAlways, PTL DEF FairSpec
=============================================================================
