-------------------------- MODULE ExercisePrograms --------------------------
(***************************************************************************)
(* The exercises on processes, signals, threads and open files, as         *)
(* programs of the machine of module Exercises.  An instruction is a tuple *)
(*   <<line of the source file, operation, arguments>>                     *)
(* and a jump names the line it goes to; main() comes first.  A number     *)
(* that an exercise prints is its third component; the texts are left out, *)
(* for the line says which text it is.                                     *)
(*   fork, a, b      a: where the parent goes on, b: where a failed fork   *)
(*                   does (0: the wrapper Fork, which ends the process)    *)
(*   loop, k, b      the condition of a loop of k rounds that ends at b    *)
(*   wait, who, b    b: where no child is left to wait for (0: unix_error) *)
(*   say, put        printf of a text with, without an end of line         *)
(*   input, S, b     a line is typed: go to a line in S; end of file: to b *)
(***************************************************************************)
EXTENDS Integers, Sequences

exam1_NoWait == << <<5,"fork",10,10>>, <<6,"put">>, <<7,"exit">>, \* mutant: no waitpid
    <<10,"say">>, <<13,"put">>, <<14,"exit">> >>
exam1 == << <<5,"fork",10,10>>, <<6,"put">>, <<7,"exit">>,
    <<10,"put">>, <<11,"wait","any",13>>, <<13,"put">>, <<14,"exit">> >>

exam2 == << <<3,"add",1>>, <<7,"fork",12,12>>, <<8,"add",-1>>, <<9,"exit">>,
    <<12,"wait","any",0>>, <<13,"add",1>>, <<13,"say","n">>, <<15,"exit">> >>

exam3 == << <<10,"fork",12,0>>, <<11,"atexit",5>>, <<12,"fork",15,0>>, <<13,"put">>,
    <<13,"goto",16>>, <<15,"put">>, <<16,"exit">>,
    <<5,"put">>, <<6,"exit">> >>

test == << <<6,"fork",9,9>>, <<7,"say">>, <<9,"say">>, <<10,"say">>, <<11,"exit">> >>

kill == << <<7,"fork",15,0>>, <<8,"say">>, <<9,"pause">>, <<10,"say">>, <<11,"exit">>,
    <<15,"say","child">>, <<16,"kill","child","KILL">>, <<17,"exit">> >>

sigint1 == << <<12,"signal","INT",5>>, <<16,"pause">>, <<17,"exit">>,
    <<5,"say">>, <<6,"exit">> >>

snooze == << <<17,"either",{19, 21}>>, <<19,"exit">>, <<21,"signal","INT",12>>,
    <<5,"sleep">>, <<6,"put">>, <<26,"exit">>,
    <<12,"return">> >>

myalarm == << <<18,"signal","ALRM",7>>, <<19,"alarm",TRUE>>, <<21,"spin">>,
    <<7,"say">>, <<8,"loop",4,11>>, <<9,"alarm",TRUE>>, <<14,"return">>,
    <<11,"say">>, <<12,"exit">> >>

setjmpmy == << <<16,"setjmp",<<18, 20, 22>>>>, <<18,"goto",38>>,
    <<20,"say">>, <<20,"goto",25>>, <<22,"say">>, <<25,"exit">>,
    <<38,"longjmp",2>> >>

\* Bound: while (1) is left after Passes rounds, and only signals are taken.
Passes == 2
restart == << <<12,"signal","INT",7>>, <<14,"setjmp",<<15, 17>>>>, <<15,"say">>,
    <<15,"goto",19>>, <<17,"say">>,
    <<19,"loop",Passes,22>>, <<20,"sleep">>, <<21,"say">>, <<21,"goto",19>>, <<22,"spin">>,
    <<7,"longjmp",1>> >>

\* 8_25.c: tfgets has returned at "leave", so that its sigsetjmp is over.
tfgets == << <<15,"signal","ALRM",9>>, <<17,"alarm",TRUE>>, <<19,"setjmp",<<20, 31>>>>,
    <<20,"input",{29},31>>, <<29,"leave">>, <<30,"say">>, <<30,"goto",34>>,
    <<31,"leave">>, <<32,"say">>, <<34,"exit">>,
    <<9,"alarm",FALSE>>, <<10,"longjmp",1>> >>

-----------------------------------------------------------------------------
(* Children, and the signals that tell of them.                             *)

\* 8_23.c: a child that sends five signals to its parent.
count_signals == << <<15,"signal","USR2",7>>, <<17,"fork",28,0>>,
    <<18,"loop",5,25>>, <<19,"kill","parent","USR2">>, <<20,"say">>, <<23,"sleep">>, <<23,"goto",18>>,
    <<25,"exit">>, <<28,"wait","any",0>>, <<29,"say","n">>, <<30,"exit">>,
    <<7,"add",1>>, <<8,"sleep">>, <<9,"return">> >>

\* 8_24.c: children that crash.
crashes == << <<12,"loop",2,21>>, <<13,"fork",12,0>>, <<16,"crash">>,
    <<21,"wait","any",31>>, <<25,"say">>, <<25,"goto",21>>, <<31,"exit">> >>

signal1 == << <<19,"signal","CHLD",6>>, <<22,"loop",3,30>>, <<23,"fork",22,0>>,
    <<24,"say">>, <<25,"sleep">>, <<26,"exit">>, <<30,"input",{33},33>>, <<33,"say">>, <<34,"spin">>,
    <<6,"wait","any",0>>, <<9,"say">>, <<10,"sleep">>, <<11,"return">> >>

signal2_Once == << <<21,"signal","CHLD",7>>, <<24,"loop",3,32>>, <<25,"fork",24,0>>, \* mutant: if for while
    <<26,"say">>, <<27,"sleep">>, <<28,"exit">>, <<32,"input",{35},35>>, <<35,"say">>, <<36,"spin">>,
    <<7,"wait","any",13>>, <<8,"say">>, <<13,"return">> >>
signal2 == << <<21,"signal","CHLD",7>>, <<24,"loop",3,32>>, <<25,"fork",24,0>>,
    <<26,"say">>, <<27,"sleep">>, <<28,"exit">>, <<32,"input",{35},35>>, <<35,"say">>, <<36,"spin">>,
    <<7,"wait","any",13>>, <<8,"say">>, <<8,"goto",7>>, <<13,"return">> >>

\* signal3.c reads once more after EINTR, which SA_RESTART never lets it see.
signal3 == << <<21,"signal","CHLD",7>>, <<24,"loop",3,32>>, <<25,"fork",24,0>>,
    <<26,"say">>, <<27,"sleep">>, <<28,"exit">>, <<32,"input",{36},36>>, <<36,"say">>, <<37,"spin">>,
    <<7,"wait","any",13>>, <<8,"say">>, <<8,"goto",7>>, <<13,"return">> >>

\* execve of the directory "/" fails.
promask1 == << <<17,"signal","CHLD",7>>, <<20,"fork",23,0>>, <<21,"error">>,
    <<23,"addjob">>, <<23,"goto",20>>,
    <<7,"wait","any",11>>, <<8,"deletejob">>, <<8,"goto",7>>, <<11,"return">> >>

mysystem == << <<7,"either",{9, 37}>>, <<9,"fork",19,0>>, <<14,"exec","command">>, <<15,"exit">>,
    <<19,"wait","own",37>>, <<37,"exit">> >>

\* 8_20.c: without an argument strcmp compares with a null pointer.
exec8_20 == << <<5,"either",{6, 7, 10}>>, <<6,"crash">>, <<7,"exec","ls">>, <<10,"exit">> >>

\* eval.c: parseline finds nothing to run, quit, or a command with or without &.
eval_AnyChild == << <<15,"say">>, <<16,"input",{15, 32, 61},18>>, <<18,"exit">>, <<61,"exit">>, \* mutant: waits
    <<32,"background">>, <<36,"fork",43,0>>, <<37,"exec","command">>, <<38,"say">>, <<39,"exit">>, \* for any child
    <<43,"foreground",49>>, <<45,"wait","any",0>>, <<45,"goto",15>>, <<49,"put","child">>, <<49,"goto",15>> >>
eval == << <<15,"say">>, <<16,"input",{15, 32, 61},18>>, <<18,"exit">>, <<61,"exit">>,
    <<32,"background">>, <<36,"fork",43,0>>, <<37,"exec","command">>, <<38,"say">>, <<39,"exit">>,
    <<43,"foreground",49>>, <<45,"wait","own",0>>, <<45,"goto",15>>, <<49,"put","child">>, <<49,"goto",15>> >>

\* 8_26shiyan.c
shell8_26 == << <<33,"say">>, <<34,"input",{33, 49, 109},36>>, <<36,"exit">>, <<109,"exit">>,
    <<49,"background">>, <<53,"fork",60,0>>, <<54,"exec","command">>, <<55,"say">>, <<56,"exit">>,
    <<60,"signal","INT",13>>, <<61,"signal","TSTP",19>>, <<62,"signal","KILL",25>>,
    <<64,"foreground",70>>, <<66,"wait","own",0>>, <<66,"goto",33>>, <<70,"say","child">>, <<70,"goto",33>>,
    <<13,"say","child">>, <<14,"return">>, <<19,"say","child">>, <<20,"return">>, <<25,"say","child">>, <<26,"return">> >>

-----------------------------------------------------------------------------
(* Descriptors.                                                             *)

pipetest_KeepsEnd == << <<24,"pipe",26>>, <<30,"fork",49,32>>, <<39,"close","fd1">>, \* mutant: the parent
    <<42,"dup2","fd2","stdout">>, <<45,"close","fd2">>, <<46,"exec","ls">>, <<74,"exit">>, \* keeps the write end
    <<49,"fork",67,51>>, <<55,"close","fd2">>, <<58,"dup2","fd1","stdin">>, <<59,"close","fd1">>,
    <<61,"exec","more">>, <<61,"goto",74>>,
    <<67,"close","fd1">>, <<70,"wait","own",71>>, <<71,"say">>, <<71,"goto",74>>,
    <<26,"exit">>, <<32,"exit">>, <<51,"exit">> >>
pipetest == << <<24,"pipe",26>>, <<30,"fork",49,32>>, <<39,"close","fd1">>,
    <<42,"dup2","fd2","stdout">>, <<45,"close","fd2">>, <<46,"exec","ls">>, <<74,"exit">>,
    <<49,"fork",67,51>>, <<55,"close","fd2">>, <<58,"dup2","fd1","stdin">>, <<59,"close","fd1">>,
    <<61,"exec","more">>, <<61,"goto",74>>,
    <<67,"close","fd1">>, <<68,"close","fd2">>, <<70,"wait","own",71>>, <<71,"say">>, <<71,"goto",74>>,
    <<26,"exit">>, <<32,"exit">>, <<51,"exit">> >>

daemon == << <<17,"fork",21,18>>, <<28,"closeall">>, <<31,"loop",10,44>>, <<32,"open","fd1",33>>,
    <<38,"write","fd1">>, <<39,"close","fd1">>, <<40,"sleep">>, <<41,"say">>, <<41,"goto",31>>,
    <<33,"say">>, <<34,"exit">>, <<44,"exit">>, <<21,"exit">>, <<18,"put">>, <<19,"exit">> >>

open10_1 == << <<7,"open","fd1",0>>, <<8,"close","fd1">>, <<9,"open","fd2",0>>,
    <<10,"say","fd2">>, <<11,"exit">> >>

share10_5 == << <<8,"open","fd1",0>>, <<9,"open","fd2",0>>, <<10,"read","fd2",11>>,
    <<11,"dup2","fd2","fd1">>, <<12,"close","fd1">>, <<13,"read","fd2",14>>, <<14,"say","n">>, <<15,"exit">> >>

open10_6 == << <<7,"open","fd1",0>>, <<8,"open","fd2",0>>, <<9,"close","fd2">>, <<10,"open","fd2",0>>,
    <<11,"say","fd2">>, <<12,"exit">> >>

cpfile == << <<9,"either",{11, 15, 24}>>, <<11,"exit">>, <<15,"open","fd1",0>>, <<19,"dup2","fd1","stdin">>,
    <<20,"close","fd1">>, <<24,"read","stdin",26>>, <<25,"write","stdout">>, <<25,"goto",24>>, <<26,"exit">> >>

\* munmap(NULL, ...) unmaps nothing: the copy stays until the process ends.
mmapcopy == << <<16,"either",{17, 21}>>, <<17,"say">>, <<18,"exit">>, <<21,"open","fd1",0>>,
    <<6,"mmap",0>>, <<7,"writefile">>, <<25,"exit">> >>

\* What they print as "read" is the owner's right to write.
statcheck == << <<8,"stat",0>>, <<22,"say","n">>, <<23,"exit">> >>
fstatcheck == << <<12,"either",{13, 17}>>, <<13,"say">>, <<14,"exit">>,
    <<17,"stat",0>>, <<31,"say","n">>, <<32,"exit">> >>

\* hostinfo.c. Bound: a host has one alias and one address.
hostinfo == << <<9,"either",{10, 14}>>, <<10,"say">>, <<11,"exit">>, <<14,"either",{15, 17}>>,
    <<15,"lookup",0>>, <<15,"goto",19>>, <<17,"lookup",0>>, <<19,"say">>, <<21,"loop",1,25>>, <<22,"say">>,
    <<22,"goto",21>>, <<25,"loop",2,31>>, <<29,"say">>, <<29,"goto",25>>, <<31,"exit">> >>

-----------------------------------------------------------------------------
(* Threads.                                                                 *)

sharing == << <<17,"loop",2,19>>, <<18,"thread",26,0>>, <<18,"goto",17>>, <<19,"threadexit">>,
    <<26,"load">>, <<26,"store">>, <<26,"say","i">>, <<27,"threadexit">> >>

threadhello == << <<11,"thread",18,0>>, <<12,"join">>, <<13,"exit">>,
    <<18,"say">>, <<19,"say">>, <<20,"threadexit">> >>

\* Bound: testthread.c makes two threads instead of ten.
testthread == << <<24,"say">>, <<26,"loop",2,32>>, <<27,"thread",13,28>>, <<27,"goto",26>>, <<32,"sleep">>,
    <<33,"fork",40,40>>, <<35,"say">>, <<37,"spin">>, <<40,"spin">>, <<28,"say">>, <<29,"exit">>,
    <<13,"say","i">>, <<14,"spin">> >>

-----------------------------------------------------------------------------
(* What exec runs: a command that ends, and the two ends of the pipeline.   *)

command == << <<1,"exit">> >>
ls == << <<1,"write","stdout">>, <<2,"exit">> >>
more == << <<1,"read","stdin",3>>, <<2,"goto",1>>, <<3,"exit">> >>

Program == [
    exam1 |-> exam1, exam2 |-> exam2, exam3 |-> exam3, test |-> test, kill |-> kill,
    sigint1 |-> sigint1, snooze |-> snooze, myalarm |-> myalarm, setjmpmy |-> setjmpmy,
    restart |-> restart, tfgets |-> tfgets, count_signals |-> count_signals, crashes |-> crashes,
    signal1 |-> signal1, signal2 |-> signal2, signal3 |-> signal3, promask1 |-> promask1,
    mysystem |-> mysystem, eval |-> eval, shell8_26 |-> shell8_26, pipetest |-> pipetest,
    daemon |-> daemon, open10_1 |-> open10_1, share10_5 |-> share10_5, open10_6 |-> open10_6,
    cpfile |-> cpfile, mmapcopy |-> mmapcopy, statcheck |-> statcheck, fstatcheck |-> fstatcheck,
    hostinfo |-> hostinfo, exec8_20 |-> exec8_20,
    sharing |-> sharing, threadhello |-> threadhello, testthread |-> testthread,
    command |-> command, ls |-> ls, more |-> more]

Exercise == DOMAIN Program \ {"command", "ls", "more"}
=============================================================================
