--------------------------- MODULE JobTableProofs ---------------------------
(***************************************************************************)
(* What the operators on the job list return and what they leave alone,    *)
(* for a list of any length; and that, for any pids and any bound,         *)
(* JobTableSpec gives its jobs different numbers until nextjid is first    *)
(* set back to 1.  Minimum and maximum come from FiniteSetsExt as CHOOSE   *)
(* expressions: that they exist is proved first.                           *)
(***************************************************************************)
EXTENDS JobTableSpec, WellFoundedInduction, TLAPS

LessThan == {ss \in Nat \X Nat : ss[1] < ss[2]}

\* The order of the natural numbers is well founded.
LEMMA LessThanWellFounded == IsWellFoundedOn(LessThan, Nat)
  BY NatLessThanWellFounded DEF OpToRel, LessThan

\* A set of natural numbers has a least element.
LEMMA NatLeast ==
  ASSUME NEW S \in SUBSET Nat, S # {}
  PROVE  \E x \in S : \A y \in S : x <= y
<1>1. PICK x \in S : \A y \in S : ~(<<y, x>> \in LessThan)
  BY LessThanWellFounded, WFMin
<1>2. \A y \in S : x <= y
  <2> SUFFICES ASSUME NEW y \in S, y < x PROVE FALSE
    OBVIOUS
  <2>1. <<y, x>> \in LessThan
    BY DEF LessThan
  <2> QED BY <1>1, <2>1
<1> QED BY <1>2

LEMMA MinIsMember ==
  ASSUME NEW S \in SUBSET Nat, S # {}
  PROVE  Min(S) \in S /\ \A y \in S : Min(S) <= y
  BY NatLeast DEF Min

\* A function on 1..n with natural numbers as values is bounded.
LEMMA BoundedFunction ==
  ASSUME NEW n \in Nat, NEW f \in [1..n -> Nat]
  PROVE  \E m \in Nat : \A i \in 1..n : f[i] <= m
<1> DEFINE Bound(k, m) == \A i \in 1..k : f[i] <= m
           Bad == {k \in Nat : k <= n /\ \A m \in Nat : ~Bound(k, m)}
<1>1. ASSUME Bad # {} PROVE FALSE
  <2>1. PICK k \in Bad : \A j \in Bad : k <= j
    <3>1. Bad \in SUBSET Nat
      OBVIOUS
    <3> HIDE DEF Bad
    <3> QED BY <1>1, <3>1, NatLeast
  <2>2. k # 0
    <3>1. Bound(0, 0)
      OBVIOUS
    <3> QED BY <3>1
  <2>3. k - 1 \in Nat /\ k - 1 <= n /\ k - 1 \notin Bad
    <3>1. k \in Nat /\ k <= n
      BY <2>1
    <3> HIDE DEF Bad
    <3> QED BY <2>1, <2>2, <3>1
  <2>4. PICK m \in Nat : Bound(k - 1, m)
    BY <2>3
  <2>5. k \in 1..n /\ f[k] \in Nat
    BY <2>1, <2>2
  <2>6. CASE f[k] <= m
    <3>1. Bound(k, m)
      BY <2>4, <2>5, <2>6
    <3> QED BY <3>1
  <2>7. CASE ~(f[k] <= m)
    <3>1. Bound(k, f[k])
      <4> SUFFICES ASSUME NEW i \in 1..k PROVE f[i] <= f[k]
        OBVIOUS
      <4>1. CASE i = k
        BY <4>1, <2>5
      <4>2. CASE i # k
        <5>1. i \in 1..(k - 1) /\ f[i] \in Nat
          BY <4>2, <2>5
        <5>2. f[i] <= m
          BY <5>1, <2>4
        <5> QED BY <5>1, <5>2, <2>5, <2>7
      <4> QED BY <4>1, <4>2
    <3> QED BY <3>1, <2>5
  <2> QED BY <2>6, <2>7
<1>2. n \notin Bad
  BY <1>1
<1> QED BY <1>2

\* A bounded set of natural numbers has a greatest element.
LEMMA MaxIsMember ==
  ASSUME NEW S \in SUBSET Nat, S # {}, NEW b \in Nat, \A x \in S : x <= b
  PROVE  Max(S) \in S /\ \A y \in S : y <= Max(S)
<1> DEFINE U == {m \in Nat : \A x \in S : x <= m}
<1>1. PICK m \in U : \A u \in U : m <= u
  <2> U # {} /\ U \in SUBSET Nat
    OBVIOUS
  <2> QED BY NatLeast
<1>2. m \in S
  <2> SUFFICES ASSUME m \notin S PROVE FALSE
    OBVIOUS
  <2>1. \A x \in S : x < m
    BY <1>1
  <2>2. m - 1 \in U
    <3>1. PICK x \in S : x \in Nat
      OBVIOUS
    <3>2. m \in Nat /\ x < m
      BY <2>1, <3>1
    <3>3. \A y \in S : y <= m - 1
      BY <2>1, <3>2
    <3> QED BY <3>1, <3>2, <3>3
  <2> QED BY <1>1, <2>2
<1> QED BY <1>1, <1>2 DEF Max

-----------------------------------------------------------------------------

\* The search loops return the index of an entry they look for, and NULL
\* exactly when there is none.
LEMMA FirstFinds ==
  ASSUME NEW S \in SUBSET Slots
  PROVE  /\ First(S) = NULL <=> S = {}
         /\ First(S) # NULL => First(S) \in S
         /\ First(S) \in Slots \cup {NULL}
<1>1. CASE S = {}
  BY <1>1 DEF First, NULL
<1>2. CASE S # {}
  <2>1. S \in SUBSET Nat /\ 0 \notin S
    BY JobTableAssumption DEF Slots
  <2>2. Min(S) \in S
    BY <1>2, <2>1, MinIsMember
  <2> QED BY <1>2, <2>1, <2>2 DEF First, NULL
<1> QED BY <1>1, <1>2

LEMMA InitJobsTyped == init_jobs \in [Slots -> Entry]
  BY DEF init_jobs, Empty, Entry

\* max_jid bounds the job numbers of the list.
LEMMA MaxJidBounds ==
  ASSUME NEW tab \in [Slots -> Entry]
  PROVE  max_jid(tab) \in Nat /\ \A i \in Slots : tab[i].jid <= max_jid(tab)
<1> DEFINE f == [i \in 1..MAXJOBS |-> tab[i].jid]
           S == {0} \cup {tab[i].jid : i \in Slots}
<1>1. \A i \in Slots : tab[i].jid \in Nat
  BY DEF Entry
<1>2. f \in [1..MAXJOBS -> Nat] /\ MAXJOBS \in Nat
  BY <1>1, JobTableAssumption DEF Slots
<1>3. PICK m \in Nat : \A i \in 1..MAXJOBS : f[i] <= m
  <2> HIDE DEF f
  <2> QED BY <1>2, BoundedFunction
<1>4. S \in SUBSET Nat /\ S # {} /\ \A x \in S : x <= m
  BY <1>1, <1>3 DEF Slots
<1>5. Max(S) \in S /\ \A x \in S : x <= Max(S)
  <2> HIDE DEF S
  <2> QED BY <1>4, MaxIsMember
<1> QED BY <1>4, <1>5 DEF max_jid

\* add_job's scan finds an entry without a process.
LEMMA FreeSlotFinds ==
  ASSUME NEW tab \in [Slots -> Entry]
  PROVE  free_slot(tab) # NULL
            => free_slot(tab) \in Slots /\ tab[free_slot(tab)].pid = NoPid
<1> DEFINE S == {i \in Slots : tab[i].pid = NoPid}
<1>1. S \in SUBSET Slots
  OBVIOUS
<1>2. First(S) # NULL => First(S) \in S
  <2> HIDE DEF S
  <2> QED BY <1>1, FirstFinds
<1> QED BY <1>2 DEF free_slot

\* get_job_pid answers an entry with the pid.
LEMMA GetJobPidFinds ==
  ASSUME NEW tab \in [Slots -> Entry], NEW p \in Int
  PROVE  /\ get_job_pid(tab, p) \in Slots \cup {NULL}
         /\ get_job_pid(tab, p) # NULL => tab[get_job_pid(tab, p)].pid = p /\ p # NoPid
         /\ (p >= 1 /\ get_job_pid(tab, p) = NULL) => \A i \in Slots : tab[i].pid # p
<1> DEFINE S == {i \in Slots : tab[i].pid = p}
<1>1. S \in SUBSET Slots
  OBVIOUS
<1>2. /\ First(S) = NULL <=> S = {}
      /\ First(S) # NULL => First(S) \in S
      /\ First(S) \in Slots \cup {NULL}
  <2> HIDE DEF S
  <2> QED BY <1>1, FirstFinds
<1> QED BY <1>2 DEF get_job_pid, NoPid, NULL

\* fgpid answers the pid of a foreground entry, 0 when there is none.
LEMMA FgpidFinds ==
  ASSUME NEW tab \in [Slots -> Entry]
  PROVE  /\ fgpid(tab) \in Pid \cup {NoPid}
         /\ fgpid(tab) # NoPid => \E i \in Slots : tab[i].state = FG
         /\ (\E i \in Slots : tab[i].state = FG)
              => \E i \in Slots : tab[i].state = FG /\ tab[i].pid = fgpid(tab)
<1> DEFINE S == {i \in Slots : tab[i].state = FG}
<1>1. S \in SUBSET Slots
  OBVIOUS
<1>2. /\ First(S) = NULL <=> S = {}
      /\ First(S) # NULL => First(S) \in S
      /\ First(S) \in Slots \cup {NULL}
  <2> HIDE DEF S
  <2> QED BY <1>1, FirstFinds
<1>3. \A i \in Slots : tab[i].pid \in Pid \cup {NoPid}
  BY DEF Entry
<1> QED BY <1>2, <1>3 DEF fgpid

\* delete_job clears one entry at most, and one with the pid only.
LEMMA DeleteClears ==
  ASSUME NEW tab \in [Slots -> Entry], NEW next \in Nat, NEW p \in Int
  PROVE  /\ delete_job(tab, p) \in [Slots -> Entry]
         /\ \A i \in Slots : \/ delete_job(tab, p)[i] = tab[i]
                             \/ delete_job(tab, p)[i] = Empty /\ tab[i].pid = p
         /\ nextjid_after_delete(tab, next, p) \in Nat
         /\ \/ nextjid_after_delete(tab, next, p) = next /\ delete_job(tab, p) = tab
            \/ \A i \in Slots : delete_job(tab, p)[i].jid
                                     < nextjid_after_delete(tab, next, p)
<1> DEFINE i == get_job_pid(tab, p)
           new == delete_job(tab, p)
<1>1. i \in Slots \cup {NULL} /\ (i # NULL => tab[i].pid = p)
  BY GetJobPidFinds
<1>2. Empty \in Entry
  BY DEF Empty, Entry
<1>3. CASE i = NULL
  BY <1>3 DEF delete_job, nextjid_after_delete
<1>4. CASE i # NULL
  <2>1. new = [tab EXCEPT ![i] = Empty]
    BY <1>4 DEF delete_job, clear_job
  <2>2. new \in [Slots -> Entry]
    <3> HIDE DEF i, new
    <3> QED BY <1>1, <1>2, <1>4, <2>1
  <2>3. \A k \in Slots : new[k] = tab[k] \/ (new[k] = Empty /\ tab[k].pid = p)
    <3> HIDE DEF i, new
    <3> QED BY <1>1, <1>4, <2>1
  <2>4. nextjid_after_delete(tab, next, p) = max_jid(new) + 1
    BY <1>4 DEF nextjid_after_delete
  <2>5. max_jid(new) \in Nat /\ \A k \in Slots : new[k].jid <= max_jid(new)
    <3> HIDE DEF new
    <3> QED BY <2>2, MaxJidBounds
  <2>6. \A k \in Slots : new[k].jid \in Nat
    <3> HIDE DEF new
    <3> QED BY <2>2 DEF Entry
  <2>7. \A k \in Slots : new[k].jid < max_jid(new) + 1
    <3> HIDE DEF new
    <3> QED BY <2>5, <2>6
  <2> QED
    <3> HIDE DEF i
    <3> QED BY <2>2, <2>3, <2>4, <2>5, <2>7
<1> QED BY <1>3, <1>4

-----------------------------------------------------------------------------
(* Different numbers.  The induction needs what "nextjid = max_jid(jobs)+1" *)
(* is for: in the first lap nextjid is above every number in the list.      *)

NextAboveAll == ~lapped => \A i \in Slots : jobs[i].jid < nextjid

ListIInv == ListTypeOK /\ DistinctJidsInFirstLap /\ NextAboveAll

LEMMA ListInitEstablishes == ListInit => ListIInv
<1> SUFFICES ASSUME ListInit PROVE ListIInv
  OBVIOUS
<1>1. ListTypeOK
  BY InitJobsTyped DEF ListInit, ListTypeOK
<1>2. \A i \in Slots : jobs[i].jid = 0
  BY DEF ListInit, init_jobs, Empty
<1>3. DistinctJidsInFirstLap
  BY <1>2 DEF DistinctJidsInFirstLap, DistinctJids
<1>4. NextAboveAll
  BY <1>2 DEF NextAboveAll, ListInit
<1> QED BY <1>1, <1>3, <1>4 DEF ListIInv

LEMMA AddKeepsList ==
  ASSUME ListIInv, NEW p \in Pid, Add(p)
  PROVE  ListIInv'
<1> DEFINE i == free_slot(jobs)
           e == [pid |-> p, jid |-> nextjid, state |-> BG]
<1> USE JobTableAssumption
<1>1. jobs \in [Slots -> Entry] /\ nextjid \in Nat /\ lapped \in BOOLEAN
  BY DEF ListIInv, ListTypeOK
<1>2. i \in Slots
  BY <1>1, FreeSlotFinds DEF Add
<1>3. e \in Entry
  BY <1>1 DEF Entry
<1>4. jobs' = [jobs EXCEPT ![i] = e]
  BY DEF Add
<1>5. jobs' \in [Slots -> Entry] /\ \A k \in Slots : jobs'[k] = IF k = i THEN e ELSE jobs[k]
  <2> HIDE DEF i, e
  <2> QED BY <1>1, <1>2, <1>3, <1>4
<1>6. nextjid' \in Nat /\ (~lapped' => nextjid' = nextjid + 1 /\ ~lapped)
  <2>1. nextjid' = IF nextjid + 1 > MAXJOBS THEN 1 ELSE nextjid + 1
    BY DEF Add, wrap
  <2>2. lapped' = (lapped \/ nextjid + 1 > MAXJOBS)
    BY DEF Add
  <2>3. ~lapped' => ~lapped /\ ~(nextjid + 1 > MAXJOBS)
    BY <2>2, Zenon
  <2> QED BY <1>1, <2>1, <2>3
<1>7. ListTypeOK'
  <2>1. lapped' \in BOOLEAN
    BY DEF Add
  <2> QED BY <1>5, <1>6, <2>1 DEF ListTypeOK
<1>8. \A k \in Slots : jobs[k].jid \in Nat
  BY <1>1 DEF Entry
<1>9. \A k \in Slots : jobs'[k].jid = IF k = i THEN nextjid ELSE jobs[k].jid
  BY <1>5
<1>10. ~lapped => \A k \in Slots : jobs[k].jid < nextjid
  BY DEF ListIInv, NextAboveAll
<1>11. NextAboveAll'
  <2> SUFFICES ASSUME ~lapped', NEW k \in Slots PROVE jobs'[k].jid < nextjid'
    BY DEF NextAboveAll
  <2> HIDE DEF i
  <2> QED BY <1>1, <1>6, <1>8, <1>9, <1>10
<1>12. DistinctJidsInFirstLap'
  <2> SUFFICES ASSUME ~lapped', NEW k \in Slots, NEW l \in Slots,
                      jobs'[k].jid = jobs'[l].jid, jobs'[k].jid # 0
               PROVE  k = l
    BY DEF DistinctJidsInFirstLap, DistinctJids
  <2>1. ~lapped
    BY <1>6
  <2>2. jobs[k].jid < nextjid /\ jobs[l].jid < nextjid
    BY <2>1, <1>10
  <2>3. (jobs[k].jid = jobs[l].jid /\ jobs[k].jid # 0) => k = l
    BY <2>1 DEF ListIInv, DistinctJidsInFirstLap, DistinctJids
  <2> HIDE DEF i
  <2> QED BY <1>1, <1>8, <1>9, <2>2, <2>3
<1> QED BY <1>7, <1>11, <1>12 DEF ListIInv

LEMMA DeleteKeepsList ==
  ASSUME ListIInv, NEW p \in Pid, Delete(p)
  PROVE  ListIInv'
<1>1. jobs \in [Slots -> Entry] /\ nextjid \in Nat /\ lapped \in BOOLEAN /\ p \in Int
  BY JobTableAssumption DEF ListIInv, ListTypeOK
<1>2. jobs' = delete_job(jobs, p) /\ nextjid' = nextjid_after_delete(jobs, nextjid, p)
  BY DEF Delete
<1>3. lapped' = lapped
  BY DEF Delete
<1>4. /\ jobs' \in [Slots -> Entry] /\ nextjid' \in Nat
      /\ \A k \in Slots : jobs'[k] = jobs[k] \/ jobs'[k] = Empty
      /\ \/ nextjid' = nextjid /\ jobs' = jobs
         \/ \A k \in Slots : jobs'[k].jid < nextjid'
  <2> DEFINE new == delete_job(jobs, p)
             next == nextjid_after_delete(jobs, nextjid, p)
  <2>1. /\ new \in [Slots -> Entry] /\ next \in Nat
        /\ \A k \in Slots : new[k] = jobs[k] \/ new[k] = Empty
        /\ \/ next = nextjid /\ new = jobs
           \/ \A k \in Slots : new[k].jid < next
    BY <1>1, DeleteClears
  <2> HIDE DEF new, next
  <2> QED BY <1>2, <2>1 DEF new, next
<1>5. ListTypeOK'
  BY <1>1, <1>3, <1>4 DEF ListTypeOK
<1>6. NextAboveAll'
  BY <1>3, <1>4 DEF ListIInv, NextAboveAll
<1>7. DistinctJidsInFirstLap'
  <2> SUFFICES ASSUME ~lapped', NEW k \in Slots, NEW l \in Slots,
                      jobs'[k].jid = jobs'[l].jid, jobs'[k].jid # 0
               PROVE  k = l
    BY DEF DistinctJidsInFirstLap, DistinctJids
  <2>1. jobs'[k] = jobs[k] /\ jobs'[l] = jobs[l]
    BY <1>4 DEF Empty
  <2> QED BY <2>1, <1>3 DEF ListIInv, DistinctJidsInFirstLap, DistinctJids
<1> QED BY <1>5, <1>6, <1>7 DEF ListIInv

\* The shape of the state and, in the first lap, one job per number.
THEOREM JobNumbersAreDistinct == ListSpec => [](ListTypeOK /\ DistinctJidsInFirstLap)
<1>1. ListIInv /\ [ListNext]_listVars => ListIInv'
  <2> SUFFICES ASSUME ListIInv, [ListNext]_listVars PROVE ListIInv'
    OBVIOUS
  <2>1. CASE ListNext
    BY <2>1, AddKeepsList, DeleteKeepsList DEF ListNext
  <2>2. CASE UNCHANGED listVars
    BY <2>2 DEF listVars, ListIInv, ListTypeOK, DistinctJidsInFirstLap, DistinctJids, NextAboveAll
  <2> QED BY <2>1, <2>2
<1>2. ListIInv => ListTypeOK /\ DistinctJidsInFirstLap
  BY DEF ListIInv
<1> QED BY ListInitEstablishes, <1>1, <1>2, PTL DEF ListSpec
=============================================================================
