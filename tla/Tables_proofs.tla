---------------------------- MODULE Tables_proofs ----------------------------
(* What MCTables checks side by side, for every value of the constants: a    *)
(* scheduled job does what its row says, a system is set up once and for     *)
(* good, the accounts agree with what is kept of them elsewhere, and the     *)
(* rule of all rights lists what there is.                                   *)
EXTENDS MCTables, FiniteSetTheorems, WellFoundedInduction, TLAPS

-----------------------------------------------------------------------------
(* The parts stand side by side.                                           *)

\* A step of the whole is, for each part, a step of that part or none.
LEMMA PartSteps ==
  ASSUME [MCNext]_<<part, vars, assets, cron, setup>>
  PROVE  [Next]_vars /\ [AD!Next]_(AD!vars) /\ [CR!Next]_(CR!vars) /\ [SW!Next]_(SW!vars)
<1> USE DEF assets, cron, setup, AD!vars, CR!vars, SW!vars, SW!files, SW!db, SW!asked
<1>1. CASE MCNext
  <2>1. \/ Next
        \/ UNCHANGED vars
    BY <1>1 DEF MCNext
  <2>2. \/ AD!Next
        \/ UNCHANGED assets
    BY <1>1 DEF MCNext
  <2>3. \/ CR!Next
        \/ UNCHANGED cron
    BY <1>1 DEF MCNext
  <2>4. \/ SW!Next
        \/ UNCHANGED setup
    BY <1>1 DEF MCNext
  <2> QED
    BY <2>1, <2>2, <2>3, <2>4
<1>2. CASE UNCHANGED <<part, vars, assets, cron, setup>>
  BY <1>2
<1> QED
  BY <1>1, <1>2

-----------------------------------------------------------------------------
(* A scheduled job.                                                        *)

JobRow == [on : BOOLEAN, deleted : BOOLEAN, def : Callers]

CronTypes ==
  /\ row_c \in JobRow \cup {None}
  /\ job \in [on : BOOLEAN, def : Callers] \cup {None}
  /\ pc \in [Callers -> CR!Adding \cup CR!Other \cup {"idle"}]
  /\ seen \in [Callers -> JobRow \cup {None}]
  /\ \A r \in Callers :
       /\ pc[r] \in {"resume job", "register"} => CR!Live(seen[r])
       /\ pc[r] \in {"remove job", "remove row"} => row_c # None

\* Unless operations crossed, only additions are under way together; unless one
\* of them was loose, it has the lock from its check on.
Ordered ==
  /\ "mixed" \notin past => \A q, r \in Callers :
       pc[q] # "idle" /\ pc[r] \in CR!Other => q = r
  /\ past \cap {"mixed", "loose"} = {} => \A r \in Callers :
       pc[r] \in CR!Adding \ {"lock"} => lock = r

\* What a request in order knows: an addition that writes finds no live row, and
\* until it schedules there is no job; a resumption has read the row as it is.
Knows(r) ==
  /\ pc[r] = "write" => ~CR!Live(row_c)
  /\ pc[r] \in {"resolve", "schedule"} => row_c = CR!Started(r) /\ job = None
  /\ pc[r] \in {"resume job", "register"} => row_c = seen[r]
  /\ pc[r] = "resume row" => CR!Live(row_c)
  /\ pc[r] = "remove row" => job = None

\* A job runs the definition of a live row.
Follows ==
  past \cap {"mixed", "loose"} = {} =>
    /\ \A r \in Callers : Knows(r)
    /\ job # None => CR!Live(row_c) /\ job.def = row_c.def

\* Row and job tell the same but where a request is between the two.
Running == job # None /\ job.on
Usable  == row_c.def \notin Unusable
Agree   == Running <=> CR!Live(row_c) /\ row_c.on /\ Usable
Between == {"resolve", "schedule", "pause row", "resume row", "remove row", "close rows"}
Tells ==
  past = {} =>
    /\ \A r \in Callers : pc[r] \in {"pause row", "close rows"} => ~Running
    /\ \A r \in Callers : pc[r] = "resume row" => (Running <=> Usable)
    /\ (\A r \in Callers : pc[r] \notin Between) => Agree

CronInv == CronTypes /\ Ordered /\ Follows /\ Tells

LEMMA CronStart == CR!Init => CronInv
BY DEF CR!Init, CronInv, CronTypes, Ordered, Follows, Knows, Tells, Agree, Running, Usable, CR!Live,
       CR!Adding, CR!Other, Between

LEMMA CronTrue == CronInv => CR!JobsFollowRows
BY DEF CronInv, CronTypes, Follows, Tells, Agree, Running, Usable, Between, CR!Live, CR!JobsFollowRows,
       CR!RowDecides, CR!JobRunsItsRow, CR!Busy, CR!Adding, CR!Other

Loose == past \cap {"mixed", "loose"} # {}

\* A request past its lock works alone, if nothing has crossed.
LEMMA CronAlone ==
  ASSUME CronInv, NEW r \in Callers, pc[r] \notin {"idle", "lock"}, ~Loose
  PROVE  \A q \in Callers \ {r} : pc[q] \in {"idle", "lock"}
<1> SUFFICES ASSUME NEW q \in Callers, q # r, pc[q] \notin {"idle", "lock"}
             PROVE  FALSE
  OBVIOUS
<1>1. pc[q] \in CR!Adding \ {"lock"} /\ pc[r] \in CR!Adding \ {"lock"}
  BY DEF CronInv, CronTypes, Ordered, Loose
<1> QED
  BY <1>1 DEF CronInv, Ordered, Loose

\* Where a step of a request leaves it and the others.
LEMMA CronMoved ==
  ASSUME CronTypes, NEW r \in Callers, NEW l, NEW x, CR!GotoWith(r, l, x)
  PROVE  /\ pc'[r] = l
         /\ l \in {"write", "resume job", "register"} => seen'[r] = x
         /\ \A q \in Callers \ {r} : pc'[q] = pc[q] /\ seen'[q] = seen[q]
         /\ l \in CR!Adding \cup CR!Other \cup {"idle"} =>
              pc' \in [Callers -> CR!Adding \cup CR!Other \cup {"idle"}]
         /\ x \in JobRow \cup {None} => seen' \in [Callers -> JobRow \cup {None}]
BY DEF CronTypes, CR!GotoWith

Firsts == {"idle", "lock", "check", "pause", "resume", "remove", "close jobs"}

\* A request may be at l without crossing another.
Fits(r, l) == \A q \in Callers \ {r} : /\ l \in CR!Other => pc[q] = "idle"
                                       /\ l # "idle" => pc[q] \notin CR!Other

\* A request that has not begun to work changes neither row nor job.
LEMMA CronOutside ==
  ASSUME CronInv, NEW r \in Callers, NEW l, pc[r] \in {"idle", "lock"},
         CR!GotoWith(r, l, seen[r]), past \subseteq past', UNCHANGED <<row_c, job>>,
         l \in Firsts,
         "mixed" \notin past' => Fits(r, l),
         ~Loose' => (l = "check" => lock' = r) /\ (lock' = lock \/ lock = None)
  PROVE  CronInv'
<1> DEFINE Places == CR!Adding \cup CR!Other \cup {"idle"}
<1>0. l \in Places
  BY DEF CR!Adding, CR!Other, Firsts
<1>1. /\ pc'[r] = l /\ pc' \in [Callers -> Places]
      /\ \A q \in Callers \ {r} : pc'[q] = pc[q] /\ seen'[q] = seen[q]
      /\ seen' \in [Callers -> JobRow \cup {None}]
  BY <1>0, CronMoved DEF CronInv, CronTypes
<1>2. CronTypes'
  BY <1>1 DEF CronInv, CronTypes, CR!Live, Firsts
<1>3. Ordered'
  <2>1. ASSUME "mixed" \notin past', NEW q \in Callers, NEW s \in Callers,
               pc'[q] # "idle", pc'[s] \in CR!Other
        PROVE  q = s
    <3>1. "mixed" \notin past
      BY <2>1
    <3>2. Fits(r, l) /\ pc'[r] = l
      BY <1>1, <2>1
    <3>3. CASE q # r /\ s # r
      BY <1>1, <2>1, <3>1, <3>3 DEF CronInv, Ordered
    <3>4. CASE q = r /\ s # r
      BY <1>1, <2>1, <3>2, <3>4 DEF Fits
    <3>5. CASE q # r /\ s = r
      BY <1>1, <2>1, <3>2, <3>5 DEF Fits
    <3> QED
      BY <3>3, <3>4, <3>5
  <2>2. ASSUME ~Loose', NEW q \in Callers,
               pc'[q] \in CR!Adding \ {"lock"}
        PROVE  lock' = q
    <3>1. CASE q # r
      <4>1. lock = q
        BY <1>1, <2>2, <3>1 DEF CronInv, Ordered, Loose
      <4> QED
        BY <2>2, <4>1, TablesAssumption DEF CR!CronAssumption
    <3>2. CASE q = r
      BY <1>1, <2>2, <3>2 DEF CR!Adding, Firsts
    <3> QED
      BY <3>1, <3>2
  <2> QED
    BY <2>1, <2>2 DEF Ordered, Loose
<1>4. Follows'
  BY <1>1 DEF CronInv, Follows, Knows, Firsts
<1>5. Tells'
  BY <1>1 DEF CronInv, Tells, Agree, Running, Usable, Between, Firsts
<1> QED
  BY <1>2, <1>3, <1>4, <1>5 DEF CronInv

\* A request at work: what it has to leave behind it.
LEMMA CronInside ==
  ASSUME CronInv, NEW r \in Callers, NEW l, NEW x,
         pc[r] \notin {"idle", "lock"}, CR!GotoWith(r, l, x), past \subseteq past',
         l # "lock", l \in CR!Adding \cup CR!Other \cup {"idle"},
         l \in CR!Adding => pc[r] \in CR!Adding, l \in CR!Other => pc[r] \in CR!Other,
         x \in JobRow \cup {None}, l \in {"resume job", "register"} => CR!Live(x),
         row_c' \in JobRow \cup {None}, row_c # None \/ l \in {"remove job", "remove row"} => row_c' # None,
         job' \in [on : BOOLEAN, def : Callers] \cup {None},
         lock' = lock \/ l = "idle",
         ~Loose' => Knows(r)' /\ (job' # None => CR!Live(row_c') /\ job'.def = row_c'.def),
         past' = {} => /\ l \in {"pause row", "close rows"} => ~Running'
                       /\ l = "resume row" => (Running' <=> Usable')
                       /\ l \notin Between => Agree'
  PROVE  CronInv'
<1> DEFINE Places == CR!Adding \cup CR!Other \cup {"idle"}
<1>1. /\ pc'[r] = l /\ pc' \in [Callers -> Places]
      /\ l \in {"write", "resume job", "register"} => seen'[r] = x
      /\ \A q \in Callers \ {r} : pc'[q] = pc[q] /\ seen'[q] = seen[q]
      /\ seen' \in [Callers -> JobRow \cup {None}]
  BY CronMoved DEF CronInv, CronTypes
<1>2. CronTypes'
  BY <1>1 DEF CronInv, CronTypes, CR!Live
<1>3. ~Loose' => ~Loose /\ \A q \in Callers \ {r} : pc'[q] \in {"idle", "lock"}
  BY <1>1, CronAlone DEF Loose
<1>4. Ordered'
  <2>1. ASSUME "mixed" \notin past', NEW q \in Callers, NEW s \in Callers,
               pc'[q] # "idle", pc'[s] \in CR!Other
        PROVE  q = s
    BY <1>1, <2>1 DEF CronInv, Ordered
  <2>2. ASSUME ~Loose', NEW q \in Callers, pc'[q] \in CR!Adding \ {"lock"}
        PROVE  lock' = q
    <3>1. q = r
      BY <1>3, <2>2 DEF CR!Adding
    <3>2. lock = r
      BY <1>1, <1>3, <2>2, <3>1 DEF CronInv, Ordered, Loose
    <3> QED
      BY <1>1, <2>2, <3>1, <3>2 DEF CR!Adding
  <2> QED
    BY <2>1, <2>2 DEF Ordered, Loose
<1>5. Follows'
  BY <1>3 DEF Follows, Knows, Loose
<1>6. Tells'
  BY <1>1, <1>3 DEF Tells, Loose
<1> QED
  BY <1>2, <1>4, <1>5, <1>6 DEF CronInv

LEMMA CronBegins ==
  ASSUME CronInv, NEW r \in Callers, CR!Begin(r) \/ CR!Lock(r)
  PROVE  CronInv'
<1>1. CASE CR!Begin(r)
  <2>1. PICK l \in Firsts \ {"idle", "check"} :
          /\ CR!Goto(r, l)
          /\ IF l = "lock" /\ \A q \in CR!Busy : pc[q] \in CR!Adding
             THEN UNCHANGED past
             ELSE past' = past \cup {p \in {"mixed"} : CR!Busy # {}}
    BY <1>1 DEF CR!Begin, Firsts
  <2>2. "mixed" \notin past' => Fits(r, l)
    BY <2>1 DEF CR!Busy, CR!Adding, CR!Other, CronInv, CronTypes, Fits, Firsts
  <2>3. /\ pc[r] = "idle" /\ UNCHANGED <<row_c, job, lock>> /\ past \subseteq past'
        /\ CR!GotoWith(r, l, seen[r]) /\ l # "check" /\ l \in Firsts
    BY <1>1, <2>1 DEF CR!Begin, CR!Goto, Firsts
  <2> QED
    BY <2>2, <2>3, CronOutside
<1>2. CASE CR!Lock(r)
  <2>0. /\ "mixed" \notin past => Fits(r, "check") /\ Fits(r, "idle")
        /\ pc[r] = "lock" /\ UNCHANGED <<row_c, job>> /\ {"check", "idle"} \subseteq Firsts
    BY <1>2 DEF CR!Lock, CronInv, Ordered, Fits, CR!Other, Firsts
  <2>1. ASSUME lock = None, lock' = r, CR!GotoWith(r, "check", seen[r]), UNCHANGED past
        PROVE  CronInv'
    BY <2>0, <2>1, CronOutside
  <2>2. ASSUME CR!GotoWith(r, "idle", seen[r]), UNCHANGED <<lock, past>>
        PROVE  CronInv'
    BY <2>0, <2>2, CronOutside
  <2>3. ASSUME CR!GotoWith(r, "check", seen[r]), past' = past \cup {"loose"},
               UNCHANGED lock
        PROVE  CronInv'
    <3>1. Loose' /\ past \subseteq past' /\ ("mixed" \notin past' => Fits(r, "check"))
      BY <2>0, <2>3 DEF Loose
    <3> QED
      BY <2>0, <2>3, <3>1, CronOutside
  <2> QED
    BY <1>2, <2>1, <2>2, <2>3 DEF CR!Lock, CR!Goto, CR!Note, CR!Free
<1> QED
  BY <1>1, <1>2

\* What scheduler.add_job leaves of a definition.
LEMMA CronAdded ==
  ASSUME NEW d \in Callers, job' \in CR!Added(d)
  PROVE  /\ job' \in [on : BOOLEAN, def : Callers] \cup {None}
         /\ job' # None => job'.def = d
         /\ Running' <=> d \notin Unusable
<1>1. \A b \in BOOLEAN : /\ [on |-> b, def |-> d] \in [on : BOOLEAN, def : Callers]
                         /\ [on |-> b, def |-> d] # None
  BY TablesAssumption DEF CR!CronAssumption
<1>2. CASE d \in Unusable
  <2>1. CASE job' = None
    BY <1>2, <2>1 DEF Running
  <2>2. CASE job' = [on |-> FALSE, def |-> d]
    BY <1>1, <1>2, <2>2 DEF Running
  <2> QED
    BY <1>2, <2>1, <2>2 DEF CR!Added
<1>3. CASE d \notin Unusable
  <2>1. job' = [on |-> TRUE, def |-> d]
    BY <1>3 DEF CR!Added
  <2> QED
    BY <1>1, <1>3, <2>1 DEF Running
<1> QED
  BY <1>2, <1>3

LEMMA CronAdds ==
  ASSUME CronInv, NEW r \in Callers,
         CR!Check(r) \/ CR!Write(r) \/ CR!Resolve(r) \/ CR!Schedule(r) \/ CR!Unlock(r)
  PROVE  CronInv'
<1> USE TablesAssumption
    DEF CR!CronAssumption, CR!Goto, CR!Look, CR!Note, CR!Adding, CR!Other, CR!Live
<1>0. /\ seen[r] \in JobRow \cup {None} /\ row_c \in JobRow \cup {None}
      /\ job \in [on : BOOLEAN, def : Callers] \cup {None}
      /\ ~Loose => Knows(r) /\ (job # None => CR!Live(row_c) /\ job.def = row_c.def)
  BY DEF CronInv, CronTypes, Follows, Loose
<1>a. past = {} => /\ pc[r] \in {"check", "write", "unlock"} => Agree
  <2> SUFFICES ASSUME past = {}, pc[r] \in {"check", "write", "unlock"}
               PROVE  Agree
    OBVIOUS
  <2> QED
    BY CronAlone DEF CronInv, Tells, Between, Loose
<1>1. CASE CR!Check(r)
  <2> DEFINE l == IF CR!Live(row_c) THEN "unlock" ELSE "write"
  <2>1. pc[r] = "check" /\ CR!GotoWith(r, l, row_c) /\ UNCHANGED <<row_c, job, lock, past>>
    BY <1>1 DEF CR!Check
  <2>2. pc'[r] = l
    BY <2>1, CronMoved DEF CronInv
  <2> QED
    BY <1>0, <1>a, <2>1, <2>2, CronInside DEF Loose, Knows, Agree, Running, Usable, Between
<1>2. CASE CR!Write(r)
  <2>1. ASSUME seen[r] = None => row_c = None, row_c' = CR!Started(r),
               CR!GotoWith(r, "resolve", seen[r])
        PROVE  CronInv'
    <3>1. /\ pc[r] = "write" /\ UNCHANGED <<job, lock, past>> /\ pc'[r] = "resolve"
          /\ row_c' \in JobRow
      BY <1>2, <2>1, CronMoved DEF CR!Write, CronInv, CR!Started, JobRow
    <3>2. ~Loose => job = None
      BY <1>0, <3>1 DEF Knows
    <3>3. ~Loose' => Knows(r)' /\ (job' # None => CR!Live(row_c') /\ job'.def = row_c'.def)
      BY <2>1, <3>1, <3>2 DEF Loose, Knows
    <3>4. "resolve" \in Between
      BY DEF Between
    <3>5. seen[r] \in JobRow \cup {None} /\ job \in [on : BOOLEAN, def : Callers] \cup {None}
      BY <1>0
    <3>6. row_c' # None
      BY <3>1 DEF JobRow
    <3> HIDE DEF CR!Live
    <3> QED
      BY <2>1, <3>1, <3>3, <3>4, <3>5, <3>6, CronInside
  <2>2. ASSUME CR!GotoWith(r, "unlock", seen[r]), UNCHANGED row_c
        PROVE  CronInv'
    <3>1. /\ pc[r] = "write" /\ UNCHANGED <<job, lock, past>> /\ pc'[r] = "unlock"
      BY <1>2, <2>2, CronMoved DEF CR!Write, CronInv
    <3> QED
      BY <1>0, <1>a, <2>2, <3>1, CronInside DEF Loose, Knows, Agree, Running, Usable, Between
  <2> QED
    BY <1>2, <2>1, <2>2 DEF CR!Write
<1>3. CASE CR!Resolve(r)
  <2>1. PICK l \in {"schedule", "unlock"} :
           /\ CR!GotoWith(r, l, seen[r]) /\ past \subseteq past'
           /\ l = "unlock" => past' # {}
    BY <1>3 DEF CR!Resolve
  <2>2. pc[r] = "resolve" /\ UNCHANGED <<row_c, job, lock>> /\ pc'[r] = l
    BY <1>3, <2>1, CronMoved DEF CR!Resolve, CronInv
  <2> QED
    BY <1>0, <2>1, <2>2, CronInside DEF Loose, Knows, Between, CR!Started
<1>4. CASE CR!Schedule(r)
  <2>1. /\ pc[r] = "schedule" /\ UNCHANGED <<row_c, lock, past>>
        /\ CR!GotoWith(r, "unlock", seen[r])
        /\ (job = None /\ job' \in CR!Added(r)) \/ (job # None /\ job' = job)
    BY <1>4 DEF CR!Schedule
  <2>2. pc'[r] = "unlock"
    BY <2>1, CronMoved DEF CronInv
  <2>a. ~Loose' => row_c = CR!Started(r) /\ job = None
    BY <1>0, <2>1 DEF Knows, Loose
  <2>b. CR!Started(r) \in [on : BOOLEAN, deleted : BOOLEAN, def : Callers]
    BY DEF CR!Started
  <2>c. /\ CR!Started(r) # None /\ CR!Started(r).on = TRUE
        /\ CR!Started(r).deleted = FALSE /\ CR!Started(r).def = r
    BY <2>b DEF CR!Started
  <2>3. ~Loose' => /\ job' # None => job'.def = r
                   /\ Running' <=> r \notin Unusable
                   /\ row_c' # None /\ row_c'.on = TRUE /\ row_c'.deleted = FALSE
                   /\ row_c'.def = r
    <3> HIDE TablesAssumption
    <3>1. ~Loose' => job = None /\ job' \in CR!Added(r) /\ row_c' = CR!Started(r)
      BY <2>1, <2>a DEF Loose
    <3> QED
      BY <2>c, <3>1, CronAdded
  <2>4. job' \in [on : BOOLEAN, def : Callers] \cup {None}
    BY <1>0, <2>1, CronAdded
  <2>5. ~Loose' => Knows(r)' /\ (job' # None => CR!Live(row_c') /\ job'.def = row_c'.def)
    BY <2>2, <2>3 DEF Knows
  <2>6. past' = {} => Agree'
    BY <2>3 DEF Loose, Agree, Usable
  <2> QED
    BY <1>0, <2>1, <2>2, <2>4, <2>5, <2>6, CronInside
<1>5. CASE CR!Unlock(r)
  <2>1. /\ pc[r] = "unlock" /\ UNCHANGED <<row_c, job>> /\ past \subseteq past'
        /\ CR!GotoWith(r, "idle", seen[r])
    BY <1>5 DEF CR!Unlock
  <2>2. pc'[r] = "idle"
    BY <2>1, CronMoved DEF CronInv
  <2> QED
    BY <1>0, <1>a, <2>1, <2>2, CronInside DEF Loose, Knows, Agree, Running, Usable, Between
<1> QED
  BY <1>1, <1>2, <1>3, <1>4, <1>5

\* What a request at work outside an addition finds, if nothing has crossed.
LEMMA CronKnown ==
  ASSUME CronInv, NEW r \in Callers, pc[r] \notin {"idle", "lock"}
  PROVE  /\ seen[r] \in JobRow \cup {None} /\ row_c \in JobRow \cup {None}
         /\ job \in [on : BOOLEAN, def : Callers] \cup {None}
         /\ ~Loose => Knows(r) /\ (job # None => CR!Live(row_c) /\ job.def = row_c.def)
         /\ past = {} /\ pc[r] \notin Between => Agree
         /\ past = {} /\ pc[r] \in {"pause row", "close rows"} => ~Running
         /\ past = {} /\ pc[r] = "resume row" => (Running <=> Usable)
<1>1. past = {} /\ pc[r] \notin Between => Agree
  BY CronAlone DEF CronInv, Tells, Between, Loose
<1> QED
  BY <1>1 DEF CronInv, CronTypes, Follows, Tells, Loose

\* The row is read and the request goes on if there is a live one.
LEMMA CronReads ==
  ASSUME CronInv, NEW r \in Callers, NEW from, NEW to, CR!Read(r, from, to),
         <<from, to>> \in {<<"pause", "pause job">>, <<"resume", "resume job">>,
                          <<"remove", "remove job">>}
  PROVE  CronInv'
<1>1. CASE from = "pause" /\ to = "pause job"
  <2>1. PICK l \in {"pause job", "idle"} : CR!GotoWith(r, l, row_c)
    BY <1>1 DEF CR!Read, CR!Look
  <2>2. pc[r] = "pause" /\ UNCHANGED <<row_c, job, lock, past>> /\ pc'[r] = l
    BY <1>1, <2>1, CronMoved DEF CR!Read, CronInv
  <2> QED
    BY <2>1, <2>2, CronKnown, CronInside
       DEF CR!Adding, CR!Other, Loose, Knows, Agree, Running, Usable, Between
<1>2. CASE from = "remove" /\ to = "remove job"
  <2>1. PICK l \in {"remove job", "idle"} :
          CR!GotoWith(r, l, row_c) /\ (l = "remove job" => row_c # None)
    BY <1>2 DEF CR!Read, CR!Look, CR!Live
  <2>2. pc[r] = "remove" /\ UNCHANGED <<row_c, job, lock, past>> /\ pc'[r] = l
    BY <1>2, <2>1, CronMoved DEF CR!Read, CronInv
  <2> QED
    BY <2>1, <2>2, CronKnown, CronInside
       DEF CR!Adding, CR!Other, Loose, Knows, Agree, Running, Usable, Between
<1>3. CASE from = "resume" /\ to = "resume job"
  <2>1. PICK l \in {"resume job", "idle"} :
          CR!GotoWith(r, l, row_c) /\ (l = "resume job" => CR!Live(row_c))
    BY <1>3 DEF CR!Read, CR!Look
  <2>2. /\ pc[r] = "resume" /\ UNCHANGED <<row_c, job, lock, past>> /\ pc'[r] = l
        /\ l = "resume job" => seen'[r] = row_c
    BY <1>3, <2>1, CronMoved DEF CR!Read, CronInv
  <2> QED
    BY <2>1, <2>2, CronKnown, CronInside
       DEF CR!Adding, CR!Other, Loose, Knows, Agree, Running, Usable, Between
<1> QED
  BY <1>1, <1>2, <1>3

\* The job is paused or started again, if there is one.
LEMMA CronJobTo ==
  ASSUME CronInv, CR!Paused \/ (job # None /\ CR!Resumed)
  PROVE  /\ job' \in [on : BOOLEAN, def : Callers] \cup {None}
         /\ job' # None => job # None /\ job'.def = job.def
         /\ CR!Paused => ~Running'
         /\ ~CR!Paused => (Running' <=> job.def \notin Unusable)
<1>1. CASE job' = None
  <2>1. ~Running'
    BY <1>1 DEF Running
  <2>2. ASSUME ~CR!Paused PROVE job.def \in Unusable
    <3>1. job # None /\ CR!Resumed /\ job \in [on : BOOLEAN, def : Callers]
      BY <2>2 DEF CronInv, CronTypes
    <3>2. [job EXCEPT !.on = TRUE] \in [on : BOOLEAN, def : Callers]
      BY <3>1
    <3> QED
      BY <1>1, <3>1, <3>2, TablesAssumption DEF CR!Resumed, CR!CronAssumption
  <2> QED
    BY <1>1, <2>1, <2>2
<1>2. ASSUME NEW b \in BOOLEAN, job' = [job EXCEPT !.on = b], job # None,
             b <=> ~CR!Paused, ~CR!Paused => job.def \notin Unusable
      PROVE  /\ job' \in [on : BOOLEAN, def : Callers] \cup {None}
             /\ job' # None => job # None /\ job'.def = job.def
             /\ CR!Paused => ~Running'
             /\ ~CR!Paused => (Running' <=> job.def \notin Unusable)
  <2>1. job \in [on : BOOLEAN, def : Callers]
    BY <1>2 DEF CronInv, CronTypes
  <2>2. /\ job' \in [on : BOOLEAN, def : Callers] /\ job'.on = b
        /\ job'.def = job.def
    BY <1>2, <2>1
  <2>3. job' # None
    BY <2>2, TablesAssumption DEF CR!CronAssumption
  <2> QED
    BY <1>2, <2>2, <2>3 DEF Running
<1>3. CASE job' # None /\ CR!Paused
  <2>1. job # None /\ job' = [job EXCEPT !.on = FALSE]
    BY <1>3 DEF CR!Paused
  <2> QED
    BY <1>2, <1>3, <2>1
<1>4. CASE job' # None /\ ~CR!Paused
  <2>1. job # None /\ job' = [job EXCEPT !.on = TRUE] /\ job.def \notin Unusable
    BY <1>4 DEF CR!Resumed
  <2> QED
    BY <1>2, <1>4, <2>1
<1> QED
  BY <1>1, <1>3, <1>4

\* The row is written as the job is; or the commit fails.
LEMMA CronRowTo ==
  ASSUME CronInv, NEW on \in BOOLEAN, NEW wide \in BOOLEAN,
         row_c' = IF row_c # None /\ (wide \/ CR!Live(row_c))
                  THEN [row_c EXCEPT !.on = on] ELSE row_c
  PROVE  /\ row_c' \in JobRow \cup {None} /\ (row_c' = None <=> row_c = None)
         /\ CR!Live(row_c') <=> CR!Live(row_c)
         /\ row_c # None => row_c'.def = row_c.def
         /\ CR!Live(row_c) => row_c'.on = on
<1> USE TablesAssumption DEF CR!CronAssumption, JobRow
<1>1. CASE row_c # None /\ (wide \/ CR!Live(row_c))
  <2>1. row_c' = [row_c EXCEPT !.on = on] /\ row_c \in JobRow
    BY <1>1 DEF CronInv, CronTypes
  <2>2. /\ row_c' \in JobRow /\ row_c'.on = on /\ row_c'.def = row_c.def
        /\ row_c'.deleted = row_c.deleted
    BY <2>1
  <2>3. row_c' # None
    BY <2>2
  <2> QED
    BY <1>1, <2>2, <2>3 DEF CR!Live
<1>2. CASE ~(row_c # None /\ (wide \/ CR!Live(row_c)))
  <2>1. row_c' = row_c /\ row_c \in JobRow \cup {None}
    BY <1>2 DEF CronInv, CronTypes
  <2> QED
    BY <1>2, <2>1 DEF CR!Live
<1> QED
  BY <1>1, <1>2

LEMMA CronPauses ==
  ASSUME CronInv, NEW r \in Callers,
         \/ CR!PauseJob(r) \/ CR!RowTo(r, "pause row", FALSE)
         \/ CR!CloseJobs(r) \/ CR!CloseRows(r)
  PROVE  CronInv'
<1>1. ASSUME NEW l \in {"pause row", "close rows"},
             pc[r] = IF l = "pause row" THEN "pause job" ELSE "close jobs",
             CR!Paused, CR!GotoWith(r, l, seen[r]), UNCHANGED <<row_c, lock, past>>
      PROVE  CronInv'
  <2>1. pc'[r] = l
    BY <1>1, CronMoved DEF CronInv
  <2>2. ~Running' /\ pc[r] \notin {"idle", "lock"} /\ l \in Between
    BY <1>1, CronJobTo DEF Between
  <2>3. /\ job' \in [on : BOOLEAN, def : Callers] \cup {None}
        /\ job' # None => job # None /\ job'.def = job.def
    BY <1>1, CronJobTo
  <2>4. ~Loose' => Knows(r)' /\ (job' # None => CR!Live(row_c') /\ job'.def = row_c'.def)
    BY <1>1, <2>1, <2>2, <2>3, CronKnown DEF Loose, Knows
  <2> QED
    BY <1>1, <2>2, <2>3, <2>4, CronKnown, CronInside DEF CR!Adding, CR!Other
<1>2. ASSUME NEW from \in {"pause row", "close rows"}, pc[r] = from,
             CR!GotoWith(r, "idle", seen[r]), UNCHANGED <<job, lock>>,
             \/ /\ UNCHANGED past
                /\ row_c' = IF row_c # None /\ (from = "close rows" \/ CR!Live(row_c))
                            THEN [row_c EXCEPT !.on = FALSE] ELSE row_c
             \/ UNCHANGED row_c /\ past' = past \cup {"failed"}
      PROVE  CronInv'
  <2>1. pc'[r] = "idle" /\ pc[r] \notin {"idle", "lock"}
    BY <1>2, CronMoved DEF CronInv
  <2>2. /\ row_c' \in JobRow \cup {None} /\ (row_c' = None <=> row_c = None)
        /\ CR!Live(row_c') <=> CR!Live(row_c)
        /\ row_c # None => row_c'.def = row_c.def
    BY <1>2, <2>1, CronKnown, CronRowTo
  <2>3. past' = {} => past = {} /\ (CR!Live(row_c) => row_c'.on = FALSE)
    BY <1>2, CronRowTo
  <2>4. past' = {} => Agree'
    BY <1>2, <2>1, <2>2, <2>3, CronKnown DEF Agree, Running, Usable
  <2>5. ~Loose' => Knows(r)' /\ (job' # None => CR!Live(row_c') /\ job'.def = row_c'.def)
    BY <1>2, <2>1, <2>2, CronKnown DEF Loose, Knows, CR!Live
  <2> QED
    BY <1>2, <2>1, <2>2, <2>4, <2>5, CronKnown, CronInside DEF CR!Adding, CR!Other
<1>3. CASE CR!PauseJob(r)
  BY <1>1, <1>3 DEF CR!PauseJob, CR!Goto
<1>4. CASE CR!CloseJobs(r)
  BY <1>1, <1>4 DEF CR!CloseJobs, CR!Goto
<1>5. CASE CR!RowTo(r, "pause row", FALSE)
  BY <1>2, <1>5 DEF CR!RowTo, CR!Goto, CR!Note, CR!Live
<1>6. CASE CR!CloseRows(r)
  BY <1>2, <1>6 DEF CR!CloseRows, CR!Goto, CR!Note
<1> QED
  BY <1>3, <1>4, <1>5, <1>6

LEMMA CronResumes ==
  ASSUME CronInv, NEW r \in Callers,
         CR!ResumeJob(r) \/ CR!Register(r) \/ CR!RowTo(r, "resume row", TRUE)
  PROVE  CronInv'
<1>1. CASE CR!ResumeJob(r)
  <2>1. pc[r] = "resume job" /\ UNCHANGED <<row_c, lock>>
    BY <1>1 DEF CR!ResumeJob
  <2>2. /\ CR!Live(seen[r]) /\ pc[r] \notin {"idle", "lock"}
        /\ ~Loose => row_c = seen[r]
    BY <2>1, CronKnown DEF CronInv, CronTypes, Knows
  <2>3. ASSUME job # None, CR!Resumed, CR!GotoWith(r, "resume row", seen[r]),
               UNCHANGED past
        PROVE  CronInv'
    <3>1. pc'[r] = "resume row"
      BY <2>3, CronMoved DEF CronInv
    <3>2. /\ job' \in [on : BOOLEAN, def : Callers] \cup {None}
          /\ job' # None => job'.def = job.def
          /\ Running' <=> job.def \notin Unusable
      <4>1. CR!Paused => ~Running' /\ job.def \in Unusable
        BY <2>3, CronJobTo DEF CR!Paused, CR!Resumed, Running, CronInv, CronTypes
      <4> QED
        BY <2>3, <4>1, CronJobTo
    <3>3. ~Loose' => Knows(r)' /\ (job' # None => CR!Live(row_c') /\ job'.def = row_c'.def)
      BY <2>1, <2>2, <2>3, <3>1, <3>2, CronKnown DEF Loose, Knows
    <3>4. "resume row" \in Between /\ (past' = {} => (Running' <=> Usable'))
      BY <2>1, <2>2, <2>3, <3>2, CronKnown DEF Usable, Between, Loose
    <3> QED
      BY <2>1, <2>2, <2>3, <3>2, <3>3, <3>4, CronKnown, CronInside DEF CR!Adding, CR!Other
  <2>4. ASSUME CR!GotoWith(r, "register", seen[r]), UNCHANGED <<past, job>>
        PROVE  CronInv'
    <3>1. pc'[r] = "register" /\ seen'[r] = seen[r]
      BY <2>4, CronMoved DEF CronInv
    <3>3. ~Loose' => Knows(r)' /\ (job' # None => CR!Live(row_c') /\ job'.def = row_c'.def)
      BY <2>1, <2>2, <2>4, <3>1, CronKnown DEF Loose, Knows
    <3>4. past' = {} => Agree'
      BY <2>1, <2>4, CronKnown DEF Agree, Running, Usable, Between
    <3> QED
      BY <2>1, <2>2, <2>4, <3>3, <3>4, CronKnown, CronInside DEF CR!Adding, CR!Other
  <2>5. ASSUME CR!GotoWith(r, "resume row", seen[r]), UNCHANGED job,
               past' = past \cup {"hostless"}
        PROVE  CronInv'
    <3>1. pc'[r] = "resume row" /\ past' # {}
      BY <2>5, CronMoved DEF CronInv
    <3>3. ~Loose' => Knows(r)' /\ (job' # None => CR!Live(row_c') /\ job'.def = row_c'.def)
      BY <2>1, <2>2, <2>5, <3>1, CronKnown DEF Loose, Knows
    <3> QED
      BY <2>1, <2>2, <2>5, <3>1, <3>3, CronKnown, CronInside DEF CR!Adding, CR!Other
  <2> QED
    BY <1>1, <2>3, <2>4, <2>5 DEF CR!ResumeJob, CR!Goto, CR!Note
<1>2. CASE CR!Register(r)
  <2>1. pc[r] = "register" /\ UNCHANGED <<row_c, lock, past>>
    BY <1>2 DEF CR!Register
  <2>2. /\ CR!Live(seen[r]) /\ seen[r] \in JobRow /\ pc[r] \notin {"idle", "lock"}
        /\ ~Loose => row_c = seen[r]
    BY <2>1, CronKnown DEF CronInv, CronTypes, Knows, CR!Live
  <2>a. ASSUME job = None, job' \in CR!Added(seen[r].def)
        PROVE  /\ job' \in [on : BOOLEAN, def : Callers] \cup {None}
               /\ job' # None => job'.def = seen[r].def
               /\ Running' <=> seen[r].def \notin Unusable
    <3>1. seen[r].def \in Callers
      BY <2>2 DEF JobRow
    <3> QED
      BY <2>a, <3>1, CronAdded
  <2>3. ASSUME job = None, job' \in CR!Added(seen[r].def),
               CR!GotoWith(r, "resume row", seen[r])
        PROVE  CronInv'
    <3>1. pc'[r] = "resume row"
      BY <2>3, CronMoved DEF CronInv
    <3>2. /\ job' \in [on : BOOLEAN, def : Callers] \cup {None}
          /\ job' # None => job'.def = seen[r].def
          /\ Running' <=> seen[r].def \notin Unusable
      BY <2>3, <2>a
    <3>3. ~Loose' => Knows(r)' /\ (job' # None => CR!Live(row_c') /\ job'.def = row_c'.def)
      BY <2>1, <2>2, <3>1, <3>2 DEF Loose, Knows
    <3>4. "resume row" \in Between /\ (past' = {} => (Running' <=> Usable'))
      BY <2>1, <2>2, <3>2 DEF Usable, Between, Loose
    <3> QED
      BY <2>1, <2>2, <2>3, <3>2, <3>3, <3>4, CronKnown, CronInside DEF CR!Adding, CR!Other
  <2>4. ASSUME UNCHANGED job, CR!GotoWith(r, "idle", seen[r])
        PROVE  CronInv'
    <3>1. pc'[r] = "idle"
      BY <2>4, CronMoved DEF CronInv
    <3>3. ~Loose' => Knows(r)' /\ (job' # None => CR!Live(row_c') /\ job'.def = row_c'.def)
      BY <2>1, <2>2, <2>4, <3>1, CronKnown DEF Loose, Knows
    <3>4. past' = {} => Agree'
      BY <2>1, <2>4, CronKnown DEF Agree, Running, Usable, Between
    <3> QED
      BY <2>1, <2>2, <2>4, <3>3, <3>4, CronKnown, CronInside DEF CR!Adding, CR!Other
  <2>5. ASSUME job = None, job' = None, job' \in CR!Added(seen[r].def),
               CR!GotoWith(r, "idle", seen[r])
        PROVE  CronInv'
    BY <2>4, <2>5
  <2> QED
    BY <1>2, <2>3, <2>4, <2>5 DEF CR!Register, CR!Goto
<1>3. CASE CR!RowTo(r, "resume row", TRUE)
  <2>1. /\ pc[r] = "resume row" /\ CR!GotoWith(r, "idle", seen[r])
        /\ UNCHANGED <<job, lock>>
    BY <1>3 DEF CR!RowTo, CR!Goto
  <2>2. pc'[r] = "idle" /\ pc[r] \notin {"idle", "lock"}
    BY <2>1, CronMoved DEF CronInv
  <2>3. /\ row_c' \in JobRow \cup {None} /\ (row_c' = None <=> row_c = None)
        /\ CR!Live(row_c') <=> CR!Live(row_c)
        /\ row_c # None => row_c'.def = row_c.def
        /\ past \subseteq past'
        /\ past' = {} => past = {} /\ (CR!Live(row_c) => row_c'.on = TRUE)
    <3>1. CASE UNCHANGED row_c /\ past' = past \cup {"failed"}
      BY <2>2, <3>1, CronKnown
    <3>2. CASE row_c' = (IF CR!Live(row_c) THEN [row_c EXCEPT !.on = TRUE] ELSE row_c)
               /\ UNCHANGED past
      <4>1. row_c' = IF row_c # None /\ (FALSE \/ CR!Live(row_c))
                     THEN [row_c EXCEPT !.on = TRUE] ELSE row_c
        BY <3>2 DEF CR!Live
      <4> QED
        BY <3>2, <4>1, CronRowTo
    <3> QED
      BY <1>3, <3>1, <3>2 DEF CR!RowTo, CR!Note
  <2>4. past = {} => CR!Live(row_c) /\ (Running <=> Usable)
    BY <2>1, <2>2, CronKnown DEF Knows, Loose
  <2>5. past' = {} => Agree'
    BY <2>1, <2>3, <2>4 DEF Agree, Running, Usable
  <2>6. ~Loose' => Knows(r)' /\ (job' # None => CR!Live(row_c') /\ job'.def = row_c'.def)
    BY <2>1, <2>2, <2>3, CronKnown DEF Loose, Knows, CR!Live
  <2> QED
    BY <2>1, <2>2, <2>3, <2>5, <2>6, CronKnown, CronInside DEF CR!Adding, CR!Other
<1> QED
  BY <1>1, <1>2, <1>3

LEMMA CronRemoves ==
  ASSUME CronInv, NEW r \in Callers, CR!RemoveJob(r) \/ CR!RemoveRow(r)
  PROVE  CronInv'
<1>1. CASE CR!RemoveJob(r)
  <2>1. /\ pc[r] = "remove job" /\ job' = None /\ UNCHANGED <<row_c, lock, past>>
        /\ CR!GotoWith(r, "remove row", seen[r])
    BY <1>1 DEF CR!RemoveJob, CR!Removed, CR!Goto
  <2>2. pc'[r] = "remove row" /\ row_c # None /\ pc[r] \notin {"idle", "lock"}
    BY <2>1, CronMoved DEF CronInv, CronTypes
  <2>3. Knows(r)' /\ "remove row" \in Between
    BY <2>1, <2>2 DEF Knows, Between
  <2> QED
    BY <2>1, <2>2, <2>3, CronKnown, CronInside DEF CR!Adding, CR!Other
<1>2. CASE CR!RemoveRow(r)
  <2>1. /\ pc[r] = "remove row" /\ UNCHANGED <<job, lock>> /\ past \subseteq past'
        /\ CR!GotoWith(r, "idle", seen[r])
        /\ \/ row_c' = [row_c EXCEPT !.deleted = TRUE] /\ UNCHANGED past
           \/ UNCHANGED row_c /\ past' # {}
    BY <1>2 DEF CR!RemoveRow, CR!Goto, CR!Note
  <2>2. /\ pc'[r] = "idle" /\ row_c \in JobRow /\ pc[r] \notin {"idle", "lock"}
        /\ ~Loose => job = None
    BY <2>1, CronMoved, CronKnown DEF CronInv, CronTypes, Knows
  <2>3. row_c' \in JobRow /\ (past' = {} => row_c'.deleted)
    BY <2>1, <2>2 DEF JobRow
  <2>4. row_c' # None
    BY <2>3, TablesAssumption DEF JobRow, CR!CronAssumption
  <2>5. past' = {} => Agree'
    BY <2>1, <2>2, <2>3 DEF Agree, Running, Usable, CR!Live, Loose
  <2>6. ~Loose' => Knows(r)' /\ job' = None
    BY <2>1, <2>2 DEF Knows, Loose
  <2> QED
    BY <2>1, <2>2, <2>3, <2>4, <2>5, <2>6, CronKnown, CronInside DEF CR!Adding, CR!Other
<1> QED
  BY <1>1, <1>2

LEMMA CronStep == CronInv /\ [CR!Next]_(CR!vars) => CronInv'
<1> SUFFICES ASSUME CronInv, [CR!Next]_(CR!vars)
             PROVE  CronInv'
  OBVIOUS
<1>1. CASE \E r \in Callers : CR!Begin(r) \/ CR!Add(r) \/ CR!Operate(r)
  <2>1. PICK r \in Callers : CR!Begin(r) \/ CR!Add(r) \/ CR!Operate(r)
    BY <1>1
  <2> QED
    BY <2>1, CronBegins, CronAdds, CronReads, CronPauses, CronResumes, CronRemoves
       DEF CR!Add, CR!Operate
<1>2. CASE CR!Expire
  <2>1. UNCHANGED <<row_c, job, pc, seen>> /\ past \subseteq past' /\ lock' = None
    BY <1>2 DEF CR!Expire
  <2>2. ~Loose' => \A r \in Callers : pc[r] \notin CR!Adding \ {"lock"}
    BY <1>2 DEF CR!Expire, CronInv, Ordered, Loose
  <2>3. CronTypes'
    BY <2>1 DEF CronInv, CronTypes
  <2>4. Ordered'
    BY <2>1, <2>2 DEF CronInv, Ordered, Loose
  <2>5. Follows' /\ Tells'
    BY <2>1 DEF CronInv, Follows, Knows, Tells, Agree, Running, Usable
  <2> QED
    BY <2>3, <2>4, <2>5 DEF CronInv
<1>3. CASE CR!Restart
  <2>1. /\ \A r \in Callers : pc'[r] = "idle" /\ seen'[r] = None
        /\ pc' \in [Callers -> CR!Adding \cup CR!Other \cup {"idle"}]
        /\ seen' \in [Callers -> JobRow \cup {None}] /\ UNCHANGED row_c
    BY <1>3 DEF CR!Restart
  <2>2. row_c \in JobRow \cup {None} /\ (CR!Live(row_c) => row_c \in JobRow)
    BY DEF CronInv, CronTypes, CR!Live
  <2>3. \/ /\ CR!Loadable /\ job' \in CR!Added(row_c.def) /\ past' = {}
        \/ ~CR!Loadable /\ job' = None /\ past' = {}
        \/ job' = None /\ past' = {"hostless"}
    BY <1>3 DEF CR!Restart
  <2>4. /\ job' \in [on : BOOLEAN, def : Callers] \cup {None}
        /\ job' # None => CR!Loadable /\ job'.def = row_c.def
        /\ past' = {} => (Running' <=> CR!Loadable /\ Usable)
    <3>1. CASE CR!Loadable /\ job' \in CR!Added(row_c.def)
      <4>1. row_c.def \in Callers
        BY <2>2, <3>1 DEF CR!Loadable, JobRow
      <4> QED
        BY <3>1, <4>1, CronAdded DEF Usable
    <3>2. CASE job' = None /\ (past' = {} => ~CR!Loadable)
      BY <3>2 DEF Running
    <3> QED
      BY <2>3, <3>1, <3>2
  <2>5. CronTypes' /\ Ordered'
    BY <2>1, <2>2, <2>3, <2>4 DEF CronTypes, Ordered, CR!Adding, CR!Other
  <2>6. Follows'
    <3>1. \A r \in Callers : Knows(r)'
      BY <2>1 DEF Knows
    <3>2. job' # None => CR!Live(row_c') /\ job'.def = row_c'.def
      BY <2>1, <2>4 DEF CR!Loadable
    <3> QED
      BY <3>1, <3>2 DEF Follows
  <2>7. Tells'
    BY <2>1, <2>4 DEF Tells, Agree, Usable, CR!Loadable
  <2> QED
    BY <2>5, <2>6, <2>7 DEF CronInv
<1>4. CASE UNCHANGED CR!vars
  BY <1>4 DEF CR!vars, CronInv, CronTypes, Ordered, Follows, Knows, Tells, Agree, Running, Usable
<1> QED
  BY <1>1, <1>2, <1>3, <1>4 DEF CR!Next

\* However requests cross, an addition loses its lock, a commit fails or the
\* process restarts: once nothing is under way a started row the scheduler can use
\* has a running job and no other has one, and the job runs what the row shows, but for the named
\* crossings (cron.py, load_cron_from_db).
THEOREM JobsAreFollowed == (CR!Spec => []CR!JobsFollowRows) /\ (MCSpec => []JobsFollowRows)
<1>1. CR!Spec => []CR!JobsFollowRows
  BY CronStart, CronStep, CronTrue, PTL DEF CR!Spec
<1>2. MCInit => CronInv
  BY CronStart DEF MCInit
<1>3. CronInv /\ [MCNext]_<<part, vars, assets, cron, setup>> => CronInv'
  BY PartSteps, CronStep
<1>4. CronInv => JobsFollowRows
  BY CronTrue DEF JobsFollowRows
<1>5. MCSpec => []JobsFollowRows
  BY <1>2, <1>3, <1>4, PTL DEF MCSpec
<1> QED
  BY <1>1, <1>5

-----------------------------------------------------------------------------
(* The setup of an empty system.                                           *)

Passwords == Requests \cup {None, SW!SeedPwd, "own", "unusable"}
UserRow   == [name : People \cup {None}, live : BOOLEAN, admin : BOOLEAN, pwd : Passwords]
Found     == SW!Ids \cup {0}

SetupTypes ==
  /\ rows \in [SW!Ids -> UserRow] /\ name \in [Requests -> People]
  /\ saw \in [Requests -> [existing : Found, legacy : Found]]
  /\ par \in [Requests -> SW!InFlight \cup {"idle", "refused", "failed", "lost", "ok"}]
  /\ child \in [Requests -> SW!Working \cup {"none", "ok", "bad", "killed"}]
  /\ \A r \in Requests : par[r] = "idle" => child[r] = "none"

Filled  == {i \in SW!Ids : rows[i] # SW!NoRow}
Spent == {r \in Requests : child[r] \in {"mail", "ok", "bad", "killed"}}

\* Each child inserts one row at most, so there is always a row left.
RoomIsLeft == Cardinality(Filled) <= 2 + Cardinality(Spent)

\* Only the row the database came with has the seeded password, and a child that
\* is about to commit has seen it; what a child has seen is still there.
SeedIsSeen ==
  /\ \A i \in SW!Ids : rows[i].pwd = SW!SeedPwd => i = 1 /\ rows[1].name = Seed
  /\ \A r \in Requests :
       /\ child[r] = "admin" /\ rows[1].pwd = SW!SeedPwd => saw[r].legacy = 1
       /\ {saw[r].existing, saw[r].legacy} \subseteq Filled \cup {0}

HasAdmin == \E i \in SW!Ids : SW!Administers(i)
Ready    == seeded /\ HasAdmin /\ \A i \in SW!Ids : rows[i].pwd # SW!SeedPwd

\* Who has got how far, and what stands since.
Guarded == sentinel \/ spoiled
Prepared ==
  /\ Filled # {} => HasAdmin
  /\ \A r \in Requests :
       /\ child[r] \in {"read", "admin"} => seeded
       /\ child[r] \in {"mail", "ok"} \/ par[r] \in {"write", "mark", "drop", "ok"} => Ready
       /\ par[r] \in {"drop", "ok"} => Guarded
  /\ runtime # None \/ worker = "runs" => Ready

SetupInv == SetupTypes /\ RoomIsLeft /\ SeedIsSeen /\ Prepared

\* The instance's symbols of the standard modules.
LEMMA SetupCardinality == \A S : SW!Cardinality(S) = Cardinality(S)
BY Zenon DEF SW!Cardinality, Cardinality, SW!IsFiniteSet, IsFiniteSet

LEMMA RequestsFinite ==
  /\ IsFiniteSet(Requests) /\ Cardinality(Requests) \in Nat
  /\ SW!Ids = 1 .. Cardinality(Requests) + 2 /\ {1, 2} \subseteq SW!Ids
  /\ {SW!SeedPwd, "own", "unusable"} \cap (Requests \cup {None}) = {}
  /\ None \notin Requests /\ None \notin People /\ Seed \in People
<1>1. IsFiniteSet(Requests)
  BY Zenon, TablesAssumption DEF SW!SetupAssumption, SW!IsFiniteSet, IsFiniteSet
<1>2. SW!Ids = 1 .. Cardinality(Requests) + 2
  BY SetupCardinality DEF SW!Ids
<1>3. Cardinality(Requests) \in Nat
  BY <1>1, FS_CardinalityType
<1> QED
  BY <1>1, <1>2, <1>3, TablesAssumption DEF SW!SetupAssumption, SW!SeedPwd

LEMMA FilledFinite ==
  ASSUME SetupTypes
  PROVE  /\ IsFiniteSet(Filled) /\ IsFiniteSet(Spent)
         /\ Cardinality(Filled) \in Nat /\ Cardinality(Spent) \in Nat
<1>1. IsFiniteSet(SW!Ids)
  BY RequestsFinite, FS_Interval
<1> QED
  BY <1>1, RequestsFinite, FS_Subset, FS_CardinalityType DEF Filled, Spent

LEMMA SetupStart == SW!Init => SetupInv
<1> SUFFICES ASSUME SW!Init
             PROVE  SetupInv
  OBVIOUS
<1> USE DEF SW!Init
<1>1. /\ rows \in [SW!Ids -> UserRow]
      /\ \A i \in SW!Ids : i \notin {1, 2} => rows[i] = SW!NoRow
      /\ rows[1] = SW!NoRow => rows[2] = SW!NoRow
      /\ rows[1] # SW!NoRow => rows[1].name = Seed /\ SW!Administers(1)
      /\ rows[2].pwd # SW!SeedPwd /\ SW!NoRow.pwd # SW!SeedPwd
  <2> DEFINE Two(a, b) ==
               [i \in SW!Ids |-> IF i = 1 THEN a ELSE IF i = 2 THEN b ELSE SW!NoRow]
  <2>1. \/ rows = Two(SW!NoRow, SW!NoRow)
        \/ rows = Two(SW!Row(Seed, SW!SeedPwd, TRUE), SW!NoRow)
        \/ \E n \in People :
              rows = Two(SW!Row(Seed, SW!SeedPwd, TRUE), SW!Row(n, "own", FALSE))
    BY DEF SW!Databases
  <2>2. SW!NoRow \in UserRow /\ SW!NoRow.pwd # SW!SeedPwd
    BY RequestsFinite DEF SW!NoRow, UserRow, Passwords
  <2>3. /\ SW!Row(Seed, SW!SeedPwd, TRUE) \in UserRow
        /\ \A n \in People : /\ SW!Row(n, "own", FALSE) \in UserRow
                            /\ SW!Row(n, "own", FALSE).pwd # SW!SeedPwd
    BY RequestsFinite DEF SW!Row, UserRow, Passwords, SW!SeedPwd
  <2>4. PICK a, b \in UserRow :
          /\ rows = Two(a, b)
          /\ \/ a = SW!NoRow /\ b = SW!NoRow
             \/ a = SW!Row(Seed, SW!SeedPwd, TRUE) /\ b.pwd # SW!SeedPwd
    BY <2>1, <2>2, <2>3
  <2> QED
    BY <2>2, <2>4, RequestsFinite DEF SW!Row, SW!Administers
<1>2. SetupTypes
  BY <1>1, RequestsFinite DEF SetupTypes, Found, SW!InFlight, SW!Working
<1>3. RoomIsLeft
  <2>1. Filled \subseteq 1 .. 2
    BY <1>1 DEF Filled
  <2>2. Cardinality(1 .. 2) = 2 /\ IsFiniteSet(1 .. 2)
    <3>1. \A a, b \in Int : /\ IsFiniteSet(a .. b)
                            /\ Cardinality(a .. b) = IF a > b THEN 0 ELSE b - a + 1
      BY FS_Interval
    <3>2. 1 \in Int /\ 2 \in Int
      OBVIOUS
    <3>3. /\ IsFiniteSet(1 .. 2)
          /\ Cardinality(1 .. 2) = IF 1 > 2 THEN 0 ELSE 2 - 1 + 1
      BY <3>1, <3>2, Zenon
    <3> QED
      BY <3>3
  <2>3. Cardinality(Filled) <= 2
    BY <2>1, <2>2, FS_Subset
  <2> QED
    BY <1>2, <2>3, FilledFinite DEF RoomIsLeft
<1>4. SeedIsSeen
  BY <1>1, RequestsFinite DEF SeedIsSeen
<1>5. Filled # {} => HasAdmin
  BY <1>1, RequestsFinite DEF Filled, HasAdmin
<1> QED
  BY <1>2, <1>3, <1>4, <1>5 DEF SetupInv, Prepared

\* A step that leaves the accounts alone.
\* The sentinel is there, or it is known that it may not be.
LEMMA SentinelWritten == SW!WriteSentinel => Guarded'
<1>1. CASE sentinel' = TRUE
  BY <1>1 DEF Guarded
<1>2. CASE sentinel' = sentinel /\ sentinel
  BY <1>2 DEF Guarded
<1>3. CASE sentinel' = sentinel /\ ~sentinel /\ spoiled' = TRUE
  BY <1>3 DEF Guarded
<1> QED
  BY <1>1, <1>2, <1>3 DEF SW!WriteSentinel

LEMMA GuardStays == UNCHANGED <<sentinel, spoiled>> => (Guarded' <=> Guarded)
<1> SUFFICES ASSUME sentinel' = sentinel, spoiled' = spoiled
             PROVE  Guarded' <=> Guarded
  OBVIOUS
<1> QED
  BY DEF Guarded

LEMMA SetupKeeps ==
  ASSUME SetupInv, SetupTypes', UNCHANGED rows, Spent \subseteq Spent',
         seeded => seeded',
         runtime' # None \/ worker' = "runs" => Ready,
         \A r \in Requests :
           /\ child'[r] = "admin" => child[r] = "admin"
           /\ saw'[r] = saw[r]
           /\ child'[r] \in {"read", "admin"} => seeded'
           /\ child'[r] \in {"mail", "ok"} \/ par'[r] \in {"write", "mark", "drop", "ok"} => Ready
           /\ par'[r] \in {"drop", "ok"} => Guarded'
  PROVE  SetupInv'
<1>1. Filled' = Filled /\ (Ready => Ready') /\ (HasAdmin => HasAdmin')
  BY DEF Filled, Ready, HasAdmin, SW!Administers
<1>2. RoomIsLeft'
  <2>1. IsFiniteSet(Spent') /\ Cardinality(Spent') \in Nat
    <3>1. IsFiniteSet(Spent')
      BY RequestsFinite, FS_Subset DEF Spent
    <3> QED
      BY <3>1, FS_CardinalityType
  <2>2. Cardinality(Spent) <= Cardinality(Spent')
    BY <2>1, FS_Subset
  <2> QED
    BY <1>1, <2>1, <2>2, FilledFinite DEF SetupInv, RoomIsLeft
<1>3. SeedIsSeen'
  BY <1>1 DEF SetupInv, SeedIsSeen
<1>4. Prepared'
  BY <1>1 DEF SetupInv, Prepared
<1> QED
  BY <1>2, <1>3, <1>4 DEF SetupInv

\* The steps that write no account.
LEMMA SetupOthers ==
  ASSUME SetupInv,
         \/ SW!Boot \/ SW!Suicide \/ SW!Crash \/ SW!LoseConfig \/ SW!PollMode
         \/ \E r \in Requests :
              \/ SW!Apply(r) \/ SW!TimedOut(r) \/ SW!Exited(r) \/ SW!WriteEnv(r)
              \/ SW!MarkConfigured(r) \/ SW!DropToken(r)
              \/ SW!ChildFails(r) \/ SW!ChildSeeds(r) \/ SW!ChildMails(r)
  PROVE  SetupInv'
<1> USE RequestsFinite, GuardStays DEF SetupInv, SetupTypes, Prepared, SW!db, SW!files, SW!asked, Spent
<1>1. CASE SW!Boot
  <2>1. /\ UNCHANGED <<rows, name, saw, par, child, seeded, runtime, worker>>
        /\ Guarded => Guarded'
    <3>1. SW!WriteSentinel \/ UNCHANGED <<sentinel, spoiled>>
      BY <1>1 DEF SW!Boot
    <3>2. UNCHANGED <<rows, name, saw, par, child, seeded, runtime, worker>>
      BY <1>1 DEF SW!Boot
    <3> QED
      BY <3>1, <3>2, SentinelWritten, GuardStays
  <2> QED
    BY <2>1, SetupKeeps
<1>2. CASE SW!Suicide \/ SW!Crash
  <2>1. /\ UNCHANGED <<rows, name, saw, child, seeded, sentinel, spoiled, runtime, worker>>
        /\ par' = [r \in Requests |-> IF par[r] \in SW!InFlight THEN "lost" ELSE par[r]]
    BY <1>2 DEF SW!Suicide, SW!Crash, SW!Down
  <2>2. SetupTypes'
    BY <2>1 DEF SW!InFlight
  <2> QED
    BY <2>1, <2>2, SetupKeeps DEF SW!InFlight
<1>3. CASE SW!LoseConfig
  <2>1. /\ UNCHANGED <<rows, name, saw, par, child, seeded, worker>>
        /\ Guarded => Guarded'
        /\ runtime' \in {None, runtime}
    <3>1. spoiled' = TRUE \/ UNCHANGED <<sentinel, spoiled>>
      BY <1>3 DEF SW!LoseConfig
    <3>2. /\ UNCHANGED <<rows, name, saw, par, child, seeded, worker>>
          /\ runtime' \in {None, runtime}
      BY <1>3 DEF SW!LoseConfig
    <3> QED
      BY <3>1, <3>2, GuardStays DEF Guarded
  <2> QED
    BY <2>1, SetupKeeps
<1>4. CASE SW!PollMode
  BY <1>4, SetupKeeps DEF SW!PollMode, SW!Complete
<1>5. ASSUME NEW r \in Requests, SW!Apply(r)
      PROVE  SetupInv'
  <2>1. /\ UNCHANGED <<rows, saw, seeded, sentinel, spoiled, runtime, worker>>
        /\ par[r] = "idle" /\ child[r] = "none"
        /\ \E p \in {"refused", "failed", "boot"} : par' = [par EXCEPT ![r] = p]
        /\ child' = child \/ child' = [child EXCEPT ![r] = "seed"]
        /\ \E n \in People : name' = [name EXCEPT ![r] = n]
    BY <1>5 DEF SW!Apply, SW!To, SW!CheckFails
  <2>2. SetupTypes'
    <3>1. /\ par' \in [Requests -> SW!InFlight \cup {"idle", "refused", "failed", "lost", "ok"}]
          /\ name' \in [Requests -> People] /\ par'[r] # "idle"
          /\ \A q \in Requests \ {r} : par'[q] = par[q] /\ child'[q] = child[q]
      BY <2>1 DEF SW!InFlight
    <3>2. child' \in [Requests -> SW!Working \cup {"none", "ok", "bad", "killed"}]
      BY <2>1 DEF SW!Working
    <3> QED
      BY <2>1, <3>1, <3>2
  <2> QED
    BY <2>1, <2>2, SetupKeeps
<1>6. ASSUME NEW r \in Requests, SW!TimedOut(r)
      PROVE  SetupInv'
  <2>1. /\ UNCHANGED <<rows, name, saw, seeded, sentinel, spoiled, runtime, worker>>
        /\ par' = [par EXCEPT ![r] = "failed"] /\ child' = [child EXCEPT ![r] = "killed"]
    BY <1>6 DEF SW!TimedOut, SW!To
  <2>2. SetupTypes'
    BY <2>1 DEF SW!InFlight, SW!Working
  <2> QED
    BY <2>1, <2>2, SetupKeeps
<1>7. ASSUME NEW r \in Requests,
             \/ SW!Exited(r) \/ SW!WriteEnv(r) \/ SW!MarkConfigured(r) \/ SW!DropToken(r)
      PROVE  SetupInv'
  <2>1. PICK p \in {"write", "failed", "mark", "drop", "ok"} :
          /\ par' = [par EXCEPT ![r] = p] /\ par[r] \in SW!InFlight
          /\ p # "failed" => Ready
          /\ p \in {"drop", "ok"} => Guarded'
    BY <1>7, SentinelWritten
       DEF SW!Exited, SW!WriteEnv, SW!MarkConfigured, SW!DropToken, SW!To, SW!InFlight
  <2>2. /\ UNCHANGED <<rows, name, saw, seeded, child, worker>>
        /\ Guarded => Guarded'
        /\ runtime' # None => runtime # None \/ par[r] = "write"
    BY <1>7, SentinelWritten DEF SW!Exited, SW!WriteEnv, SW!MarkConfigured, SW!DropToken
  <2>3. SetupTypes'
    BY <2>1, <2>2 DEF SW!InFlight
  <2> QED
    BY <2>1, <2>2, <2>3, SetupKeeps
<1>8. ASSUME NEW r \in Requests, SW!ChildFails(r) \/ SW!ChildSeeds(r) \/ SW!ChildMails(r)
      PROVE  SetupInv'
  <2>1. PICK c \in {"bad", "read", "ok"} :
          /\ child' = [child EXCEPT ![r] = c] /\ child[r] \in SW!Working
          /\ c = "read" => child[r] = "seed" /\ seeded'
          /\ c = "ok" => child[r] = "mail"
    BY <1>8 DEF SW!ChildFails, SW!ChildSeeds, SW!ChildMails, SW!On, SW!Working
  <2>2. /\ UNCHANGED <<rows, name, saw, par, sentinel, spoiled, runtime, worker>>
        /\ seeded => seeded'
    BY <1>8 DEF SW!ChildFails, SW!ChildSeeds, SW!ChildMails
  <2>3. SetupTypes'
    BY <2>1, <2>2 DEF SW!Working
  <2>4. Spent \subseteq Spent'
    BY <2>1
  <2> QED
    BY <2>1, <2>2, <2>3, <2>4, SetupKeeps
<1> QED
  BY <1>1, <1>2, <1>3, <1>4, <1>5, <1>6, <1>7, <1>8

LEMMA LeastOf ==
  ASSUME NEW S, S \subseteq Nat, S # {}
  PROVE  \E n \in S : \A m \in S : n <= m
<1>1. \E R : IsWellFoundedOn(R, Nat) /\ \A m, k \in Nat : m < k => <<m, k>> \in R
  <2>1. \A m, k \in Nat : m < k => <<m, k>> \in OpToRel(<, Nat)
    BY DEF OpToRel
  <2> QED
    BY <2>1, NatLessThanWellFounded, Zenon
<1>2. PICK R : IsWellFoundedOn(R, Nat) /\ \A m, k \in Nat : m < k => <<m, k>> \in R
  BY <1>1, Zenon
<1>3. PICK n \in S : \A m \in S : ~(<<m, n>> \in R)
  <2>1. IsWellFoundedOn(R, Nat)
    BY <1>2
  <2> QED
    BY <2>1, WFMin
<1>4. ASSUME NEW m \in S
      PROVE  n <= m
  <2>1. ~(m < n)
    BY <1>2, <1>3
  <2> QED
    BY <2>1
<1> QED
  BY <1>4

LEMMA LeastId ==
  ASSUME NEW S, S \subseteq SW!Ids, S # {}
  PROVE  SW!Min(S) \in S /\ \A i \in S : SW!Min(S) <= i
<1>1. S \subseteq Nat
  BY RequestsFinite
<1>2. \E n \in S : \A m \in S : n <= m
  BY <1>1, LeastOf
<1> QED
  BY <1>2 DEF SW!Min

\* The row of a name, 0 if there is none; the first row is found first.
LEMMA NameFound ==
  ASSUME SetupTypes, NEW n \in People
  PROVE  /\ SW!Find(n) \in Filled \cup {0}
         /\ rows[1].name = n => SW!Find(n) = 1
<1> DEFINE S == {i \in SW!Ids : rows[i].name = n}
<1>1. SW!Find(n) = IF S = {} THEN 0 ELSE SW!Min(S)
  BY DEF SW!Find
<1>2. S \subseteq Filled
  BY RequestsFinite DEF Filled, SW!NoRow
<1>3. CASE S = {}
  BY <1>1, <1>3, RequestsFinite
<1>4. CASE S # {}
  <2>1. SW!Min(S) \in S /\ \A i \in S : SW!Min(S) <= i
    BY <1>4, LeastId
  <2>2. 1 \in S => SW!Min(S) = 1
    BY <2>1, RequestsFinite
  <2> HIDE DEF S
  <2>3. SW!Find(n) \in Filled /\ (1 \in S => SW!Find(n) = 1)
    BY <1>1, <1>2, <1>4, <2>1, <2>2
  <2> QED
    BY <2>3, RequestsFinite DEF S
<1> QED
  BY <1>3, <1>4

LEMMA SetupReads ==
  ASSUME SetupInv, NEW r \in Requests, SW!ChildReads(r)
  PROVE  SetupInv'
<1>1. /\ child[r] = "read" /\ child' = [child EXCEPT ![r] = "admin"]
      /\ saw' = [saw EXCEPT ![r] = [existing |-> SW!Find(name[r]), legacy |-> SW!Find(Seed)]]
      /\ UNCHANGED <<rows, name, par, seeded, sentinel, spoiled, runtime, worker>>
  BY DEF SW!ChildReads, SW!On, SW!db, SW!files, SW!asked
<1>2. /\ SW!Find(name[r]) \in Filled \cup {0} /\ SW!Find(Seed) \in Filled \cup {0}
      /\ rows[1].name = Seed => SW!Find(Seed) = 1
  BY NameFound, RequestsFinite DEF SetupInv, SetupTypes
<1>3. Filled' = Filled /\ (Ready => Ready') /\ (HasAdmin => HasAdmin') /\ Filled \subseteq SW!Ids
  BY <1>1 DEF Filled, Ready, HasAdmin, SW!Administers
<1>4. Spent' = Spent
  BY <1>1 DEF Spent, SetupInv, SetupTypes
<1>5. /\ saw'[r].existing = SW!Find(name[r]) /\ saw'[r].legacy = SW!Find(Seed)
      /\ saw' \in [Requests -> [existing : Found, legacy : Found]]
      /\ \A q \in Requests \ {r} : saw'[q] = saw[q] /\ child'[q] = child[q]
      /\ child' \in [Requests -> SW!Working \cup {"none", "ok", "bad", "killed"}]
      /\ child'[r] = "admin"
  BY <1>1, <1>2, <1>3 DEF SetupInv, SetupTypes, Found, SW!Working
<1>6. SetupTypes'
  BY <1>1, <1>5 DEF SetupInv, SetupTypes
<1>7. RoomIsLeft'
  BY <1>3, <1>4 DEF SetupInv, RoomIsLeft
<1>8. SeedIsSeen'
  BY <1>1, <1>2, <1>3, <1>5, RequestsFinite DEF SetupInv, SeedIsSeen
<1>9. Prepared'
  BY <1>1, <1>3, <1>5, GuardStays DEF SetupInv, Prepared
<1> QED
  BY <1>6, <1>7, <1>8, <1>9 DEF SetupInv

\* A child that has not committed yet finds a row to insert.
LEMMA RowIsLeft ==
  ASSUME SetupInv, NEW r \in Requests, r \notin Spent
  PROVE  SW!Unused \in SW!Ids
<1> DEFINE free == {i \in SW!Ids : rows[i] = SW!NoRow}
<1>1. free # {}
  <2> SUFFICES ASSUME free = {}
               PROVE  FALSE
    OBVIOUS
  <2>1. Filled = SW!Ids
    BY DEF Filled
  <2>2. Cardinality(SW!Ids) = Cardinality(Requests) + 2
    <3>1. \A a, b \in Int : Cardinality(a .. b) = IF a > b THEN 0 ELSE b - a + 1
      BY FS_Interval
    <3>2. \A b \in Int : Cardinality(1 .. b) = IF 1 > b THEN 0 ELSE b - 1 + 1
      BY <3>1
    <3>3. \A b \in Nat : b > 0 => Cardinality(1 .. b) = b
      BY <3>2
    <3>4. Cardinality(Requests) + 2 \in Nat /\ Cardinality(Requests) + 2 > 0
      BY RequestsFinite
    <3> QED
      BY <3>3, <3>4, RequestsFinite, Zenon
  <2>3. Cardinality(Spent) < Cardinality(Requests)
    <3>1. Spent \subseteq Requests /\ Spent # Requests
      BY DEF Spent
    <3> QED
      BY <3>1, RequestsFinite, FS_Subset, FS_CardinalityType, FilledFinite DEF SetupInv
  <2> QED
    BY <2>1, <2>2, <2>3, RequestsFinite, FilledFinite DEF SetupInv, RoomIsLeft
<1>2. SW!Unused = SW!Min(free)
  BY DEF SW!Unused
<1> QED
  BY <1>1, <1>2, LeastId

\* What the transaction of a child leaves: an administrator, no seeded password,
\* every account there was and one more at most.
LEMMA AdministratorMade ==
  ASSUME SetupInv, NEW r \in Requests, child[r] = "admin", rows' = SW!Administrator(r)
  PROVE  /\ rows' \in [SW!Ids -> UserRow] /\ HasAdmin'
         /\ \A i \in SW!Ids : rows'[i].pwd # SW!SeedPwd
         /\ Filled \subseteq Filled' /\ \E u \in SW!Ids : Filled' \subseteq Filled \cup {u}
<1> DEFINE old == saw[r].existing
           leg == saw[r].legacy
<1>1. /\ old \in Filled \cup {0} /\ leg \in Filled \cup {0} /\ Filled \subseteq SW!Ids
      /\ \A i \in SW!Ids : rows[i].pwd = SW!SeedPwd => i = leg
      /\ rows \in [SW!Ids -> UserRow] /\ name[r] \in People /\ 0 \notin SW!Ids
      /\ r \in Passwords /\ r # SW!SeedPwd /\ r # None /\ "unusable" # SW!SeedPwd
      /\ "unusable" \in Passwords /\ "unusable" # None /\ 1 \in SW!Ids
  BY RequestsFinite DEF SetupInv, SetupTypes, SeedIsSeen, Filled, Passwords, SW!SeedPwd
<1>2. Filled # {} => HasAdmin
  BY DEF SetupInv, Prepared
<1> HIDE DEF old, leg
<1> DEFINE Up(x)   == [x EXCEPT !.live = TRUE, !.admin = TRUE, !.pwd = r]
           Away(x) == [x EXCEPT !.live = FALSE, !.admin = FALSE, !.pwd = "unusable"]
           Named(x) == [x EXCEPT !.name = name[r], !.pwd = r, !.admin = TRUE]
<1>3. \A x \in UserRow :
        /\ Up(x) \in UserRow /\ Up(x).live /\ Up(x).admin /\ Up(x).pwd = r
        /\ Away(x) \in UserRow /\ Away(x).pwd = "unusable"
        /\ Named(x) \in UserRow /\ Named(x).live = x.live
        /\ Named(x).admin /\ Named(x).pwd = r
  BY <1>1 DEF UserRow
<1>4. SW!NoRow.pwd = None
  BY DEF SW!NoRow
<1> HIDE DEF Up, Away, Named
<1>5. CASE old # 0
  <2>1. CASE leg \notin {0, old}
    <3>1. rows' = [[rows EXCEPT ![old] = Up(@)] EXCEPT ![leg] = Away(@)]
      BY <1>5, <2>1 DEF SW!Administrator, SW!Promote, SW!Retire, old, leg, Up, Away
    <3>2. /\ rows'[old] = Up(rows[old]) /\ rows'[leg] = Away(rows[leg])
          /\ \A i \in SW!Ids \ {old, leg} : rows'[i] = rows[i]
          /\ rows' \in [SW!Ids -> UserRow]
      BY <1>1, <1>5, <1>3, <2>1, <3>1
    <3>3. HasAdmin' /\ \A i \in SW!Ids : rows'[i].pwd # SW!SeedPwd
      BY <1>1, <1>5, <1>3, <2>1, <3>2 DEF HasAdmin, SW!Administers
    <3>4. Filled' = Filled
      BY <1>1, <1>5, <1>3, <1>4, <2>1, <3>2 DEF Filled
    <3> QED
      BY <1>1, <3>2, <3>3, <3>4
  <2>2. CASE leg \in {0, old}
    <3>1. rows' = [rows EXCEPT ![old] = Up(@)]
      BY <1>5, <2>2 DEF SW!Administrator, SW!Promote, old, leg, Up
    <3>2. /\ rows'[old] = Up(rows[old]) /\ \A i \in SW!Ids \ {old} : rows'[i] = rows[i]
          /\ rows' \in [SW!Ids -> UserRow]
      BY <1>1, <1>5, <1>3, <3>1
    <3>3. HasAdmin' /\ \A i \in SW!Ids : rows'[i].pwd # SW!SeedPwd
      BY <1>1, <1>5, <1>3, <2>2, <3>2 DEF HasAdmin, SW!Administers
    <3>4. Filled' = Filled
      BY <1>1, <1>5, <1>3, <1>4, <3>2 DEF Filled
    <3> QED
      BY <1>1, <3>2, <3>3, <3>4
  <2> QED
    BY <2>1, <2>2
<1>6. CASE old = 0 /\ leg # 0
  <2>1. rows' = [rows EXCEPT ![leg] = Named(@)]
    BY <1>6 DEF SW!Administrator, SW!Rename, old, leg, Named
  <2>2. /\ rows'[leg] = Named(rows[leg]) /\ \A i \in SW!Ids \ {leg} : rows'[i] = rows[i]
        /\ rows' \in [SW!Ids -> UserRow]
    BY <1>1, <1>6, <1>3, <2>1
  <2>3. HasAdmin'
    BY <1>1, <1>2, <1>6, <1>3, <2>2 DEF HasAdmin, SW!Administers
  <2>4. \A i \in SW!Ids : rows'[i].pwd # SW!SeedPwd
    BY <1>1, <1>6, <1>3, <2>2
  <2>5. Filled' = Filled
    <3>1. leg \in Filled /\ rows'[leg].pwd # None
      BY <1>1, <1>6, <1>3, <2>2
    <3> QED
      BY <1>1, <1>4, <2>2, <3>1 DEF Filled
  <2> QED
    BY <1>1, <2>2, <2>3, <2>4, <2>5
<1>7. CASE old = 0 /\ leg = 0
  <2>1. rows' = [rows EXCEPT ![SW!Unused] = SW!Row(name[r], r, TRUE)]
    BY <1>7 DEF SW!Administrator, SW!Create, old, leg
  <2>2. SW!Unused \in SW!Ids
    BY RowIsLeft DEF Spent
  <2>3. /\ SW!Row(name[r], r, TRUE) \in UserRow /\ SW!Row(name[r], r, TRUE).pwd = r
        /\ SW!Row(name[r], r, TRUE).live /\ SW!Row(name[r], r, TRUE).admin
    BY <1>1 DEF SW!Row, UserRow
  <2>4. /\ rows'[SW!Unused] = SW!Row(name[r], r, TRUE)
        /\ \A i \in SW!Ids \ {SW!Unused} : rows'[i] = rows[i]
        /\ rows' \in [SW!Ids -> UserRow]
    BY <1>1, <2>1, <2>2, <2>3
  <2>5. HasAdmin' /\ \A i \in SW!Ids : rows'[i].pwd # SW!SeedPwd
    BY <1>1, <1>7, <2>2, <2>3, <2>4 DEF HasAdmin, SW!Administers
  <2>6. Filled \subseteq Filled' /\ Filled' \subseteq Filled \cup {SW!Unused}
    BY <1>1, <1>4, <2>2, <2>3, <2>4 DEF Filled
  <2> QED
    BY <2>2, <2>4, <2>5, <2>6
<1> QED
  BY <1>5, <1>6, <1>7

LEMMA SetupCommits ==
  ASSUME SetupInv, NEW r \in Requests, SW!ChildCommits(r)
  PROVE  SetupInv'
<1> USE DEF SetupInv
<1>1. /\ child[r] = "admin"
      /\ UNCHANGED <<name, saw, par, seeded, sentinel, spoiled, runtime, worker>>
      /\ \/ child' = [child EXCEPT ![r] = "bad"] /\ UNCHANGED rows
         \/ child' = [child EXCEPT ![r] = "mail"] /\ rows' = SW!Administrator(r)
  BY DEF SW!ChildCommits, SW!On, SW!files, SW!asked
<1>2. CASE child' = [child EXCEPT ![r] = "bad"] /\ UNCHANGED rows
  <2>1. SetupTypes'
    BY <1>1, <1>2 DEF SetupTypes, SW!Working
  <2>2. Spent \subseteq Spent'
    BY <1>2 DEF Spent, SetupTypes
  <2>3. runtime' # None \/ worker' = "runs" => Ready
    BY <1>1 DEF Prepared
  <2> QED
    BY <1>1, <1>2, <2>1, <2>2, <2>3, SetupKeeps, GuardStays DEF Prepared, SetupTypes
<1>3. CASE child' = [child EXCEPT ![r] = "mail"] /\ rows' = SW!Administrator(r)
  <2>1. /\ rows' \in [SW!Ids -> UserRow] /\ HasAdmin'
        /\ \A i \in SW!Ids : rows'[i].pwd # SW!SeedPwd
        /\ Filled \subseteq Filled'
    BY <1>1, <1>3, AdministratorMade
  <2>2. PICK u \in SW!Ids : Filled' \subseteq Filled \cup {u}
    BY <1>1, <1>3, AdministratorMade
  <2>3. SetupTypes'
    BY <1>1, <1>3, <2>1 DEF SetupTypes, SW!Working
  <2>4. Ready'
    BY <1>1, <2>1 DEF Ready, Prepared
  <2>5. RoomIsLeft'
    <3>1. Spent' = Spent \cup {r} /\ r \notin Spent
      BY <1>1, <1>3 DEF Spent, SetupTypes
    <3>2. Cardinality(Spent') = Cardinality(Spent) + 1
      BY <3>1, FilledFinite, FS_AddElement
    <3>3. /\ IsFiniteSet(Filled \cup {u}) /\ Cardinality(Filled \cup {u}) \in Nat
          /\ Cardinality(Filled \cup {u}) <= Cardinality(Filled) + 1
      <4>1. IsFiniteSet(Filled) /\ Cardinality(Filled) \in Nat
        BY FilledFinite
      <4>2. CASE u \in Filled
        <5>1. Filled \cup {u} = Filled
          BY <4>2
        <5> QED
          BY <4>1, <5>1
      <4>3. CASE u \notin Filled
        <5>1. Cardinality(Filled \cup {u}) = Cardinality(Filled) + 1
          BY <4>1, <4>3, FS_AddElement
        <5> QED
          BY <4>1, <5>1, FS_AddElement
      <4> QED
        BY <4>2, <4>3
    <3>4. Cardinality(Filled') \in Nat /\ Cardinality(Filled') <= Cardinality(Filled \cup {u})
      BY <2>2, <3>3, FS_Subset, FS_CardinalityType
    <3> QED
      BY <3>2, <3>3, <3>4, FilledFinite DEF RoomIsLeft
  <2>6. SeedIsSeen'
    <3>1. /\ saw' = saw /\ 1 \in SW!Ids
          /\ \A q \in Requests : {saw[q].existing, saw[q].legacy} \subseteq Filled \cup {0}
      BY <1>1, RequestsFinite DEF SeedIsSeen
    <3> QED
      BY <2>1, <3>1 DEF SeedIsSeen, SW!SeedPwd
  <2>7. Prepared'
    BY <1>1, <1>3, <2>1, <2>4, GuardStays DEF Prepared, SetupTypes
  <2> QED
    BY <2>3, <2>5, <2>6, <2>7
<1> QED
  BY <1>1, <1>2, <1>3

LEMMA SetupStep == SetupInv /\ [SW!Next]_(SW!vars) => SetupInv'
<1> SUFFICES ASSUME SetupInv, [SW!Next]_(SW!vars)
             PROVE  SetupInv'
  OBVIOUS
<1>1. CASE UNCHANGED SW!vars
  <2>1. UNCHANGED <<rows, name, saw, par, child, seeded, sentinel, spoiled, runtime, worker>>
    BY <1>1 DEF SW!vars, SW!files, SW!db, SW!asked
  <2> QED
    BY <2>1 DEF SetupInv, SetupTypes, RoomIsLeft, SeedIsSeen, Prepared, Ready, HasAdmin,
                Filled, Spent, SW!Administers, Guarded
<1>2. CASE SW!Next
  BY <1>2, SetupOthers, SetupReads, SetupCommits DEF SW!Next
<1> QED
  BY <1>1, <1>2

LEMMA SetupTrue == SetupInv => SW!NoSeedLogin /\ SW!WorkerFindsDatabase
BY DEF SetupInv, Prepared, Ready, HasAdmin, SW!NoSeedLogin, SW!WorkerFindsDatabase,
       SW!Complete

\* Only a start opens the wizard, and it looks at the flag and the sentinel.
LEMMA WizardOpens ==
  SetupInv /\ [SW!Next]_(SW!vars) =>
    [(\E r \in Requests : par[r] = "ok") /\ web # "setup" /\ web' = "setup" =>
       flag' = "force" \/ spoiled]_(SW!vars)
<1> SUFFICES ASSUME SetupInv, SW!Next, NEW r \in Requests, par[r] = "ok",
                    web' = "setup", web # "setup"
             PROVE  flag' = "force" \/ spoiled
  BY Zenon
<1>1. sentinel \/ spoiled
  BY DEF SetupInv, Prepared, Guarded
<1>2. SW!Boot
  BY DEF SW!Next, SW!Suicide, SW!Crash, SW!Down, SW!LoseConfig, SW!PollMode, SW!Apply,
         SW!TimedOut, SW!Exited, SW!WriteEnv, SW!MarkConfigured, SW!DropToken,
         SW!ChildFails, SW!ChildSeeds, SW!ChildReads, SW!ChildCommits, SW!ChildMails
<1> QED
  BY <1>1, <1>2 DEF SW!Boot, SW!Mode, SW!ShouldEnterSetup

\* Whatever attempts failed, were killed or run side by side, and whatever was lost
\* since: once a configuration is written no account has the seeded password and
\* one can administer, the worker starts on such a database only, and after an
\* apply was answered no start opens the wizard, unless OGS_SETUP_MODE=force says so
\* or the sentinel was not written or lost (setup/app.py, state.py, bootstrap_db.py).
THEOREM SetupStaysSafe == (SW!Spec => SW!SetupIsSafe) /\ (MCSpec => SetupIsSafe)
<1>1. SW!Spec => SW!SetupIsSafe
  <2>1. SW!Spec => []SetupInv
    BY SetupStart, SetupStep, PTL DEF SW!Spec
  <2>2. SW!Spec => [](SW!NoSeedLogin /\ SW!WorkerFindsDatabase)
    BY <2>1, SetupTrue, PTL
  <2>3. SW!Spec => SW!WizardStaysClosed
    BY <2>1, WizardOpens, PTL DEF SW!Spec, SW!WizardStaysClosed
  <2> QED
    BY <2>2, <2>3 DEF SW!SetupIsSafe
<1>2. MCInit => SetupInv
  BY SetupStart DEF MCInit
<1>3. SetupInv /\ [MCNext]_<<part, vars, assets, cron, setup>> => SetupInv'
  BY PartSteps, SetupStep
<1>4. SetupInv /\ [MCNext]_<<part, vars, assets, cron, setup>> =>
        [(\E r \in Requests : par[r] = "ok") /\ web # "setup" /\ web' = "setup" =>
           flag' = "force" \/ spoiled]_(SW!vars)
  BY PartSteps, WizardOpens
<1>5. MCSpec => []SetupInv
  BY <1>2, <1>3, PTL DEF MCSpec
<1>6. MCSpec => [](SW!NoSeedLogin /\ SW!WorkerFindsDatabase)
  BY <1>5, SetupTrue, PTL
<1>7. MCSpec => SW!WizardStaysClosed
  BY <1>4, <1>5, PTL DEF MCSpec, SW!WizardStaysClosed
<1>8. MCSpec => SetupIsSafe
  BY <1>6, <1>7 DEF SetupIsSafe, SW!SetupIsSafe
<1> QED
  BY <1>1, <1>8

-----------------------------------------------------------------------------
(* Accounts.                                                               *)

Sizes   == {Cardinality(S) : S \in SUBSET Ids}
Request == [pc : Pcs, kind : {"none", "add", "update", "delete", "login"},
            id : Ids \cup {0}, old : Names \cup {"none"}, new : Names \cup {"none"},
            role : Roles \cup {"none"}, grp : Groups \cup {"none"}, was : BOOLEAN,
            count : Seq(Groups \cup {"none"}), seen : Sizes \cup {0}]

AccountTypes ==
  /\ row \in [Ids -> Rows \cup {NoRow}] /\ role \in [Names -> Roles \cup {"none"}]
  /\ bound \subseteq Names /\ granted \subseteq Names
  /\ strays \subseteq Names /\ crossed \subseteq Names
  /\ req \in [Requests -> Request]

NamesUnique ==
  \A i, j \in Ids : Used(i) /\ Used(j) /\ row[i].name = row[j].name => i = j

\* What the fields of a request hold.
FiledAs(r) ==
  \/ r.pc = "idle" /\ r.kind = "none" /\ r.id = 0 /\ r.old = "none" /\ r.new = "none"
  \/ /\ r.kind = "add" /\ r.pc \notin {"idle", "drop"} /\ r.old = "none" /\ ~r.was
     /\ r.new \in Names /\ r.role \in Roles /\ r.grp \in Groups
     /\ IF r.pc = "commit" THEN r.id = 0 ELSE r.id \in Ids
  \/ /\ r.kind = "update" /\ r.pc # "idle" /\ r.id \in Ids
     /\ r.old \in Names /\ r.new \in Names /\ r.role \in Roles /\ r.grp \in Groups
  \/ /\ r.kind = "delete" /\ r.pc \notin {"idle", "set"} /\ r.id \in Ids
     /\ r.old \in Names /\ r.new = "none"
  \/ /\ r.kind = "login" /\ r.pc = "set" /\ r.id \in Ids
     /\ r.old = "none" /\ r.new \in Names /\ r.role \in Roles

\* Two requests that share a name or an account are crossed, with all their names.
Shares(r, s) == \/ \E n \in Names : n \in Touches(r) /\ n \in Touches(s)
                \/ r.id = s.id /\ r.id # 0

Apart ==
  \A p \in Requests :
    /\ \A q \in Requests \ {p} : Shares(req[p], req[q]) => Touches(req[p]) \subseteq crossed
    /\ \A n \in Touches(req[p]) : n \in crossed => Touches(req[p]) \subseteq crossed

\* What a request may still rely on: of the account it is about to change, of the
\* one it has changed, and of the name it is about to forget.
ReliesOn(r) ==
  /\ r.id # 0 => Used(r.id)
  /\ r.pc = "commit" /\ r.kind \in {"update", "delete"} =>
       /\ row[r.id].name \in Touches(r) \cup crossed
       /\ r.old \notin crossed =>
            /\ row[r.id].name = r.old /\ row[r.id].st = "live"
            /\ r.kind = "update" => (r.was <=> row[r.id].role = "admin")
  /\ r.pc = "set" /\ r.new \notin crossed =>
       /\ row[r.id].st = "live" /\ row[r.id].name = r.new /\ row[r.id].role = r.role
       /\ r.kind = "update" /\ r.old # r.new => LiveAs(r.old) = {}
  /\ r.pc = "drop" /\ r.old \notin crossed => LiveAs(r.old) = {}

Working == \A p \in Requests : FiledAs(req[p]) /\ ReliesOn(req[p])

\* The cached role of a name is right, or a request is about to put it right.
Cached(n) == /\ \A i \in LiveAs(n) : role[n] \in {"none", row[i].role}
             /\ LiveAs(n) = {} => role[n] = "none"
Mends(p, n) == \/ req[p].pc = "set" /\ req[p].kind = "update" /\ n \in Touches(req[p])
               \/ req[p].pc = "drop" /\ n = req[p].old
Caches == \A n \in Names \ crossed : Cached(n) \/ \E p \in Requests : Mends(p, n)

AccountsInv ==
  AccountTypes /\ NamesUnique /\ Apart /\ Working /\ BindingsFollow /\ Caches

LEMMA NoName == "none" \notin Names /\ "none" \notin Groups
BY AccountsAssumption

LEMMA IdleFits == /\ Idle \in Request /\ FiledAs(Idle) /\ Touches(Idle) = {}
                  /\ Idle.id = 0 /\ Idle.pc = "idle"
BY NoName DEF Idle, Request, Pcs, FiledAs, Touches

LEMMA AccountsStart == Init => AccountsInv
<1> SUFFICES ASSUME Init
             PROVE  AccountsInv
  OBVIOUS
<1>1. AccountTypes
  BY IdleFits DEF Init, AccountTypes
<1>2. \A i \in Ids : ~Used(i)
  BY DEF Init, Used, NoRow
<1>3. \A p \in Requests : req[p] = Idle
  BY DEF Init
<1>4. \A n \in Names : Holders(n) = {} /\ LiveAs(n) = {}
  BY <1>2 DEF Holders, LiveAs
<1>5. NamesUnique /\ BindingsFollow
  BY <1>2, <1>4 DEF NamesUnique, BindingsFollow, Init
<1>6. Apart
  BY <1>3, IdleFits DEF Apart
<1>7. Working
  BY <1>3, IdleFits DEF Working, ReliesOn, Idle
<1>8. Caches
  BY <1>4 DEF Init, Caches, Cached
<1> QED
  BY <1>1, <1>5, <1>6, <1>7, <1>8 DEF AccountsInv

\* A request takes its place: those it meets are crossed.
LEMMA BeginKeeps ==
  ASSUME AccountsInv, NEW p \in Requests, NEW r \in Request, FiledAs(r),
         Begin(p, r), UNCHANGED <<row, bound, granted, strays, role>>, ReliesOn(r)'
  PROVE  AccountsInv'
<1> USE DEF AccountsInv
<1>1. /\ req[p].pc = "idle" /\ req' = [req EXCEPT ![p] = r]
      /\ crossed \subseteq crossed' /\ crossed' \subseteq Names
  BY DEF Begin, AccountTypes, Touches
<1>2. /\ req'[p] = r /\ req' \in [Requests -> Request]
      /\ \A q \in Requests \ {p} : req'[q] = req[q]
  BY <1>1 DEF AccountTypes
<1>3. AccountTypes' /\ NamesUnique'
  BY <1>1, <1>2 DEF AccountTypes, NamesUnique, Used
<1>4. Apart'
  <2>1. Touches(req[p]) = {}
    BY <1>1, NoName DEF Working, FiledAs, Touches
  <2>2. ASSUME NEW q \in Requests \ {p}, Shares(r, req[q])
        PROVE  Touches(r) \subseteq crossed' /\ Touches(req[q]) \subseteq crossed'
    <3>1. req[q].pc # "idle" /\ Touches(req[q]) # {}
      BY <2>2, NoName DEF Working, FiledAs, Shares, Touches
    <3>2. q \in Meets(r)
      BY <2>2, <3>1 DEF Meets, Shares
    <3> QED
      BY <3>1, <3>2 DEF Begin
  <2>3. \A n \in Touches(r) : n \in crossed' => Touches(r) \subseteq crossed'
    BY DEF Begin
  <2>4. ASSUME NEW q \in Requests \ {p}, NEW n \in Touches(req[q]), n \in crossed'
        PROVE  Touches(req[q]) \subseteq crossed'
    <3>1. CASE n \in crossed
      BY <1>1, <2>4, <3>1 DEF Apart
    <3>2. CASE n \in Touches(r)
      <4>1. Shares(r, req[q])
        BY <2>4, <3>2 DEF Shares, Touches
      <4> QED
        BY <2>2, <4>1
    <3>3. CASE n \notin crossed /\ n \notin Touches(r)
      <4>1. PICK s \in Meets(r) : n \in Touches(req[s])
        BY <2>4, <3>3 DEF Begin
      <4>2. s \in Requests /\ s # p /\ Shares(r, req[s])
        BY <1>1, <4>1 DEF Meets, Shares, Touches
      <4>3. s = q
        <5>1. Shares(req[q], req[s])
          BY <2>4, <4>1 DEF Shares, Touches
        <5> QED
          BY <2>4, <3>3, <4>2, <5>1 DEF Apart
      <4> QED
        BY <2>2, <4>2, <4>3
    <3> QED
      BY <2>4, <3>1, <3>2, <3>3
  <2>5. \A q \in Requests : Touches(req[q])' = Touches(req'[q])
    BY DEF Touches
  <2>6. \A q, s \in Requests : Shares(req[q], req[s])' = Shares(req'[q], req'[s])
    BY DEF Shares, Touches
  <2>7. \A x, y : Shares(x, y) => Shares(y, x)
    BY DEF Shares
  <2> QED
    BY <1>1, <1>2, <2>2, <2>3, <2>4, <2>5, <2>6, <2>7 DEF Apart
<1>5. Working'
  <2>1. ASSUME NEW q \in Requests \ {p}
        PROVE  (FiledAs(req[q]) /\ ReliesOn(req[q]))'
    BY <1>1, <1>2 DEF Working, FiledAs, ReliesOn, Touches, LiveAs, Holders, Used
  <2>2. (FiledAs(req[p]) /\ ReliesOn(req[p]))'
    BY <1>2 DEF FiledAs, ReliesOn, Touches, LiveAs, Holders, Used
  <2> QED
    BY <2>1, <2>2 DEF Working
<1>6. BindingsFollow'
  BY <1>1 DEF BindingsFollow, LiveAs, Holders, Used
<1>7. Caches'
  BY <1>1, <1>2 DEF Caches, Cached, Mends, LiveAs, Holders, Used, Touches
<1> QED
  BY <1>3, <1>4, <1>5, <1>6, <1>7

LEMMA RequestsStart ==
  ASSUME AccountsInv, NEW p \in Requests, NEW n \in Names,
         \/ \E x \in Roles, g \in Groups :
              StartAdd(p, n, x, g) \/ \E i \in Ids : StartUpdate(p, i, n, x, g)
         \/ StartDelete(p, n) \/ StartLogin(p, n)
  PROVE  AccountsInv'
<1>1. \A i \in Ids : Used(i) => row[i] \in Rows
  BY DEF AccountsInv, AccountTypes, Used, NoRow
<1>2. <<>> \in Seq(Groups \cup {"none"})
  OBVIOUS
<1> USE NoName DEF Roles
<1>3. ASSUME NEW x \in Roles, NEW g \in Groups, StartAdd(p, n, x, g)
      PROVE  AccountsInv'
  <2>1. PICK r : r = [Idle EXCEPT !.pc = "commit", !.kind = "add", !.new = n,
                                  !.role = x, !.grp = g]
    OBVIOUS
  <2>2. r \in Request /\ FiledAs(r)
    BY <2>1, <1>2 DEF Idle, Request, Pcs, FiledAs
  <2>3. ReliesOn(r)'
    BY <2>1 DEF ReliesOn, Idle
  <2> QED
    BY <1>3, <2>1, <2>2, <2>3, BeginKeeps DEF StartAdd
<1>4. ASSUME NEW x \in Roles, NEW g \in Groups, NEW i \in Ids, StartUpdate(p, i, n, x, g)
      PROVE  AccountsInv'
  <2>1. PICK r : r = [Idle EXCEPT !.pc = "commit", !.kind = "update", !.id = i,
                                  !.old = row[i].name, !.new = n, !.role = x, !.grp = g,
                                  !.was = row[i].role = "admin"]
    OBVIOUS
  <2>2. Used(i) /\ Begin(p, r) /\ UNCHANGED <<row, bound, granted, strays, role>>
    BY <1>4, <2>1 DEF StartUpdate
  <2>3. r \in Request /\ FiledAs(r)
    BY <2>1, <2>2, <1>1, <1>2 DEF Idle, Request, Pcs, FiledAs, Rows
  <2>4. row[i].st = "deleted" => Touches(r) \subseteq crossed'
    BY <2>1, <2>2 DEF Begin, Idle
  <2>5. ReliesOn(r)'
    BY <2>1, <2>2, <2>4, <1>1 DEF ReliesOn, Idle, Touches, Rows, Used
  <2> QED
    BY <2>2, <2>3, <2>5, BeginKeeps
<1>5. ASSUME StartDelete(p, n)
      PROVE  AccountsInv'
  <2>1. PICK i, r :
          /\ i \in LiveAs(n)
          /\ r = [Idle EXCEPT !.pc = "commit", !.kind = "delete", !.id = i, !.old = n]
          /\ Begin(p, r) /\ UNCHANGED <<row, bound, granted, strays, role>>
    BY <1>5 DEF StartDelete
  <2>2. i \in Ids /\ Used(i) /\ row[i].name = n /\ row[i].st = "live"
    BY <2>1 DEF LiveAs, Holders
  <2>3. r \in Request /\ FiledAs(r)
    BY <2>1, <2>2, <1>2 DEF Idle, Request, Pcs, FiledAs
  <2>4. ReliesOn(r)'
    BY <2>1, <2>2 DEF ReliesOn, Idle, Touches, Used
  <2> QED
    BY <2>1, <2>3, <2>4, BeginKeeps
<1>6. ASSUME StartLogin(p, n)
      PROVE  AccountsInv'
  <2>1. PICK i, r :
          /\ i \in LiveAs(n)
          /\ r = [Idle EXCEPT !.pc = "set", !.kind = "login", !.id = i,
                              !.new = n, !.role = row[i].role]
          /\ Begin(p, r) /\ UNCHANGED <<row, bound, granted, strays, role>>
    BY <1>6 DEF StartLogin
  <2>2. i \in Ids /\ Used(i) /\ row[i].name = n /\ row[i].st = "live"
    BY <2>1 DEF LiveAs, Holders
  <2>3. r \in Request /\ FiledAs(r)
    BY <2>1, <2>2, <1>1, <1>2 DEF Idle, Request, Pcs, FiledAs, Rows
  <2>4. ReliesOn(r)'
    BY <2>1, <2>2 DEF ReliesOn, Idle, Touches, Used
  <2> QED
    BY <2>1, <2>3, <2>4, BeginKeeps
<1> QED
  BY <1>3, <1>4, <1>5, <1>6

\* A request goes on, or gives up, and leaves the accounts and bindings alone.
LEMMA GoesOn ==
  ASSUME AccountsInv, NEW p \in Requests, NEW r \in Request, FiledAs(r), ReliesOn(r)',
         req' = [req EXCEPT ![p] = r], UNCHANGED <<row, bound, granted, strays>>,
         role' \in [Names -> Roles \cup {"none"}], Caches',
         \/ r.id = 0 /\ Touches(r) = {} /\ crossed' = crossed \cup Touches(req[p])
         \/ /\ crossed' = crossed /\ r.id \in {0, req[p].id}
            /\ Touches(r) \in {{}, Touches(req[p])}
  PROVE  AccountsInv'
<1> USE DEF AccountsInv
<1>1. /\ req'[p] = r /\ req' \in [Requests -> Request]
      /\ \A q \in Requests \ {p} : req'[q] = req[q]
      /\ crossed \subseteq crossed' /\ crossed' \subseteq Names
  BY DEF AccountTypes, Touches
<1>2. AccountTypes' /\ NamesUnique'
  BY <1>1 DEF AccountTypes, NamesUnique, Used
<1>3. Apart'
  <2>1. \A q \in Requests : Touches(req[q])' = Touches(req'[q])
    BY DEF Touches
  <2>2. \A q, s \in Requests : Shares(req[q], req[s])' = Shares(req'[q], req'[s])
    BY DEF Shares, Touches
  <2>3. ASSUME NEW q \in Requests \ {p}, NEW n \in Touches(req[q]), n \in crossed'
        PROVE  Touches(req[q]) \subseteq crossed'
    <3>1. CASE n \in crossed
      BY <1>1, <2>3, <3>1 DEF Apart
    <3>2. CASE n \in Touches(req[p])
      <4>1. Shares(req[q], req[p])
        BY <2>3, <3>2 DEF Shares, Touches
      <4> QED
        BY <1>1, <4>1 DEF Apart
    <3> QED
      BY <2>3, <3>1, <3>2
  <2>4. \A n \in Touches(r) : n \in crossed' => Touches(r) \subseteq crossed'
    BY DEF Apart
  <2>5. \A q \in Requests \ {p} : /\ Shares(r, req[q]) => Shares(req[p], req[q])
                                  /\ Shares(req[q], r) => Shares(req[q], req[p])
    BY DEF Shares
  <2> QED
    BY <1>1, <2>1, <2>2, <2>3, <2>4, <2>5 DEF Apart
<1>4. Working'
  <2>1. ASSUME NEW q \in Requests \ {p}
        PROVE  (FiledAs(req[q]) /\ ReliesOn(req[q]))'
    BY <1>1 DEF Working, FiledAs, ReliesOn, Touches, LiveAs, Holders, Used
  <2>2. (FiledAs(req[p]) /\ ReliesOn(req[p]))'
    BY <1>1 DEF FiledAs, ReliesOn, Touches, LiveAs, Holders, Used
  <2> QED
    BY <2>1, <2>2 DEF Working
<1>5. BindingsFollow'
  BY <1>1 DEF BindingsFollow, LiveAs, Holders, Used
<1> QED
  BY <1>2, <1>3, <1>4, <1>5

LEMMA RequestsCount ==
  ASSUME AccountsInv, NEW p \in Requests,
         Refused(p) \/ PlanCount(p) \/ CountMembers(p) \/ WriteCount(p)
  PROVE  AccountsInv'
<1> DEFINE old == req[p]
<1>1. /\ old \in Request /\ FiledAs(old) /\ ReliesOn(old)
      /\ old.pc \in {"commit", "count", "read", "write"}
      /\ UNCHANGED <<row, bound, granted, strays, role, crossed>>
  BY DEF AccountsInv, AccountTypes, Working, Refused, PlanCount, CountMembers, WriteCount, At
<1>2. PICK r \in Request :
        /\ req' = [req EXCEPT ![p] = r]
        /\ \/ r = Idle
           \/ /\ r.pc \in {"read", "write"} /\ r.kind = old.kind /\ r.id = old.id
              /\ r.old = old.old /\ r.new = old.new /\ r.role = old.role
              /\ r.grp = old.grp /\ r.was = old.was /\ old.pc \in {"count", "read", "write"}
  <2>1. CASE Refused(p) \/ (WriteCount(p) /\ req' = [req EXCEPT ![p] = Idle])
    BY <2>1, IdleFits DEF Refused, Finish
  <2>2. CASE PlanCount(p)
    <3>1. PICK r : r = [old EXCEPT !.pc = "read", !.count = Recounts(old)]
      OBVIOUS
    <3>2. row[old.id].grp \in Groups \cup {"none"}
      BY <1>1, <2>2 DEF PlanCount, At, FiledAs, AccountsInv, AccountTypes, Rows, NoRow
    <3>3. Recounts(old) \in Seq(Groups \cup {"none"})
      <4>1. \A a, b \in Groups \cup {"none"} :
              <<a>> \in Seq(Groups \cup {"none"}) /\ <<a, b>> \in Seq(Groups \cup {"none"})
        OBVIOUS
      <4>2. old.grp \in Groups \cup {"none"}
        BY <1>1 DEF Request
      <4> HIDE DEF old
      <4> QED
        BY <3>2, <4>1, <4>2, Zenon DEF Recounts
    <3>4. r \in Request
      BY <1>1, <3>1, <3>3 DEF Request, Pcs
    <3>5. req' = [req EXCEPT ![p] = r] /\ old.pc = "count"
      BY <2>2, <3>1 DEF PlanCount, At
    <3>6. /\ r.pc = "read" /\ r.kind = old.kind /\ r.id = old.id
          /\ r.old = old.old /\ r.new = old.new /\ r.role = old.role
          /\ r.grp = old.grp /\ r.was = old.was
      BY <1>1, <3>1 DEF Request
    <3> QED
      BY <1>1, <3>4, <3>5, <3>6
  <2>3. CASE CountMembers(p)
    <3>1. PICK r : r = [old EXCEPT !.pc = "write",
                                   !.seen = Cardinality(Members(Head(old.count)))]
      OBVIOUS
    <3>2. Cardinality(Members(Head(old.count))) \in Sizes
      BY DEF Sizes, Members
    <3>3. r \in Request
      BY <1>1, <3>1, <3>2 DEF Request, Pcs
    <3>4. req' = [req EXCEPT ![p] = r] /\ old.pc = "read"
      BY <2>3, <3>1 DEF CountMembers, At
    <3>6. /\ r.pc = "write" /\ r.kind = old.kind /\ r.id = old.id
          /\ r.old = old.old /\ r.new = old.new /\ r.role = old.role
          /\ r.grp = old.grp /\ r.was = old.was
      BY <1>1, <3>1 DEF Request
    <3> QED
      BY <1>1, <3>3, <3>4, <3>6
  <2>4. CASE WriteCount(p) /\ req' # [req EXCEPT ![p] = Idle]
    <3>1. PICK r : r = [old EXCEPT !.pc = "read", !.count = Tail(old.count)]
      OBVIOUS
    <3>2. Len(old.count) > 1 /\ req' = [req EXCEPT ![p] = r] /\ old.pc = "write"
      BY <2>4, <3>1 DEF WriteCount, At, Finish
    <3>3. Tail(old.count) \in Seq(Groups \cup {"none"})
      BY <1>1, <3>2 DEF Request
    <3>4. r \in Request
      BY <1>1, <3>1, <3>3 DEF Request, Pcs
    <3>6. /\ r.pc = "read" /\ r.kind = old.kind /\ r.id = old.id
          /\ r.old = old.old /\ r.new = old.new /\ r.role = old.role
          /\ r.grp = old.grp /\ r.was = old.was
      BY <1>1, <3>1 DEF Request
    <3> QED
      BY <1>1, <3>2, <3>4, <3>6
  <2> QED
    BY <2>1, <2>2, <2>3, <2>4
<1>3. FiledAs(r) /\ ReliesOn(r)'
  BY <1>1, <1>2, IdleFits DEF FiledAs, ReliesOn, Used
<1>4. Caches'
  <2>1. \A q \in Requests \ {p} : req'[q] = req[q]
    BY <1>2 DEF AccountsInv, AccountTypes
  <2>2. \A n \in Names : ~Mends(p, n)
    BY <1>1 DEF Mends
  <2> QED
    BY <1>1, <2>1, <2>2
       DEF AccountsInv, Caches, Cached, Mends, LiveAs, Holders, Used, Touches
<1>5. Touches(r) \in {{}, Touches(old)} /\ r.id \in {0, old.id}
  BY <1>2, IdleFits DEF Touches
<1> QED
  BY <1>1, <1>2, <1>3, <1>4, <1>5, GoesOn DEF AccountsInv, AccountTypes

LEMMA RolesChange ==
  ASSUME AccountsInv, NEW p \in Requests, SetRole(p) \/ DropRole(p) \/ Break(p)
  PROVE  AccountsInv'
<1> DEFINE old == req[p]
<1> USE NoName
<1>1. /\ old \in Request /\ FiledAs(old) /\ ReliesOn(old)
      /\ UNCHANGED <<row, bound, granted, strays>> /\ role \in [Names -> Roles \cup {"none"}]
  BY DEF AccountsInv, AccountTypes, Working, SetRole, DropRole, Break
<1>2. \A n \in Touches(old), q \in Requests \ {p} :
        n \in Touches(req[q]) => n \in crossed
  BY DEF AccountsInv, Apart, Shares, Touches
<1>3. CASE SetRole(p)
  <2>1. old.pc = "set" /\ old.new \in Names /\ old.role \in Roles /\ crossed' = crossed
    BY <1>1, <1>3 DEF SetRole, At, FiledAs
  <2>2. role' = [role EXCEPT ![old.new] = old.role]
    BY <1>3 DEF SetRole
  <2>3. PICK r \in Request :
          /\ req' = [req EXCEPT ![p] = r]
          /\ \/ r = Idle /\ old.kind = "login"
             \/ /\ r = [old EXCEPT !.pc = IF old.kind = "update" /\ old.old # old.new
                                          THEN "drop" ELSE "count"]
                /\ old.kind # "login"
    <3>1. CASE old.kind = "login"
      BY <1>3, <3>1, IdleFits DEF SetRole, Finish
    <3>2. CASE old.kind = "update" /\ old.old # old.new
      BY <1>1, <1>3, <3>2 DEF SetRole, Goto, Request, Pcs
    <3>3. CASE old.kind # "login" /\ ~(old.kind = "update" /\ old.old # old.new)
      BY <1>1, <1>3, <3>3 DEF SetRole, Goto, Request, Pcs
    <3> QED
      BY <3>1, <3>2, <3>3
  <2>4. /\ r = Idle \/ (r.old = old.old /\ r.new = old.new /\ r.id = old.id)
        /\ r = Idle \/ r.kind = old.kind
        /\ r.pc = "drop" => old.kind = "update" /\ old.old # old.new
        /\ r.pc \in {"idle", "drop", "count"}
    BY <1>1, <2>3 DEF Request, Idle
  <2>5. FiledAs(r)
    <3>1. CASE r = Idle
      BY <3>1, IdleFits
    <3>2. CASE r # Idle
      BY <1>1, <2>1, <2>3, <2>4, <3>2 DEF FiledAs, Request
    <3> QED
      BY <3>1, <3>2
  <2>6. ReliesOn(r)'
    <3>1. Touches(old) \subseteq crossed \/ Touches(old) \cap crossed = {}
      BY DEF AccountsInv, Apart
    <3>2. r.pc = "drop" /\ r.old \notin crossed => LiveAs(r.old) = {}
      BY <1>1, <2>1, <2>4, <3>1 DEF ReliesOn, FiledAs, Touches, Idle
    <3> QED
      BY <1>1, <2>1, <2>4, <3>2, IdleFits DEF ReliesOn, Used, LiveAs, Holders, Idle
  <2>7. Caches'
    <3> SUFFICES ASSUME NEW n \in Names, n \notin crossed
                 PROVE  Cached(n)' \/ \E q \in Requests : Mends(q, n)'
      BY <2>1 DEF Caches
    <3>1. \A q \in Requests \ {p} : Mends(q, n) => Mends(q, n)'
      BY <2>3 DEF Mends, Touches, AccountsInv, AccountTypes
    <3>2. req'[p] = r
      BY <2>3 DEF AccountsInv, AccountTypes
    <3>3. CASE n = old.new
      <4>1. row[old.id].name = n /\ row[old.id].st = "live" /\ row[old.id].role = old.role
        BY <1>1, <2>1, <3>3 DEF ReliesOn
      <4>2. LiveAs(n) = {old.id}
        BY <1>1, <2>1, <4>1 DEF AccountsInv, NamesUnique, LiveAs, Holders, Used, FiledAs
      <4>3. role'[n] = old.role
        BY <1>1, <2>2, <3>3
      <4> QED
        BY <4>1, <4>2, <4>3, <1>1 DEF Cached, LiveAs, Holders, Used
    <3>4. CASE n # old.new /\ Mends(p, n)
      <4>1. old.kind = "update" /\ n = old.old /\ old.old # old.new
        BY <2>1, <3>4 DEF Mends, Touches
      <4>2. r.pc = "drop" /\ r.old = n
        BY <1>1, <2>3, <4>1 DEF Request
      <4> QED
        BY <3>2, <4>2 DEF Mends
    <3>5. CASE n # old.new /\ ~Mends(p, n)
      <4>1. role'[n] = role[n]
        BY <1>1, <2>2, <3>5
      <4>2. Cached(n) => Cached(n)'
        BY <1>1, <4>1 DEF Cached, LiveAs, Holders, Used
      <4> QED
        BY <3>1, <3>5, <4>2 DEF AccountsInv, Caches
    <3> QED
      BY <3>3, <3>4, <3>5
  <2>8. Touches(r) \in {{}, Touches(old)} /\ r.id \in {0, old.id}
    BY <2>4, IdleFits DEF Touches
  <2>9. role' \in [Names -> Roles \cup {"none"}]
    BY <1>1, <2>1, <2>2
  <2> QED
    BY <1>1, <2>1, <2>3, <2>5, <2>6, <2>7, <2>8, <2>9, GoesOn
<1>4. CASE DropRole(p)
  <2>1. /\ old.pc = "drop" /\ old.old \in Names /\ crossed' = crossed
        /\ role' = [role EXCEPT ![old.old] = "none"]
    BY <1>1, <1>4 DEF DropRole, At, FiledAs
  <2>2. PICK r \in Request :
          req' = [req EXCEPT ![p] = r] /\ r = [old EXCEPT !.pc = "count"]
    BY <1>1, <1>4 DEF DropRole, Goto, Request, Pcs
  <2>3. /\ r.old = old.old /\ r.new = old.new /\ r.id = old.id /\ r.kind = old.kind
        /\ r.pc = "count" /\ r.role = old.role /\ r.grp = old.grp
    BY <1>1, <2>2 DEF Request
  <2>4. FiledAs(r)
    BY <1>1, <2>1, <2>3 DEF FiledAs
  <2>5. ReliesOn(r)'
    BY <1>1, <2>3 DEF ReliesOn, Used
  <2>6. Caches'
    <3> SUFFICES ASSUME NEW n \in Names, n \notin crossed
                 PROVE  Cached(n)' \/ \E q \in Requests : Mends(q, n)'
      BY <2>1 DEF Caches
    <3>1. \A q \in Requests \ {p} : Mends(q, n) => Mends(q, n)'
      BY <2>2 DEF Mends, Touches, AccountsInv, AccountTypes
    <3>2. CASE n = old.old
      <4>1. LiveAs(n) = {} /\ role'[n] = "none"
        BY <1>1, <2>1, <3>2 DEF ReliesOn
      <4> QED
        BY <1>1, <4>1 DEF Cached, LiveAs, Holders, Used
    <3>3. CASE n # old.old
      <4>1. role'[n] = role[n] /\ ~Mends(p, n)
        BY <1>1, <2>1, <3>3 DEF Mends
      <4>2. Cached(n) => Cached(n)'
        BY <1>1, <4>1 DEF Cached, LiveAs, Holders, Used
      <4> QED
        BY <3>1, <4>1, <4>2 DEF AccountsInv, Caches
    <3> QED
      BY <3>2, <3>3
  <2>7. Touches(r) = Touches(old)
    BY <2>3 DEF Touches
  <2>8. role' \in [Names -> Roles \cup {"none"}]
    BY <1>1, <2>1
  <2> QED
    BY <1>1, <2>1, <2>2, <2>3, <2>4, <2>5, <2>6, <2>7, <2>8, GoesOn
<1>5. CASE Break(p)
  <2>1. /\ req' = [req EXCEPT ![p] = Idle] /\ role' = role
        /\ crossed' = crossed \cup Touches(old)
    BY <1>5 DEF Break, Finish
  <2>2. ReliesOn(Idle)'
    BY DEF ReliesOn, Idle
  <2>3. Caches'
    <3> SUFFICES ASSUME NEW n \in Names, n \notin crossed, n \notin Touches(old)
                 PROVE  Cached(n)' \/ \E q \in Requests : Mends(q, n)'
      BY <2>1 DEF Caches
    <3>1. \A q \in Requests \ {p} : Mends(q, n) => Mends(q, n)'
      BY <2>1 DEF Mends, Touches, AccountsInv, AccountTypes
    <3>2. ~Mends(p, n)
      BY DEF Mends, Touches
    <3>3. Cached(n) => Cached(n)'
      BY <1>1, <2>1 DEF Cached, LiveAs, Holders, Used
    <3> QED
      BY <3>1, <3>2, <3>3 DEF AccountsInv, Caches
  <2> QED
    BY <1>1, <2>1, <2>2, <2>3, IdleFits, GoesOn
<1> QED
  BY <1>3, <1>4, <1>5

\* What a commit on the account i leaves of the other requests' reliance.
LEMMA OthersWork ==
  ASSUME AccountsInv, NEW p \in Requests, NEW i \in Ids, NEW r \in Request,
         req' = [req EXCEPT ![p] = r], crossed' = crossed, Touches(r) = Touches(req[p]),
         r.id = i, i = req[p].id \/ ~Used(i),
         \A j \in Ids \ {i} : row'[j] = row[j],
         Used(i)', Used(i) => row'[i].name \in Touches(req[p]) \cup {row[i].name},
         \A m \in Names \ Touches(req[p]) : LiveAs(m)' \subseteq LiveAs(m)
  PROVE  Apart' /\ \A q \in Requests \ {p} : (FiledAs(req[q]) /\ ReliesOn(req[q]))'
<1> USE DEF AccountsInv
<1>1. /\ req'[p] = r /\ req' \in [Requests -> Request]
      /\ \A q \in Requests \ {p} : req'[q] = req[q]
  BY DEF AccountTypes
<1>2. \A q \in Requests : Touches(req[q])' = Touches(req'[q])
  BY DEF Touches
<1>3. ASSUME NEW q \in Requests \ {p}, Shares(r, req[q]) \/ Shares(req[q], r)
      PROVE  Touches(req[q]) \subseteq crossed /\ Touches(r) \subseteq crossed
  <2>1. req[q].id = i /\ i # 0 => i = req[p].id
    BY DEF Working, ReliesOn
  <2>2. Shares(req[p], req[q]) /\ Shares(req[q], req[p])
    BY <1>3, <2>1 DEF Shares
  <2> QED
    BY <2>2 DEF Apart
<1>4. Apart'
  <2>1. \A q, s \in Requests : Shares(req[q], req[s])' = Shares(req'[q], req'[s])
    BY DEF Shares, Touches
  <2> QED
    BY <1>1, <1>2, <1>3, <2>1 DEF Apart
<1>5. ASSUME NEW q \in Requests \ {p}
      PROVE  (FiledAs(req[q]) /\ ReliesOn(req[q]))'
  <2>1. PICK s : s = req[q]
    OBVIOUS
  <2>2. s \in Request /\ FiledAs(s) /\ ReliesOn(s)
    BY <2>1 DEF AccountTypes, Working
  <2>3. ASSUME NEW m \in Touches(s), m \notin crossed
        PROVE  s.id # i /\ LiveAs(m)' \subseteq LiveAs(m)
    <3>1. ~Shares(r, s)
      BY <1>3, <2>3, <2>1
    <3>2. m \notin Touches(req[p]) /\ m \in Names /\ s.id # i
      BY <2>3, <3>1, NoName DEF Shares, Touches, Ids
    <3> QED
      BY <3>2
  <2>4. s.id # 0 => s.id \in Ids /\ Used(s.id)'
    BY <2>2 DEF ReliesOn, Request, Used
  <2>5. ASSUME s.pc = "commit", s.kind \in {"update", "delete"}
        PROVE  /\ row'[s.id].name \in Touches(s) \cup crossed
               /\ s.old \notin crossed =>
                    /\ row'[s.id].name = s.old /\ row'[s.id].st = "live"
                    /\ s.kind = "update" => (s.was <=> row'[s.id].role = "admin")
    <3>1. s.id \in Ids /\ s.old \in Touches(s)
      BY <2>2, <2>5 DEF FiledAs, Touches
    <3>2. CASE s.id # i
      BY <2>2, <2>5, <3>1, <3>2 DEF ReliesOn
    <3>3. CASE s.id = i
      <4>1. Shares(r, s) /\ Used(i)
        BY <2>2, <3>1, <3>3 DEF Shares, ReliesOn, Ids
      <4>2. Touches(s) \subseteq crossed /\ Touches(r) \subseteq crossed
        BY <1>3, <2>1, <4>1
      <4> QED
        BY <2>2, <2>5, <3>1, <3>3, <4>1, <4>2 DEF ReliesOn
    <3> QED
      BY <3>2, <3>3
  <2>6. ASSUME s.pc = "set", s.new \notin crossed
        PROVE  /\ row'[s.id].st = "live" /\ row'[s.id].name = s.new
               /\ row'[s.id].role = s.role
               /\ s.kind = "update" /\ s.old # s.new => LiveAs(s.old)' = {}
    <3>1. s.new \in Touches(s) /\ s.id \in Ids
      BY <2>2, <2>6 DEF FiledAs, Touches
    <3>2. s.id # i
      BY <2>3, <2>6, <3>1
    <3>3. s.kind = "update" => s.old \in Touches(s) /\ s.old \notin crossed
      BY <2>2, <2>6, <2>1, <3>1, NoName DEF FiledAs, Touches, Apart
    <3> QED
      BY <2>2, <2>3, <2>6, <3>1, <3>2, <3>3 DEF ReliesOn
  <2>7. ASSUME s.pc = "drop", s.old \notin crossed
        PROVE  LiveAs(s.old)' = {}
    <3>1. s.old \in Touches(s)
      BY <2>2, <2>7 DEF FiledAs, Touches
    <3> QED
      BY <2>2, <2>3, <2>7, <3>1 DEF ReliesOn
  <2>8. req'[q] = s
    BY <1>1, <2>1
  <2>9. /\ Touches(req[q])' = Touches(s) /\ LiveAs(req[q].old)' = LiveAs(s.old)'
        /\ Used(req[q].id)' = Used(s.id)'
    BY <2>8 DEF Touches, LiveAs, Holders, Used
  <2> QED
    BY <2>2, <2>4, <2>5, <2>6, <2>7, <2>8, <2>9 DEF FiledAs, ReliesOn
<1> QED
  BY <1>4, <1>5

\* A name no other request works on: what holds of it before a commit of p.
LEMMA NameAlone ==
  ASSUME AccountsInv, NEW p \in Requests, NEW n \in Touches(req[p]), n \notin crossed
  PROVE  /\ Touches(req[p]) \cap crossed = {}
         /\ \A q \in Requests \ {p} : ~Mends(q, n)
         /\ req[p].pc = "commit" => Cached(n)
<1>1. \A q \in Requests \ {p} : n \notin Touches(req[q])
  BY DEF AccountsInv, Apart, Shares, Touches
<1>2. \A q \in Requests \ {p} : ~Mends(q, n)
  BY <1>1, NoName DEF Mends, Touches
<1> QED
  BY <1>2 DEF AccountsInv, Apart, Caches, Mends, Touches

LEMMA AddCommits ==
  ASSUME AccountsInv, NEW p \in Requests, CommitAdd(p)
  PROVE  AccountsInv'
<1>0. PICK old, n : old = req[p] /\ n = old.new
  OBVIOUS
<1>1. /\ old \in Request /\ old.pc = "commit" /\ old.kind = "add" /\ old.old = "none"
      /\ ~old.was /\ n \in Names /\ old.role \in Roles /\ old.grp \in Groups /\ old.id = 0
      /\ Touches(old) = {n}
  BY <1>0, NoName DEF AccountsInv, AccountTypes, Working, FiledAs, CommitAdd, At, Touches
<1>2. PICK i \in FreshIds :
        /\ row' = [row EXCEPT ![i] = [st |-> "live", name |-> n, role |-> old.role,
                                      grp |-> old.grp]]
        /\ req' = [req EXCEPT ![p].pc = "set", ![p].id = i]
  <2>1. (CHOOSE k \in FreshIds : \A j \in FreshIds : k <= j) \in FreshIds
    <3>1. FreshIds \subseteq Nat /\ FreshIds # {}
      BY AccountsAssumption DEF FreshIds, Ids, CommitAdd
    <3>2. \E k \in FreshIds : \A j \in FreshIds : k <= j
      BY <3>1, LeastOf
    <3> QED
      BY <3>2
  <2> QED
    BY <1>0, <2>1 DEF CommitAdd
<1>3. /\ i \in Ids /\ ~Used(i) /\ Holders(n) = {}
      /\ UNCHANGED <<role, crossed>>
      /\ bound' = (IF old.role = "admin" THEN bound \cup {n} ELSE bound)
      /\ granted' = granted
  <2>1. Renamed(bound, "none", n) = bound /\ Renamed(granted, "none", n) = granted
    BY NoName DEF AccountsInv, AccountTypes, Renamed
  <2> QED
    BY <1>0, <1>1, <2>1 DEF CommitAdd, FreshIds, Used, SyncPermissions
<1>4. /\ row'[i] = [st |-> "live", name |-> n, role |-> old.role, grp |-> old.grp]
      /\ row' \in [Ids -> Rows \cup {NoRow}]
      /\ \A j \in Ids \ {i} : row'[j] = row[j]
      /\ \A j \in Ids : Used(j)' <=> j = i \/ Used(j)
  BY <1>1, <1>2, <1>3 DEF AccountsInv, AccountTypes, Rows, Used
<1>5. /\ \A m \in Names \ {n} : LiveAs(m)' = LiveAs(m) /\ Holders(m)' = Holders(m)
      /\ LiveAs(n)' = {i} /\ Holders(n)' = {i} /\ LiveAs(n) = {}
  <2>1. row'[i].name = n /\ row'[i].st = "live"
    BY <1>4
  <2>2. /\ \A m \in Names \ {n} : Holders(m)' = Holders(m)
        /\ Holders(n)' = {i} /\ LiveAs(n) = {}
    BY <1>3, <1>4, <2>1 DEF LiveAs, Holders
  <2>3. i \notin UNION {Holders(m) : m \in Names}
    BY <1>3 DEF Holders
  <2> QED
    BY <1>4, <2>1, <2>2, <2>3 DEF LiveAs, Holders
<1>6. PICK r \in Request : req' = [req EXCEPT ![p] = r] /\ r = [old EXCEPT !.pc = "set", !.id = i]
  <2>1. [old EXCEPT !.pc = "set", !.id = i] \in Request
    BY <1>1, <1>3 DEF Request, Pcs
  <2>2. req' = [req EXCEPT ![p] = [old EXCEPT !.pc = "set", !.id = i]]
    BY <1>0, <1>2 DEF AccountsInv, AccountTypes
  <2> QED
    BY <2>1, <2>2
<1>7. /\ r.pc = "set" /\ r.id = i /\ r.kind = "add" /\ r.old = "none" /\ r.new = n
      /\ r.role = old.role /\ r.grp = old.grp /\ ~r.was
  <2>1. old \in Request
    BY <1>1
  <2>2. \A x \in Request : LET y == [x EXCEPT !.pc = "set", !.id = i]
                           IN  /\ y.pc = "set" /\ y.id = i /\ y.kind = x.kind
                               /\ y.old = x.old /\ y.new = x.new /\ y.role = x.role
                               /\ y.grp = x.grp /\ y.was = x.was
    BY DEF Request
  <2> QED
    BY <1>0, <1>1, <1>6, <2>1, <2>2
<1>8. Apart' /\ \A q \in Requests \ {p} : (FiledAs(req[q]) /\ ReliesOn(req[q]))'
  <2>1. Touches(r) = Touches(req[p])
    BY <1>0, <1>1, <1>7, NoName DEF Touches
  <2>2. Used(i)' /\ \A m \in Names \ Touches(req[p]) : LiveAs(m)' \subseteq LiveAs(m)
    BY <1>0, <1>1, <1>3, <1>4, <1>5
  <2> QED
    BY <1>3, <1>4, <1>6, <1>7, <2>1, <2>2, OthersWork
<1>9. AccountTypes' /\ NamesUnique'
  <2>1. AccountTypes'
    <3>1. strays' = strays \ {n}
      BY <1>0 DEF CommitAdd
    <3> QED
      BY <1>1, <1>3, <1>4, <1>6, <3>1 DEF AccountsInv, AccountTypes
  <2> QED
    BY <2>1, <1>3, <1>4 DEF AccountsInv, NamesUnique, Holders, Used
<1>10. Working'
  <2>1. (FiledAs(req[p]) /\ ReliesOn(req[p]))'
    <3>1. req'[p] = r
      BY <1>6 DEF AccountsInv, AccountTypes
    <3>2. Used(req[p].id)'
      BY <1>3, <1>4, <1>7, <3>1 DEF Used
    <3> QED
      BY <1>1, <1>3, <1>4, <1>7, <3>1, <3>2 DEF FiledAs, ReliesOn
  <2> QED
    BY <1>8, <2>1 DEF Working
<1>11. BindingsFollow'
  <2>1. ASSUME NEW m \in Names, m \notin crossed
        PROVE  /\ \A k \in LiveAs(m)' : row'[k].role = "admin" <=> m \in bound'
               /\ Holders(m)' = {} => m \notin bound' /\ (m \in granted' => m \in strays')
    <3>1. CASE m = n
      <4>1. n \notin bound
        BY <1>1, <1>3, <2>1, <3>1 DEF AccountsInv, BindingsFollow
      <4>2. row'[i].role = old.role
        BY <1>4
      <4> QED
        BY <1>3, <1>5, <3>1, <4>1, <4>2
    <3>2. CASE m # n
      <4>1. m \in strays => m \in strays'
        BY <1>0, <3>2 DEF CommitAdd
      <4> QED
        BY <1>3, <1>4, <1>5, <2>1, <3>2, <4>1
         DEF AccountsInv, BindingsFollow, LiveAs, Holders, Used
    <3> QED
      BY <3>1, <3>2
  <2> QED
    BY <1>3, <2>1 DEF BindingsFollow
<1>12. Caches'
  <2> SUFFICES ASSUME NEW m \in Names, m \notin crossed
               PROVE  Cached(m)' \/ \E q \in Requests : Mends(q, m)'
    BY <1>3 DEF Caches
  <2>1. \A q \in Requests \ {p} : Mends(q, m) => Mends(q, m)'
    BY <1>6 DEF Mends, Touches, AccountsInv, AccountTypes
  <2>2. CASE m = n
    <3>1. role[n] = "none"
      BY <1>0, <1>1, <1>5, <2>2, NameAlone DEF Cached
    <3> QED
      BY <1>3, <1>5, <2>2, <3>1 DEF Cached
  <2>3. CASE m # n
    <3>1. ~Mends(p, m)
      BY <1>0, <1>1 DEF Mends
    <3>2. Cached(m) => Cached(m)'
      BY <1>3, <1>4, <1>5, <2>3 DEF Cached, LiveAs, Holders
    <3> QED
      BY <2>1, <3>1, <3>2 DEF AccountsInv, Caches
  <2> QED
    BY <2>2, <2>3
<1> QED
  BY <1>8, <1>9, <1>10, <1>11, <1>12 DEF AccountsInv

LEMMA DeleteCommits ==
  ASSUME AccountsInv, NEW p \in Requests, CommitDelete(p)
  PROVE  AccountsInv'
<1>1. PICK old, i, n : old = req[p] /\ i = old.id /\ n = old.old
  OBVIOUS
<1>2. /\ old \in Request /\ old.pc = "commit" /\ old.kind = "delete" /\ n \in Names
      /\ i \in Ids /\ old.new = "none" /\ Touches(old) = {n} /\ ReliesOn(old)
  BY <1>1, NoName
     DEF AccountsInv, AccountTypes, Working, FiledAs, CommitDelete, At, Touches
<1>3. /\ row' = [row EXCEPT ![i] = [@ EXCEPT !.st = "deleted"]]
      /\ UNCHANGED <<bound, granted, strays, role, crossed>>
      /\ Used(i) /\ row[i] \in Rows /\ row[i].name \in {n} \cup crossed
      /\ n \notin crossed => row[i].name = n
  BY <1>1, <1>2, AccountsAssumption
     DEF CommitDelete, ReliesOn, Ids, AccountsInv, AccountTypes, Used, NoRow
<1>4. /\ row'[i].st = "deleted" /\ row'[i].name = row[i].name /\ row'[i].role = row[i].role
      /\ row' \in [Ids -> Rows \cup {NoRow}]
      /\ \A j \in Ids \ {i} : row'[j] = row[j]
      /\ \A j \in Ids : Used(j)' <=> Used(j)
  BY <1>2, <1>3 DEF AccountsInv, AccountTypes, Rows, Used
<1>5. \A m \in Names : LiveAs(m)' = LiveAs(m) \ {i} /\ Holders(m)' = Holders(m)
  BY <1>3, <1>4 DEF LiveAs, Holders
<1>6. PICK r \in Request :
        /\ req' = [req EXCEPT ![p] = r]
        /\ r.pc = "drop" /\ r.id = i /\ r.kind = "delete" /\ r.old = n /\ r.new = "none"
  <2>1. PICK r : r = [old EXCEPT !.pc = "drop"]
    OBVIOUS
  <2>2. r \in Request /\ req' = [req EXCEPT ![p] = r]
    BY <1>1, <1>2, <2>1 DEF CommitDelete, Goto, Request, Pcs
  <2>3. r.pc = "drop" /\ r.id = i /\ r.kind = "delete" /\ r.old = n /\ r.new = "none"
    BY <1>1, <1>2, <2>1 DEF Request
  <2> QED
    BY <2>2, <2>3
<1>7. Apart' /\ \A q \in Requests \ {p} : (FiledAs(req[q]) /\ ReliesOn(req[q]))'
  <2>1. Touches(r) = Touches(req[p])
    BY <1>1, <1>2, <1>6, NoName DEF Touches
  <2>2. /\ Used(i)' /\ row'[i].name \in Touches(req[p]) \cup {row[i].name} /\ i = req[p].id
        /\ \A m \in Names \ Touches(req[p]) : LiveAs(m)' \subseteq LiveAs(m)
    BY <1>1, <1>2, <1>3, <1>4, <1>5
  <2> QED
    BY <1>2, <1>3, <1>4, <1>6, <2>1, <2>2, OthersWork
<1>8. AccountTypes' /\ NamesUnique'
  BY <1>3, <1>4, <1>6 DEF AccountsInv, AccountTypes, NamesUnique
<1>9. Working'
  <2>1. n \notin crossed => LiveAs(n)' = {}
    BY <1>2, <1>3, <1>5 DEF AccountsInv, NamesUnique, LiveAs, Holders
  <2>2. req'[p] = r /\ Used(i)'
    BY <1>2, <1>3, <1>4, <1>6 DEF AccountsInv, AccountTypes
  <2>3. (FiledAs(req[p]) /\ ReliesOn(req[p]))'
    BY <1>2, <1>3, <1>6, <2>1, <2>2 DEF FiledAs, ReliesOn, LiveAs, Holders, Used
  <2> QED
    BY <1>7, <2>3 DEF Working
<1>10. BindingsFollow'
  <2>1. \A m \in Names : \A k \in LiveAs(m)' : k \in LiveAs(m) /\ row'[k] = row[k]
    BY <1>4, <1>5 DEF LiveAs, Holders
  <2> QED
    BY <1>3, <1>5, <2>1 DEF AccountsInv, BindingsFollow
<1>11. Caches'
  <2> SUFFICES ASSUME NEW m \in Names, m \notin crossed
               PROVE  Cached(m)' \/ \E q \in Requests : Mends(q, m)'
    BY <1>3 DEF Caches
  <2>1. \A q \in Requests \ {p} : Mends(q, m) => Mends(q, m)'
    BY <1>6 DEF Mends, Touches, AccountsInv, AccountTypes
  <2>2. CASE m = n
    BY <1>6, <2>2 DEF Mends, AccountsInv, AccountTypes
  <2>3. CASE m # n
    <3>1. ~Mends(p, m)
      BY <1>1, <1>2 DEF Mends
    <3>2. LiveAs(m)' = LiveAs(m) /\ i \notin LiveAs(m)
      BY <1>3, <1>5, <2>3 DEF LiveAs, Holders
    <3>3. Cached(m) => Cached(m)'
      BY <1>3, <1>4, <3>2 DEF Cached, LiveAs, Holders
    <3> QED
      BY <2>1, <3>1, <3>3 DEF AccountsInv, Caches
  <2> QED
    BY <2>2, <2>3
<1> QED
  BY <1>7, <1>8, <1>9, <1>10, <1>11 DEF AccountsInv

LEMMA UpdateCommits ==
  ASSUME AccountsInv, NEW p \in Requests, CommitUpdate(p)
  PROVE  AccountsInv'
<1>1. PICK old, i, o, n : old = req[p] /\ i = old.id /\ o = old.old /\ n = old.new
  OBVIOUS
<1>2. /\ old \in Request /\ old.pc = "commit" /\ old.kind = "update" /\ i \in Ids
      /\ o \in Names /\ n \in Names /\ old.role \in Roles /\ old.grp \in Groups
      /\ Touches(old) = {o, n} /\ ReliesOn(old) /\ Holders(n) \subseteq {i}
  BY <1>1 DEF AccountsInv, AccountTypes, Working, FiledAs, CommitUpdate, At, Touches
<1>3. /\ row' = [row EXCEPT ![i] = [@ EXCEPT !.name = n, !.role = old.role, !.grp = old.grp]]
      /\ UNCHANGED <<role, crossed>>
      /\ Used(i) /\ row[i] \in Rows
  <2>1. Used(i) /\ row[i] \in Rows
    BY <1>1, <1>2, AccountsAssumption
       DEF ReliesOn, Ids, AccountsInv, AccountTypes, Used, NoRow
  <2>2. row' = [row EXCEPT ![i] = [[[@ EXCEPT !.name = n] EXCEPT !.role = old.role]
                                      EXCEPT !.grp = old.grp]]
    BY <1>1, <1>2 DEF CommitUpdate, AccountsInv, AccountTypes
  <2>3. \A x \in Rows : [[[x EXCEPT !.name = n] EXCEPT !.role = old.role] EXCEPT !.grp = old.grp]
                          = [x EXCEPT !.name = n, !.role = old.role, !.grp = old.grp]
    BY DEF Rows
  <2> QED
    BY <1>1, <2>1, <2>2, <2>3 DEF CommitUpdate, AccountsInv, AccountTypes
<1>4. /\ row'[i].st = row[i].st /\ row'[i].name = n /\ row'[i].role = old.role
      /\ row' \in [Ids -> Rows \cup {NoRow}]
      /\ \A j \in Ids \ {i} : row'[j] = row[j]
      /\ \A j \in Ids : Used(j)' <=> Used(j)
  BY <1>2, <1>3 DEF AccountsInv, AccountTypes, Rows, Used
\* The names, and the row before.
<1>5. /\ row[i].name \in {o, n} \cup crossed
      /\ o \in crossed <=> n \in crossed
      /\ o \notin crossed => /\ row[i].name = o /\ row[i].st = "live"
                             /\ old.was <=> row[i].role = "admin"
  <2>1. o \in crossed <=> n \in crossed
    BY <1>1, <1>2 DEF AccountsInv, Apart
  <2> QED
    BY <1>1, <1>2, <2>1 DEF ReliesOn
<1>6. /\ \A m \in Names \ {n} : /\ LiveAs(m)' = LiveAs(m) \ {i}
                               /\ Holders(m)' = Holders(m) \ {i}
      /\ Holders(n)' = {i} /\ LiveAs(n)' \subseteq {i}
      /\ \A m \in Names : row[i].name # m => i \notin LiveAs(m) /\ i \notin Holders(m)
  <2>1. \A m \in Names \ {n} : Holders(m)' = Holders(m) \ {i}
    BY <1>2, <1>3, <1>4 DEF Holders
  <2>2. Holders(n)' = {i}
    BY <1>2, <1>3, <1>4 DEF Holders
  <2>3. \A m \in Names : row[i].name # m => i \notin LiveAs(m) /\ i \notin Holders(m)
    BY DEF Holders, LiveAs
  <2>4. ASSUME NEW m \in Names \ {n}
        PROVE  LiveAs(m)' = LiveAs(m) \ {i}
    <3>1. \A j \in Holders(m) \ {i} : row'[j] = row[j]
      BY <1>4 DEF Holders
    <3> QED
      BY <2>1, <3>1 DEF LiveAs
  <2>5. LiveAs(n)' \subseteq {i}
    BY <2>2 DEF LiveAs
  <2> QED
    BY <2>1, <2>2, <2>3, <2>4, <2>5
<1>7. PICK r \in Request :
        /\ req' = [req EXCEPT ![p] = r]
        /\ r.pc = "set" /\ r.id = i /\ r.kind = "update" /\ r.old = o /\ r.new = n
        /\ r.role = old.role /\ r.grp = old.grp
  <2>1. PICK r : r = [old EXCEPT !.pc = "set"]
    OBVIOUS
  <2>2. r \in Request /\ req' = [req EXCEPT ![p] = r]
    BY <1>1, <1>2, <2>1 DEF CommitUpdate, Goto, Request, Pcs
  <2>3. /\ r.pc = "set" /\ r.id = i /\ r.kind = "update" /\ r.old = o /\ r.new = n
        /\ r.role = old.role /\ r.grp = old.grp
    BY <1>1, <1>2, <2>1 DEF Request
  <2> QED
    BY <2>2, <2>3
<1>8. Apart' /\ \A q \in Requests \ {p} : (FiledAs(req[q]) /\ ReliesOn(req[q]))'
  <2>1. Touches(r) = Touches(req[p])
    BY <1>1, <1>7 DEF Touches
  <2>2. /\ Used(i)' /\ row'[i].name \in Touches(req[p]) \cup {row[i].name} /\ i = req[p].id
        /\ \A m \in Names \ Touches(req[p]) : LiveAs(m)' \subseteq LiveAs(m)
    BY <1>1, <1>2, <1>3, <1>4, <1>6
  <2> QED
    BY <1>2, <1>3, <1>4, <1>7, <2>1, <2>2, OthersWork
<1>9. AccountTypes' /\ NamesUnique'
  <2>1. bound' \subseteq Names /\ granted' \subseteq Names /\ strays' \subseteq Names
    BY <1>1, <1>2 DEF CommitUpdate, SyncPermissions, Renamed, AccountsInv, AccountTypes
  <2>2. NamesUnique'
    <3>1. \A j \in Ids : Used(j) /\ row[j].name = n => j = i
      BY <1>2 DEF Holders
    <3> QED
      BY <1>4, <3>1 DEF AccountsInv, NamesUnique
  <2> QED
    BY <1>3, <1>4, <1>7, <2>1, <2>2 DEF AccountsInv, AccountTypes
<1>10. Working'
  <2>1. o \notin crossed /\ o # n => LiveAs(o)' = {}
    BY <1>2, <1>3, <1>5, <1>6 DEF AccountsInv, NamesUnique, LiveAs, Holders
  <2>2. req'[p] = r /\ Used(i)'
    BY <1>2, <1>3, <1>4, <1>7 DEF AccountsInv, AccountTypes
  <2>3. LiveAs(req[p].old)' = LiveAs(o)' /\ Used(req[p].id)' = Used(i)'
    BY <1>7, <2>2 DEF LiveAs, Holders, Used
  <2>4. (FiledAs(req[p]) /\ ReliesOn(req[p]))'
    BY <1>2, <1>3, <1>4, <1>5, <1>7, <2>1, <2>2, <2>3 DEF FiledAs, ReliesOn
  <2> QED
    BY <1>8, <2>4 DEF Working
<1>11. BindingsFollow'
  <2>1. /\ bound' = LET moved == Renamed(bound, o, n) IN
                      IF old.role = "admin" THEN moved \cup {n}
                      ELSE IF old.was THEN moved \ {n} ELSE moved
        /\ granted' = Renamed(granted, o, n)
    BY <1>1 DEF CommitUpdate, SyncPermissions
  <2> SUFFICES ASSUME NEW m \in Names, m \notin crossed
               PROVE  /\ \A k \in LiveAs(m)' : row'[k].role = "admin" <=> m \in bound'
                      /\ Holders(m)' = {} => m \notin bound' /\ (m \in granted' => m \in strays')
    BY <1>3 DEF BindingsFollow
  <2>2. /\ \A k \in LiveAs(m) : row[k].role = "admin" <=> m \in bound
        /\ Holders(m) = {} => m \notin bound /\ (m \in granted => m \in strays)
    BY DEF AccountsInv, BindingsFollow
  <2>3. CASE m \notin {o, n}
    <3>1. m \in bound' <=> m \in bound
      BY <2>1, <2>3 DEF Renamed
    <3>2. (m \in granted' <=> m \in granted) /\ (m \in strays => m \in strays')
      BY <1>1, <2>1, <2>3 DEF Renamed, CommitUpdate
    <3>3. Holders(m)' = Holders(m) /\ LiveAs(m)' = LiveAs(m) /\ i \notin LiveAs(m)
      <4>1. row[i].name # m
        BY <1>5, <2>3
      <4>2. i \notin LiveAs(m) /\ i \notin Holders(m)
        BY <1>6, <4>1
      <4> QED
        BY <1>6, <2>3, <4>2
    <3>4. \A k \in LiveAs(m) : row'[k] = row[k]
      BY <1>4, <3>3 DEF LiveAs, Holders
    <3> QED
      BY <2>2, <3>1, <3>2, <3>3, <3>4
  <2>4. CASE m \in {o, n}
    <3>1. /\ o \notin crossed /\ n \notin crossed /\ row[i].name = o
          /\ i \in LiveAs(o) /\ (old.was <=> o \in bound)
      BY <1>2, <1>3, <1>5, <2>4 DEF AccountsInv, BindingsFollow, LiveAs, Holders
    <3>2. o # n => n \notin bound
      <4>1. o # n => Holders(n) = {}
        BY <1>2, <3>1 DEF Holders
      <4> QED
        BY <1>2, <3>1, <4>1 DEF AccountsInv, BindingsFollow
    <3>3. n \in bound' <=> old.role = "admin"
      <4>1. CASE o = n
        BY <2>1, <3>1, <4>1 DEF Renamed
      <4>2. CASE o # n
        BY <2>1, <3>1, <3>2, <4>2 DEF Renamed
      <4> QED
        BY <4>1, <4>2
    <3>4. o # n => o \notin bound' \cup granted' /\ LiveAs(o)' = {}
      <4>1. o # n => o \notin bound' \cup granted'
        BY <2>1 DEF Renamed
      <4>2. o # n => LiveAs(o)' = {}
        BY <1>2, <1>3, <1>6, <3>1 DEF AccountsInv, NamesUnique, LiveAs, Holders
      <4> QED
        BY <4>1, <4>2
    <3> QED
      BY <1>4, <1>6, <2>4, <3>3, <3>4
  <2> QED
    BY <2>3, <2>4
<1>12. Caches'
  <2> SUFFICES ASSUME NEW m \in Names, m \notin crossed
               PROVE  Cached(m)' \/ \E q \in Requests : Mends(q, m)'
    BY <1>3 DEF Caches
  <2>1. \A q \in Requests \ {p} : Mends(q, m) => Mends(q, m)'
    BY <1>7 DEF Mends, Touches, AccountsInv, AccountTypes
  <2>2. CASE m \in {o, n}
    BY <1>2, <1>7, <2>2 DEF Mends, Touches, AccountsInv, AccountTypes
  <2>3. CASE m \notin {o, n}
    <3>1. ~Mends(p, m)
      BY <1>1, <1>2 DEF Mends
    <3>2. LiveAs(m)' = LiveAs(m) /\ i \notin LiveAs(m)
      <4>1. row[i].name # m
        BY <1>5, <2>3
      <4>2. i \notin LiveAs(m)
        BY <1>6, <4>1
      <4> QED
        BY <1>6, <2>3, <4>2
    <3>3. Cached(m) => Cached(m)'
      BY <1>3, <1>4, <3>2 DEF Cached, LiveAs, Holders
    <3> QED
      BY <2>1, <3>1, <3>3 DEF AccountsInv, Caches
  <2> QED
    BY <2>2, <2>3
<1> QED
  BY <1>8, <1>9, <1>10, <1>11, <1>12 DEF AccountsInv

LEMMA EditsKeep ==
  ASSUME AccountsInv, RenameAllRights \/ \E S \in SUBSET Names : EditRule(S)
  PROVE  AccountsInv'
<1> USE DEF AccountsInv
<1>1. UNCHANGED <<row, role, req>>
  BY DEF RenameAllRights, EditRule
\* Whoever shares a name with a request that was met is crossed already.
<1>2. ASSUME NEW M \in SUBSET Requests, NEW B \in SUBSET Names,
             \A p \in Requests : Touches(req[p]) \cap B # {} => p \in M,
             crossed' = crossed \cup B \cup UNION {Touches(req[p]) : p \in M}
      PROVE  /\ crossed \subseteq crossed' /\ crossed' \subseteq Names
             /\ Apart'
  <2>1. crossed \subseteq crossed' /\ crossed' \subseteq Names
    BY <1>2 DEF AccountTypes, Touches
  <2>2. ASSUME NEW p \in Requests, NEW n \in Touches(req[p]), n \in crossed'
        PROVE  Touches(req[p]) \subseteq crossed'
    <3>1. CASE n \in crossed
      BY <2>1, <2>2, <3>1 DEF Apart
    <3>2. CASE p \in M
      BY <1>2, <3>2
    <3>3. CASE n \notin crossed /\ p \notin M
      <4>1. PICK q \in M : n \in Touches(req[q])
        BY <1>2, <2>2, <3>3
      <4>2. q # p /\ Shares(req[p], req[q])
        BY <2>2, <3>3, <4>1 DEF Shares, Touches
      <4> QED
        BY <2>1, <2>2, <4>1, <4>2 DEF Apart
    <3> QED
      BY <3>1, <3>2, <3>3
  <2>3. \A p, q \in Requests : /\ Touches(req[p])' = Touches(req[p])
                               /\ Shares(req[p], req[q])' = Shares(req[p], req[q])
    BY <1>1 DEF Touches, Shares
  <2> QED
    BY <2>1, <2>2, <2>3 DEF Apart
\* What the other conjuncts ask is asked of fewer names.
<1>3. ASSUME crossed \subseteq crossed', crossed' \subseteq Names, Apart',
             bound' \subseteq Names, granted' \subseteq Names, strays' \subseteq Names,
             BindingsFollow'
      PROVE  AccountsInv'
  <2>1. AccountTypes' /\ NamesUnique'
    BY <1>1, <1>3 DEF AccountTypes, NamesUnique, Used
  <2>2. Working'
    BY <1>1, <1>3 DEF Working, FiledAs, ReliesOn, LiveAs, Holders, Used, Touches
  <2>3. Caches'
    BY <1>1, <1>3 DEF Caches, Cached, Mends, LiveAs, Holders, Used, Touches
  <2> QED
    BY <1>3, <2>1, <2>2, <2>3
<1>4. \A n \in Names : LiveAs(n)' = LiveAs(n) /\ Holders(n)' = Holders(n)
  BY <1>1 DEF LiveAs, Holders, Used
<1>5. ASSUME NEW S \in SUBSET Names, EditRule(S) PROVE AccountsInv'
  <2>1. /\ granted' = S /\ bound' = bound
        /\ strays' = (strays \cap S) \cup {n \in S \ granted : Holders(n) = {}}
        /\ crossed' = crossed \cup Meeting(Changed(S))
    BY <1>5 DEF EditRule
  <2>2. PICK M \in SUBSET Requests : Meeting(Changed(S)) = UNION {Touches(req[p]) : p \in M}
    BY DEF Meeting
  <2>3. crossed \subseteq crossed' /\ crossed' \subseteq Names /\ Apart'
    <3>1. crossed' = crossed \cup {} \cup UNION {Touches(req[p]) : p \in M}
      BY <2>1, <2>2
    <3>2. {} \in SUBSET Names /\ \A p \in Requests : Touches(req[p]) \cap {} # {} => p \in M
      OBVIOUS
    <3> QED
      BY <1>2, <3>1, <3>2
  <2>4. BindingsFollow'
    BY <1>1, <1>4, <2>1, <2>3 DEF BindingsFollow
  <2> QED
    BY <1>3, <2>1, <2>3, <2>4 DEF AccountTypes
<1>6. CASE RenameAllRights
  <2> DEFINE M == {p \in Requests : Committing(p) \/ Touches(req[p]) \cap bound # {}}
  <2>1. /\ bound' = {} /\ UNCHANGED <<granted, strays>>
        /\ crossed' = crossed \cup bound \cup UNION {Touches(req[p]) : p \in M}
    BY <1>6 DEF RenameAllRights
  <2>2. crossed \subseteq crossed' /\ crossed' \subseteq Names /\ Apart'
    <3>1. bound \in SUBSET Names /\ M \in SUBSET Requests
          /\ \A p \in Requests : Touches(req[p]) \cap bound # {} => p \in M
      BY DEF AccountTypes
    <3> HIDE DEF M
    <3> QED
      BY <1>2, <2>1, <3>1
  <2>3. BindingsFollow'
    <3>1. bound \subseteq crossed'
      BY <2>1
    <3> QED
      BY <1>1, <1>4, <2>1, <2>2, <3>1 DEF BindingsFollow
  <2> QED
    BY <1>3, <2>1, <2>2, <2>3 DEF AccountTypes
<1> QED
  BY <1>5, <1>6

LEMMA AccountsStep == AccountsInv /\ [Next]_vars => AccountsInv'
<1> SUFFICES ASSUME AccountsInv, [Next]_vars
             PROVE  AccountsInv'
  OBVIOUS
<1>1. CASE UNCHANGED vars
  BY <1>1 DEF vars, AccountsInv, AccountTypes, NamesUnique, Apart, Shares, Working, FiledAs,
              ReliesOn, BindingsFollow, Caches, Cached, Mends, LiveAs, Holders, Used, Touches
<1>2. CASE Next
  BY <1>2, RequestsStart, AddCommits, UpdateCommits, DeleteCommits, RequestsCount,
     RolesChange, EditsKeep DEF Next
<1> QED
  BY <1>1, <1>2

LEMMA AccountsTrue == AccountsInv => AccountsAgree
<1> SUFFICES ASSUME AccountsInv, NEW n \in Names, Settled(n)
             PROVE  Cached(n)
  BY DEF AccountsInv, AccountsAgree, CacheFollowsRow, Cached
<1>1. \A p \in Requests : ~Mends(p, n)
  BY DEF Settled, Mends, Touches
<1> QED
  BY <1>1 DEF AccountsInv, Caches, Settled

\* However additions, edits, deletions and logins cross or break off: for a name no
\* two of them shared, a live account is bound to the all-access rule exactly if it
\* is an administrator, no rule names an account nobody has unless an administrator
\* wrote that name into it, and once no request works on the name Redis holds the
\* role of its row (user.py, auto_update.py).
THEOREM AccountsStayAgreed == (Spec => []AccountsAgree) /\ (MCSpec => []AccountsAgree)
<1>1. Spec => []AccountsAgree
  BY AccountsStart, AccountsStep, AccountsTrue, PTL DEF Spec
<1>2. MCInit => AccountsInv
  BY AccountsStart DEF MCInit
<1>3. AccountsInv /\ [MCNext]_<<part, vars, assets, cron, setup>> => AccountsInv'
  BY PartSteps, AccountsStep
<1>4. MCSpec => []AccountsAgree
  BY <1>2, <1>3, AccountsTrue, PTL DEF MCSpec
<1> QED
  BY <1>1, <1>4

-----------------------------------------------------------------------------
(* Asset groups, system users and the lists of the rule of all rights.     *)

Counts       == {Cardinality(S) : S \in SUBSET Hosts} \cup {0}
AssetRequest ==
  [pc : {"idle", "commit", "collect", "clear", "fill", "done", "count", "write"},
   op : {"none", "add", "delete", "rename", "addHost", "moveHost", "deleteHost", "sum"},
   tab : AD!Tables \cup {"none"}, name : Titles \cup {"none"}, to : Titles \cup {"none"},
   host : Hosts \cup {"none"}, names : SUBSET Titles, twice : BOOLEAN,
   nums : Counts, count : Seq(Titles \cup {"none"})]

AssetTypes ==
  /\ live \in [AD!Tables -> [Titles -> 0 .. 2]]
  /\ dead \in [AD!Tables -> SUBSET Titles] /\ listed \in [AD!Tables -> SUBSET Titles]
  /\ host \in [Hosts -> [st : {"none", "live", "deleted"}, grp : Titles \cup {"none"}]]
  /\ nums_a \in [Titles -> Counts]
  /\ req_a \in [Requests -> AssetRequest]

\* What the fields of a request hold.
AssetFields(r) ==
  \/ r.pc = "idle" /\ r.tab = "none"
  \/ /\ r.pc = "commit" /\ r.op \in {"add", "delete", "rename"}
     /\ r.tab \in AD!Tables /\ r.name \in Titles
     /\ r.op = "rename" => r.to \in Titles /\ r.to # r.name
  \/ r.pc \in {"collect", "clear", "fill", "done"} /\ r.tab \in AD!Tables
  \/ /\ r.pc = "commit" /\ r.op \in {"addHost", "moveHost"}
     /\ r.tab = "none" /\ r.host \in Hosts /\ r.to \in Titles
  \/ r.pc \in {"count", "write"} /\ r.tab = "none"

\* An uncrossed table has one request at most.
OneEach ==
  \A p, q \in Requests :
    p # q /\ req_a[p].tab = req_a[q].tab /\ req_a[p].tab # "none"
      => req_a[p].tab \in crossed_a

\* The list of an uncrossed table is whole or is being rebuilt, from the names
\* there still are.
Listing     == {"host_group", "sys_user"}
Whole(t)    == (\A n \in Titles : live[t][n] <= 1) => listed[t] = AD!LiveNames(t)
Rebuilds(r) == r.pc \in {"collect", "clear", "fill"}
Steady(r, t) ==
  /\ r.pc \in {"clear", "fill"} =>
       r.names = AD!LiveNames(t) /\ (r.twice <=> \E n \in Titles : live[t][n] > 1)
  /\ r.pc = "fill" => listed[t] = {}
Lists ==
  \A t \in Listing \ crossed_a :
    /\ Whole(t) \/ \E p \in Requests : req_a[p].tab = t /\ Rebuilds(req_a[p])
    /\ \A p \in Requests : req_a[p].tab = t => Steady(req_a[p], t)

AssetsInv ==
  /\ AssetTypes /\ (\A p \in Requests : AssetFields(req_a[p]))
  /\ OneEach /\ Lists /\ AD!HostsHaveAGroup

\* A list stays as it was where its table does.
LEMMA ListKept ==
  ASSUME NEW t \in AD!Tables, live'[t] = live[t], listed'[t] = listed[t]
  PROVE  /\ Whole(t) <=> Whole(t)'
         /\ \A r : Steady(r, t) <=> Steady(r, t)'
BY DEF Whole, Steady, AD!LiveNames

LEMMA AssetsStart == AD!Init => AssetsInv
<1> SUFFICES ASSUME AD!Init
             PROVE  AssetsInv
  OBVIOUS
<1> USE DEF AD!Init
<1>1. \A p \in Requests : /\ req_a[p] \in AssetRequest /\ AssetFields(req_a[p])
                          /\ req_a[p].tab = "none"
  BY DEF AD!Idle, AssetRequest, AssetFields, Counts
<1>2. AssetTypes
  BY <1>1 DEF AssetTypes, AD!NoHost, Counts
<1>3. \A t \in Listing : Whole(t)
  BY DEF Listing, Whole, AD!LiveNames, AD!Tables
<1> QED
  BY <1>1, <1>2, <1>3
     DEF AssetsInv, OneEach, Lists, AD!HostsHaveAGroup, AD!NoHost, Listing, AD!Tables

LEMMA AssetBegins ==
  ASSUME AssetsInv, NEW p \in Requests, NEW r \in AssetRequest, AssetFields(r),
         r.pc = "commit" \/ r.tab = "none", AD!Begin(p, r),
         UNCHANGED <<live, listed>>, AssetTypes', AD!HostsHaveAGroup'
  PROVE  AssetsInv'
<1> USE DEF AssetsInv
<1>1. /\ req_a[p].pc = "idle" /\ req_a' = [req_a EXCEPT ![p] = r]
      /\ crossed_a \subseteq crossed_a' /\ req_a[p].tab = "none"
  BY DEF AD!Begin, AssetFields
<1>2. /\ req_a'[p] = r /\ \A q \in Requests \ {p} : req_a'[q] = req_a[q]
  BY <1>1 DEF AssetTypes
<1>3. \A q \in Requests : req_a[q].tab = r.tab /\ r.tab # "none" => r.tab \in crossed_a'
  <2> SUFFICES ASSUME NEW q \in Requests, req_a[q].tab = r.tab, r.tab # "none"
               PROVE  r.tab \in crossed_a'
    OBVIOUS
  <2>1. req_a[q].pc # "idle" /\ r.tab \in AD!Tables
    BY DEF AssetFields, AssetRequest
  <2> QED
    BY <2>1 DEF AD!Begin
<1>4. OneEach'
  BY <1>1, <1>2, <1>3 DEF OneEach
<1>5. Lists'
  <2> SUFFICES ASSUME NEW t \in Listing, t \notin crossed_a'
               PROVE  /\ Whole(t)' \/ \E q \in Requests : req_a'[q].tab = t /\ Rebuilds(req_a'[q])
                      /\ \A q \in Requests : req_a'[q].tab = t => Steady(req_a[q], t)'
    BY DEF Lists, Rebuilds
  <2>1. t \in AD!Tables /\ t # "none"
    BY DEF Listing, AD!Tables
  <2>2. (Whole(t) <=> Whole(t)') /\ \A s : Steady(s, t) <=> Steady(s, t)'
    BY <2>1, ListKept
  <2>3. r.tab = t => Steady(r, t)'
    BY <2>1 DEF Steady
  <2>4. \A q \in Requests : \A s : req_a'[q] = s => (Steady(req_a[q], t)' <=> Steady(s, t)')
    BY DEF Steady
  <2>5. \A q \in Requests : req_a'[q].tab = t => Steady(req_a[q], t)'
    BY <1>1, <1>2, <2>1, <2>2, <2>3, <2>4 DEF Lists
  <2>6. Whole(t) \/ \E q \in Requests \ {p} : req_a[q].tab = t /\ Rebuilds(req_a[q])
    BY <1>1, <2>1 DEF Lists
  <2> QED
    BY <1>2, <2>2, <2>5, <2>6
<1> QED
  BY <1>2, <1>4, <1>5 DEF AssetFields

\* A step of a request that has begun.
LEMMA AssetMoves ==
  ASSUME AssetsInv, NEW p \in Requests, NEW r \in AssetRequest, AssetFields(r),
         req_a' = [req_a EXCEPT ![p] = r], crossed_a \subseteq crossed_a',
         r.tab \in {"none", req_a[p].tab},
         \A t \in AD!Tables \ {req_a[p].tab} : live'[t] = live[t] /\ listed'[t] = listed[t],
         \A t \in Listing \ crossed_a' :
           t = req_a[p].tab => /\ Whole(t)' \/ (r.tab = t /\ Rebuilds(r))
                               /\ r.tab = t => Steady(r, t)',
         AssetTypes', AD!HostsHaveAGroup'
  PROVE  AssetsInv'
<1> USE DEF AssetsInv
<1>1. /\ req_a'[p] = r /\ \A q \in Requests \ {p} : req_a'[q] = req_a[q]
  BY DEF AssetTypes
<1>2. OneEach'
  BY <1>1 DEF OneEach
<1>3. Lists'
  <2> SUFFICES ASSUME NEW t \in Listing, t \notin crossed_a'
               PROVE  /\ Whole(t)' \/ \E q \in Requests : req_a'[q].tab = t /\ Rebuilds(req_a'[q])
                      /\ \A q \in Requests : req_a'[q].tab = t => Steady(req_a[q], t)'
    BY DEF Lists, Rebuilds
  <2>0. \A q \in Requests : \A s : req_a'[q] = s => (Steady(req_a[q], t)' <=> Steady(s, t)')
    BY DEF Steady
  <2>1. t \in AD!Tables /\ t # "none" /\ t \notin crossed_a
    BY DEF Listing, AD!Tables
  <2>2. CASE t = req_a[p].tab
    <3>1. \A q \in Requests \ {p} : req_a[q].tab # t
      BY <2>1, <2>2 DEF OneEach
    <3> QED
      BY <1>1, <2>0, <2>1, <2>2, <3>1
  <2>3. CASE t # req_a[p].tab
    <3>1. (Whole(t) <=> Whole(t)') /\ \A s : Steady(s, t) <=> Steady(s, t)'
      BY <2>1, <2>3, ListKept
    <3> QED
      <4>1. r.tab # t
        BY <2>1, <2>3
      <4>2. \A q \in Requests : req_a'[q].tab = t => Steady(req_a[q], t)'
        BY <1>1, <2>0, <2>1, <3>1, <4>1 DEF Lists
      <4>3. Whole(t) \/ \E q \in Requests \ {p} : req_a[q].tab = t /\ Rebuilds(req_a[q])
        BY <2>1, <2>3 DEF Lists
      <4> QED
        BY <1>1, <3>1, <4>2, <4>3
  <2> QED
    BY <2>2, <2>3
<1> QED
  BY <1>1, <1>2, <1>3

LEMMA TitlesFinite == \A S \in SUBSET Titles : AD!Cardinality(S) \in Nat
<1>1. IsFiniteSet(Titles)
  BY Zenon, TablesAssumption DEF AD!AssetsAssumption, AD!IsFiniteSet, IsFiniteSet
<1>2. \A S : AD!Cardinality(S) = Cardinality(S)
  BY Zenon DEF AD!Cardinality, Cardinality, AD!IsFiniteSet, IsFiniteSet
<1> QED
  BY <1>1, <1>2, FS_Subset, FS_CardinalityType

LEMMA AssetsBegin ==
  ASSUME AssetsInv, NEW p \in Requests,
         \/ \E t \in AD!Tables, n \in Titles :
              \/ AD!StartAdd(p, t, n) \/ AD!StartDelete(p, t, n)
              \/ \E m \in Titles : AD!StartRename(p, t, n, m)
         \/ \E h \in Hosts :
              \/ \E op \in {"addHost", "moveHost"}, g \in Titles : AD!StartHost(p, op, h, g)
              \/ AD!DeleteHost(p, h)
         \/ \E order \in AD!Orders(AD!Rows("host_group")) : AD!StartSum(p, order)
  PROVE  AssetsInv'
<1> USE DEF AssetsInv
<1>1. PICK r : AD!Begin(p, r) /\ r \in AssetRequest /\ AssetFields(r)
               /\ (r.pc = "commit" \/ r.tab = "none")
               /\ UNCHANGED <<live, dead, listed, nums_a>>
               /\ (host' = host \/ \E h \in Hosts : host' = [host EXCEPT ![h].st = "deleted"])
  <2>1. <<>> \in Seq(Titles \cup {"none"}) /\ 0 \in Counts /\ nums_a \in [Titles -> Counts]
    BY DEF Counts, AssetTypes
  <2>2. CASE \E t \in AD!Tables, n \in Titles : AD!StartAdd(p, t, n)
    BY <2>1, <2>2 DEF AD!StartAdd, AD!Idle, AssetRequest, AssetFields
  <2>3. CASE \E t \in AD!Tables, n \in Titles : AD!StartDelete(p, t, n)
    BY <2>1, <2>3 DEF AD!StartDelete, AD!Idle, AssetRequest, AssetFields
  <2>4. CASE \E t \in AD!Tables, n, m \in Titles : AD!StartRename(p, t, n, m)
    BY <2>1, <2>4 DEF AD!StartRename, AD!Idle, AssetRequest, AssetFields
  <2>5. CASE \E h \in Hosts, op \in {"addHost", "moveHost"}, g \in Titles :
               AD!StartHost(p, op, h, g)
    BY <2>1, <2>5 DEF AD!StartHost, AD!Idle, AssetRequest, AssetFields
  <2>6. ASSUME NEW h \in Hosts, AD!DeleteHost(p, h)
        PROVE  \E r : /\ AD!Begin(p, r) /\ r \in AssetRequest /\ AssetFields(r)
                      /\ r.pc = "commit" \/ r.tab = "none"
                      /\ UNCHANGED <<live, dead, listed, nums_a>>
                      /\ host' = [host EXCEPT ![h].st = "deleted"]
    <3>1. PICK g \in Titles \cup {"none"} : g = host[h].grp
      BY DEF AssetTypes
    <3>2. <<g>> \in Seq(Titles \cup {"none"})
      OBVIOUS
    <3>3. PICK r : r = [AD!Idle EXCEPT !.pc = "count", !.op = "deleteHost", !.host = h,
                                       !.count = <<g>>]
      OBVIOUS
    <3>4. r \in AssetRequest /\ AssetFields(r) /\ r.tab = "none"
      BY <2>1, <3>2, <3>3 DEF AD!Idle, AssetRequest, AssetFields
    <3> QED
      BY <2>6, <3>1, <3>3, <3>4 DEF AD!DeleteHost
  <2>7. ASSUME NEW order \in AD!Orders(AD!Rows("host_group")), AD!StartSum(p, order)
        PROVE  \E r : /\ AD!Begin(p, r) /\ r \in AssetRequest /\ AssetFields(r)
                      /\ r.pc = "commit" \/ r.tab = "none"
                      /\ UNCHANGED <<live, dead, listed, nums_a, host>>
    <3>1. AD!Rows("host_group") \subseteq Titles
      BY DEF AD!Rows, AD!LiveNames, AssetTypes, AD!Tables
    <3>2. PICK k \in Nat : k = AD!Cardinality(AD!Rows("host_group"))
      BY <3>1, TitlesFinite
    <3>3. order \in [1 .. k -> Titles \cup {"none"}]
      BY <3>1, <3>2 DEF AD!Orders
    <3>4. order \in Seq(Titles \cup {"none"})
      BY <3>2, <3>3
    <3>5. PICK r : r = [AD!Idle EXCEPT !.pc = "count", !.op = "sum", !.count = order]
      OBVIOUS
    <3>6. r \in AssetRequest /\ AssetFields(r) /\ r.tab = "none"
      BY <2>1, <3>4, <3>5 DEF AD!Idle, AssetRequest, AssetFields
    <3> QED
      BY <2>7, <3>5, <3>6 DEF AD!StartSum
  <2> QED
    BY <2>2, <2>3, <2>4, <2>5, <2>6, <2>7
<1>2. req_a' \in [Requests -> AssetRequest]
  BY <1>1 DEF AD!Begin, AssetTypes
<1>3. /\ host' \in [Hosts -> [st : {"none", "live", "deleted"}, grp : Titles \cup {"none"}]]
      /\ \A h \in Hosts : host'[h].st = "live" => host'[h] = host[h]
  <2>1. host \in [Hosts -> [st : {"none", "live", "deleted"}, grp : Titles \cup {"none"}]]
    BY DEF AssetTypes
  <2> QED
    BY <1>1, <2>1
<1>4. AssetTypes'
  BY <1>1, <1>2, <1>3 DEF AssetTypes
<1>5. AD!HostsHaveAGroup'
  BY <1>1, <1>3 DEF AD!HostsHaveAGroup, AD!Rows, AD!LiveNames
<1> QED
  BY <1>1, <1>4, <1>5, AssetBegins

\* What a request with an uncrossed table finds.
LEMMA Sole ==
  ASSUME AssetsInv, NEW p \in Requests, req_a[p].tab \in Listing \ crossed_a
  PROVE  /\ Steady(req_a[p], req_a[p].tab)
         /\ ~Rebuilds(req_a[p]) => Whole(req_a[p].tab)
<1>1. PICK t : t = req_a[p].tab
  OBVIOUS
<1>2. \A q \in Requests \ {p} : req_a[q].tab # t
  BY <1>1 DEF AssetsInv, OneEach, Listing
<1>3. Steady(req_a[p], t) /\ (~Rebuilds(req_a[p]) => Whole(t))
  BY <1>1, <1>2 DEF AssetsInv, Lists
<1> QED
  BY <1>1, <1>3

LEMMA IdleAsset == /\ AD!Idle \in AssetRequest /\ AssetFields(AD!Idle)
                   /\ AD!Idle.tab = "none" /\ AD!Idle.pc = "idle"
BY DEF AD!Idle, AssetRequest, AssetFields, Counts

\* Steps that change no group, no list and no host.
LEMMA AssetsPass ==
  ASSUME AssetsInv, NEW p \in Requests,
         \/ AD!Refused(p) \/ AD!HostRefused(p) \/ AD!Reply(p) \/ AD!Break(p)
         \/ AD!Collect(p) \/ AD!FillFails(p) \/ AD!CountHosts(p) \/ AD!WriteCount(p)
  PROVE  AssetsInv'
<1>1. PICK old, t : old = req_a[p] /\ t = old.tab
  OBVIOUS
<1>2. /\ old \in AssetRequest /\ AssetFields(old) /\ AssetTypes
      /\ UNCHANGED <<live, dead, listed, host>>
  BY <1>1 DEF AssetsInv, AssetTypes, AD!Refused, AD!HostRefused, AD!Reply, AD!Break,
              AD!Collect, AD!FillFails, AD!CountHosts, AD!WriteCount
<1>3. AD!HostsHaveAGroup'
  BY <1>2 DEF AssetsInv, AD!HostsHaveAGroup, AD!Rows, AD!LiveNames
<1>4. t \in AD!Tables =>
        (Whole(t) <=> Whole(t)') /\ \A s : Steady(s, t) <=> Steady(s, t)'
  BY <1>2, ListKept
<1>5. /\ t \in Listing => t \in AD!Tables
      /\ t \in Listing \ crossed_a => Steady(old, t) /\ (~Rebuilds(old) => Whole(t))
  BY <1>1, Sole DEF Listing, AD!Tables
<1>6. CASE AD!Refused(p) \/ AD!HostRefused(p) \/ AD!Reply(p) \/ AD!FillFails(p) \/ AD!Break(p)
  <2>1. req_a' = [req_a EXCEPT ![p] = AD!Idle] /\ UNCHANGED nums_a
    BY <1>6 DEF AD!Refused, AD!HostRefused, AD!Reply, AD!FillFails, AD!Break, AD!Finish
  <2>2. AssetTypes'
    BY <1>2, <2>1, IdleAsset DEF AssetTypes
  <2>3. crossed_a \subseteq crossed_a' /\ (AD!Break(p) => t \in crossed_a')
    BY <1>1, <1>6 DEF AD!Refused, AD!HostRefused, AD!Reply, AD!FillFails, AD!Break
  <2>4. t \in Listing \ crossed_a' => Whole(t)
    <3> SUFFICES ASSUME t \in Listing \ crossed_a'
                 PROVE  Whole(t)
      OBVIOUS
    <3>1. CASE AD!Refused(p) \/ AD!HostRefused(p) \/ AD!Reply(p)
      <4>1. ~Rebuilds(old)
        BY <1>1, <3>1 DEF AD!Refused, AD!HostRefused, AD!Reply, AD!At, Rebuilds
      <4> QED
        BY <1>5, <2>3, <4>1
    <3>2. CASE AD!FillFails(p)
      <4>1. old.pc = "fill" /\ ~AD!Fits(old)
        BY <1>1, <3>2 DEF AD!FillFails, AD!At
      <4>2. listed[t] = {} /\ old.names = AD!LiveNames(t)
        BY <1>5, <2>3, <4>1 DEF Steady
      <4>3. old.twice
        BY <1>1, <1>2, <4>1, <4>2 DEF AD!Fits, AD!Rows, AssetRequest
      <4>4. \E n \in Titles : live[t][n] > 1
        BY <1>5, <2>3, <4>1, <4>3 DEF Steady
      <4> QED
        BY <1>2, <1>5, <4>4 DEF Whole, AssetTypes
    <3>3. CASE AD!Break(p)
      BY <2>3, <3>3
    <3> QED
      BY <1>6, <3>1, <3>2, <3>3
  <2> QED
    <3>1. \A s \in Listing \ crossed_a' : s = req_a[p].tab => Whole(s)'
      BY <1>1, <1>4, <1>5, <2>4
    <3>2. \A s \in Listing : s # "none"
      BY DEF Listing
    <3>3. \A s \in AD!Tables : live'[s] = live[s] /\ listed'[s] = listed[s]
      BY <1>2
    <3> QED
      BY <1>3, <2>1, <2>2, <2>3, <3>1, <3>2, <3>3, IdleAsset, AssetMoves
<1>7. CASE AD!Collect(p)
  <2>1. PICK r, N, w : /\ r = [old EXCEPT !.pc = "clear", !.names = N, !.twice = w]
                       /\ N = AD!LiveNames(t) /\ w = \E n \in Titles : live[t][n] > 1
    OBVIOUS
  <2>2. /\ old.pc = "collect" /\ req_a' = [req_a EXCEPT ![p] = r]
        /\ UNCHANGED <<crossed_a, nums_a>>
    BY <1>1, <1>7, <2>1 DEF AD!Collect, AD!At, AD!Gather
  <2>3. N \subseteq Titles /\ w \in BOOLEAN
    BY <2>1 DEF AD!LiveNames
  <2>4. /\ r \in AssetRequest /\ r.pc = "clear" /\ r.tab = t /\ r.names = N /\ r.twice = w
        /\ t \in AD!Tables
    BY <1>1, <1>2, <2>1, <2>2, <2>3 DEF AssetRequest, AssetFields
  <2>5. AssetFields(r) /\ Rebuilds(r) /\ Steady(r, t)
    BY <2>1, <2>4 DEF AssetFields, Rebuilds, Steady
  <2>6. AssetTypes'
    BY <1>2, <2>2, <2>4 DEF AssetTypes
  <2> QED
    BY <1>1, <1>2, <1>3, <1>4, <2>2, <2>4, <2>5, <2>6, AssetMoves
<1>8. CASE AD!CountHosts(p) \/ AD!WriteCount(p)
  <2>1. /\ t = "none" /\ UNCHANGED crossed_a /\ old.pc \in {"count", "write"}
    BY <1>1, <1>2, <1>8
       DEF AD!CountHosts, AD!WriteCount, AD!At, AssetFields, AD!Tables
  <2>2. \E r \in AssetRequest : /\ req_a' = [req_a EXCEPT ![p] = r] /\ r.tab = "none"
                                /\ r.pc \in {"idle", "count", "write"}
    <3>1. CASE AD!CountHosts(p)
      <4>1. PICK r, k : /\ r = [old EXCEPT !.pc = "write", !.nums = k]
                        /\ k = AD!Counted(old, Head(old.count))
        OBVIOUS
      <4>2. k \in Counts
        <5>1. \A S : AD!Cardinality(S) = Cardinality(S)
          BY Zenon DEF AD!Cardinality, Cardinality, AD!IsFiniteSet, IsFiniteSet
        <5>2. \A g : AD!EverIn(g) \subseteq Hosts /\ AD!HostsIn(g) \subseteq Hosts
          BY DEF AD!EverIn, AD!HostsIn
        <5> QED
          BY <4>1, <5>1, <5>2 DEF AD!Counted, Counts
      <4>3. r \in AssetRequest /\ r.tab = "none" /\ r.pc = "write"
        BY <1>1, <1>2, <2>1, <4>1, <4>2 DEF AssetRequest
      <4>4. req_a' = [req_a EXCEPT ![p] = r]
        BY <1>1, <3>1, <4>1 DEF AD!CountHosts
      <4> QED
        BY <4>3, <4>4
    <3>2. CASE AD!WriteCount(p) /\ Len(old.count) > 1
      <4>1. PICK r : r = [old EXCEPT !.pc = "count", !.count = Tail(old.count)]
        OBVIOUS
      <4>2. Tail(old.count) \in Seq(Titles \cup {"none"})
        BY <1>2, <3>2 DEF AssetRequest
      <4>3. r \in AssetRequest /\ r.tab = "none" /\ r.pc = "count"
        BY <1>1, <1>2, <2>1, <4>1, <4>2 DEF AssetRequest
      <4>4. req_a' = [req_a EXCEPT ![p] = r]
        BY <1>1, <1>2, <3>2, <4>1 DEF AD!WriteCount, AssetTypes, AssetRequest
      <4> QED
        BY <4>3, <4>4
    <3>3. CASE AD!WriteCount(p) /\ ~(Len(old.count) > 1)
      BY <1>1, <3>3, IdleAsset DEF AD!WriteCount, AD!Finish
    <3> QED
      BY <1>8, <3>1, <3>2, <3>3
  <2>3. PICK r \in AssetRequest : /\ req_a' = [req_a EXCEPT ![p] = r] /\ r.tab = "none"
                                  /\ r.pc \in {"idle", "count", "write"}
    BY <2>2
  <2>4. AssetFields(r) /\ t \notin Listing
    BY <2>1, <2>3 DEF AssetFields, Listing
  <2>5. nums_a' \in [Titles -> Counts]
    BY <1>1, <1>2, <1>8 DEF AD!CountHosts, AD!WriteCount, AssetTypes, AssetRequest
  <2>6. AssetTypes'
    BY <1>2, <2>3, <2>5 DEF AssetTypes
  <2> QED
    BY <1>1, <1>2, <1>3, <2>1, <2>3, <2>4, <2>6, AssetMoves
<1> QED
  BY <1>6, <1>7, <1>8

LEMMA ListsChange ==
  ASSUME AssetsInv, NEW p \in Requests, AD!Clear(p) \/ AD!Fill(p)
  PROVE  AssetsInv'
<1>1. PICK old, t : old = req_a[p] /\ t = old.tab
  OBVIOUS
<1>2. /\ old \in AssetRequest /\ AssetFields(old) /\ AssetTypes
      /\ UNCHANGED <<live, dead, host, crossed_a, nums_a>> /\ old.pc \in {"clear", "fill"}
  BY <1>1 DEF AssetsInv, AssetTypes, AD!Clear, AD!Fill, AD!At
<1>3. t \in AD!Tables
  BY <1>1, <1>2 DEF AssetFields
<1>4. AD!HostsHaveAGroup'
  BY <1>2 DEF AssetsInv, AD!HostsHaveAGroup, AD!Rows, AD!LiveNames
<1>5. t \in Listing \ crossed_a => Steady(old, t)
  BY <1>1, Sole
<1>6. PICK r \in AssetRequest :
        /\ req_a' = [req_a EXCEPT ![p] = r] /\ r.tab = t
        /\ r.names = old.names /\ r.twice = old.twice
        /\ r.pc = IF old.pc = "clear" THEN "fill" ELSE "done"
  <2>1. PICK r : r = [old EXCEPT !.pc = IF old.pc = "clear" THEN "fill" ELSE "done"]
    OBVIOUS
  <2>2. req_a' = [req_a EXCEPT ![p] = r]
    BY <1>1, <2>1 DEF AD!Clear, AD!Fill, AD!At, AD!Goto
  <2>3. /\ r \in AssetRequest /\ r.tab = t /\ r.names = old.names /\ r.twice = old.twice
        /\ r.pc = IF old.pc = "clear" THEN "fill" ELSE "done"
    BY <1>1, <1>2, <2>1 DEF AssetRequest
  <2> QED
    BY <2>2, <2>3
<1>7. PICK L : /\ listed' = [listed EXCEPT ![t] = L]
               /\ old.pc = "clear" => L = {}
               /\ old.pc = "fill" => L = listed[t] \cup old.names
  BY <1>1, <1>2 DEF AD!Clear, AD!Fill, AD!At
<1>8. /\ listed' \in [AD!Tables -> SUBSET Titles] /\ listed'[t] = L
      /\ \A s \in AD!Tables \ {t} : listed'[s] = listed[s]
  BY <1>2, <1>3, <1>7 DEF AssetTypes, AssetRequest
<1>9. AssetTypes' /\ AssetFields(r)
  BY <1>2, <1>3, <1>6, <1>8 DEF AssetTypes, AssetFields
<1>10. t \in Listing \ crossed_a => Steady(r, t)' /\ (Whole(t)' \/ Rebuilds(r))
  <2> SUFFICES ASSUME t \in Listing \ crossed_a
               PROVE  Steady(r, t)' /\ (Whole(t)' \/ Rebuilds(r))
    OBVIOUS
  <2>1. AD!LiveNames(t)' = AD!LiveNames(t)
    BY <1>2 DEF AD!LiveNames
  <2>2. CASE old.pc = "clear"
    BY <1>2, <1>5, <1>6, <1>7, <1>8, <2>1, <2>2 DEF Steady, Rebuilds
  <2>3. CASE old.pc = "fill"
    BY <1>2, <1>5, <1>6, <1>7, <1>8, <2>1, <2>3 DEF Steady, Whole
  <2> QED
    BY <1>2, <2>2, <2>3
<1>11. \A s \in AD!Tables \ {req_a[p].tab} : live'[s] = live[s] /\ listed'[s] = listed[s]
  BY <1>1, <1>2, <1>8
<1>12. \A s \in Listing \ crossed_a' : s = req_a[p].tab =>
         Steady(r, s)' /\ (Whole(s)' \/ (r.tab = s /\ Rebuilds(r)))
  BY <1>1, <1>2, <1>6, <1>10
<1> QED
  BY <1>1, <1>2, <1>4, <1>6, <1>9, <1>11, <1>12, AssetMoves

LEMMA GroupsChange ==
  ASSUME AssetsInv, NEW p \in Requests,
         AD!CommitAdd(p) \/ AD!CommitDelete(p) \/ AD!CommitRename(p)
  PROVE  AssetsInv'
<1>1. PICK old, t, n : old = req_a[p] /\ t = old.tab /\ n = old.name
  OBVIOUS
<1>2. /\ old \in AssetRequest /\ AssetFields(old) /\ AssetTypes /\ crossed_a' = crossed_a
      /\ old.pc = "commit" /\ old.op \in {"add", "delete", "rename"}
  BY <1>1 DEF AssetsInv, AssetTypes, AD!CommitAdd, AD!CommitDelete, AD!CommitRename, AD!At
<1>3. t \in AD!Tables /\ n \in Titles /\ (old.op = "rename" => old.to \in Titles /\ old.to # n)
  BY <1>1, <1>2 DEF AssetFields
<1>4. PICK r \in AssetRequest :
        /\ req_a' = [req_a EXCEPT ![p] = r] /\ r.tab = t
        /\ r.pc = "collect" \/ (r.pc = "done" /\ t = "user_group")
  <2>1. PICK r, x : /\ r = [old EXCEPT !.pc = x] /\ req_a' = [req_a EXCEPT ![p] = r]
                    /\ x = "collect" \/ (x = "done" /\ t = "user_group")
    BY <1>1 DEF AD!CommitAdd, AD!CommitDelete, AD!CommitRename, AD!Goto, AD!AfterCommit
  <2>2. r \in AssetRequest /\ r.tab = t /\ r.pc = x
    BY <1>1, <1>2, <2>1 DEF AssetRequest
  <2> QED
    BY <2>1, <2>2
\* The rows: one more, one less, or one under another name.
<1>5. /\ live' \in [AD!Tables -> [Titles -> 0 .. 2]]
      /\ dead' \in [AD!Tables -> SUBSET Titles]
      /\ \A s \in AD!Tables \ {t} : live'[s] = live[s] /\ dead'[s] = dead[s]
      /\ \A m \in Titles : m \in AD!Rows(t)' \/ m \notin AD!Rows(t)
                           \/ (AD!CommitRename(p) /\ m = n)
      /\ AD!CommitRename(p) => old.to \in AD!Rows(t)'
  <2> USE DEF AssetTypes
  <2>1. CASE AD!CommitAdd(p)
    <3>1. /\ live[t][n] < 2 /\ live' = [live EXCEPT ![t][n] = @ + 1]
          /\ dead' = dead /\ old.op = "add"
      BY <1>1, <2>1 DEF AD!CommitAdd
    <3>2. /\ live'[t] = [live[t] EXCEPT ![n] = @ + 1]
          /\ \A s \in AD!Tables \ {t} : live'[s] = live[s]
      BY <1>2, <1>3, <3>1
    <3>3. /\ live'[t] \in [Titles -> 0 .. 2]
          /\ \A m \in Titles : live[t][m] > 0 => live'[t][m] > 0
      BY <1>2, <1>3, <3>1, <3>2
    <3>4. live' \in [AD!Tables -> [Titles -> 0 .. 2]]
      BY <1>2, <1>3, <3>1, <3>2, <3>3
    <3>5. ~AD!CommitRename(p)
      BY <1>1, <3>1 DEF AD!CommitRename
    <3> QED
      BY <1>2, <3>1, <3>2, <3>3, <3>4, <3>5 DEF AD!Rows, AD!LiveNames
  <2>2. CASE AD!CommitDelete(p)
    <3>1. /\ n \in AD!LiveNames(t) /\ live' = [live EXCEPT ![t][n] = @ - 1]
          /\ dead' = [dead EXCEPT ![t] = @ \cup {n}] /\ old.op = "delete"
      BY <1>1, <2>2 DEF AD!CommitDelete, AD!Kept
    <3>2. /\ live'[t] = [live[t] EXCEPT ![n] = @ - 1] /\ live[t][n] > 0
          /\ \A s \in AD!Tables \ {t} : live'[s] = live[s]
      BY <1>2, <1>3, <3>1 DEF AD!LiveNames
    <3>3. /\ live'[t] \in [Titles -> 0 .. 2]
          /\ \A m \in Titles \ {n} : live'[t][m] = live[t][m]
      BY <1>2, <1>3, <3>2
    <3>4. live' \in [AD!Tables -> [Titles -> 0 .. 2]]
      BY <1>2, <1>3, <3>1, <3>2, <3>3
    <3>5. /\ dead' \in [AD!Tables -> SUBSET Titles] /\ dead'[t] = dead[t] \cup {n}
          /\ \A s \in AD!Tables \ {t} : dead'[s] = dead[s]
      BY <1>2, <1>3, <3>1
    <3>6. ~AD!CommitRename(p)
      BY <1>1, <3>1 DEF AD!CommitRename
    <3> QED
      BY <1>2, <3>2, <3>3, <3>4, <3>5, <3>6 DEF AD!Rows, AD!LiveNames
  <2>3. CASE AD!CommitRename(p)
    <3>1. PICK m : m = old.to
      OBVIOUS
    <3>2. /\ n \in AD!LiveNames(t) /\ live[t][m] < 2 /\ dead' = dead /\ old.op = "rename"
          /\ live' = [live EXCEPT ![t][n] = @ - 1, ![t][m] = @ + 1]
      BY <1>1, <2>3, <3>1 DEF AD!CommitRename
    <3>3. m \in Titles /\ m # n /\ live[t][n] > 0
      BY <1>3, <3>1, <3>2 DEF AD!LiveNames
    <3>4. /\ live'[t] = [[live[t] EXCEPT ![n] = @ - 1] EXCEPT ![m] = @ + 1]
          /\ \A s \in AD!Tables \ {t} : live'[s] = live[s]
      <4>1. PICK mid : mid = [live EXCEPT ![t][n] = @ - 1]
        OBVIOUS
      <4>2. mid[t] = [live[t] EXCEPT ![n] = @ - 1] /\ DOMAIN mid = AD!Tables
        BY <1>2, <1>3, <4>1
      <4>3. live' = [mid EXCEPT ![t][m] = @ + 1]
        <5>1. mid[t][m] = live[t][m]
          BY <1>2, <1>3, <3>3, <4>2 DEF AssetTypes
        <5> QED
          BY <1>2, <1>3, <3>2, <3>3, <4>1, <4>2, <5>1
      <4>4. live'[t] = [mid[t] EXCEPT ![m] = @ + 1]
        BY <1>3, <4>2, <4>3
      <4>5. \A s \in AD!Tables \ {t} : live'[s] = live[s]
        BY <1>2, <4>1, <4>2, <4>3
      <4> QED
        BY <4>2, <4>4, <4>5
    <3>5. /\ live'[t] \in [Titles -> 0 .. 2] /\ live'[t][m] > 0
          /\ \A k \in Titles \ {n} : live[t][k] > 0 => live'[t][k] > 0
      BY <1>2, <1>3, <3>2, <3>3, <3>4
    <3>6. live' \in [AD!Tables -> [Titles -> 0 .. 2]]
      BY <1>2, <1>3, <3>2, <3>4, <3>5
    <3> QED
      BY <1>2, <1>3, <2>3, <3>1, <3>2, <3>3, <3>4, <3>5, <3>6 DEF AD!Rows, AD!LiveNames
  <2> QED
    BY <2>1, <2>2, <2>3
<1>6. /\ listed' \in [AD!Tables -> SUBSET Titles]
      /\ \A s \in AD!Tables \ {t} : listed'[s] = listed[s]
  <2>1. \/ listed' = listed
        \/ old.op = "rename" /\ listed' = [listed EXCEPT ![t] = AD!Moved(@, n, old.to)]
    BY <1>1 DEF AD!CommitAdd, AD!CommitDelete, AD!CommitRename
  <2> QED
    BY <1>2, <1>3, <2>1 DEF AssetTypes, AD!Moved
<1>7. /\ host' \in [Hosts -> [st : {"none", "live", "deleted"}, grp : Titles \cup {"none"}]]
      /\ \/ host' = host /\ (AD!CommitRename(p) => t # "host_group")
         \/ /\ AD!CommitRename(p) /\ t = "host_group"
            /\ \A h \in Hosts : /\ host'[h].st = host[h].st
                                /\ host'[h].grp = IF host[h].grp = n THEN old.to ELSE host[h].grp
  <2>1. CASE AD!CommitRename(p) /\ t = "host_group"
    <3>1. host' = [h \in Hosts |-> IF host[h].grp = n THEN [host[h] EXCEPT !.grp = old.to]
                                   ELSE host[h]]
      BY <1>1, <2>1 DEF AD!CommitRename
    <3>2. old.to \in Titles
      BY <1>1, <1>3, <2>1 DEF AD!CommitRename
    <3> QED
      BY <1>2, <2>1, <3>1, <3>2 DEF AssetTypes
  <2>2. CASE ~(AD!CommitRename(p) /\ t = "host_group")
    BY <1>1, <1>2, <2>2 DEF AD!CommitAdd, AD!CommitDelete, AD!CommitRename, AssetTypes
  <2> QED
    BY <2>1, <2>2
<1>8. nums_a' \in [Titles -> Counts]
  BY <1>1, <1>2, <1>3 DEF AD!CommitAdd, AD!CommitDelete, AD!CommitRename, AssetTypes,
                          AssetRequest, Counts
<1>9. AssetTypes' /\ AssetFields(r)
  BY <1>2, <1>3, <1>4, <1>5, <1>6, <1>7, <1>8 DEF AssetTypes, AssetFields
<1>10. AD!HostsHaveAGroup'
  <2> SUFFICES ASSUME NEW h \in Hosts, host'[h].st = "live"
               PROVE  host'[h].grp \in AD!Rows("host_group")'
    BY DEF AD!HostsHaveAGroup
  <2>1. host[h].st = "live" /\ host[h].grp \in AD!Rows("host_group")
    BY <1>7 DEF AssetsInv, AD!HostsHaveAGroup
  <2>2. "host_group" \in AD!Tables /\ AD!Rows("host_group") \subseteq Titles
    BY <1>2 DEF AD!Tables, AD!Rows, AD!LiveNames, AssetTypes
  <2>3. CASE t = "host_group"
    BY <1>5, <1>7, <2>1, <2>2, <2>3
  <2>4. CASE t # "host_group"
    <3>1. AD!Rows("host_group")' = AD!Rows("host_group")
      BY <1>5, <2>2, <2>4 DEF AD!Rows, AD!LiveNames
    <3> QED
      BY <1>7, <2>1, <2>4, <3>1
  <2> QED
    BY <2>3, <2>4
<1>11. \A s \in Listing \ crossed_a' : s = req_a[p].tab =>
         Steady(r, s)' /\ (Whole(s)' \/ (r.tab = s /\ Rebuilds(r)))
  BY <1>1, <1>4 DEF Steady, Rebuilds, Listing
<1> QED
  BY <1>1, <1>2, <1>4, <1>5, <1>6, <1>9, <1>10, <1>11, AssetMoves

LEMMA HostCommits ==
  ASSUME AssetsInv, NEW p \in Requests, AD!CommitHost(p)
  PROVE  AssetsInv'
<1>1. PICK old, h, g : old = req_a[p] /\ h = old.host /\ g = old.to
  OBVIOUS
<1>2. /\ old \in AssetRequest /\ AssetTypes /\ old.tab = "none" /\ h \in Hosts /\ g \in Titles
      /\ UNCHANGED <<live, dead, listed, nums_a, crossed_a>> /\ g \in AD!Rows("host_group")
  BY <1>1 DEF AssetsInv, AssetTypes, AD!CommitHost, AD!At, AssetFields
<1>3. PICK x : /\ host' = [host EXCEPT ![h] = [[@ EXCEPT !.grp = g] EXCEPT !.st = x]]
               /\ x = "live" \/ x = host[h].st
  BY <1>1, <1>2 DEF AD!CommitHost, AssetTypes
<1>4. /\ host' \in [Hosts -> [st : {"none", "live", "deleted"}, grp : Titles \cup {"none"}]]
      /\ host'[h].grp = g /\ \A k \in Hosts \ {h} : host'[k] = host[k]
  BY <1>2, <1>3 DEF AssetTypes
<1>5. PICK r \in AssetRequest :
        req_a' = [req_a EXCEPT ![p] = r] /\ r.pc = "count" /\ r.tab = "none"
  <2>1. PICK r : r = [old EXCEPT !.pc = "count", !.count = <<g>>]
    OBVIOUS
  <2>2. <<g>> \in Seq(Titles \cup {"none"})
    BY <1>2
  <2>3. r \in AssetRequest /\ r.pc = "count" /\ r.tab = "none"
    BY <1>2, <2>1, <2>2 DEF AssetRequest
  <2>4. req_a' = [req_a EXCEPT ![p] = r]
    BY <1>1, <1>2, <2>1 DEF AD!CommitHost, AssetTypes, AssetRequest
  <2> QED
    BY <2>3, <2>4
<1>6. AssetTypes' /\ AssetFields(r)
  BY <1>2, <1>4, <1>5 DEF AssetTypes, AssetFields
<1>7. AD!HostsHaveAGroup'
  BY <1>2, <1>4 DEF AssetsInv, AD!HostsHaveAGroup, AD!Rows, AD!LiveNames
<1>8. \A s \in Listing : s # req_a[p].tab
  BY <1>1, <1>2 DEF Listing
<1> QED
  BY <1>1, <1>2, <1>5, <1>6, <1>7, <1>8, AssetMoves

LEMMA AssetsStep == AssetsInv /\ [AD!Next]_(AD!vars) => AssetsInv'
<1> SUFFICES ASSUME AssetsInv, [AD!Next]_(AD!vars)
             PROVE  AssetsInv'
  OBVIOUS
<1>1. CASE UNCHANGED AD!vars
  BY <1>1 DEF AD!vars, AssetsInv, AssetTypes, OneEach, Lists, Whole, Steady, Rebuilds,
              AD!HostsHaveAGroup, AD!Rows, AD!LiveNames, AssetFields
<1>2. CASE AD!Next
  BY <1>2, AssetsBegin, AssetsPass, ListsChange, GroupsChange, HostCommits DEF AD!Next
<1> QED
  BY <1>1, <1>2

LEMMA AssetsTrue == AssetsInv => AD!DirectoryIsWhole
BY DEF AssetsInv, AD!DirectoryIsWhole, AD!ListIsWhole, AD!Quiet, Lists, Whole, Listing

\* Whatever is added, renamed and deleted at once: while no request works on a
\* table, none of its rebuilds crossed or broke off and no name has two rows, the
\* rule of all rights lists its live names, and a live host's group always has a
\* row (auto_update.py, group.py, server.py).
THEOREM DirectoryStaysWhole ==
  (AD!Spec => []AD!DirectoryIsWhole) /\ (MCSpec => []DirectoryIsWhole)
<1>1. AD!Spec => []AD!DirectoryIsWhole
  BY AssetsStart, AssetsStep, AssetsTrue, PTL DEF AD!Spec
<1>2. MCInit => AssetsInv
  BY AssetsStart DEF MCInit
<1>3. AssetsInv /\ [MCNext]_<<part, vars, assets, cron, setup>> => AssetsInv'
  BY PartSteps, AssetsStep
<1>4. AssetsInv => DirectoryIsWhole
  BY AssetsTrue DEF DirectoryIsWhole
<1>5. MCSpec => []DirectoryIsWhole
  BY <1>2, <1>3, <1>4, PTL DEF MCSpec
<1> QED
  BY <1>1, <1>5

-----------------------------------------------------------------------------
(* Types, and which names are unique.                                      *)

\* What CronInv leaves open of the types.
CronRest ==
  lock \in Callers \cup {None} /\ past \subseteq {"mixed", "loose", "failed", "hostless"}

LEMMA CronTyped ==
  /\ CR!Init => CronRest
  /\ CronRest /\ [CR!Next]_(CR!vars) => CronRest'
  /\ CronInv /\ CronRest => CR!TypeOK
<1>1. CR!Init => CronRest
  BY DEF CR!Init, CronRest
<1>2. ASSUME CronRest, [CR!Next]_(CR!vars) PROVE CronRest'
  <2>1. ASSUME NEW r \in Callers, CR!Begin(r) \/ CR!Add(r)
        PROVE  CronRest'
    BY <1>2, <2>1 DEF CronRest, CR!Begin, CR!Add, CR!Lock, CR!Check, CR!Write, CR!Resolve,
       CR!Schedule, CR!Unlock, CR!Note
  <2>2. ASSUME NEW r \in Callers, CR!Operate(r)
        PROVE  CronRest'
    <3>1. lock' = lock /\ (past' = past \/ past' = past \cup {"failed"}
                           \/ past' = past \cup {"hostless"})
      BY <2>2 DEF CR!Operate, CR!Read, CR!PauseJob, CR!RowTo, CR!ResumeJob, CR!Register,
         CR!RemoveJob, CR!RemoveRow, CR!CloseJobs, CR!CloseRows, CR!Note
    <3> QED
      BY <1>2, <3>1 DEF CronRest
  <2>3. CASE CR!Expire \/ CR!Restart
    BY <1>2, <2>3 DEF CronRest, CR!Expire, CR!Restart
  <2>4. CASE UNCHANGED CR!vars
    BY <1>2, <2>4 DEF CronRest, CR!vars
  <2> QED
    BY <1>2, <2>1, <2>2, <2>3, <2>4 DEF CR!Next
<1>3. CronInv /\ CronRest => CR!TypeOK
  BY DEF CronInv, CronTypes, CronRest, JobRow, CR!TypeOK
<1> QED
  BY <1>1, <1>2, <1>3

\* What AccountsInv leaves open: the counts of the groups and the number of requests.
AccountsRest == nums \in [Groups -> Sizes \cup {0}] /\ ops \in 0 .. MaxOps

LEMMA SizesFit == Sizes \cup {0} \subseteq 0 .. MaxRows
<1>1. MaxRows \in Nat /\ IsFiniteSet(Ids) /\ Cardinality(Ids) = MaxRows
  <2>1. \A a, b \in Int : /\ IsFiniteSet(a .. b)
                          /\ Cardinality(a .. b) = IF a > b THEN 0 ELSE b - a + 1
    BY FS_Interval
  <2>2. MaxRows \in Nat /\ 1 \in Int /\ MaxRows \in Int
    BY AccountsAssumption
  <2>3. /\ IsFiniteSet(1 .. MaxRows)
        /\ Cardinality(1 .. MaxRows) = IF 1 > MaxRows THEN 0 ELSE MaxRows - 1 + 1
    BY <2>1, <2>2, Zenon
  <2> QED
    BY <2>2, <2>3 DEF Ids
<1>2. ASSUME NEW S \in SUBSET Ids PROVE Cardinality(S) \in 0 .. MaxRows
  <2>1. IsFiniteSet(S) /\ Cardinality(S) <= Cardinality(Ids)
    BY <1>1, FS_Subset
  <2>2. Cardinality(S) \in Nat
    BY <2>1, FS_CardinalityType
  <2> QED
    BY <1>1, <2>1, <2>2
<1> QED
  BY <1>1, <1>2 DEF Sizes

LEMMA AccountsTyped ==
  /\ Init => AccountsRest
  /\ AccountsInv /\ AccountsRest /\ [Next]_vars => AccountsRest'
  /\ AccountsInv /\ AccountsRest => TypeOK
<1>1. Init => AccountsRest
  BY AccountsAssumption DEF Init, AccountsRest
<1>2. ASSUME AccountsInv, AccountsRest, [Next]_vars PROVE AccountsRest'
  <2>1. ASSUME NEW p \in Requests, NEW r, Begin(p, r), UNCHANGED nums PROVE AccountsRest'
    <3>1. ops \in 0 .. MaxOps /\ ops < MaxOps /\ ops' = ops + 1 /\ MaxOps \in Nat
      BY <1>2, <2>1, AccountsAssumption DEF AccountsRest, Begin
    <3>2. ops' \in 0 .. MaxOps
      BY <3>1
    <3> QED
      BY <1>2, <2>1, <3>2 DEF AccountsRest
  <2>2. ASSUME NEW p \in Requests, WriteCount(p) PROVE AccountsRest'
    <3>1. req[p].seen \in Sizes \cup {0}
      BY <1>2 DEF AccountsInv, AccountTypes, Request
    <3>2. nums' = [nums EXCEPT ![Head(req[p].count)] = req[p].seen] /\ ops' = ops
      BY <2>2 DEF WriteCount
    <3>3. nums' \in [Groups -> Sizes \cup {0}]
      BY <1>2, <3>1, <3>2 DEF AccountsRest
    <3> QED
      BY <1>2, <3>2, <3>3 DEF AccountsRest
  <2>3. ASSUME NEW p \in Requests, NEW n \in Names,
               \/ \E x \in Roles, g \in Groups :
                    StartAdd(p, n, x, g) \/ \E i \in Ids : StartUpdate(p, i, n, x, g)
               \/ StartDelete(p, n) \/ StartLogin(p, n)
        PROVE  AccountsRest'
    BY <2>1, <2>3 DEF StartAdd, StartUpdate, StartDelete, StartLogin
  <2>4. ASSUME NEW p \in Requests,
               \/ CommitAdd(p) \/ CommitUpdate(p) \/ CommitDelete(p) \/ Refused(p)
               \/ SetRole(p) \/ DropRole(p) \/ PlanCount(p) \/ CountMembers(p) \/ Break(p)
        PROVE  UNCHANGED <<nums, ops>>
    BY <2>4 DEF CommitAdd, CommitUpdate, CommitDelete, Refused, SetRole, DropRole, PlanCount,
       CountMembers, Break
  <2>5. ASSUME RenameAllRights \/ \E S \in SUBSET Names : EditRule(S) PROVE AccountsRest'
    <3>1. ops \in 0 .. MaxOps /\ ops < MaxOps /\ ops' = ops + 1 /\ MaxOps \in Nat /\ nums' = nums
      BY <1>2, <2>5, AccountsAssumption DEF AccountsRest, RenameAllRights, EditRule
    <3>2. ops' \in 0 .. MaxOps
      BY <3>1
    <3> QED
      BY <1>2, <3>1, <3>2 DEF AccountsRest
  <2>6. CASE UNCHANGED <<nums, ops>>
    BY <1>2, <2>6 DEF AccountsRest
  <2>7. CASE UNCHANGED vars
    BY <2>6, <2>7 DEF vars
  <2> QED
    BY <1>2, <2>2, <2>3, <2>4, <2>5, <2>6, <2>7 DEF Next
<1>3. ASSUME AccountsInv, AccountsRest PROVE TypeOK
  <2>1. \A p \in Requests : /\ req[p].pc \in Pcs /\ req[p].id \in Ids \cup {0}
                            /\ req[p].old \in Names \cup {"none"}
                            /\ req[p].new \in Names \cup {"none"}
    BY <1>3 DEF AccountsInv, AccountTypes, Request
  <2>2. \A p \in Requests : Touches(req[p]) = {req[p].old, req[p].new} \ {"none"}
    BY <2>1, NoName DEF Touches
  <2>3. nums \in [Groups -> 0 .. MaxRows] /\ ops \in 0 .. MaxOps
    BY <1>3, SizesFit DEF AccountsRest
  <2>4. /\ row \in [Ids -> Rows \cup {NoRow}] /\ role \in [Names -> Roles \cup {"none"}]
        /\ bound \subseteq Names /\ granted \subseteq Names
        /\ strays \subseteq Names /\ crossed \subseteq Names
    BY <1>3 DEF AccountsInv, AccountTypes
  <2> QED
    BY <2>1, <2>2, <2>3, <2>4 DEF TypeOK
<1> QED
  BY <1>1, <1>2, <1>3

\* The unique key on the name: a group has one row, live or deleted.
OneRow ==
  \A t \in AD!Keyed, n \in Titles : live[t][n] <= 1 /\ (n \in dead[t] => live[t][n] = 0)

LEMMA CountsFit == Counts \subseteq 0 .. AD!Cardinality(Hosts)
<1>1. IsFiniteSet(Hosts)
  BY Zenon, TablesAssumption DEF AD!AssetsAssumption, AD!IsFiniteSet, IsFiniteSet
<1>2. AD!Cardinality(Hosts) = Cardinality(Hosts)
  BY Zenon DEF AD!Cardinality, Cardinality, AD!IsFiniteSet, IsFiniteSet
<1>3. Cardinality(Hosts) \in Nat
  BY <1>1, FS_CardinalityType
<1>4. ASSUME NEW S \in SUBSET Hosts PROVE Cardinality(S) \in 0 .. Cardinality(Hosts)
  <2>1. IsFiniteSet(S) /\ Cardinality(S) <= Cardinality(Hosts)
    BY <1>1, FS_Subset
  <2>2. Cardinality(S) \in Nat
    BY <2>1, FS_CardinalityType
  <2> QED
    BY <1>3, <2>1, <2>2
<1> QED
  BY <1>2, <1>3, <1>4 DEF Counts

\* A row is added, deleted or renamed under its unique key.
LEMMA KeyedRows ==
  ASSUME AssetsInv, OneRow, NEW p \in Requests,
         AD!CommitAdd(p) \/ AD!CommitDelete(p) \/ AD!CommitRename(p)
  PROVE  OneRow'
<1>1. PICK old, t, n : old = req_a[p] /\ t = old.tab /\ n = old.name
  OBVIOUS
<1>2. /\ old \in AssetRequest /\ AssetFields(old) /\ AssetTypes
      /\ old.pc = "commit" /\ old.op \in {"add", "delete", "rename"}
  BY <1>1 DEF AssetsInv, AssetTypes, AD!CommitAdd, AD!CommitDelete, AD!CommitRename, AD!At
<1>3. t \in AD!Tables /\ n \in Titles /\ (old.op = "rename" => old.to \in Titles /\ old.to # n)
  BY <1>1, <1>2 DEF AssetFields
<1>4. SUFFICES ASSUME NEW k \in AD!Keyed, NEW m \in Titles
               PROVE  live'[k][m] <= 1 /\ (m \in dead'[k] => live'[k][m] = 0)
  BY DEF OneRow
<1>5. /\ k \in AD!Tables /\ live[k] \in [Titles -> 0 .. 2] /\ live[k][m] \in 0 .. 2
      /\ live[k][m] <= 1 /\ (m \in dead[k] => live[k][m] = 0)
  BY <1>2, <1>4 DEF OneRow, AD!Keyed, AD!Tables, AssetTypes
<1>6. CASE AD!CommitAdd(p)
  <2>1. /\ live' = [live EXCEPT ![t][n] = @ + 1] /\ dead' = dead /\ ~AD!Taken(t, n)
    BY <1>1, <1>6 DEF AD!CommitAdd
  <2>2. live'[k] = IF k = t THEN [live[k] EXCEPT ![n] = @ + 1] ELSE live[k]
    BY <1>2, <1>5, <2>1 DEF AssetTypes
  <2>3. CASE k = t /\ m = n
    <3>1. ~(live[k][m] > 0) /\ m \notin dead[k]
      BY <1>4, <2>1, <2>3 DEF AD!Taken, AD!Rows, AD!LiveNames
    <3>2. live[k][m] = 0
      BY <1>5, <3>1
    <3>3. live'[k][m] = 1
      BY <1>5, <2>2, <2>3, <3>2
    <3> QED
      BY <2>1, <3>1, <3>3
  <2>4. CASE ~(k = t /\ m = n)
    <3>1. live'[k][m] = live[k][m]
      BY <1>5, <2>2, <2>4
    <3> QED
      BY <1>5, <2>1, <3>1
  <2> QED
    BY <2>3, <2>4
<1>7. CASE AD!CommitDelete(p)
  <2>1. /\ live' = [live EXCEPT ![t][n] = @ - 1] /\ n \in AD!LiveNames(t)
        /\ dead' = [dead EXCEPT ![t] = @ \cup {n}]
    BY <1>1, <1>7 DEF AD!CommitDelete, AD!Kept
  <2>2. /\ live'[k] = IF k = t THEN [live[k] EXCEPT ![n] = @ - 1] ELSE live[k]
        /\ dead'[k] = IF k = t THEN dead[k] \cup {n} ELSE dead[k]
    BY <1>2, <1>5, <2>1 DEF AssetTypes
  <2>3. CASE k = t /\ m = n
    <3>1. live[k][m] > 0
      BY <2>1, <2>3 DEF AD!LiveNames
    <3>2. live[k][m] = 1
      BY <1>5, <3>1
    <3>3. live'[k][m] = 0
      BY <1>5, <2>2, <2>3, <3>2
    <3> QED
      BY <3>3
  <2>4. CASE ~(k = t /\ m = n)
    <3>1. live'[k][m] = live[k][m] /\ (m \in dead'[k] => m \in dead[k])
      BY <1>5, <2>2, <2>4
    <3> QED
      BY <1>5, <3>1
  <2> QED
    BY <2>3, <2>4
<1>8. CASE AD!CommitRename(p)
  <2>1. PICK to : to = old.to
    OBVIOUS
  <2>2. /\ live' = [live EXCEPT ![t][n] = @ - 1, ![t][to] = @ + 1] /\ n \in AD!LiveNames(t)
        /\ dead' = dead /\ ~AD!Taken(t, to) /\ old.op = "rename"
    BY <1>1, <1>8, <2>1 DEF AD!CommitRename
  <2>3. to \in Titles /\ to # n
    BY <1>3, <2>1, <2>2
  <2>4. live'[k] = IF k = t THEN [[live[k] EXCEPT ![n] = @ - 1] EXCEPT ![to] = @ + 1]
                   ELSE live[k]
    <3>1. PICK mid : mid = [live EXCEPT ![t][n] = @ - 1]
      OBVIOUS
    <3>2. live' = [mid EXCEPT ![t][to] = @ + 1]
      <4>1. mid[t] = [live[t] EXCEPT ![n] = @ - 1] /\ DOMAIN mid = AD!Tables
        BY <1>2, <1>3, <3>1 DEF AssetTypes
      <4>2. mid[t][to] = live[t][to]
        BY <1>2, <1>3, <2>3, <4>1 DEF AssetTypes
      <4> QED
        BY <1>2, <1>3, <2>2, <2>3, <3>1, <4>1, <4>2
    <3>3. /\ DOMAIN mid = AD!Tables
          /\ mid[k] = IF k = t THEN [live[k] EXCEPT ![n] = @ - 1] ELSE live[k]
      BY <1>2, <1>5, <3>1 DEF AssetTypes
    <3>4. live'[k] = IF k = t THEN [mid[k] EXCEPT ![to] = @ + 1] ELSE mid[k]
      BY <1>5, <3>2, <3>3
    <3> QED
      BY <3>3, <3>4
  <2>5. CASE k = t /\ m = to
    <3>1. ~(live[k][m] > 0) /\ m \notin dead[k]
      BY <1>4, <2>2, <2>5 DEF AD!Taken, AD!Rows, AD!LiveNames
    <3>2. live[k][m] = 0
      BY <1>5, <3>1
    <3>3. live'[k][m] = 1
      BY <1>5, <2>3, <2>4, <2>5, <3>2
    <3> QED
      BY <2>2, <3>1, <3>3
  <2>6. CASE k = t /\ m = n
    <3>1. live[k][m] > 0
      BY <2>2, <2>6 DEF AD!LiveNames
    <3>2. live[k][m] = 1 /\ m \notin dead[k]
      BY <1>5, <3>1
    <3>3. live'[k][m] = 0
      BY <1>5, <2>3, <2>4, <2>6, <3>2
    <3> QED
      BY <3>3
  <2>7. CASE ~(k = t /\ m \in {n, to})
    <3>1. live'[k][m] = live[k][m]
      BY <1>5, <2>4, <2>7
    <3> QED
      BY <1>5, <2>2, <3>1
  <2> QED
    BY <2>5, <2>6, <2>7
<1> QED
  BY <1>6, <1>7, <1>8

LEMMA AssetsTyped ==
  /\ AD!Init => OneRow
  /\ AssetsInv /\ OneRow /\ [AD!Next]_(AD!vars) => OneRow'
  /\ AssetsInv /\ OneRow => AD!TypeOK
<1>1. AD!Init => OneRow
  BY DEF AD!Init, OneRow, AD!Keyed, AD!Tables
<1>2. ASSUME AssetsInv, OneRow, [AD!Next]_(AD!vars) PROVE OneRow'
  <2>1. ASSUME NEW p \in Requests, NEW t \in AD!Tables, NEW n \in Titles,
               \/ AD!StartAdd(p, t, n) \/ AD!StartDelete(p, t, n)
               \/ \E m \in Titles : AD!StartRename(p, t, n, m)
        PROVE  UNCHANGED <<live, dead>>
    BY <2>1 DEF AD!StartAdd, AD!StartDelete, AD!StartRename
  <2>3. ASSUME NEW p \in Requests, NEW h \in Hosts,
               \/ \E op \in {"addHost", "moveHost"}, g \in Titles : AD!StartHost(p, op, h, g)
               \/ AD!DeleteHost(p, h)
        PROVE  UNCHANGED <<live, dead>>
    BY <2>3 DEF AD!StartHost, AD!DeleteHost
  <2>4. ASSUME NEW p \in Requests, NEW order, AD!StartSum(p, order)
        PROVE  UNCHANGED <<live, dead>>
    BY <2>4 DEF AD!StartSum
  <2>5. ASSUME NEW p \in Requests,
               \/ AD!Refused(p) \/ AD!Collect(p) \/ AD!Clear(p) \/ AD!Fill(p) \/ AD!FillFails(p)
               \/ AD!Break(p) \/ AD!Reply(p) \/ AD!CommitHost(p) \/ AD!HostRefused(p)
               \/ AD!CountHosts(p) \/ AD!WriteCount(p)
        PROVE  UNCHANGED <<live, dead>>
    BY <2>5 DEF AD!Refused, AD!Collect, AD!Clear, AD!Fill, AD!FillFails, AD!Break, AD!Reply,
       AD!CommitHost, AD!HostRefused, AD!CountHosts, AD!WriteCount
  <2>2. CASE UNCHANGED <<live, dead>>
    BY <1>2, <2>2 DEF OneRow
  <2>6. CASE UNCHANGED AD!vars
    BY <2>2, <2>6 DEF AD!vars
  <2>7. CASE AD!Next
    <3>1. PICK p \in Requests :
            \/ \E t \in AD!Tables, n \in Titles :
                 \/ AD!StartAdd(p, t, n) \/ AD!StartDelete(p, t, n)
                 \/ \E m \in Titles : AD!StartRename(p, t, n, m)
            \/ AD!CommitAdd(p) \/ AD!CommitDelete(p) \/ AD!CommitRename(p) \/ AD!Refused(p)
            \/ AD!Collect(p) \/ AD!Clear(p) \/ AD!Fill(p) \/ AD!FillFails(p) \/ AD!Break(p)
            \/ AD!Reply(p)
            \/ \E h \in Hosts :
                 \/ \E op \in {"addHost", "moveHost"}, g \in Titles : AD!StartHost(p, op, h, g)
                 \/ AD!DeleteHost(p, h)
            \/ AD!CommitHost(p) \/ AD!HostRefused(p)
            \/ \E order \in AD!Orders(AD!Rows("host_group")) : AD!StartSum(p, order)
            \/ AD!CountHosts(p) \/ AD!WriteCount(p)
      BY <2>7 DEF AD!Next
    <3> QED
      BY <1>2, <2>1, <2>2, <2>3, <2>4, <2>5, <3>1, KeyedRows
  <2> QED
    BY <1>2, <2>6, <2>7
<1>3. ASSUME AssetsInv, OneRow PROVE AD!TypeOK
  <2>1. AssetTypes
    BY <1>3 DEF AssetsInv
  <2>2. ASSUME NEW t \in AD!Keyed, NEW n \in Titles
        PROVE  live[t][n] + (IF n \in dead[t] THEN 1 ELSE 0) <= 1
    <3>1. live[t][n] \in 0 .. 2
      BY <2>1 DEF AssetTypes, AD!Keyed, AD!Tables
    <3> QED
      BY <1>3, <3>1 DEF OneRow
  <2>3. nums_a \in [Titles -> 0 .. AD!Cardinality(Hosts)]
    BY <2>1, CountsFit DEF AssetTypes
  <2> QED
    BY <2>1, <2>2, <2>3 DEF AssetTypes, AD!TypeOK
<1> QED
  BY <1>1, <1>2, <1>3

\* What SetupInv leaves open of the types.
SetupRest ==
  /\ web \in {"down", "setup", "normal", "maintenance"} /\ worker \in {"waits", "runs"}
  /\ runtime \in Requests \cup {None} /\ flag \in SW!Flags

Switches ==
  sentinel \in BOOLEAN /\ token \in BOOLEAN /\ spoiled \in BOOLEAN /\ seeded \in BOOLEAN

\* An account has a name, and no other has it.
NamedOnce ==
  /\ \A i \in Filled : rows[i].name \in People
  /\ \A i, j \in Filled : rows[i].name = rows[j].name => i = j

LEMMA SetupRestStart == SW!Init => SetupRest /\ Switches
<1> SUFFICES ASSUME SW!Init PROVE SetupRest /\ Switches
  OBVIOUS
<1>1. SetupRest
  BY DEF SW!Init, SetupRest, SW!Flags
<1>2. Switches
  BY DEF SW!Init, Switches
<1> QED
  BY <1>1, <1>2

LEMMA NamedStart == SW!Init => NamedOnce
<1> SUFFICES ASSUME SW!Init PROVE NamedOnce
  OBVIOUS
<1> DEFINE Two(a, b) == [i \in SW!Ids |-> IF i = 1 THEN a ELSE IF i = 2 THEN b ELSE SW!NoRow]
           admin == SW!Row(Seed, SW!SeedPwd, TRUE)
<1>1. \/ rows = Two(SW!NoRow, SW!NoRow)
      \/ rows = Two(admin, SW!NoRow)
      \/ \E n \in People \ {Seed} : rows = Two(admin, SW!Row(n, "own", FALSE))
  BY DEF SW!Init, SW!Databases
<1>2. admin.name = Seed /\ \A n : SW!Row(n, "own", FALSE).name = n
  BY DEF SW!Row
<1>3. Seed \in People
  BY RequestsFinite
<1> HIDE DEF admin
<1>4. CASE rows = Two(SW!NoRow, SW!NoRow)
  BY <1>4 DEF NamedOnce, Filled
<1>5. CASE rows = Two(admin, SW!NoRow)
  BY <1>2, <1>3, <1>5 DEF NamedOnce, Filled
<1>6. ASSUME NEW n \in People \ {Seed}, rows = Two(admin, SW!Row(n, "own", FALSE))
      PROVE  NamedOnce
  <2>1. PICK b : b = SW!Row(n, "own", FALSE) /\ b.name = n
    BY <1>2
  <2>2. rows = Two(admin, b)
    BY <1>6, <2>1
  <2> QED
    BY <1>2, <1>3, <2>1, <2>2 DEF NamedOnce, Filled
<1> QED
  BY <1>1, <1>4, <1>5, <1>6

LEMMA SwitchesStay == Switches /\ [SW!Next]_(SW!vars) => Switches'
<1> SUFFICES ASSUME Switches, [SW!Next]_(SW!vars) PROVE Switches'
  OBVIOUS
<1> USE DEF Switches
<1>1. CASE SW!Boot
  BY <1>1 DEF SW!Boot, SW!WriteSentinel, SW!db
<1>2. CASE SW!Suicide \/ SW!Crash \/ SW!LoseConfig \/ SW!PollMode
  BY <1>2 DEF SW!Suicide, SW!Crash, SW!Down, SW!LoseConfig, SW!PollMode, SW!files, SW!db
<1>3. ASSUME NEW r \in Requests,
             \/ SW!Apply(r) \/ SW!TimedOut(r) \/ SW!Exited(r) \/ SW!WriteEnv(r)
             \/ SW!MarkConfigured(r) \/ SW!DropToken(r)
      PROVE  Switches'
  BY <1>3 DEF SW!Apply, SW!TimedOut, SW!Exited, SW!WriteEnv, SW!MarkConfigured, SW!WriteSentinel,
     SW!DropToken, SW!files, SW!db
<1>4. ASSUME NEW r \in Requests,
             \/ SW!ChildFails(r) \/ SW!ChildSeeds(r) \/ SW!ChildReads(r) \/ SW!ChildCommits(r)
             \/ SW!ChildMails(r)
      PROVE  Switches'
  BY <1>4 DEF SW!ChildFails, SW!ChildSeeds, SW!ChildReads, SW!ChildCommits, SW!ChildMails,
     SW!files, SW!db
<1>5. CASE UNCHANGED SW!vars
  BY <1>5 DEF SW!vars, SW!files, SW!db
<1> QED
  BY <1>1, <1>2, <1>3, <1>4, <1>5 DEF SW!Next

LEMMA SetupRestStays == SetupRest /\ [SW!Next]_(SW!vars) => SetupRest'
<1> SUFFICES ASSUME SetupRest, [SW!Next]_(SW!vars) PROVE SetupRest'
  OBVIOUS
<1>1. CASE SW!Boot
  BY <1>1 DEF SW!Boot, SW!Mode, SW!db, SW!asked, SetupRest
<1>2. CASE SW!Suicide \/ SW!Crash \/ SW!LoseConfig \/ SW!PollMode
  <2>1. /\ web' \in {web, "down"} /\ worker' \in {worker, "runs"}
        /\ runtime' \in {runtime, None} /\ UNCHANGED flag
    BY <1>2 DEF SW!Suicide, SW!Crash, SW!Down, SW!LoseConfig, SW!PollMode, SW!files, SW!db,
       SW!asked
  <2> QED
    BY <2>1 DEF SetupRest
<1>3. ASSUME NEW r \in Requests, SW!Apply(r)
      PROVE  SetupRest'
  <2>1. UNCHANGED <<web, flag, worker, runtime>>
    BY <1>3 DEF SW!Apply, SW!db
  <2> QED
    BY <2>1 DEF SetupRest
<1>4. ASSUME NEW r \in Requests,
             \/ SW!TimedOut(r) \/ SW!Exited(r) \/ SW!WriteEnv(r)
             \/ SW!MarkConfigured(r) \/ SW!DropToken(r)
             \/ SW!ChildFails(r) \/ SW!ChildSeeds(r) \/ SW!ChildReads(r) \/ SW!ChildCommits(r)
             \/ SW!ChildMails(r)
      PROVE  SetupRest'
  <2>1. UNCHANGED <<web, flag, worker>> /\ runtime' \in {runtime, r}
    BY <1>4 DEF SW!TimedOut, SW!Exited, SW!WriteEnv, SW!MarkConfigured, SW!DropToken,
       SW!ChildFails, SW!ChildSeeds, SW!ChildReads, SW!ChildCommits, SW!ChildMails,
       SW!files, SW!db, SW!asked
  <2> QED
    BY <2>1 DEF SetupRest
<1>5. CASE UNCHANGED SW!vars
  BY <1>5 DEF SW!vars, SW!files, SW!db, SW!asked, SetupRest
<1> QED
  BY <1>1, <1>2, <1>3, <1>4, <1>5 DEF SW!Next

\* The one row of a name is the one that is found.
LEMMA FindsTheRow ==
  ASSUME SetupTypes, NamedOnce, NEW n \in People, NEW i \in Filled, rows[i].name = n
  PROVE  SW!Find(n) = i
<1> DEFINE S == {k \in SW!Ids : rows[k].name = n}
<1>1. SW!Find(n) = IF S = {} THEN 0 ELSE SW!Min(S)
  BY DEF SW!Find
<1>2. S \subseteq Filled /\ i \in S
  BY RequestsFinite DEF Filled, SW!NoRow
<1>3. S \subseteq SW!Ids /\ S # {}
  BY <1>2
<1>4. SW!Min(S) \in S
  BY <1>3, LeastId
<1>5. \A k \in S : k = i
  BY <1>2 DEF NamedOnce
<1> QED
  BY <1>1, <1>3, <1>4, <1>5

\* The child's transaction: the name it gives is nobody else's.
LEMMA NamedCommits ==
  ASSUME SetupInv, NamedOnce, NEW r \in Requests, child[r] = "admin", ~SW!Clash(r),
         rows' = SW!Administrator(r)
  PROVE  NamedOnce'
<1>1. PICK old, leg, n : old = saw[r].existing /\ leg = saw[r].legacy /\ n = name[r]
  OBVIOUS
<1>2. /\ old \in Filled \cup {0} /\ leg \in Filled \cup {0} /\ Filled \subseteq SW!Ids
      /\ rows \in [SW!Ids -> UserRow] /\ n \in People /\ 0 \notin SW!Ids
  BY <1>1, RequestsFinite DEF SetupInv, SetupTypes, SeedIsSeen, Filled
<1>3. old = 0 => \A i \in Filled : rows[i].name = n => i = leg
  <2> SUFFICES ASSUME old = 0, NEW i \in Filled, rows[i].name = n PROVE i = leg
    OBVIOUS
  <2>1. SW!Find(n) = i
    BY <1>2, FindsTheRow DEF SetupInv
  <2>2. SW!Find(n) \in {0, leg}
    BY <1>1 DEF SW!Clash
  <2> QED
    BY <1>2, <2>1, <2>2
<1>4. \A i \in SW!Ids : i \in Filled <=> rows[i] # SW!NoRow
  BY DEF Filled
<1>5. CASE old # 0
  <2>1. /\ rows' \in [SW!Ids -> UserRow] /\ \A i \in SW!Ids : rows'[i].name = rows[i].name
        /\ \A i \in SW!Ids \ {old, leg} : rows'[i] = rows[i]
    <3>1. PICK one : one = SW!Promote(r, old)
      OBVIOUS
    <3>2. /\ one \in [SW!Ids -> UserRow] /\ \A i \in SW!Ids : one[i].name = rows[i].name
          /\ \A i \in SW!Ids \ {old} : one[i] = rows[i]
      BY <1>2, <1>5, <3>1 DEF SW!Promote, UserRow, Passwords
    <3>3. \/ rows' = one
          \/ leg \in SW!Ids /\ rows' = SW!Retire(one, leg)
      BY <1>1, <1>2, <1>5, <3>1 DEF SW!Administrator
    <3>4. CASE rows' = one
      BY <3>2, <3>4
    <3>5. CASE leg \in SW!Ids /\ rows' = SW!Retire(one, leg)
      BY <3>2, <3>5 DEF SW!Retire, UserRow, Passwords
    <3> QED
      BY <3>3, <3>4, <3>5
  <2>2. Filled' \subseteq Filled
    BY <1>2, <1>4, <1>5, <2>1 DEF Filled
  <2> QED
    BY <1>2, <2>1, <2>2 DEF NamedOnce
<1>6. CASE old = 0
  <2>1. PICK u, x :
          /\ u \in SW!Ids /\ rows' = [rows EXCEPT ![u] = x] /\ x.name = n
          /\ u = leg \/ leg = 0
    <3>1. CASE leg # 0
      <4>1. rows' = [rows EXCEPT ![leg] = [rows[leg] EXCEPT !.name = n, !.pwd = r, !.admin = TRUE]]
        BY <1>1, <1>6, <3>1 DEF SW!Administrator, SW!Rename
      <4>2. rows[leg] \in UserRow /\ leg \in SW!Ids
        BY <1>2, <3>1
      <4>3. [rows[leg] EXCEPT !.name = n, !.pwd = r, !.admin = TRUE].name = n
        BY <4>2 DEF UserRow
      <4> QED
        BY <4>1, <4>2, <4>3
    <3>2. CASE leg = 0
      <4>1. rows' = [rows EXCEPT ![SW!Unused] = SW!Row(n, r, TRUE)]
        BY <1>1, <1>6, <3>2 DEF SW!Administrator, SW!Create
      <4>2. SW!Unused \in SW!Ids /\ SW!Row(n, r, TRUE).name = n
        BY RowIsLeft DEF Spent, SW!Row
      <4> QED
        BY <3>2, <4>1, <4>2
    <3> QED
      BY <3>1, <3>2
  <2>2. /\ rows'[u].name = n /\ \A i \in SW!Ids \ {u} : rows'[i] = rows[i]
    BY <1>2, <2>1
  <2>3. \A i \in Filled \ {u} : rows[i].name # n
    BY <1>2, <1>3, <1>6, <2>1
  <2>4. \A i \in Filled' \ {u} : i \in Filled /\ rows'[i].name = rows[i].name
    BY <2>2 DEF Filled
  <2>5. \A i \in Filled' : rows'[i].name \in People
    BY <1>2, <2>2, <2>4 DEF NamedOnce
  <2>6. \A i, j \in Filled' : rows'[i].name = rows'[j].name => i = j
    BY <2>2, <2>3, <2>4 DEF NamedOnce
  <2> QED
    BY <2>5, <2>6 DEF NamedOnce
<1> QED
  BY <1>5, <1>6

LEMMA NamedStays == SetupInv /\ NamedOnce /\ [SW!Next]_(SW!vars) => NamedOnce'
<1> SUFFICES ASSUME SetupInv, NamedOnce, [SW!Next]_(SW!vars) PROVE NamedOnce'
  OBVIOUS
<1>1. \/ UNCHANGED rows
      \/ \E r \in Requests : child[r] = "admin" /\ ~SW!Clash(r) /\ rows' = SW!Administrator(r)
  <2>1. CASE SW!Boot \/ SW!Suicide \/ SW!Crash \/ SW!LoseConfig \/ SW!PollMode
    BY <2>1 DEF SW!Boot, SW!Suicide, SW!Crash, SW!Down, SW!LoseConfig, SW!PollMode, SW!db
  <2>2. ASSUME NEW r \in Requests,
               \/ SW!Apply(r) \/ SW!TimedOut(r) \/ SW!Exited(r) \/ SW!WriteEnv(r)
               \/ SW!MarkConfigured(r) \/ SW!DropToken(r)
               \/ SW!ChildFails(r) \/ SW!ChildSeeds(r) \/ SW!ChildReads(r) \/ SW!ChildMails(r)
        PROVE  UNCHANGED rows
    BY <2>2 DEF SW!Apply, SW!TimedOut, SW!Exited, SW!WriteEnv, SW!MarkConfigured, SW!DropToken,
       SW!ChildFails, SW!ChildSeeds, SW!ChildReads, SW!ChildMails, SW!db
  <2>3. ASSUME NEW r \in Requests, SW!ChildCommits(r)
        PROVE  \/ UNCHANGED rows
               \/ child[r] = "admin" /\ ~SW!Clash(r) /\ rows' = SW!Administrator(r)
    BY <2>3 DEF SW!ChildCommits
  <2>4. CASE UNCHANGED SW!vars
    BY <2>4 DEF SW!vars, SW!db
  <2> QED
    BY <2>1, <2>2, <2>3, <2>4 DEF SW!Next
<1>2. CASE UNCHANGED rows
  BY <1>2 DEF NamedOnce, Filled
<1> QED
  BY <1>1, <1>2, NamedCommits

LEMMA SetupTyped == SetupInv /\ SetupRest /\ Switches /\ NamedOnce => SW!TypeOK
<1> SUFFICES ASSUME SetupInv, SetupRest, Switches, NamedOnce PROVE SW!TypeOK
  OBVIOUS
<1>1. \A i \in SW!Ids : /\ rows[i].name \in People \cup {None}
                        /\ rows[i].pwd \in Requests \cup {None, SW!SeedPwd, "own", "unusable"}
  BY DEF SetupInv, SetupTypes, UserRow, Passwords
<1>2. ASSUME NEW i \in SW!Ids, NEW j \in SW!Ids, rows[i].name = rows[j].name, i # j
      PROVE  rows[i] = SW!NoRow
  <2>1. SW!NoRow.name \notin People
    BY RequestsFinite DEF SW!NoRow
  <2> QED
    BY <1>2, <2>1 DEF NamedOnce, Filled
<1>3. \A r \in Requests :
        /\ par[r] \in SW!InFlight \cup {"idle", "refused", "failed", "lost", "ok"}
        /\ child[r] \in SW!Working \cup {"none", "ok", "bad", "killed"}
        /\ name[r] \in People
  BY DEF SetupInv, SetupTypes, SetupRest
<1>4. /\ web \in {"down", "setup", "normal", "maintenance"} /\ worker \in {"waits", "runs"}
      /\ runtime \in Requests \cup {None} /\ flag \in SW!Flags
  BY DEF SetupRest
<1>5. sentinel \in BOOLEAN /\ token \in BOOLEAN /\ spoiled \in BOOLEAN /\ seeded \in BOOLEAN
  BY DEF Switches
<1> QED
  BY <1>1, <1>2, <1>3, <1>4, <1>5, Zenon DEF SW!TypeOK

\* For any accounts, groups, hosts, jobs and requests, however they cross: the four
\* parts keep their types, a group's name has one row, live or deleted, and an
\* account of a system being set up has a name that no other has.
THEOREM TablesTyped == MCSpec => []AllTypesOK
<1>1. MCInit => AccountsInv /\ AssetsInv /\ CronInv /\ SetupInv
  BY AccountsStart, AssetsStart, CronStart, SetupStart DEF MCInit
<1>2. MCInit => AccountsRest /\ OneRow /\ CronRest /\ SetupRest /\ Switches /\ NamedOnce
  BY AccountsTyped, AssetsTyped, CronTyped, SetupRestStart, NamedStart DEF MCInit
<1>3. AccountsInv /\ [MCNext]_<<part, vars, assets, cron, setup>> => AccountsInv'
  BY PartSteps, AccountsStep
<1>4. AssetsInv /\ [MCNext]_<<part, vars, assets, cron, setup>> => AssetsInv'
  BY PartSteps, AssetsStep
<1>5. CronInv /\ [MCNext]_<<part, vars, assets, cron, setup>> => CronInv'
  BY PartSteps, CronStep
<1>6. SetupInv /\ [MCNext]_<<part, vars, assets, cron, setup>> => SetupInv'
  BY PartSteps, SetupStep
<1>7. AccountsInv /\ AccountsRest /\ [MCNext]_<<part, vars, assets, cron, setup>>
        => AccountsRest'
  BY PartSteps, AccountsTyped
<1>8. AssetsInv /\ OneRow /\ [MCNext]_<<part, vars, assets, cron, setup>> => OneRow'
  BY PartSteps, AssetsTyped
<1>9. CronRest /\ [MCNext]_<<part, vars, assets, cron, setup>> => CronRest'
  BY PartSteps, CronTyped
<1>10. SetupRest /\ Switches /\ [MCNext]_<<part, vars, assets, cron, setup>>
         => (SetupRest /\ Switches)'
  BY PartSteps, SetupRestStays, SwitchesStay
<1>11. SetupInv /\ NamedOnce /\ [MCNext]_<<part, vars, assets, cron, setup>> => NamedOnce'
  BY PartSteps, NamedStays
<1>12. /\ AccountsInv /\ AccountsRest /\ AssetsInv /\ OneRow /\ CronInv /\ CronRest
       /\ SetupInv /\ SetupRest /\ Switches /\ NamedOnce
       => AllTypesOK
  BY AccountsTyped, AssetsTyped, CronTyped, SetupTyped DEF AllTypesOK
<1> QED
  BY <1>1, <1>2, <1>3, <1>4, <1>5, <1>6, <1>7, <1>8, <1>9, <1>10, <1>11, <1>12, PTL DEF MCSpec
=============================================================================
