---------------------------- MODULE Redis_proofs ----------------------------
(* What lives in Redis, for any number of requests: the conversations and    *)
(* the counters of the logins.                                               *)
(*                                                                           *)
(* A request saves a conversation under its lock but for the named late      *)
(* saves (SavesUnderLock), and of what others saved or hold nothing is taken *)
(* away (OthersAreKept).  A request that has run out of its lock is in lost. *)
(* The inductive invariant says that a request on its way holds its lock     *)
(* unless it is in lost, and even then at every place it reaches only by a   *)
(* renewal or a short step from one (Locked); and that the copy it works on  *)
(* holds every message of the conversation, as long as no run on it is lost  *)
(* (Current).  On top of it, Wire says where the calls of the model stand    *)
(* with their answers, in the conversation and in the copies.  The logins    *)
(* have an invariant of their own (LoginInv), which counts the requests that *)
(* are past the look at a lock.                                              *)
EXTENDS MCRedis, FiniteSetTheorems, TLAPS

\* The types the proof needs: the counters of the messages are not bounded.
Sent   == [role : {"user", "calls", "tool", "final"}, by : Req, step : Nat, n : Int]
Stored == [mode : Mode, messages : Seq(Sent), folded : SUBSET Sent,
           result : Req \cup {None}]
Place  == Active \cup {"idle", "done", "dead"}

Typed ==
  /\ conv \in [Conv -> Stored \cup {None}]
  /\ lock \in [Conv -> Req \cup {None}]
  /\ made \in SUBSET Conv /\ lost \in SUBSET Req
  /\ pc \in [Req -> Place] /\ next \in [Req -> Place]
  /\ at = [r \in Req |-> at[r]] /\ copy = [r \in Req |-> copy[r]]
  /\ step \in [Req -> Nat] /\ left \in [Req -> Int]

\* Places a request reaches only with its lock, and leaves before it can expire.
Firm == {"load", "user", "first", "fold", "calls", "final", "tool", "again",
         "change"}
Locked ==
  \A r \in Req :
    /\ pc[r] \in Running => at[r] \in made
    /\ (/\ pc[r] \in Running
        /\ \/ r \notin lost \/ pc[r] \in Firm
           \/ pc[r] = "save" /\ next[r] \notin LateSaves) => lock[at[r]] = r

\* Where a request goes on after a save, a summary or a deletion.
Onto == Running \ {"save", "load", "user", "change", "wait", "summary"}
Onward ==
  \A r \in Req :
    /\ pc[r] = "save" => next[r] \in Onto
    /\ pc[r] = "summary" => next[r] \in {"loop", "ask"} /\ Foldable(copy[r])
    /\ pc[r] \in {"members", "delete", "unlist"} => next[r] \in {"done", "clean"}

\* A lock is held by the request that works there, or died there; and one that
\* ran out of its lock gets none again.
Owned ==
  /\ \A c \in Conv : \A r \in Req :
       lock[c] = r => at[r] = c /\ pc[r] \in Running \cup {"dead"} /\ r \notin lost
  /\ \A r \in lost : pc[r] \in Running \cup {"done", "dead"}
  /\ \A c \in Conv : conv[c] # None => c \in made

\* The copies in use, of conversations nobody has lost.
Copying  == {"first", "loop", "fold", "summary", "ask", "wait", "save"}
Alone(c) == \A q \in lost : at[q] # c
Current ==
  \A r \in Req : pc[r] \in Copying =>
    /\ copy[r] \in Stored
    /\ (Alone(at[r]) /\ conv[at[r]] # None) => Held(conv[at[r]]) \subseteq Held(copy[r])

Inv == Typed /\ Locked /\ Onward /\ Owned /\ Current

\* What a change of a conversation keeps of it.
LEMMA HeldNew ==
  ASSUME NEW m \in Mode PROVE New(m) \in Stored /\ Held(New(m)) = {}
<1>1. New(m) \in Stored
  BY DEF New, Stored
<1>2. New(m).folded = {} /\ 1 .. Len(New(m).messages) = {}
  BY DEF New
<1> QED
  BY <1>1, <1>2 DEF Held

LEMMA HeldWith ==
  ASSUME NEW v \in Stored, NEW m \in Sent
  PROVE  With(v, m) \in Stored /\ Held(v) \subseteq Held(With(v, m))
<1> DEFINE w == With(v, m)
<1>0. v.messages \in Seq(Sent) /\ Append(v.messages, m) \in Seq(Sent)
  BY DEF Stored
<1>1. w \in Stored /\ w.folded = v.folded
  BY <1>0 DEF Stored, With
<1>2. w.messages = Append(v.messages, m)
  BY DEF Stored, With
<1>3. /\ Len(w.messages) = Len(v.messages) + 1 /\ Len(v.messages) \in Nat
      /\ \A i \in 1 .. Len(v.messages) : w.messages[i] = v.messages[i]
  BY <1>2 DEF Stored
<1> QED
  BY <1>1, <1>3 DEF Held

LEMMA HeldChanged ==
  ASSUME NEW v \in Stored, NEW m \in Mode, NEW x \in Req \cup {None}
  PROVE  /\ [v EXCEPT !.mode = m] \in Stored
         /\ Held([v EXCEPT !.mode = m]) = Held(v)
         /\ [v EXCEPT !.result = x] \in Stored
         /\ Held([v EXCEPT !.result = x]) = Held(v)
  BY DEF Stored, Held

\* The rounds at the user messages are their ranks from the end, so one of them
\* has rank KeepRounds: no two have the same rank, and were none of rank
\* KeepRounds they would be more than their ranks.
LEMMA KeepFromIsThere ==
  ASSUME NEW s \in Seq(Sent), Cardinality(UserAt(s)) > KeepRounds
  PROVE  KeepFrom(s) \in UserAt(s) /\ KeepFrom(s) \in 1 .. Len(s)
<1> DEFINE U == UserAt(s)
           n == Cardinality(U)
           after(i) == {j \in U : j >= i}
<1>1. Len(s) \in Nat /\ U \subseteq 1 .. Len(s) /\ U \subseteq Int
  BY DEF UserAt
<1>2. IsFiniteSet(U) /\ n \in Nat
  <2>1. IsFiniteSet(1 .. Len(s))
    BY <1>1, FS_Interval
  <2>2. IsFiniteSet(U)
    BY <1>1, <2>1, FS_Subset
  <2> QED
    BY <2>2, FS_CardinalityType
<1>3. \A i \in U : IsFiniteSet(after(i)) /\ Cardinality(after(i)) \in 1 .. n
  <2> SUFFICES ASSUME NEW i \in U
               PROVE  IsFiniteSet(after(i)) /\ Cardinality(after(i)) \in 1 .. n
    OBVIOUS
  <2>1. after(i) \in SUBSET U /\ i \in after(i)
    BY <1>1
  <2>2. IsFiniteSet(after(i)) /\ Cardinality(after(i)) <= n
    BY <1>2, <2>1, FS_Subset
  <2>3. Cardinality(after(i)) \in Nat /\ Cardinality(after(i)) # 0
    BY <2>1, <2>2, FS_CardinalityType, FS_EmptySet
  <2> QED
    BY <1>2, <2>2, <2>3
<1>4. \A i, j \in U : i < j => Cardinality(after(i)) # Cardinality(after(j))
  <2> SUFFICES ASSUME NEW i \in U, NEW j \in U, i < j
               PROVE  Cardinality(after(i)) # Cardinality(after(j))
    OBVIOUS
  <2>1. after(j) \in SUBSET after(i) /\ i \in after(i) /\ i \notin after(j)
    BY <1>1
  <2> QED
    BY <1>3, <2>1, FS_Subset
<1>5. \E i \in U : Cardinality(after(i)) = KeepRounds
  <2> SUFFICES ASSUME \A i \in U : Cardinality(after(i)) # KeepRounds PROVE FALSE
    OBVIOUS
  <2> DEFINE T == (1 .. n) \ {KeepRounds}
             f == [i \in U |-> Cardinality(after(i))]
  <2>1. KeepRounds \in 1 .. n
    BY <1>2, ChatAssumption
  <2>2. IsFiniteSet(1 .. n) /\ Cardinality(1 .. n) = n
    BY <1>2, FS_Interval
  <2>3. IsFiniteSet(T) /\ Cardinality(T) < n
    <3>1. IsFiniteSet(T) /\ Cardinality(T) = n - 1
      BY <2>1, <2>2, FS_RemoveElement
    <3> QED
      BY <1>2, <3>1
  <2>4. f \in [U -> T]
    BY <1>3
  <2>5. PICK x, y \in U : x # y /\ f[x] = f[y]
    <3> HIDE DEF f, T, U
    <3> QED
      BY <1>2, <2>3, <2>4, FS_PigeonHole
  <2>6. x < y \/ y < x
    BY <1>1, <2>5
  <2> QED
    BY <1>4, <2>5, <2>6
<1>6. \E i \in UserAt(s) : Rounds(s, i) = KeepRounds
  BY <1>5 DEF Rounds
<1> QED
  BY <1>1, <1>6 DEF KeepFrom

\* A value with another summary and other messages, field by field.
LEMMA ValueChanged ==
  ASSUME NEW v \in Stored, NEW f, NEW m
  PROVE  /\ [v EXCEPT !.folded = f, !.messages = m].folded = f
         /\ [v EXCEPT !.folded = f, !.messages = m].messages = m
         /\ (f \in SUBSET Sent /\ m \in Seq(Sent)) =>
              [v EXCEPT !.folded = f, !.messages = m] \in Stored
  BY DEF Stored

\* Compression keeps what it takes out of the messages in the summary.
LEMMA HeldFolded ==
  ASSUME NEW v \in Stored, Foldable(v)
  PROVE  Folded(v) \in Stored /\ Held(v) \subseteq Held(Folded(v))
<1> DEFINE s == v.messages
           k == KeepFrom(s)
           w == Folded(v)
<1>1. s \in Seq(Sent) /\ Len(s) \in Nat
  BY DEF Stored
<1>2. k \in 1 .. Len(s)
  BY <1>1, KeepFromIsThere DEF Foldable
<1> DEFINE f == v.folded \cup {s[i] : i \in 1 .. k - 1}
           m == SubSeq(s, k, Len(s))
<1>3. w = [v EXCEPT !.folded = f, !.messages = m]
  BY DEF Folded
<1>4. \A i \in 1 .. Len(s) : s[i] \in Sent
  BY <1>1
<1>5. /\ m \in Seq(Sent) /\ Len(m) = Len(s) - k + 1
      /\ \A i \in 1 .. Len(s) - k + 1 : m[i] = s[k + i - 1]
  BY <1>1, <1>2
<1>6. f \in SUBSET Sent
  <2>1. v.folded \in SUBSET Sent
    BY DEF Stored
  <2> QED
    BY <1>2, <1>4, <2>1
<1>8. w \in Stored /\ w.folded = f /\ w.messages = m
  <2> HIDE DEF w, f, m, s, k
  <2>1. /\ [v EXCEPT !.folded = f, !.messages = m].folded = f
        /\ [v EXCEPT !.folded = f, !.messages = m].messages = m
        /\ (f \in SUBSET Sent /\ m \in Seq(Sent)) =>
             [v EXCEPT !.folded = f, !.messages = m] \in Stored
    BY ValueChanged
  <2> QED
    BY <1>3, <1>5, <1>6, <2>1
<1>7. \A i \in 1 .. Len(s) : s[i] \in Held(w)
  <2> SUFFICES ASSUME NEW i \in 1 .. Len(s) PROVE s[i] \in Held(w)
    OBVIOUS
  <2>1. CASE i < k
    BY <1>2, <1>8, <2>1 DEF Held
  <2>2. CASE i >= k
    <3>1. i - k + 1 \in 1 .. Len(s) - k + 1 /\ k + (i - k + 1) - 1 = i
      BY <1>1, <1>2, <2>2
    <3>2. w.messages[i - k + 1] = s[i] /\ i - k + 1 \in 1 .. Len(w.messages)
      BY <1>5, <1>8, <3>1
    <3> QED
      BY <3>2 DEF Held
  <2> QED
    BY <1>1, <1>2, <2>1, <2>2
<1> QED
  <2>1. v.folded \subseteq Held(w)
    BY <1>8 DEF Held
  <2> QED
    BY <1>7, <1>8, <2>1 DEF Held

LEMMA InvInit == Init => Inv
<1> SUFFICES ASSUME Init PROVE Inv
  OBVIOUS
<1>1. \A m \in Mode, c \in Conv :
        [d \in Conv |-> IF d = c THEN New(m) ELSE None] \in [Conv -> Stored \cup {None}]
  BY HeldNew
<1>2. Typed
  BY <1>1 DEF Init, Typed, Place
<1>3. Locked /\ Onward /\ Current
  BY DEF Init, Locked, Running, Onward, Current, Copying
<1>4. Owned
  BY ChatAssumption DEF Init, Owned
<1> QED
  BY <1>2, <1>3, <1>4 DEF Inv

\* The counters, which the steps may change within their types.
Counters == step' \in [Req -> Nat] /\ left' \in [Req -> Int]

LEMMA AtFirm ==
  ASSUME Inv, NEW r \in Req, pc[r] \in Firm PROVE lock[at[r]] = r
  BY DEF Inv, Locked, Firm, Running

\* A request on its way goes from one place to another with copy v.
LEMMA Moves ==
  ASSUME Inv, NEW r \in Req, pc[r] \in Running, NEW l \in Running, Goto(r, l),
         UNCHANGED <<conv, lock, made, at, lost>>, Counters,
         NEW v, copy' = [copy EXCEPT ![r] = v],
         NEW n \in Place, next' = [next EXCEPT ![r] = n],
         l = "save" => n \in Onto,
         l = "summary" => n \in {"loop", "ask"} /\ Foldable(v),
         (l \in Firm \/ (l = "save" /\ n \notin LateSaves)) => lock[at[r]] = r,
         l \in Copying =>
           /\ v \in Stored
           /\ (Alone(at[r]) /\ conv[at[r]] # None) => Held(conv[at[r]]) \subseteq Held(v)
  PROVE  Inv'
<1> USE DEF Goto
<1>1. Typed'
  BY DEF Inv, Typed, Place, Active, Counters
<1>2. /\ \A q \in Req : q # r => /\ pc'[q] = pc[q] /\ copy'[q] = copy[q]
                                 /\ next'[q] = next[q]
      /\ pc'[r] = l /\ copy'[r] = v /\ next'[r] = n
  BY DEF Inv, Typed
<1>3. Locked'
  BY <1>2 DEF Inv, Locked
<1>4. Onward'
  BY <1>2 DEF Inv, Onward, Onto, Running
<1>5. Owned'
  BY <1>2 DEF Inv, Owned
<1>6. Current'
  BY <1>2 DEF Inv, Current, Alone
<1> QED
  BY <1>1, <1>3, <1>4, <1>5, <1>6 DEF Inv

\* It goes on without looking at its copy, or with the one it has.
LEMMA Goes ==
  ASSUME Inv, NEW r \in Req, pc[r] \in Running, NEW l \in Running \ {"save", "summary"},
         Goto(r, l), UNCHANGED <<conv, lock, made, at, lost, copy, next>>, Counters,
         l \in Firm => lock[at[r]] = r,
         l \in Copying => pc[r] \in Copying
  PROVE  Inv'
<1>1. copy' = [copy EXCEPT ![r] = copy[r]] /\ next' = [next EXCEPT ![r] = next[r]]
  BY DEF Inv, Typed
<1>2. next[r] \in Place
  BY DEF Inv, Typed
<1>3. l \in Copying =>
           /\ copy[r] \in Stored
           /\ (Alone(at[r]) /\ conv[at[r]] # None)
                => Held(conv[at[r]]) \subseteq Held(copy[r])
  BY DEF Inv, Current
<1>4. /\ l \in Running /\ l # "save" /\ l # "summary"
      /\ (l \in Firm \/ (l = "save" /\ next[r] \notin LateSaves)) => lock[at[r]] = r
  OBVIOUS
<1> DEFINE v == copy[r]
           n == next[r]
<1>5. /\ copy' = [copy EXCEPT ![r] = v] /\ next' = [next EXCEPT ![r] = n]
      /\ l = "save" => n \in Onto
  BY <1>1, <1>4
<1> HIDE DEF v, n
<1> QED
  BY <1>2, <1>3, <1>4, <1>5, Moves DEF v, n

\* It changes its copy and saves it next.
LEMMA Keeps ==
  ASSUME Inv, NEW r \in Req, pc[r] \in Running, NEW v \in Stored, NEW n \in Onto,
         Keep(r, v, n), UNCHANGED <<conv, lock, made, at, lost>>, Counters,
         n \notin LateSaves => lock[at[r]] = r,
         (Alone(at[r]) /\ conv[at[r]] # None) => Held(conv[at[r]]) \subseteq Held(v)
  PROVE  Inv'
<1>1. "save" \in Running /\ n \in Place /\ "save" \notin Firm /\ Goto(r, "save")
  BY DEF Keep, Running, Onto, Place, Active, Firm
<1>2. copy' = [copy EXCEPT ![r] = v] /\ next' = [next EXCEPT ![r] = n]
  BY DEF Keep
<1> QED
  BY <1>1, <1>2, Moves

\* It reads the conversation and keeps what it makes of it.
LEMMA Reads ==
  ASSUME Inv, NEW r \in Req, pc[r] \in Running, NEW v, NEW n \in Onto,
         Read(r, v, n), UNCHANGED <<conv, lock, made, at, lost>>, Counters,
         n \notin LateSaves => lock[at[r]] = r,
         Here(r) \in Stored => v \in Stored /\ Held(Here(r)) \subseteq Held(v)
  PROVE  Inv'
<1>1. CASE Present(r)
  <2>1. Here(r) \in Stored /\ Here(r) = conv[at[r]]
    BY <1>1 DEF Inv, Typed, Locked, Here, Present
  <2> QED
    BY <1>1, <2>1, Keeps DEF Read
<1>2. CASE ~Present(r)
  <2>1. "release" \in Running \ {"save", "summary"} /\ "release" \notin Firm \cup Copying
    BY DEF Running, Firm, Copying
  <2> QED
    BY <1>2, <2>1, Goes DEF Read
<1> QED
  BY <1>1, <1>2

\* A message a request adds, and the values it may save.
LEMMA MessageSent ==
  ASSUME Inv, NEW r \in Req, NEW k \in Int, NEW role \in {"user", "calls", "tool", "final"}
  PROVE  Msg(role, r, k) \in Sent
  BY DEF Inv, Typed, Msg, Sent

\* A step that leaves all of this alone.
LEMMA Unmoved ==
  ASSUME Inv, UNCHANGED <<conv, lock, made, lost, pc, at, copy, next, step, left>>
  PROVE  Inv'
  BY DEF Inv, Typed, Locked, Onward, Owned, Current, Alone

LEMMA AcquireInv ==
  ASSUME Inv, NEW r \in Req, NEW c \in Conv, NEW l \in {"load", "change"},
         Acquire(r, c, l)
  PROVE  Inv'
<1> USE DEF Acquire, Goto, Vacant
<1>1. Typed'
  BY DEF Inv, Typed, Place, Active, Running
<1>2. /\ \A q \in Req : q # r => pc'[q] = pc[q] /\ at'[q] = at[q] /\ lock[c] # q
      /\ pc'[r] = l /\ at'[r] = c /\ lock'[c] = r /\ c \in made
      /\ \A d \in Conv : d # c => lock'[d] = lock[d]
  BY ChatAssumption DEF Inv, Typed, Owned
<1>3. r \notin lost /\ \A d \in Conv : lock[d] # r
  BY DEF Inv, Owned, Running
<1>4. Locked'
  <2> SUFFICES ASSUME NEW q \in Req, pc'[q] \in Running
               PROVE  /\ at'[q] \in made'
                      /\ (\/ q \notin lost' \/ pc'[q] \in Firm
                          \/ pc'[q] = "save" /\ next'[q] \notin LateSaves)
                           => lock'[at'[q]] = q
    BY DEF Locked
  <2>1. CASE q = r
    BY <1>2, <2>1
  <2>2. CASE q # r
    <3>1. at[q] \in made /\ at[q] \in Conv
      BY <1>2, <2>2 DEF Inv, Typed, Locked
    <3> QED
      BY <1>2, <2>2, <3>1 DEF Inv, Locked
  <2> QED
    BY <2>1, <2>2
<1>5. Onward' /\ Owned'
  BY <1>2, <1>3 DEF Inv, Onward, Owned, Running
<1>6. Current'
  BY <1>2, <1>3 DEF Inv, Current, Copying, Alone
<1> QED
  BY <1>1, <1>4, <1>5, <1>6 DEF Inv

LEMMA ReleaseInv ==
  ASSUME Inv, NEW r \in Req, Release(r)
  PROVE  Inv'
<1> USE DEF Release, Goto, Freed
<1>1. Typed'
  BY DEF Inv, Typed, Place
<1>2. /\ \A q \in Req : q # r => pc'[q] = pc[q]
      /\ pc'[r] = "done" /\ at[r] \in Conv
      /\ \A c \in Conv : \A q \in Req :
           q # r => (lock'[c] = q <=> lock[c] = q)
      /\ \A c \in Conv : lock'[c] # r
  BY ChatAssumption DEF Inv, Typed, Locked, Owned, Running
<1>3. Locked'
  <2> SUFFICES ASSUME NEW q \in Req, q # r, pc[q] \in Running
               PROVE  /\ at[q] \in made
                      /\ (\/ q \notin lost \/ pc[q] \in Firm
                          \/ pc[q] = "save" /\ next[q] \notin LateSaves)
                           => lock'[at[q]] = q
    BY <1>2 DEF Locked, Running
  <2>1. at[q] \in made /\ at[q] \in Conv
    BY DEF Inv, Typed, Locked
  <2> QED
    BY <1>2, <2>1 DEF Inv, Locked
<1>4. Onward' /\ Owned'
  BY <1>2 DEF Inv, Onward, Owned, Running
<1>5. Current'
  BY <1>2 DEF Inv, Current, Copying, Alone
<1> QED
  BY <1>1, <1>3, <1>4, <1>5 DEF Inv

\* Two requests on their way on one conversation that nobody has lost are one.
LEMMA OneAlone ==
  ASSUME Inv, NEW q \in Req, NEW r \in Req, pc[q] \in Running, pc[r] \in Running,
         at[q] = at[r], Alone(at[r])
  PROVE  q = r
  BY DEF Inv, Locked, Alone

LEMMA SaveInv ==
  ASSUME Inv, NEW r \in Req, Save(r)
  PROVE  Inv'
<1> USE DEF Save, Goto
<1>1. /\ pc[r] = "save" /\ pc[r] \in Running /\ copy[r] \in Stored /\ at[r] \in made
      /\ at[r] \in Conv /\ next[r] \in Onto /\ next[r] \in Place
  BY DEF Inv, Typed, Current, Copying, Running, Locked, Onward, Onto
<1>2. Typed'
  BY <1>1 DEF Inv, Typed
<1>3. /\ \A q \in Req : q # r => pc'[q] = pc[q]
      /\ pc'[r] = next[r]
      /\ conv'[at[r]] = copy[r] /\ \A c \in Conv : c # at[r] => conv'[c] = conv[c]
  BY <1>1 DEF Inv, Typed
<1>4. Locked'
  BY <1>1, <1>3 DEF Inv, Locked, Onto, Firm, LateSaves
<1>5. Onward' /\ Owned'
  BY <1>1, <1>3 DEF Inv, Onward, Onto, Owned, Running
<1>6. Current'
  <2> SUFFICES ASSUME NEW q \in Req, pc'[q] \in Copying
               PROVE  /\ copy[q] \in Stored
                      /\ (Alone(at[q]) /\ conv'[at[q]] # None)
                           => Held(conv'[at[q]]) \subseteq Held(copy[q])
    BY DEF Current, Alone
  <2>1. CASE q = r
    BY <1>1, <1>3, <2>1
  <2>2. CASE q # r
    <3>1. pc[q] \in Copying /\ pc[q] \in Running /\ at[q] \in Conv
      BY <1>3, <2>2 DEF Copying, Running, Inv, Typed, Locked
    <3>2. at[q] = at[r] => ~Alone(at[q])
      BY <1>1, <2>2, <3>1, OneAlone
    <3> QED
      BY <1>3, <3>1, <3>2 DEF Inv, Current
  <2> QED
    BY <2>1, <2>2
<1> QED
  BY <1>2, <1>4, <1>5, <1>6 DEF Inv

\* A request that takes no lock goes on; what it does to conversations is to make
\* new ones or to delete some.
LEMMA Outside ==
  ASSUME Inv, NEW r \in Req, pc[r] \in {"idle", "members", "delete", "unlist", "clean"},
         NEW l \in {"members", "delete", "unlist", "clean", "done"}, Goto(r, l),
         NEW a, at' = [at EXCEPT ![r] = a],
         NEW n \in Place, next' = [next EXCEPT ![r] = n],
         l \in {"members", "delete", "unlist"} => n \in {"done", "clean"},
         UNCHANGED <<lock, lost, copy, step, left>>,
         made \subseteq made', made' \in SUBSET Conv,
         conv' \in [Conv -> Stored \cup {None}],
         \A c \in Conv : conv'[c] # None =>
           c \in made' /\ (conv'[c] = conv[c] \/ Held(conv'[c]) = {})
  PROVE  Inv'
<1> USE DEF Goto
<1>1. Typed'
  BY DEF Inv, Typed, Place, Active
<1>2. /\ \A q \in Req : q # r => /\ pc'[q] = pc[q] /\ at'[q] = at[q]
                                 /\ next'[q] = next[q]
      /\ pc'[r] = l /\ next'[r] = n /\ pc'[r] \notin Running
      /\ r \notin lost /\ \A c \in Conv : lock[c] # r
  BY DEF Inv, Typed, Owned, Running
<1>3. Locked' /\ Onward' /\ Owned'
  BY <1>2 DEF Inv, Locked, Onward, Owned
<1>4. Current'
  <2> SUFFICES ASSUME NEW q \in Req, q # r, pc[q] \in Copying, Alone(at[q]),
                      conv'[at[q]] # None
               PROVE  Held(conv'[at[q]]) \subseteq Held(copy[q])
    BY <1>2 DEF Inv, Current, Alone, Copying
  <2>1. at[q] \in Conv
    BY DEF Inv, Typed, Locked, Copying, Running
  <2> QED
    BY <2>1 DEF Inv, Current
<1> QED
  BY <1>1, <1>3, <1>4 DEF Inv

LEMMA CrashInv ==
  ASSUME Inv, NEW r \in Req, Crash(r)
  PROVE  Inv'
<1> USE DEF Crash, Goto, store
<1>1. Typed'
  BY DEF Inv, Typed, Place
<1>2. pc'[r] = "dead" /\ \A q \in Req : q # r => pc'[q] = pc[q]
  BY DEF Inv, Typed
<1>3. Locked' /\ Onward'
  BY <1>2 DEF Inv, Locked, Onward, Running
<1>4. Owned' /\ Current'
  BY <1>2 DEF Inv, Owned, Current, Alone, Copying
<1> QED
  BY <1>1, <1>3, <1>4 DEF Inv

LEMMA ExpireInv ==
  ASSUME Inv, NEW c \in Conv, Expire(c)
  PROVE  Inv'
<1> USE DEF Expire, Overdue
<1> DEFINE r == lock[c]
<1>1. /\ r \in Req /\ at[r] = c /\ lost' \in SUBSET Req /\ lost \subseteq lost'
      /\ lost' \subseteq lost \cup {r}
      /\ pc[r] \in Slow \cup {"dead"} /\ (pc[r] # "dead" => r \in lost')
      /\ lock'[c] = None /\ \A d \in Conv : d # c => lock'[d] = lock[d]
  BY DEF Inv, Typed, Owned
<1>2. Typed'
  BY <1>1 DEF Inv, Typed
<1>3. Locked'
  <2> SUFFICES ASSUME NEW q \in Req, pc[q] \in Running,
                      \/ q \notin lost' \/ pc[q] \in Firm
                      \/ pc[q] = "save" /\ next[q] \notin LateSaves
               PROVE  lock'[at[q]] = q
    BY DEF Inv, Locked
  <2>1. lock[at[q]] = q /\ at[q] \in Conv
    BY <1>1 DEF Inv, Typed, Locked
  <2>2. q # r
    BY <1>1 DEF Slow, Firm, Running
  <2> QED
    BY <1>1, <2>1, <2>2
<1>4. Onward'
  BY DEF Inv, Onward
<1>5. Owned'
  <2>1. \A d \in Conv : \A q \in Req : lock'[d] = q => lock[d] = q /\ q # r
    BY <1>1, ChatAssumption DEF Inv, Owned
  <2>2. r \in lost' /\ r \notin lost => pc[r] \in Running
    BY <1>1 DEF Slow, Running
  <2> QED
    BY <1>1, <2>1, <2>2 DEF Inv, Owned
<1>6. Current'
  BY <1>1 DEF Inv, Current, Alone
<1> QED
  BY <1>2, <1>3, <1>4, <1>5, <1>6 DEF Inv

\* The steps of a chat turn and of a change of the mode.
LEMMA TurnInv ==
  ASSUME Inv, NEW r \in Req, Turn(r) \/ Update(r)
  PROVE  Inv'
<1> USE DEF store
<1>0. pc[r] \in Firm => pc[r] \in Running /\ lock[at[r]] = r
  BY AtFirm DEF Firm, Running
<1>a. /\ step \in [Req -> Nat] /\ left \in [Req -> Int]
      /\ UNCHANGED <<step, left>> => Counters
  BY DEF Inv, Typed, Counters
<1>b. ASSUME NEW v \in Stored, NEW k \in Int,
             NEW role \in {"user", "calls", "tool", "final"}
      PROVE  /\ With(v, Msg(role, r, k)) \in Stored
             /\ Held(v) \subseteq Held(With(v, Msg(role, r, k)))
  BY <1>b, MessageSent, HeldWith
<1>1. ASSUME NEW c \in Conv, NEW l \in {"load", "change"}, Acquire(r, c, l) PROVE Inv'
  BY <1>1, AcquireInv
<1>2. CASE Load(r)
  <2>1. CASE Present(r)
    <3>1. next' = [next EXCEPT ![r] = next[r]] /\ next[r] \in Place
      BY <1>2 DEF Load, Inv, Typed
    <3>2. copy' = [copy EXCEPT ![r] = conv[at[r]]] /\ Goto(r, "user")
      BY <1>2, <2>1 DEF Load
    <3>3. /\ pc[r] \in Running /\ lock[at[r]] = r /\ Counters
          /\ UNCHANGED <<conv, lock, made, at, lost>>
      BY <1>0, <1>2, <1>a DEF Load, Firm
    <3>4. "user" \in Running /\ "user" \notin Copying /\ "user" # "save"
      BY DEF Running, Copying
    <3> QED
      BY <3>1, <3>2, <3>3, <3>4, Moves
  <2>2. CASE ~Present(r)
    BY <1>0, <1>2, <1>a, <2>2, Goes DEF Load, Firm, Running, Copying
  <2> QED
    BY <2>1, <2>2
<1>3. CASE TakeMessage(r)
  BY <1>0, <1>3, <1>a, <1>b, Reads DEF TakeMessage, Firm, Onto, Running
<1>4. CASE Loop(r)
  BY <1>4, <1>a, Goes DEF Loop, Renews, Firm, Running, Copying
<1>5. ASSUME NEW from \in {"first", "fold"}, NEW to \in {"loop", "ask"},
             Fold(r, from, to)
      PROVE  Inv'
  <2>1. /\ pc[r] \in Firm /\ pc[r] \in Copying /\ to \notin Firm /\ to \in Onto
        /\ to \in Running \ {"save", "summary"} /\ to \in Copying /\ Counters
        /\ UNCHANGED <<conv, lock, made, at, lost, copy>>
    BY <1>5, <1>a DEF Fold, Firm, Copying, Onto, Running
  <2>2. CASE Goto(r, to) /\ UNCHANGED next
    BY <1>0, <2>1, <2>2, Goes DEF Firm
  <2>3. CASE Foldable(copy[r]) /\ Goto(r, "summary") /\ next' = [next EXCEPT ![r] = to]
    <3>1. copy' = [copy EXCEPT ![r] = copy[r]]
      BY <2>1 DEF Inv, Typed
    <3>2. /\ to \in Place /\ to \in {"loop", "ask"} /\ "summary" \in Running
          /\ "summary" \notin Firm /\ "summary" # "save"
      BY <1>5 DEF Place, Active, Running, Firm
    <3>3. /\ copy[r] \in Stored
          /\ (Alone(at[r]) /\ conv[at[r]] # None)
               => Held(conv[at[r]]) \subseteq Held(copy[r])
      BY <2>1 DEF Inv, Current
    <3> DEFINE v == copy[r]
    <3>4. copy' = [copy EXCEPT ![r] = v] /\ Foldable(v)
      BY <2>3, <3>1
    <3> HIDE DEF v
    <3> QED
      BY <1>0, <2>1, <2>3, <3>2, <3>3, <3>4, Moves DEF v
  <2> QED
    BY <1>5, <2>2, <2>3 DEF Fold
<1>21. CASE Summarise(r)
  <2>1. /\ pc[r] \in Running /\ pc[r] \in Copying /\ Foldable(copy[r])
        /\ next[r] \in {"loop", "ask"} /\ Counters
        /\ UNCHANGED <<conv, lock, made, at, lost>>
    BY <1>21, <1>a DEF Summarise, Running, Copying, Inv, Onward
  <2>2. /\ copy[r] \in Stored
        /\ (Alone(at[r]) /\ conv[at[r]] # None)
             => Held(conv[at[r]]) \subseteq Held(copy[r])
    BY <2>1 DEF Inv, Current
  <2>3. PICK v \in {copy[r], Folded(copy[r])} : Keep(r, v, next[r])
    BY <1>21 DEF Summarise
  <2>4. v \in Stored /\ Held(copy[r]) \subseteq Held(v)
    BY <2>1, <2>2, HeldFolded
  <2>5. next[r] \in Onto /\ next[r] \in LateSaves
    BY <2>1 DEF Onto, Running, LateSaves
  <2> QED
    BY <2>1, <2>2, <2>3, <2>4, <2>5, Keeps
<1>c. pc[r] \in Copying =>
        /\ copy[r] \in Stored
        /\ (Alone(at[r]) /\ conv[at[r]] # None)
             => Held(conv[at[r]]) \subseteq Held(copy[r])
  BY DEF Inv, Current
<1>6. CASE Ask(r)
  <2>1. CASE Keep(r, copy[r], "over") /\ UNCHANGED step
    BY <1>6, <1>a, <1>c, <2>1, Keeps DEF Ask, Copying, Onto, Running, LateSaves
  <2>2. CASE Goto(r, "wait") /\ step' = [step EXCEPT ![r] = @ + 1]
             /\ UNCHANGED <<copy, next>>
    <3>1. Counters
      BY <1>6, <1>a, <2>2 DEF Ask, Counters
    <3> QED
      BY <1>6, <2>2, <3>1, Goes DEF Ask, Firm, Copying, Running
  <2> QED
    BY <1>6, <2>1, <2>2 DEF Ask
<1>7. CASE Reply(r)
  <2>1. /\ pc[r] \in Running /\ pc[r] \in Copying /\ lock[at[r]] = r
        /\ UNCHANGED <<conv, lock, made, at, lost>>
    BY <1>7 DEF Reply, Running, Copying, Renews
  <2>2. ASSUME NEW k \in 0 .. MaxCalls, left' = [left EXCEPT ![r] = k],
               Keep(r, copy[r], IF k = 0 THEN "final" ELSE "calls")
        PROVE  Inv'
    <3>1. Counters
      BY <1>7, <1>a, <2>2 DEF Reply, Counters
    <3>2. (IF k = 0 THEN "final" ELSE "calls") \in Onto
      BY DEF Onto, Running
    <3> QED
      BY <1>c, <2>1, <2>2, <3>1, <3>2, Keeps
  <2>3. CASE Goto(r, "release") /\ UNCHANGED <<copy, next, left>>
    BY <1>7, <1>a, <2>1, <2>3, Goes DEF Reply, Running, Firm, Copying
  <2> QED
    BY <1>7, <2>2, <2>3 DEF Reply
<1>8. CASE Answer(r)
  BY <1>0, <1>8, <1>a, <1>b, Reads DEF Answer, Firm, Onto, Running
<1>9. CASE AskTools(r)
  BY <1>0, <1>9, <1>a, <1>b, Reads DEF AskTools, Firm, Onto, Running
<1>10. CASE StartTool(r)
  BY <1>0, <1>10, <1>a, Reads DEF StartTool, Renews, Firm, Onto, Running
<1>11. CASE Draft(r)
  BY <1>11, <1>a, Reads DEF Draft, Onto, Running, LateSaves
<1>12. CASE Collect(r)
  BY <1>12, <1>a, Goes DEF Collect, Running, Firm, Copying
<1>13. CASE Link(r)
  BY <1>13, <1>a, Goes DEF Link, Running, Firm, Copying
<1>14. CASE Mark(r)
  <2>1. ASSUME NEW v \in Stored
        PROVE  [v EXCEPT !.result = r] \in Stored /\ Held([v EXCEPT !.result = r]) = Held(v)
    <3>1. v.mode \in Mode
      BY DEF Stored
    <3> QED
      BY <3>1, HeldChanged
  <2> QED
    BY <1>14, <1>a, <2>1, Reads DEF Mark, Onto, Running, LateSaves
<1>15. CASE Progress(r)
  BY <1>15, <1>a, Reads DEF Progress, Renews, Onto, Running
<1>16. CASE PlainTool(r)
  BY <1>16, <1>a, Goes DEF PlainTool, Running, Firm, Copying
<1>17. CASE EndTool(r)
  BY <1>17, <1>a, Reads DEF EndTool, Onto, Running, LateSaves
<1>18. CASE ToolMessage(r)
  <2>1. Counters /\ left[r] \in Int
    BY <1>18, <1>a DEF ToolMessage, Counters
  <2>2. (IF left[r] = 1 THEN "again" ELSE "tool") \in Onto
    BY DEF Onto, Running
  <2>3. Here(r) \in Stored => /\ With(Here(r), Call(r)) \in Stored
                              /\ Held(Here(r)) \subseteq Held(With(Here(r), Call(r)))
    BY <1>b, <2>1 DEF Call
  <2> QED
    BY <1>18, <2>1, <2>2, <2>3, Reads DEF ToolMessage, MayAppend, Renews, Running
<1>19. CASE Again(r)
  <2>1. /\ pc[r] \in Running /\ lock[at[r]] = r /\ Counters
        /\ UNCHANGED <<conv, lock, made, at, lost, next>>
    BY <1>0, <1>19, <1>a DEF Again, Firm
  <2>2. CASE Present(r) /\ copy' = [copy EXCEPT ![r] = conv[at[r]]] /\ Goto(r, "loop")
    <3>1. next' = [next EXCEPT ![r] = next[r]] /\ next[r] \in Place
      BY <2>1 DEF Inv, Typed
    <3>2. conv[at[r]] \in Stored
      BY <2>1, <2>2 DEF Inv, Typed, Locked, Present
    <3>3. "loop" \in Running /\ "loop" # "save"
      BY DEF Running
    <3> QED
      BY <2>1, <2>2, <3>1, <3>2, <3>3, Moves
  <2>3. CASE Goto(r, "release") /\ UNCHANGED copy
    BY <2>1, <2>3, Goes DEF Running, Firm, Copying
  <2> QED
    BY <1>19, <2>2, <2>3 DEF Again
<1>20. CASE ChangeMode(r)
  <2>1. PICK m \in Mode : Read(r, [Here(r) EXCEPT !.mode = m], "release")
    BY <1>20 DEF ChangeMode
  <2> QED
    BY <1>0, <1>20, <1>a, <2>1, HeldChanged, Reads
       DEF ChangeMode, Firm, Onto, Running
<1> QED
  BY <1>1, <1>2, <1>3, <1>4, <1>5, <1>6, <1>7, <1>8, <1>9, <1>10, <1>11, <1>12, <1>13,
     <1>14, <1>15, <1>16, <1>17, <1>18, <1>19, <1>20, <1>21 DEF Turn, Update

\* The steps of a creation and of a deletion.
LEMMA DeletionInv ==
  ASSUME Inv, NEW r \in Req, Discard(r) \/ Grow(r)
  PROVE  Inv'
<1> USE DEF store
<1>1. /\ at = [at EXCEPT ![r] = at[r]] /\ next = [next EXCEPT ![r] = next[r]]
      /\ next[r] \in Place /\ "done" \in Place /\ "clean" \in Place
      /\ conv \in [Conv -> Stored \cup {None}] /\ made \in SUBSET Conv
      /\ \A c \in Conv : conv[c] # None => c \in made
  BY DEF Inv, Typed, Owned, Place, Active
<1>2. ASSUME NEW c \in Conv, BeginDelete(r, c) PROVE Inv'
  BY <1>1, <1>2, Outside DEF BeginDelete
<1>3. CASE Members(r)
  <2>1. next[r] \in {"done", "clean"}
    BY <1>3 DEF Members, Inv, Onward
  <2> QED
    BY <1>1, <1>3, <2>1, Outside DEF Members
<1>4. CASE Delete(r)
  <2>1. next[r] \in {"done", "clean"}
    BY <1>4 DEF Delete, Inv, Onward
  <2>2. /\ conv' \in [Conv -> Stored \cup {None}]
        /\ \A c \in Conv : conv'[c] # None => conv'[c] = conv[c] /\ conv[c] # None
    BY <1>1, <1>4 DEF Delete
  <2> QED
    BY <1>1, <1>4, <2>1, <2>2, Outside DEF Delete
<1>5. CASE Unlist(r)
  <2>1. next[r] \in {"done", "clean"}
    BY <1>5 DEF Unlist, Inv, Onward
  <2> QED
    BY <1>1, <1>5, <2>1, Outside DEF Unlist
<1>6. ASSUME NEW c \in Conv, Create(r, c) PROVE Inv'
  <2>1. PICK m \in Mode : conv' = [conv EXCEPT ![c] = New(m)]
    BY <1>6 DEF Create
  <2>2. /\ conv' \in [Conv -> Stored \cup {None}]
        /\ \A d \in Conv : d # c => conv'[d] = conv[d]
        /\ Held(conv'[c]) = {}
    BY <1>1, <2>1, HeldNew
  <2>3. made' \in SUBSET Conv /\ made \subseteq made' /\ c \in made'
    BY <1>1, <1>6 DEF Create
  <2> QED
    BY <1>1, <1>6, <2>2, <2>3, Outside DEF Create
<1>7. CASE Clean(r)
  <2>1. CASE UNCHANGED <<pc, at, next>>
    BY <1>7, <2>1, Unmoved DEF Clean
  <2>2. CASE Goto(r, "done") /\ UNCHANGED <<index, at, next>>
    BY <1>1, <1>7, <2>2, Outside DEF Clean
  <2>3. CASE /\ at' = [at EXCEPT ![r] = Head(index)]
             /\ next' = [next EXCEPT ![r] = "clean"]
             /\ Goto(r, "members")
    BY <1>1, <1>7, <2>3, Outside DEF Clean
  <2> QED
    BY <1>7, <2>1, <2>2, <2>3 DEF Clean
<1> QED
  BY <1>2, <1>3, <1>4, <1>5, <1>6, <1>7 DEF Discard, Grow

LEMMA InvNext == Inv /\ [Next]_vars => Inv'
<1> SUFFICES ASSUME Inv, [Next]_vars PROVE Inv'
  OBVIOUS
<1> USE DEF store
<1>1. UNCHANGED <<step, left>> => Counters
  BY DEF Inv, Typed, Counters
<1>2. ASSUME NEW r \in Req, Work(r) PROVE Inv'
  <2>1. CASE Refused(r)
    BY <1>1, <2>1, Goes DEF Refused, Running, Firm, Copying
  <2> QED
    BY <1>2, <2>1, TurnInv, DeletionInv, SaveInv, ReleaseInv DEF Work
<1>3. ASSUME NEW r \in Req, Disconnect(r) PROVE Inv'
  BY <1>1, <1>3, Goes DEF Disconnect, Yields, Running, Firm, Copying
<1>4. CASE List
  BY <1>4, Unmoved DEF List
<1>5. CASE UNCHANGED vars
  BY <1>5, Unmoved DEF vars
<1> QED
  BY <1>2, <1>3, <1>4, <1>5, CrashInv, ExpireInv DEF Next

LEMMA InvHolds == Spec => []Inv
  BY InvInit, InvNext, PTL DEF Spec

\* Whatever a request saves, it holds the lock of the conversation then, however
\* long the model and its tools took; only what a tool call leaves behind, and a
\* compressed copy, may come late (renew_lock in runner.py).
THEOREM SavesAreLocked == Spec => []SavesUnderLock
<1>1. Inv => SavesUnderLock
  BY DEF Inv, Locked, Running, SavesUnderLock
<1> QED
  BY <1>1, InvHolds, PTL

\* Three kinds of steps change what is stored of conversations, three the locks.
LEMMA StoreChanges ==
  ASSUME [Next]_vars, conv' # conv
  PROVE  \E r \in Req : Save(r) \/ Delete(r) \/ \E c \in Conv : Create(r, c)
<1> USE DEF store
<1>1. ASSUME NEW r \in Req, Turn(r) \/ Update(r) PROVE FALSE
  BY <1>1 DEF Turn, Update, Acquire, Load, TakeMessage, Loop, Fold, Summarise, Ask, Reply,
     Answer, AskTools, StartTool, Draft, Collect, Link, Mark, Progress, PlainTool, EndTool,
     ToolMessage, Again, ChangeMode
<1>2. ASSUME NEW r \in Req, Work(r)
      PROVE  Save(r) \/ Delete(r) \/ \E c \in Conv : Create(r, c)
  BY <1>1, <1>2 DEF Work, Refused, Release, Discard, Grow, BeginDelete, Members, Unlist,
     Clean
<1> QED
  BY <1>2 DEF Next, vars, Disconnect, Crash, Expire, List

LEMMA LockChanges ==
  ASSUME [Next]_vars, lock' # lock
  PROVE  \/ \E r \in Req : \/ Release(r)
                           \/ \E c \in Conv : Acquire(r, c, "load") \/ Acquire(r, c, "change")
         \/ \E c \in Conv : Expire(c)
<1> USE DEF store
<1>1. ASSUME NEW r \in Req, Turn(r) \/ Update(r)
      PROVE  \E c \in Conv : Acquire(r, c, "load") \/ Acquire(r, c, "change")
  BY <1>1 DEF Turn, Update, Load, TakeMessage, Loop, Fold, Summarise, Ask, Reply,
     Answer, AskTools, StartTool, Draft, Collect, Link, Mark, Progress, PlainTool, EndTool,
     ToolMessage, Again, ChangeMode
<1>2. ASSUME NEW r \in Req, Work(r)
      PROVE  \/ Release(r)
             \/ \E c \in Conv : Acquire(r, c, "load") \/ Acquire(r, c, "change")
  BY <1>1, <1>2 DEF Work, Refused, Save, Discard, Grow, BeginDelete, Members, Delete,
     Unlist, Create, Clean
<1> QED
  BY <1>2 DEF Next, vars, Disconnect, Crash, List

\* No save of an older copy, and no compression, drops a message of a conversation
\* that no run outlives its lock on.
LEMMA MessagesStay ==
  ASSUME Inv, [Next]_vars, NEW c \in Conv, conv[c] # None, conv'[c] # None, Alone(c)
  PROVE  Held(conv[c]) \subseteq Held(conv'[c])
<1>1. CASE conv' = conv
  BY <1>1
<1>2. ASSUME NEW r \in Req, Save(r)
      PROVE  Held(conv[c]) \subseteq Held(conv'[c])
  <2>1. CASE at[r] = c
    <3>1. conv'[c] = copy[r] /\ pc[r] \in Copying
      BY <1>2, <2>1 DEF Save, Copying, Inv, Typed
    <3> QED
      BY <2>1, <3>1 DEF Inv, Current
  <2>2. CASE at[r] # c
    BY <1>2, <2>2 DEF Save, Inv, Typed
  <2> QED
    BY <2>1, <2>2
<1>3. ASSUME NEW r \in Req, Delete(r)
      PROVE  Held(conv[c]) \subseteq Held(conv'[c])
  BY <1>3 DEF Delete, Inv, Typed
<1>4. ASSUME NEW r \in Req, NEW d \in Conv, Create(r, d)
      PROVE  Held(conv[c]) \subseteq Held(conv'[c])
  <2>1. c # d
    BY <1>4 DEF Create, Inv, Owned
  <2>2. conv'[c] = conv[c]
    BY <1>4, <2>1 DEF Create, Inv, Typed
  <2> QED
    BY <2>2
<1> QED
  BY <1>1, <1>2, <1>3, <1>4, StoreChanges

\* A lock goes by the release of its holder, or when it runs out under a holder
\* that is slow or dead.
LEMMA LocksStay ==
  ASSUME Inv, [Next]_vars, NEW c \in Conv, NEW r \in Req, lock[c] = r, lock'[c] # r
  PROVE  \/ pc[r] \in {"over", "release"} /\ pc'[r] = "done"
         \/ r \in lost' \ lost
         \/ pc[r] = "dead"
<1>1. ASSUME NEW q \in Req, Release(q)
      PROVE  pc[r] \in {"over", "release"} /\ pc'[r] = "done"
  <2>1. q = r
    BY <1>1 DEF Release, Freed, Inv, Typed, Owned
  <2> QED
    BY <1>1, <2>1 DEF Release, Goto, Inv, Typed
<1>2. ASSUME NEW q \in Req, NEW d \in Conv, NEW l, Acquire(q, d, l)
      PROVE  FALSE
  BY <1>2, ChatAssumption DEF Acquire, Vacant, Inv, Typed
<1>3. ASSUME NEW d \in Conv, Expire(d)
      PROVE  r \in lost' \ lost \/ pc[r] = "dead"
  <2>1. d = c
    BY <1>3 DEF Expire, Inv, Typed
  <2>2. r \notin lost
    BY DEF Inv, Owned
  <2> QED
    BY <1>3, <2>1, <2>2 DEF Expire
<1> QED
  BY <1>1, <1>2, <1>3, LockChanges

\* Of what others saved or hold, a request takes nothing away: neither messages,
\* as long as no run outlives its lock on their conversation, nor locks, however
\* late it comes (storage.py).
THEOREM OthersKeepTheirs == Spec => OthersAreKept
<1> DEFINE M == \A c \in Conv :
                  (/\ conv[c] # None /\ conv'[c] # None
                   /\ \A r \in lost : at[r] # c)
                  => Held(conv[c]) \subseteq Held(conv'[c])
           L == \A c \in Conv : \A r \in Req :
                  (lock[c] = r /\ lock'[c] # r) =>
                    \/ pc[r] \in {"over", "release"} /\ pc'[r] = "done"
                    \/ r \in lost' \ lost
                    \/ pc[r] = "dead"
<1>1. Inv /\ [Next]_vars => [M]_vars
  BY MessagesStay DEF Alone
<1>2. Inv /\ [Next]_vars => [L]_vars
  BY LocksStay
<1>3. Spec => MessagesKept
  BY <1>1, InvHolds, PTL DEF Spec, MessagesKept
<1>4. Spec => OthersLockStays
  BY <1>2, InvHolds, PTL DEF Spec, OthersLockStays
<1> QED
  BY <1>3, <1>4 DEF OthersAreKept

-----------------------------------------------------------------------------
(* What the model is sent.                                                 *)

\* The calls in a sequence of messages, and whether they were answered.
Calls(s) == {i \in 1 .. Len(s) : s[i].role = "calls"}
Replied(s, i, n) ==
  \E j \in i + 1 .. Len(s) : /\ s[j].role = "tool" /\ s[j].by = s[i].by
                             /\ s[j].step = s[i].step /\ s[j].n = n
Full(s, i) == \A n \in 1 .. s[i].n : Replied(s, i, n)

\* Request r has asked in step st, and no message of a user came since: before
\* place j, or at all.
Asked(s, i, r, st) == i \in Calls(s) /\ s[i].by = r /\ s[i].step = st
Near(s, j, r, st) ==
  \E i \in 1 .. j - 1 : Asked(s, i, r, st) /\ \A k \in i .. j - 1 : s[k].role # "user"
Pending(s, r, st) == Near(s, Len(s) + 1, r, st)

\* Tool messages stand with their calls; what lacks an answer is of those in O.
ToolsNear(s) ==
  \A j \in 1 .. Len(s) : s[j].role = "tool" => Near(s, j, s[j].by, s[j].step)
Sound(s, O) ==
  ToolsNear(s) /\ \A i \in Calls(s) : Full(s, i) \/ s[i].by \in O

\* Of r's own calls all are answered, or those of step st down to the k-th.
OwnDone(s, r) == \A i \in Calls(s) : s[i].by = r => Full(s, i)
DownTo(s, i, k) == \A n \in 1 .. s[i].n : n > k => Replied(s, i, n)
OwnOpen(s, r, st, k) ==
  \A i \in Calls(s) : s[i].by = r =>
    \/ Full(s, i)
    \/ s[i].step = st /\ DownTo(s, i, k)

\* Sequence t is s with message m added.
Extends(s, m, t) ==
  /\ Len(s) \in Nat /\ Len(t) = Len(s) + 1 /\ t[Len(s) + 1] = m
  /\ \A i \in 1 .. Len(s) : t[i] = s[i] /\ s[i] \in Sent
  /\ Calls(t) = Calls(s) \cup (IF m.role = "calls" THEN {Len(s) + 1} ELSE {})
  /\ \A i \in Calls(s) : i \in 1 .. Len(s) /\ t[i] = s[i]

LEMMA Appended ==
  ASSUME NEW s \in Seq(Sent), NEW m \in Sent, NEW t, t = Append(s, m)
  PROVE  t \in Seq(Sent) /\ Extends(s, m, t)
<1>1. /\ t \in Seq(Sent) /\ Len(s) \in Nat /\ Len(t) = Len(s) + 1
      /\ \A i \in 1 .. Len(s) : t[i] = s[i] /\ s[i] \in Sent
      /\ t[Len(s) + 1] = m
  OBVIOUS
<1>2. Calls(t) = Calls(s) \cup (IF m.role = "calls" THEN {Len(s) + 1} ELSE {})
  BY <1>1 DEF Calls
<1>3. \A i \in Calls(s) : i \in 1 .. Len(s)
  BY DEF Calls
<1> QED
  BY <1>1, <1>2, <1>3 DEF Extends

\* What was answered stays so.
LEMMA StillReplied ==
  ASSUME NEW s \in Seq(Sent), NEW m \in Sent, NEW t, t = Append(s, m), NEW i \in Calls(s)
  PROVE  /\ \A n : Replied(s, i, n) => Replied(t, i, n)
         /\ Full(s, i) => Full(t, i)
         /\ \A k : DownTo(s, i, k) => DownTo(t, i, k)
<1>1. \A n : Replied(s, i, n) => Replied(t, i, n)
  BY Appended DEF Replied, Extends
<1> QED
  BY <1>1, Appended DEF Full, DownTo, Extends

LEMMA StillNear ==
  ASSUME NEW s \in Seq(Sent), NEW m \in Sent, NEW t, t = Append(s, m),
         NEW j \in 1 .. Len(s) + 1, NEW r, NEW st, Near(s, j, r, st)
  PROVE  Near(t, j, r, st)
<1>0. Extends(s, m, t)
  BY Appended
<1>1. PICK i \in 1 .. j - 1 :
        Asked(s, i, r, st) /\ \A k \in i .. j - 1 : s[k].role # "user"
  BY DEF Near
<1>2. Asked(t, i, r, st)
  BY <1>0, <1>1 DEF Asked, Extends
<1>3. \A k \in i .. j - 1 : k \in 1 .. Len(s)
  BY <1>0, <1>1 DEF Extends
<1> QED
  BY <1>0, <1>1, <1>2, <1>3 DEF Near, Extends

\* A message keeps the order, if a tool message answers calls that are pending
\* and calls are of one who may leave them so.
LEMMA SoundAppended ==
  ASSUME NEW s \in Seq(Sent), NEW m \in Sent, NEW t, t = Append(s, m), NEW O, Sound(s, O),
         m.role = "tool" => Pending(s, m.by, m.step),
         m.role = "calls" => m.by \in O
  PROVE  Sound(t, O)
<1>0. Extends(s, m, t)
  BY Appended
<1>1. ToolsNear(t)
  <2> SUFFICES ASSUME NEW j \in 1 .. Len(t), t[j].role = "tool"
               PROVE  Near(t, j, t[j].by, t[j].step)
    BY DEF ToolsNear
  <2>1. CASE j \in 1 .. Len(s)
    <3>1. t[j] = s[j] /\ j \in 1 .. Len(s) + 1
      BY <2>1, Appended DEF Extends
    <3>2. Near(s, j, t[j].by, t[j].step)
      BY <2>1, <3>1 DEF Sound, ToolsNear
    <3> QED
      BY <3>1, <3>2, StillNear
  <2>2. CASE j = Len(s) + 1
    <3>1. t[j] = m /\ j \in 1 .. Len(s) + 1
      BY <2>2, Appended DEF Extends
    <3> QED
      BY <2>2, <3>1, StillNear DEF Pending
  <2> QED
    BY <2>1, <2>2, Appended DEF Extends
<1>2. ASSUME NEW i \in Calls(t) PROVE Full(t, i) \/ t[i].by \in O
  <2>1. CASE i \in Calls(s)
    <3>1. t[i] = s[i] /\ (Full(s, i) \/ s[i].by \in O)
      BY <1>0, <2>1 DEF Sound, Extends
    <3>2. Full(s, i) => Full(t, i)
      BY <2>1, StillReplied
    <3> QED
      BY <3>1, <3>2
  <2>2. CASE i \notin Calls(s)
    BY <1>0, <1>2, <2>2 DEF Extends
  <2> QED
    BY <2>1, <2>2
<1> QED
  BY <1>1, <1>2 DEF Sound

LEMMA DoneAppended ==
  ASSUME NEW s \in Seq(Sent), NEW m \in Sent, NEW t, t = Append(s, m), NEW r,
         OwnDone(s, r), m.role # "calls"
  PROVE  OwnDone(t, r)
<1>0. Extends(s, m, t)
  BY Appended
<1>1. \A i \in Calls(s) : Full(s, i) => Full(t, i)
  BY StillReplied
<1> QED
  BY <1>0, <1>1 DEF OwnDone, Extends

\* The model asks: none of the new calls has an answer yet.
LEMMA CallsAppended ==
  ASSUME NEW s \in Seq(Sent), NEW m \in Sent, NEW t, t = Append(s, m),
         OwnDone(s, m.by), m.role = "calls"
  PROVE  OwnOpen(t, m.by, m.step, m.n) /\ Pending(t, m.by, m.step)
<1>0. Extends(s, m, t)
  BY Appended
<1>1. DownTo(t, Len(s) + 1, m.n)
  BY <1>0 DEF DownTo, Sent, Extends
<1>4. \A i \in Calls(s) : Full(s, i) => Full(t, i)
  BY StillReplied
<1>2. OwnOpen(t, m.by, m.step, m.n)
  BY <1>0, <1>1, <1>4 DEF OwnDone, OwnOpen, Extends
<1>3. Pending(t, m.by, m.step)
  <2>1. Asked(t, Len(s) + 1, m.by, m.step) /\ Len(s) + 1 \in 1 .. Len(t) + 1 - 1
    BY <1>0 DEF Asked, Extends
  <2>2. \A k \in Len(s) + 1 .. Len(t) + 1 - 1 : t[k].role # "user"
    <3>1. \A k \in Len(s) + 1 .. Len(t) + 1 - 1 : k = Len(s) + 1
      BY <1>0 DEF Extends
    <3> QED
      BY <1>0, <3>1 DEF Extends
  <2> QED
    BY <2>1, <2>2 DEF Pending, Near
<1> QED
  BY <1>2, <1>3

\* A tool answers: the calls of the step lack one answer less.
LEMMA ToolAppended ==
  ASSUME NEW s \in Seq(Sent), NEW m \in Sent, NEW t, t = Append(s, m), m.role = "tool",
         OwnOpen(s, m.by, m.step, m.n), Pending(s, m.by, m.step)
  PROVE  OwnOpen(t, m.by, m.step, m.n - 1) /\ Pending(t, m.by, m.step)
<1>0. Extends(s, m, t)
  BY Appended
<1>1. ASSUME NEW i \in Calls(t), t[i].by = m.by
      PROVE  Full(t, i) \/ (t[i].step = m.step /\ DownTo(t, i, m.n - 1))
  <2>1. i \in Calls(s) /\ t[i] = s[i] /\ i \in 1 .. Len(s)
    BY <1>0, <1>1 DEF Extends
  <2>2. CASE Full(s, i)
    BY <2>1, <2>2, StillReplied
  <2>3. CASE s[i].step = m.step /\ DownTo(s, i, m.n)
    <3>1. Replied(t, i, m.n)
      BY <1>0, <1>1, <2>1, <2>3 DEF Replied, Extends
    <3>2. DownTo(t, i, m.n)
      BY <2>1, <2>3, StillReplied
    <3>3. DownTo(t, i, m.n - 1)
      <4> SUFFICES ASSUME NEW n \in 1 .. t[i].n, n > m.n - 1
                   PROVE  Replied(t, i, n)
        BY DEF DownTo
      <4>1. n > m.n \/ n = m.n
        BY DEF Sent
      <4> QED
        BY <3>1, <3>2, <4>1 DEF DownTo
    <3> QED
      BY <2>1, <2>3, <3>3
  <2> QED
    BY <1>1, <2>1, <2>2, <2>3 DEF OwnOpen
<1>2. Pending(t, m.by, m.step)
  <2> PICK i \in 1 .. Len(s) + 1 - 1 :
        Asked(s, i, m.by, m.step) /\ \A k \in i .. Len(s) + 1 - 1 : s[k].role # "user"
    BY DEF Pending, Near
  <2>1. i \in 1 .. Len(t) + 1 - 1 /\ Asked(t, i, m.by, m.step)
    BY <1>0 DEF Asked, Extends
  <2>2. \A k \in i .. Len(t) + 1 - 1 : t[k].role # "user"
    <3>1. \A k \in i .. Len(t) + 1 - 1 : k \in i .. Len(s) + 1 - 1 \/ k = Len(s) + 1
      BY <1>0 DEF Extends
    <3>2. \A k \in i .. Len(s) + 1 - 1 : k \in 1 .. Len(s)
      BY <1>0 DEF Extends
    <3> QED
      BY <1>0, <3>1, <3>2 DEF Extends
  <2> QED
    BY <2>1, <2>2 DEF Pending, Near
<1> QED
  BY <1>1, <1>2 DEF OwnOpen

LEMMA AllAnswered ==
  ASSUME NEW s, NEW r, NEW st, OwnOpen(s, r, st, 0)
  PROVE  OwnDone(s, r)
  BY DEF OwnOpen, OwnDone, DownTo, Full

\* Compression cuts at a message of a user, so calls stay with their answers.
LEMMA SoundFolded ==
  ASSUME NEW v \in Stored, Foldable(v)
  PROVE  /\ \A O : Sound(v.messages, O) => Sound(Folded(v).messages, O)
         /\ \A r : OwnDone(v.messages, r) => OwnDone(Folded(v).messages, r)
<1> DEFINE s == v.messages
           k == KeepFrom(s)
           w == Folded(v).messages
<1>1. s \in Seq(Sent) /\ Len(s) \in Nat
  BY DEF Stored
<1>2. k \in 1 .. Len(s) /\ s[k].role = "user"
  BY <1>1, KeepFromIsThere DEF Foldable, UserAt
<1>3. w = SubSeq(s, k, Len(s))
  <2> DEFINE f == v.folded \cup {s[i] : i \in 1 .. k - 1}
             m == SubSeq(s, k, Len(s))
  <2>1. Folded(v) = [v EXCEPT !.folded = f, !.messages = m]
    BY DEF Folded
  <2> HIDE DEF w, f, m, s, k
  <2>2. /\ [v EXCEPT !.folded = f, !.messages = m].folded = f
        /\ [v EXCEPT !.folded = f, !.messages = m].messages = m
        /\ (f \in SUBSET Sent /\ m \in Seq(Sent)) =>
             [v EXCEPT !.folded = f, !.messages = m] \in Stored
    BY ValueChanged
  <2> QED
    BY <2>1, <2>2 DEF m, w
<1> HIDE DEF s, k, w
<1>4. /\ Len(w) = Len(s) - k + 1
      /\ \A i \in 1 .. Len(w) : w[i] = s[i + k - 1] /\ i + k - 1 \in k .. Len(s)
  BY <1>1, <1>2, <1>3
<1>5. \A i \in Calls(w) : i \in 1 .. Len(w) /\ i + k - 1 \in Calls(s) /\ w[i] = s[i + k - 1]
  BY <1>1, <1>2, <1>4 DEF Calls
<1>6. ASSUME NEW i \in Calls(w), Full(s, i + k - 1) PROVE Full(w, i)
  <2> SUFFICES ASSUME NEW n \in 1 .. w[i].n PROVE Replied(w, i, n)
    BY DEF Full
  <2>1. PICK j \in i + k - 1 + 1 .. Len(s) :
          /\ s[j].role = "tool" /\ s[j].by = s[i + k - 1].by
          /\ s[j].step = s[i + k - 1].step /\ s[j].n = n
    BY <1>5, <1>6 DEF Full, Replied
  <2>2. j - k + 1 \in i + 1 .. Len(w) /\ j - k + 1 + k - 1 = j /\ j - k + 1 \in 1 .. Len(w)
    BY <1>1, <1>2, <1>4, <1>5, <2>1
  <2>3. w[j - k + 1] = s[j]
    BY <1>4, <2>2
  <2> QED
    BY <1>5, <2>1, <2>2, <2>3 DEF Replied
<1>7. ASSUME ToolsNear(s) PROVE ToolsNear(w)
  <2> SUFFICES ASSUME NEW j \in 1 .. Len(w), w[j].role = "tool"
               PROVE  Near(w, j, w[j].by, w[j].step)
    BY DEF ToolsNear
  <2> DEFINE h == j + k - 1
  <2>1. h \in k .. Len(s) /\ h \in 1 .. Len(s) /\ w[j] = s[h] /\ h # k
    BY <1>1, <1>2, <1>4
  <2>2. PICK i \in 1 .. h - 1 :
          /\ Asked(s, i, s[h].by, s[h].step)
          /\ \A l \in i .. h - 1 : s[l].role # "user"
    BY <1>7, <2>1 DEF ToolsNear, Near
  <2>3. i > k
    <3>1. i \in Int /\ h \in Int /\ k \in Int /\ k <= h - 1
      BY <1>1, <1>2, <2>1
    <3>2. i < k \/ i = k \/ i > k
      BY <3>1
    <3>3. i <= k => k \in i .. h - 1
      BY <3>1
    <3> QED
      BY <1>2, <2>2, <3>1, <3>2, <3>3
  <2>4. /\ i - k + 1 \in 1 .. j - 1 /\ i - k + 1 \in 1 .. Len(w)
        /\ i - k + 1 + k - 1 = i
    BY <1>1, <1>2, <1>4, <2>1, <2>2, <2>3
  <2>5. w[i - k + 1] = s[i]
    BY <1>4, <2>4
  <2>6. Asked(w, i - k + 1, w[j].by, w[j].step)
    BY <2>1, <2>2, <2>4, <2>5 DEF Asked, Calls
  <2>7. ASSUME NEW l \in i - k + 1 .. j - 1 PROVE w[l].role # "user"
    <3>1. l \in 1 .. Len(w) /\ l + k - 1 \in i .. h - 1
      BY <1>1, <1>2, <1>4, <2>2, <2>3
    <3> QED
      BY <1>4, <2>2, <3>1
  <2> QED
    BY <2>4, <2>6, <2>7 DEF Near
<1>8. \A O : Sound(s, O) => Sound(w, O)
  BY <1>5, <1>6, <1>7 DEF Sound
<1>9. \A r : OwnDone(s, r) => OwnDone(w, r)
  BY <1>5, <1>6 DEF OwnDone
<1> QED
  BY <1>8, <1>9 DEF s, w

\* Who may leave calls without answers: who has ended, and who is at work there.
Ended      == {p \in Req : pc[p] \in {"done", "dead"}}
Excused(c) == Ended \cup {p \in Req : lock[c] = p /\ pc[p] \in Running}

\* A request has no open calls when it turns to the model, and those of its step
\* while it goes through its tools.
Resting == {"load", "user", "first", "loop", "fold", "summary", "ask", "wait", "calls",
            "final", "again"}
Asking  == {"tool", "exec", "drafted", "link", "mark", "told", "answer"}
Fit(s, r, l, st, k) ==
  /\ l \in Resting => OwnDone(s, r)
  /\ l \in Asking => OwnOpen(s, r, st, k) /\ Pending(s, r, st)

ConvFits(c) == conv[c] # None => Sound(conv[c].messages, Excused(c))
Turns(r)    == IF pc[r] = "save" THEN next[r] ELSE pc[r]
RunFits(r) ==
  /\ pc[r] \in Running /\ conv[at[r]] # None =>
       Fit(conv[at[r]].messages, r, pc[r], step[r], left[r])
  /\ pc[r] \in Copying =>
       /\ Sound(copy[r].messages, Ended \cup {r})
       /\ Fit(copy[r].messages, r, Turns(r), step[r], left[r])

Wire ==
  lost = {} => (\A c \in Conv : ConvFits(c)) /\ (\A r \in Req : RunFits(r))

LEMMA SoundMore ==
  ASSUME NEW s, NEW O, NEW P, O \subseteq P, Sound(s, O)
  PROVE  Sound(s, P)
  BY DEF Sound

LEMMA WireStart == Init => Wire
<1> SUFFICES ASSUME Init PROVE Wire
  OBVIOUS
<1>1. \A O : Sound(<<>>, O)
  BY DEF Sound, ToolsNear, Calls
<1>2. \A c \in Conv : conv[c] # None => conv[c].messages = <<>>
  BY DEF Init, New
<1>3. \A r \in Req : pc[r] = "idle"
  BY DEF Init
<1> QED
  BY <1>1, <1>2, <1>3 DEF Wire, ConvFits, RunFits, Running, Copying

LEMMA WireTrue == Inv /\ Wire => WireIsAnswered
<1> SUFFICES ASSUME Inv, Wire, lost = {}, NEW r \in Req, pc[r] = "wait",
                    NEW s, s = copy[r].messages
             PROVE  /\ \A i \in Unanswered(s) :
                         s[i].by # r /\ pc[s[i].by] \in {"done", "dead"}
                    /\ \A j \in 1 .. Len(s) : s[j].role = "tool" =>
                         \E i \in 1 .. j - 1 : /\ s[i].role = "calls" /\ s[i].by = s[j].by
                                               /\ s[i].step = s[j].step
  BY DEF WireIsAnswered
<1>1. Sound(s, Ended \cup {r}) /\ OwnDone(s, r)
  BY DEF Wire, RunFits, Turns, Fit, Copying, Resting
<1>2. \A i \in Unanswered(s) : i \in Calls(s) /\ ~Full(s, i)
  BY DEF Unanswered, Calls, Full, Replied
<1>3. \A j \in 1 .. Len(s) : s[j].role = "tool" =>
        \E i \in 1 .. j - 1 : /\ s[i].role = "calls" /\ s[i].by = s[j].by
                              /\ s[i].step = s[j].step
  BY <1>1 DEF Sound, ToolsNear, Near, Asked, Calls
<1> QED
  BY <1>1, <1>2, <1>3 DEF Sound, OwnDone, Ended

\* A request that lost no lock holds that of its conversation, so besides those
\* who ended only it may leave calls open there.
LEMMA ExcusedAt ==
  ASSUME Inv, lost = {}, NEW r \in Req, pc[r] \in Running
  PROVE  /\ lock[at[r]] = r /\ at[r] \in Conv
         /\ Excused(at[r]) \subseteq Ended \cup {r}
  BY DEF Inv, Typed, Locked, Excused

LEMMA CopyingRuns == \A l \in Copying : l \in Running
  BY DEF Copying, Running

\* A request on its way goes on or ends; the others stay as they are.
LEMMA WireMoves ==
  ASSUME Inv, Wire, NEW r \in Req, pc[r] \in Running,
         NEW l \in Running \cup {"done", "dead"}, Goto(r, l),
         UNCHANGED <<conv, at, lost>>,
         \A c \in Conv : lock'[c] = lock[c] \/ (lock[c] = r /\ l \notin Running),
         \A q \in Req \ {r} : /\ copy'[q] = copy[q] /\ next'[q] = next[q]
                              /\ step'[q] = step[q] /\ left'[q] = left[q],
         lost = {} => RunFits(r)'
  PROVE  Wire'
<1> SUFFICES ASSUME lost = {}
             PROVE  (\A c \in Conv : ConvFits(c)') /\ (\A q \in Req : RunFits(q)')
  BY DEF Wire
<1>1. pc'[r] = l /\ \A q \in Req \ {r} : pc'[q] = pc[q]
  BY DEF Inv, Typed, Goto
<1>2. Ended \subseteq Ended'
  BY <1>1 DEF Ended, Running
<1>3. \A c \in Conv : Excused(c) \subseteq Excused(c)'
  BY <1>1, <1>2 DEF Excused, Ended
<1>4. ASSUME NEW c \in Conv PROVE ConvFits(c)'
  <2>1. ConvFits(c)
    BY DEF Wire
  <2> QED
    BY <1>3, <2>1, SoundMore DEF ConvFits
<1>5. ASSUME NEW q \in Req, q # r PROVE RunFits(q)'
  <2>1. RunFits(q)
    BY DEF Wire
  <2>2. Ended \cup {q} \subseteq Ended' \cup {q}
    BY <1>2
  <2>3. Sound(copy[q].messages, Ended \cup {q}) => Sound(copy[q].messages, Ended' \cup {q})
    BY <2>2, SoundMore
  <2> QED
    BY <1>1, <1>5, <2>1, <2>3 DEF RunFits, Turns
<1> QED
  BY <1>4, <1>5

\* It goes on with the conversation and the copy as they are.
LEMMA WireGoes ==
  ASSUME Inv, Wire, NEW r \in Req, pc[r] \in Running,
         NEW l \in (Running \ {"save"}) \cup {"done", "dead"}, Goto(r, l),
         UNCHANGED <<conv, at, lost, copy, next>>,
         \A c \in Conv : lock'[c] = lock[c] \/ (lock[c] = r /\ l \notin Running),
         \A q \in Req \ {r} : step'[q] = step[q] /\ left'[q] = left[q],
         l \in Asking => /\ pc[r] \in Asking
                         /\ step'[r] = step[r] /\ left'[r] = left[r],
         l \in Resting => pc[r] \in Resting,
         l \in Copying => pc[r] \in Copying \cap Resting /\ l \in Resting
  PROVE  Wire'
<1> SUFFICES ASSUME lost = {} PROVE RunFits(r)'
  BY WireMoves
<1>1. pc'[r] = l
  BY DEF Inv, Typed, Goto
<1>2. RunFits(r)
  BY DEF Wire
<1>3. Ended \cup {r} \subseteq Ended' \cup {r}
  BY DEF Ended, Goto, Inv, Typed
<1>4. \A s : Sound(s, Ended \cup {r}) => Sound(s, Ended' \cup {r})
  BY <1>3, SoundMore
<1>5. \A s : Fit(s, r, pc[r], step[r], left[r]) => Fit(s, r, l, step'[r], left'[r])
  BY DEF Fit
<1>6. l \in Running => l # "save"
  BY DEF Running
<1>7. l \in Copying => Turns(r) = pc[r] /\ Turns(r)' = l
  BY <1>1, <1>6 DEF Turns, Resting, Copying
<1>8. conv'[at'[r]] = conv[at[r]] /\ copy'[r] = copy[r]
  OBVIOUS
<1>9. (pc'[r] \in Running /\ conv'[at'[r]] # None) =>
        Fit(conv'[at'[r]].messages, r, pc'[r], step'[r], left'[r])
  BY <1>1, <1>2, <1>5, <1>8 DEF RunFits
<1>10. pc'[r] \in Copying => /\ Sound(copy'[r].messages, Ended' \cup {r})
                             /\ Fit(copy'[r].messages, r, Turns(r)', step'[r], left'[r])
  BY <1>1, <1>2, <1>4, <1>5, <1>7, <1>8 DEF RunFits
<1> QED
  BY <1>9, <1>10 DEF RunFits

\* It changes its copy and saves it next.
LEMMA WireKeeps ==
  ASSUME Inv, Wire, NEW r \in Req, pc[r] \in Running, NEW v, NEW n,
         Keep(r, v, n), UNCHANGED <<conv, lock, at, lost>>,
         \A q \in Req \ {r} : step'[q] = step[q] /\ left'[q] = left[q],
         lost = {} => /\ Sound(v.messages, Ended \cup {r})
                      /\ Fit(v.messages, r, n, step'[r], left'[r])
  PROVE  Wire'
<1>1. /\ "save" \in Running /\ Goto(r, "save") /\ copy'[r] = v /\ next'[r] = n
      /\ \A q \in Req \ {r} : copy'[q] = copy[q] /\ next'[q] = next[q]
      /\ pc'[r] = "save"
  BY DEF Keep, Goto, Running, Inv, Typed
<1>2. ASSUME lost = {} PROVE RunFits(r)'
  <2>1. Ended \cup {r} \subseteq Ended' \cup {r}
    BY DEF Ended, Keep, Goto, Inv, Typed
  <2>2. Sound(v.messages, Ended' \cup {r})
    BY <1>2, <2>1, SoundMore
  <2>3. Fit(v.messages, r, n, step'[r], left'[r])
    BY <1>2
  <2>4. Turns(r)' = n
    BY <1>1 DEF Turns
  <2>5. \A s, i, k : Fit(s, r, "save", i, k)
    BY DEF Fit, Resting, Asking
  <2> QED
    BY <1>1, <2>2, <2>3, <2>4, <2>5 DEF RunFits
<1> QED
  BY <1>1, <1>2, WireMoves

\* It reads the conversation and keeps what it makes of it.
LEMMA WireReads ==
  ASSUME Inv, Wire, NEW r \in Req, pc[r] \in Running, NEW v, NEW n,
         Read(r, v, n), UNCHANGED <<conv, lock, at, lost>>,
         \A q \in Req \ {r} : step'[q] = step[q] /\ left'[q] = left[q],
         (/\ lost = {} /\ Here(r) \in Stored
          /\ Sound(Here(r).messages, Ended \cup {r})
          /\ Fit(Here(r).messages, r, pc[r], step[r], left[r]))
           => /\ Sound(v.messages, Ended \cup {r})
              /\ Fit(v.messages, r, n, step'[r], left'[r])
  PROVE  Wire'
<1>1. CASE Present(r)
  <2>1. ASSUME lost = {}
        PROVE  /\ Here(r) \in Stored /\ Sound(Here(r).messages, Ended \cup {r})
               /\ Fit(Here(r).messages, r, pc[r], step[r], left[r])
    <3>1. at[r] \in Conv /\ Excused(at[r]) \subseteq Ended \cup {r}
      BY <2>1, ExcusedAt
    <3>2. conv[at[r]] # None /\ Here(r) = conv[at[r]] /\ Here(r) \in Stored
      BY <1>1, <3>1 DEF Present, Here, Inv, Typed
    <3>3. Sound(Here(r).messages, Excused(at[r]))
      BY <2>1, <3>1, <3>2 DEF Wire, ConvFits
    <3>4. RunFits(r)
      BY <2>1 DEF Wire
    <3> QED
      BY <3>1, <3>2, <3>3, <3>4, SoundMore DEF RunFits
  <2> QED
    BY <1>1, <2>1, WireKeeps DEF Read
<1>2. CASE ~Present(r)
  <2>1. /\ "release" \in Running \ {"save"}
        /\ "release" \notin Asking \cup Resting \cup Copying
    BY DEF Running, Asking, Resting, Copying
  <2>2. Goto(r, "release") /\ UNCHANGED <<copy, next>>
    BY <1>2 DEF Read
  <2> QED
    BY <2>1, <2>2, WireGoes
<1> QED
  BY <1>1, <1>2

LEMMA WireUnmoved ==
  ASSUME Wire, UNCHANGED <<conv, lock, lost, pc, at, copy, next, step, left>>
  PROVE  Wire'
<1>1. /\ Ended' = Ended /\ \A c \in Conv : Excused(c)' = Excused(c)
      /\ \A r \in Req : Turns(r)' = Turns(r)
  BY DEF Ended, Excused, Turns
<1> QED
  BY <1>1 DEF Wire, ConvFits, RunFits

\* A request that takes up a conversation has no calls there: who left some open
\* has ended or is at work.
LEMMA WireAcquires ==
  ASSUME Inv, Wire, NEW r \in Req, NEW c \in Conv, NEW l \in {"load", "change"},
         Acquire(r, c, l)
  PROVE  Wire'
<1> USE DEF Acquire, Goto, Vacant
<1> SUFFICES ASSUME lost = {}
             PROVE  (\A d \in Conv : ConvFits(d)') /\ (\A q \in Req : RunFits(q)')
  BY DEF Wire
<1>1. /\ pc'[r] = l /\ at'[r] = c /\ pc[r] = "idle" /\ lock[c] \notin Req
      /\ \A q \in Req \ {r} : pc'[q] = pc[q] /\ at'[q] = at[q]
      /\ \A d \in Conv \ {c} : lock'[d] = lock[d]
  BY ChatAssumption DEF Inv, Typed
<1>2. Ended \subseteq Ended'
  BY <1>1 DEF Ended
<1>3. \A d \in Conv : Excused(d) \subseteq Excused(d)' /\ r \notin Excused(d)
  BY <1>1, <1>2 DEF Excused, Ended, Running
<1>4. ASSUME NEW d \in Conv PROVE ConvFits(d) /\ ConvFits(d)'
  <2>1. ConvFits(d)
    BY DEF Wire
  <2> QED
    BY <1>3, <2>1, SoundMore DEF ConvFits
<1>5. ASSUME NEW q \in Req, q # r PROVE RunFits(q)'
  <2>1. RunFits(q)
    BY DEF Wire
  <2>2. Ended \cup {q} \subseteq Ended' \cup {q}
    BY <1>2
  <2>3. Sound(copy[q].messages, Ended \cup {q}) => Sound(copy[q].messages, Ended' \cup {q})
    BY <2>2, SoundMore
  <2> QED
    BY <1>1, <1>5, <2>1, <2>3 DEF RunFits, Turns
<1>6. RunFits(r)'
  <2>1. OwnDone(conv[c].messages, r)
    BY <1>3, <1>4 DEF ConvFits, Sound, OwnDone
  <2> QED
    BY <1>1, <2>1 DEF RunFits, Fit, Asking, Copying
<1> QED
  BY <1>4, <1>5, <1>6

\* What is saved is the copy: what holds of it holds of the conversation then.
LEMMA WireSaves ==
  ASSUME Inv, Wire, NEW r \in Req, Save(r)
  PROVE  Wire'
<1> USE DEF Save, Goto
<1> SUFFICES ASSUME lost = {}
             PROVE  (\A c \in Conv : ConvFits(c)') /\ (\A q \in Req : RunFits(q)')
  BY DEF Wire
<1>1. /\ pc[r] = "save" /\ pc[r] \in Running /\ pc[r] \in Copying /\ copy[r] \in Stored
      /\ next[r] \in Onto /\ next[r] \in Running /\ next[r] # "save"
  BY DEF Inv, Current, Copying, Running, Onward, Onto
<1>2. lock[at[r]] = r /\ at[r] \in Conv
  BY <1>1, ExcusedAt
<1>3. /\ \A q \in Req \ {r} : pc'[q] = pc[q]
      /\ pc'[r] = next[r]
      /\ conv'[at[r]] = copy[r] /\ \A c \in Conv \ {at[r]} : conv'[c] = conv[c]
  BY <1>2 DEF Inv, Typed
<1>4. /\ Sound(copy[r].messages, Ended \cup {r})
      /\ Fit(copy[r].messages, r, next[r], step[r], left[r])
  BY <1>1 DEF Wire, RunFits, Turns
<1>5. Ended \subseteq Ended' /\ \A c \in Conv : Excused(c) \subseteq Excused(c)'
  BY <1>1, <1>3 DEF Ended, Excused
<1>6. ASSUME NEW c \in Conv PROVE ConvFits(c)'
  <2>1. CASE c = at[r]
    <3>1. Ended \cup {r} \subseteq Excused(c)'
      BY <1>1, <1>2, <1>3, <1>5, <2>1 DEF Excused
    <3>2. Sound(copy[r].messages, Excused(c)')
      BY <1>4, <3>1, SoundMore
    <3> QED
      BY <1>3, <2>1, <3>2 DEF ConvFits
  <2>2. CASE c # at[r]
    <3>1. ConvFits(c)
      BY DEF Wire
    <3> QED
      BY <1>3, <1>5, <2>2, <3>1, SoundMore DEF ConvFits
  <2> QED
    BY <2>1, <2>2
<1>7. ASSUME NEW q \in Req, q # r PROVE RunFits(q)'
  <2>1. RunFits(q)
    BY DEF Wire
  <2>2. Ended \cup {q} \subseteq Ended' \cup {q}
    BY <1>5
  <2>3. Sound(copy[q].messages, Ended \cup {q}) => Sound(copy[q].messages, Ended' \cup {q})
    BY <2>2, SoundMore
  <2>4. pc[q] \in Running => at[q] \in Conv /\ at[q] # at[r]
    BY <1>2, <1>7, ExcusedAt
  <2>5. pc[q] \in Running => conv'[at[q]] = conv[at[q]]
    BY <1>3, <2>4
  <2> QED
    BY <1>3, <1>7, <2>1, <2>3, <2>5 DEF RunFits, Turns
<1>8. RunFits(r)'
  <2>1. Ended \cup {r} \subseteq Ended' \cup {r}
    BY <1>5
  <2>2. Sound(copy[r].messages, Ended' \cup {r})
    BY <1>4, <2>1, SoundMore
  <2> QED
    BY <1>1, <1>3, <1>4, <2>2 DEF RunFits, Turns
<1> QED
  BY <1>6, <1>7, <1>8

\* A request without a lock makes new conversations and deletes some.
LEMMA WireOutside ==
  ASSUME Inv, Wire, NEW r \in Req,
         pc[r] \in {"idle", "members", "delete", "unlist", "clean"},
         NEW l \in {"members", "delete", "unlist", "clean", "done", "dead"}, Goto(r, l),
         NEW a, at' = [at EXCEPT ![r] = a],
         NEW n, next' = [next EXCEPT ![r] = n],
         UNCHANGED <<lock, lost, copy, step, left>>,
         \A c \in Conv : \/ conv'[c] \in {conv[c], None}
                         \/ c \notin made /\ conv'[c].messages = <<>>
  PROVE  Wire'
<1> USE DEF Goto
<1> SUFFICES ASSUME lost = {}
             PROVE  (\A c \in Conv : ConvFits(c)') /\ (\A q \in Req : RunFits(q)')
  BY DEF Wire
<1>1. /\ \A q \in Req \ {r} : pc'[q] = pc[q] /\ at'[q] = at[q] /\ next'[q] = next[q]
      /\ pc'[r] = l /\ l \notin Running \cup Copying /\ pc[r] \notin Running
      /\ pc[r] \notin {"done", "dead"}
  BY DEF Inv, Typed, Running, Copying
<1>2. Ended \subseteq Ended' /\ \A c \in Conv : Excused(c) \subseteq Excused(c)'
  BY <1>1 DEF Ended, Excused
<1>3. ASSUME NEW c \in Conv PROVE ConvFits(c)'
  <2>1. ConvFits(c)
    BY DEF Wire
  <2>2. Sound(<<>>, Excused(c)')
    BY DEF Sound, ToolsNear, Calls
  <2> QED
    BY <1>2, <2>1, <2>2, SoundMore DEF ConvFits
<1>4. ASSUME NEW q \in Req, q # r PROVE RunFits(q)'
  <2>1. RunFits(q)
    BY DEF Wire
  <2>2. Ended \cup {q} \subseteq Ended' \cup {q}
    BY <1>2
  <2>3. Sound(copy[q].messages, Ended \cup {q}) => Sound(copy[q].messages, Ended' \cup {q})
    BY <2>2, SoundMore
  <2>4. pc[q] \in Running => at[q] \in made /\ at[q] \in Conv
    BY DEF Inv, Typed, Locked
  <2>5. pc[q] \in Running => conv'[at[q]] \in {conv[at[q]], None}
    BY <2>4
  <2> QED
    BY <1>1, <1>4, <2>1, <2>3, <2>5 DEF RunFits, Turns
<1>5. RunFits(r)'
  BY <1>1 DEF RunFits
<1> QED
  BY <1>3, <1>4, <1>5

LEMMA WireExpires ==
  ASSUME Inv, Wire, NEW c \in Conv, Expire(c)
  PROVE  Wire'
<1> SUFFICES ASSUME lost' = {}
             PROVE  (\A d \in Conv : ConvFits(d)') /\ (\A q \in Req : RunFits(q)')
  BY DEF Wire
<1>1. lost = {} /\ pc[lock[c]] = "dead" /\ \A d \in Conv \ {c} : lock'[d] = lock[d]
  BY DEF Expire, Inv, Typed
<1>2. UNCHANGED <<conv, pc, at, copy, next, step, left>>
  BY DEF Expire
<1>3. Ended' = Ended /\ \A q \in Req : Turns(q)' = Turns(q)
  BY <1>2 DEF Ended, Turns
<1>4. \A d \in Conv : Excused(d) \subseteq Excused(d)'
  BY <1>1, <1>2, <1>3 DEF Excused, Running
<1>5. ASSUME NEW d \in Conv PROVE ConvFits(d)'
  <2>1. ConvFits(d)
    BY <1>1 DEF Wire
  <2> QED
    BY <1>2, <1>4, <2>1, SoundMore DEF ConvFits
<1>6. \A q \in Req : RunFits(q)'
  BY <1>1, <1>2, <1>3 DEF Wire, RunFits
<1> QED
  BY <1>5, <1>6

LEMMA MessageAdded ==
  ASSUME Inv, NEW r \in Req, NEW k \in Int, NEW v \in Stored,
         NEW role \in {"user", "calls", "tool", "final"}, NEW m, m = Msg(role, r, k)
  PROVE  /\ m \in Sent /\ v.messages \in Seq(Sent)
         /\ With(v, m).messages = Append(v.messages, m)
         /\ m.role = role /\ m.by = r /\ m.step = step[r] /\ m.n = k
<1>1. m \in Sent
  BY MessageSent
<1> QED
  BY <1>1 DEF With, Stored, Msg

\* The steps of a chat turn: a message of the user, a request to the model, its
\* answer, its calls, and their answers one after the other.
LEMMA WireTurns ==
  ASSUME Inv, Wire, NEW r \in Req, Turn(r) \/ Update(r)
  PROVE  Wire'
<1> USE DEF store
<1>0. UNCHANGED <<step, left>> =>
        \A q \in Req \ {r} : step'[q] = step[q] /\ left'[q] = left[q]
  OBVIOUS
<1>1. ASSUME NEW c \in Conv, NEW l \in {"load", "change"}, Acquire(r, c, l) PROVE Wire'
  BY <1>1, WireAcquires
<1>2. CASE Load(r)
  <2>1. pc[r] \in Running /\ UNCHANGED <<conv, lock, at, lost, next, step, left>>
    BY <1>2 DEF Load, Running
  <2>2. CASE Present(r)
    <3>1. /\ Goto(r, "user") /\ pc[r] = "load" /\ pc'[r] = "user"
          /\ \A q \in Req \ {r} : copy'[q] = copy[q]
      BY <1>2, <2>2 DEF Load, Goto, Inv, Typed
    <3>2. lost = {} => RunFits(r)'
      BY <2>1, <3>1 DEF Wire, RunFits, Fit, Resting, Asking, Copying, Running
    <3> QED
      BY <2>1, <3>1, <3>2, WireMoves DEF Running
  <2>3. CASE ~Present(r)
    BY <1>2, <2>1, <2>3, WireGoes DEF Load, Running, Asking, Resting, Copying
  <2> QED
    BY <2>2, <2>3
<1>3. CASE TakeMessage(r)
  <2> DEFINE m == Msg("user", r, 0)
             v == With(Here(r), m)
  <2>1. /\ pc[r] = "user" /\ pc[r] \in Running /\ Read(r, v, "first")
        /\ UNCHANGED <<conv, lock, at, lost, step, left>>
    BY <1>3 DEF TakeMessage, Running
  <2>2. ASSUME Here(r) \in Stored, Sound(Here(r).messages, Ended \cup {r}),
               Fit(Here(r).messages, r, pc[r], step[r], left[r])
        PROVE  /\ Sound(v.messages, Ended \cup {r})
               /\ Fit(v.messages, r, "first", step'[r], left'[r])
    <3>1. /\ v.messages = Append(Here(r).messages, m) /\ Here(r).messages \in Seq(Sent)
          /\ m \in Sent /\ m.role = "user"
      BY <2>2, MessageAdded
    <3>2. OwnDone(Here(r).messages, r)
      BY <2>1, <2>2 DEF Fit, Resting
    <3>3. Sound(v.messages, Ended \cup {r}) /\ OwnDone(v.messages, r)
      <4> HIDE DEF v, m
      <4> QED
        BY <2>2, <3>1, <3>2, SoundAppended, DoneAppended
    <3> QED
      BY <3>3 DEF Fit, Asking
  <2> HIDE DEF v
  <2> QED
    BY <1>0, <2>1, <2>2, WireReads
<1>4. CASE Loop(r)
  BY <1>4, WireGoes DEF Loop, Running, Asking, Resting, Copying
<1>5. ASSUME NEW from \in {"first", "fold"}, NEW to \in {"loop", "ask"},
             Fold(r, from, to)
      PROVE  Wire'
  <2>1. /\ pc[r] = from /\ pc[r] \in Running /\ pc[r] \in Copying
        /\ UNCHANGED <<conv, lock, at, lost, step, left, copy>>
    BY <1>5 DEF Fold, Running, Copying
  <2>2. CASE Goto(r, to) /\ UNCHANGED next
    BY <2>1, <2>2, WireGoes DEF Running, Asking, Resting, Copying
  <2>3. CASE Goto(r, "summary") /\ next' = [next EXCEPT ![r] = to]
    <3>1. pc'[r] = "summary" /\ \A q \in Req \ {r} : next'[q] = next[q]
      BY <2>3 DEF Goto, Inv, Typed
    <3>2. Ended \cup {r} \subseteq Ended' \cup {r}
      BY <2>3 DEF Ended, Goto, Inv, Typed
    <3>3. lost = {} => RunFits(r)'
      <4> SUFFICES ASSUME lost = {} PROVE RunFits(r)'
        OBVIOUS
      <4>1. RunFits(r) /\ Turns(r) = from /\ Turns(r)' = "summary"
        BY <2>1, <3>1 DEF Wire, Turns
      <4>2. Sound(copy[r].messages, Ended' \cup {r})
        BY <2>1, <3>2, <4>1, SoundMore DEF RunFits
      <4> QED
        BY <2>1, <3>1, <4>1, <4>2 DEF RunFits, Fit, Resting, Asking
    <3> QED
      BY <1>0, <2>1, <2>3, <3>1, <3>3, WireMoves DEF Running
  <2> QED
    BY <1>5, <2>2, <2>3 DEF Fold
<1>22. CASE Summarise(r)
  <2>1. /\ pc[r] = "summary" /\ pc[r] \in Running /\ pc[r] \in Copying
        /\ next[r] \in {"loop", "ask"} /\ Foldable(copy[r])
        /\ UNCHANGED <<conv, lock, at, lost, step, left>>
    BY <1>22 DEF Summarise, Running, Copying, Inv, Onward
  <2>2. PICK v \in {copy[r], Folded(copy[r])} : Keep(r, v, next[r])
    BY <1>22 DEF Summarise
  <2>3. copy[r] \in Stored
    BY <2>1 DEF Inv, Current
  <2>4. ASSUME lost = {}
        PROVE  Sound(v.messages, Ended \cup {r}) /\ OwnDone(v.messages, r)
    <3>1. Sound(copy[r].messages, Ended \cup {r}) /\ OwnDone(copy[r].messages, r)
      BY <2>1, <2>4 DEF Wire, RunFits, Turns, Fit, Resting
    <3> QED
      BY <2>1, <2>2, <2>3, <3>1, SoundFolded
  <2>5. lost = {} => /\ Sound(v.messages, Ended \cup {r})
                     /\ Fit(v.messages, r, next[r], step'[r], left'[r])
    BY <2>1, <2>4 DEF Fit, Asking
  <2> QED
    BY <1>0, <2>1, <2>2, <2>5, WireKeeps
<1>6. CASE Ask(r)
  <2>1. /\ pc[r] = "ask" /\ pc[r] \in Running /\ pc[r] \in Copying
        /\ UNCHANGED <<conv, lock, at, lost, left>>
    BY <1>6 DEF Ask, Running, Copying
  <2>2. CASE Keep(r, copy[r], "over") /\ UNCHANGED step
    <3>1. lost = {} => /\ Sound(copy[r].messages, Ended \cup {r})
                       /\ Fit(copy[r].messages, r, "over", step'[r], left'[r])
      BY <2>1 DEF Wire, RunFits, Fit, Resting, Asking
    <3> QED
      BY <1>0, <2>1, <2>2, <3>1, WireKeeps
  <2>3. CASE Goto(r, "wait") /\ step' = [step EXCEPT ![r] = @ + 1]
             /\ UNCHANGED <<copy, next>>
    <3>1. \A q \in Req \ {r} : step'[q] = step[q] /\ left'[q] = left[q]
      BY <2>1, <2>3 DEF Inv, Typed
    <3> QED
      BY <2>1, <2>3, <3>1, WireGoes DEF Running, Asking, Resting, Copying
  <2> QED
    BY <1>6, <2>2, <2>3 DEF Ask
<1>7. CASE Reply(r)
  <2>1. /\ pc[r] = "wait" /\ pc[r] \in Running /\ pc[r] \in Copying
        /\ UNCHANGED <<conv, lock, at, lost, step>>
    BY <1>7 DEF Reply, Running, Copying
  <2>2. ASSUME NEW k \in 0 .. MaxCalls, left' = [left EXCEPT ![r] = k],
               NEW n \in {"final", "calls"}, Keep(r, copy[r], n)
        PROVE  Wire'
    <3>1. \A q \in Req \ {r} : step'[q] = step[q] /\ left'[q] = left[q]
      BY <2>1, <2>2 DEF Inv, Typed
    <3>2. lost = {} => /\ Sound(copy[r].messages, Ended \cup {r})
                       /\ Fit(copy[r].messages, r, n, step'[r], left'[r])
      BY <2>1 DEF Wire, RunFits, Turns, Fit, Resting, Asking
    <3> QED
      BY <2>1, <2>2, <3>1, <3>2, WireKeeps
  <2>3. CASE Goto(r, "release") /\ UNCHANGED <<copy, next, left>>
    BY <1>0, <2>1, <2>3, WireGoes DEF Running, Asking, Resting, Copying
  <2> QED
    BY <1>7, <2>2, <2>3 DEF Reply
<1>8. CASE Answer(r)
  <2> DEFINE m == Msg("final", r, 0)
             v == With(Here(r), m)
  <2>1. /\ pc[r] = "final" /\ pc[r] \in Running /\ Read(r, v, "release")
        /\ UNCHANGED <<conv, lock, at, lost, step, left>>
    BY <1>8 DEF Answer, Running
  <2>2. ASSUME Here(r) \in Stored, Sound(Here(r).messages, Ended \cup {r})
        PROVE  /\ Sound(v.messages, Ended \cup {r})
               /\ Fit(v.messages, r, "release", step'[r], left'[r])
    <3>1. /\ v.messages = Append(Here(r).messages, m) /\ Here(r).messages \in Seq(Sent)
          /\ m \in Sent /\ m.role = "final"
      BY <2>2, MessageAdded
    <3>2. Sound(v.messages, Ended \cup {r})
      <4> HIDE DEF v, m
      <4> QED
        BY <2>2, <3>1, SoundAppended
    <3> QED
      BY <3>2 DEF Fit, Asking, Resting
  <2> HIDE DEF v
  <2> QED
    BY <1>0, <2>1, <2>2, WireReads
<1>9. CASE AskTools(r)
  <2> DEFINE m == Msg("calls", r, left[r])
             v == With(Here(r), m)
  <2>1. /\ pc[r] = "calls" /\ pc[r] \in Running /\ Read(r, v, "tool")
        /\ UNCHANGED <<conv, lock, at, lost, step, left>> /\ left[r] \in Int
    BY <1>9 DEF AskTools, Running, Inv, Typed
  <2>2. ASSUME Here(r) \in Stored, Sound(Here(r).messages, Ended \cup {r}),
               Fit(Here(r).messages, r, pc[r], step[r], left[r])
        PROVE  /\ Sound(v.messages, Ended \cup {r})
               /\ Fit(v.messages, r, "tool", step'[r], left'[r])
    <3>1. /\ v.messages = Append(Here(r).messages, m) /\ Here(r).messages \in Seq(Sent)
          /\ m \in Sent /\ m.role = "calls" /\ m.by = r /\ m.step = step[r]
          /\ m.n = left[r]
      BY <2>1, <2>2, MessageAdded
    <3>2. OwnDone(Here(r).messages, r)
      BY <2>1, <2>2 DEF Fit, Resting
    <3>3. /\ Sound(v.messages, Ended \cup {r})
          /\ OwnOpen(v.messages, r, step[r], left[r]) /\ Pending(v.messages, r, step[r])
      <4> HIDE DEF v, m
      <4>1. OwnDone(Here(r).messages, m.by)
        BY <3>1, <3>2
      <4>2. OwnOpen(v.messages, m.by, m.step, m.n) /\ Pending(v.messages, m.by, m.step)
        BY <3>1, <4>1, CallsAppended
      <4> QED
        BY <2>2, <3>1, <4>2, SoundAppended
    <3> QED
      BY <2>1, <3>3 DEF Fit, Resting
  <2> HIDE DEF v
  <2> QED
    BY <1>0, <2>1, <2>2, WireReads
<1>10. ASSUME NEW v, NEW n \in Asking, pc[r] \in Asking, Read(r, v, n),
              Here(r) \in Stored => v.messages = Here(r).messages,
              UNCHANGED <<conv, lock, at, lost, step, left>>
       PROVE  Wire'
  <2>1. pc[r] \in Running
    BY <1>10 DEF Asking, Running
  <2>2. \A s : Fit(s, r, pc[r], step[r], left[r]) => Fit(s, r, n, step'[r], left'[r])
    BY <1>10 DEF Fit, Asking, Resting
  <2> QED
    BY <1>0, <1>10, <2>1, <2>2, WireReads
<1>11. CASE StartTool(r)
  BY <1>10, <1>11 DEF StartTool, Asking
<1>12. CASE Draft(r)
  BY <1>10, <1>12 DEF Draft, Asking
<1>13. CASE Collect(r)
  BY <1>13, WireGoes DEF Collect, Running, Asking, Resting, Copying
<1>14. CASE Link(r)
  BY <1>14, WireGoes DEF Link, Running, Asking, Resting, Copying
<1>15. CASE Mark(r)
  <2>1. Here(r) \in Stored => [Here(r) EXCEPT !.result = r].messages = Here(r).messages
    BY DEF Stored
  <2> QED
    BY <1>10, <1>15, <2>1 DEF Mark, Asking
<1>16. CASE Progress(r)
  BY <1>10, <1>16 DEF Progress, Asking
<1>17. CASE PlainTool(r)
  BY <1>17, WireGoes DEF PlainTool, Running, Asking, Resting, Copying
<1>18. CASE EndTool(r)
  BY <1>10, <1>18 DEF EndTool, Asking
<1>19. CASE ToolMessage(r)
  <2> DEFINE m == Msg("tool", r, left[r])
             v == With(Here(r), m)
             n == IF left[r] = 1 THEN "again" ELSE "tool"
  <2>1. /\ pc[r] = "answer" /\ pc[r] \in Running /\ Read(r, v, n)
        /\ UNCHANGED <<conv, lock, at, lost, step>> /\ left[r] \in Int
        /\ left' = [left EXCEPT ![r] = @ - 1] /\ left'[r] = left[r] - 1
        /\ \A q \in Req \ {r} : step'[q] = step[q] /\ left'[q] = left[q]
    BY <1>19 DEF ToolMessage, Call, Running, Inv, Typed
  <2>2. ASSUME Here(r) \in Stored, Sound(Here(r).messages, Ended \cup {r}),
               Fit(Here(r).messages, r, pc[r], step[r], left[r])
        PROVE  /\ Sound(v.messages, Ended \cup {r})
               /\ Fit(v.messages, r, n, step'[r], left'[r])
    <3>1. /\ v.messages = Append(Here(r).messages, m) /\ Here(r).messages \in Seq(Sent)
          /\ m \in Sent /\ m.role = "tool" /\ m.by = r /\ m.step = step[r]
          /\ m.n = left[r]
      BY <2>1, <2>2, MessageAdded
    <3>2. OwnOpen(Here(r).messages, r, step[r], left[r]) /\ Pending(Here(r).messages, r, step[r])
      BY <2>1, <2>2 DEF Fit, Asking
    <3>3. /\ Sound(v.messages, Ended \cup {r})
          /\ OwnOpen(v.messages, r, step[r], left[r] - 1) /\ Pending(v.messages, r, step[r])
      <4> HIDE DEF v, m
      <4>1. /\ OwnOpen(Here(r).messages, m.by, m.step, m.n)
            /\ Pending(Here(r).messages, m.by, m.step)
        BY <3>1, <3>2
      <4>2. OwnOpen(v.messages, m.by, m.step, m.n - 1) /\ Pending(v.messages, m.by, m.step)
        BY <3>1, <4>1, ToolAppended
      <4> QED
        BY <2>2, <3>1, <4>1, <4>2, SoundAppended
    <3>4. left[r] = 1 => OwnDone(v.messages, r)
      <4> HIDE DEF v, m
      <4>1. left[r] = 1 => OwnOpen(v.messages, r, step[r], 0)
        BY <3>3
      <4> QED
        BY <4>1, AllAnswered
    <3> HIDE DEF v, m
    <3> QED
      BY <2>1, <3>3, <3>4 DEF Fit, Resting, Asking
  <2> HIDE DEF v, n
  <2> QED
    BY <2>1, <2>2, WireReads
<1>20. CASE Again(r)
  <2>1. /\ pc[r] = "again" /\ pc[r] \in Running
        /\ UNCHANGED <<conv, lock, at, lost, next, step, left>>
    BY <1>20 DEF Again, Running
  <2>2. CASE Present(r) /\ copy' = [copy EXCEPT ![r] = conv[at[r]]] /\ Goto(r, "loop")
    <3>1. /\ pc'[r] = "loop" /\ copy'[r] = conv[at[r]]
          /\ \A q \in Req \ {r} : copy'[q] = copy[q] /\ pc'[q] = pc[q]
      BY <2>2 DEF Goto, Inv, Typed
    <3>2. ASSUME lost = {} PROVE RunFits(r)'
      <4>1. at[r] \in Conv /\ Excused(at[r]) \subseteq Ended \cup {r}
        BY <2>1, <3>2, ExcusedAt
      <4>2. /\ Sound(conv[at[r]].messages, Excused(at[r]))
            /\ OwnDone(conv[at[r]].messages, r)
        BY <2>1, <2>2, <3>2, <4>1 DEF Wire, ConvFits, RunFits, Fit, Resting, Present
      <4>3. Excused(at[r]) \subseteq Ended' \cup {r}
        BY <3>1, <4>1 DEF Ended
      <4>4. Sound(conv[at[r]].messages, Ended' \cup {r})
        BY <4>2, <4>3, SoundMore
      <4>5. Turns(r)' = "loop"
        BY <3>1 DEF Turns
      <4> QED
        BY <2>1, <3>1, <4>2, <4>4, <4>5 DEF RunFits, Fit, Asking
    <3> QED
      BY <2>1, <2>2, <3>1, <3>2, WireMoves DEF Running
  <2>3. CASE Goto(r, "release") /\ UNCHANGED copy
    BY <2>1, <2>3, WireGoes DEF Running, Asking, Resting, Copying
  <2> QED
    BY <1>20, <2>2, <2>3 DEF Again
<1>21. CASE ChangeMode(r)
  <2>1. PICK m \in Mode : Read(r, [Here(r) EXCEPT !.mode = m], "release")
    BY <1>21 DEF ChangeMode
  <2>2. /\ pc[r] \in Running /\ UNCHANGED <<conv, lock, at, lost, step, left>>
    BY <1>21 DEF ChangeMode, Running
  <2>3. Here(r) \in Stored => [Here(r) EXCEPT !.mode = m].messages = Here(r).messages
    BY DEF Stored
  <2>4. \A s : Fit(s, r, "release", step'[r], left'[r])
    BY DEF Fit, Asking, Resting
  <2> QED
    BY <1>0, <2>1, <2>2, <2>3, <2>4, WireReads
<1> QED
  BY <1>1, <1>2, <1>3, <1>4, <1>5, <1>6, <1>7, <1>8, <1>9, <1>11, <1>12, <1>13,
     <1>14, <1>15, <1>16, <1>17, <1>18, <1>19, <1>20, <1>21, <1>22 DEF Turn, Update

LEMMA WireDeletes ==
  ASSUME Inv, Wire, NEW r \in Req, Discard(r) \/ Grow(r)
  PROVE  Wire'
<1> USE DEF store
<1>1. /\ at = [at EXCEPT ![r] = at[r]] /\ next = [next EXCEPT ![r] = next[r]]
      /\ conv \in [Conv -> Stored \cup {None}] /\ next[r] \in {next[r]}
  BY DEF Inv, Typed
<1>2. ASSUME NEW c \in Conv, BeginDelete(r, c) PROVE Wire'
  BY <1>1, <1>2, WireOutside DEF BeginDelete
<1>3. CASE Members(r)
  BY <1>1, <1>3, WireOutside DEF Members
<1>4. CASE Delete(r)
  <2>1. \A c \in Conv : conv'[c] \in {conv[c], None}
    BY <1>1, <1>4 DEF Delete
  <2> QED
    BY <1>1, <1>4, <2>1, WireOutside DEF Delete
<1>5. CASE Unlist(r)
  <2>1. next[r] \in {"done", "clean"}
    BY <1>5 DEF Unlist, Inv, Onward
  <2> QED
    BY <1>1, <1>5, <2>1, WireOutside DEF Unlist
<1>6. ASSUME NEW c \in Conv, Create(r, c) PROVE Wire'
  <2>1. PICK m \in Mode : conv' = [conv EXCEPT ![c] = New(m)]
    BY <1>6 DEF Create
  <2>2. \A d \in Conv : \/ conv'[d] \in {conv[d], None}
                        \/ d \notin made /\ conv'[d].messages = <<>>
    BY <1>1, <1>6, <2>1 DEF Create, New
  <2> QED
    BY <1>1, <1>6, <2>2, WireOutside DEF Create
<1>7. CASE Clean(r)
  <2>1. CASE UNCHANGED <<pc, at, next>>
    BY <1>7, <2>1, WireUnmoved DEF Clean
  <2>2. CASE Goto(r, "done") /\ UNCHANGED <<index, at, next>>
    BY <1>1, <1>7, <2>2, WireOutside DEF Clean
  <2>3. CASE /\ at' = [at EXCEPT ![r] = Head(index)]
             /\ next' = [next EXCEPT ![r] = "clean"]
             /\ Goto(r, "members")
    BY <1>1, <1>7, <2>3, WireOutside DEF Clean
  <2> QED
    BY <1>7, <2>1, <2>2, <2>3 DEF Clean
<1> QED
  BY <1>2, <1>3, <1>4, <1>5, <1>6, <1>7 DEF Discard, Grow

LEMMA WireStep == Inv /\ Wire /\ [Next]_vars => Wire'
<1> SUFFICES ASSUME Inv, Wire, [Next]_vars PROVE Wire'
  OBVIOUS
<1> USE DEF store
<1>1. ASSUME NEW r \in Req, Work(r) PROVE Wire'
  <2>1. CASE Refused(r)
    BY <2>1, WireGoes DEF Refused, Running, Asking, Resting, Copying
  <2>2. CASE Release(r)
    <3>1. \A c \in Conv : lock'[c] = lock[c] \/ lock[c] = r
      BY <2>2 DEF Release, Freed, Inv, Typed
    <3> QED
      BY <2>2, <3>1, WireGoes DEF Release, Running, Asking, Resting, Copying
  <2> QED
    BY <1>1, <2>1, <2>2, WireTurns, WireDeletes, WireSaves DEF Work
<1>2. ASSUME NEW r \in Req, Disconnect(r) PROVE Wire'
  BY <1>2, WireGoes DEF Disconnect, Yields, Running, Asking, Resting, Copying
<1>3. ASSUME NEW r \in Req, Crash(r) PROVE Wire'
  <2>1. CASE pc[r] \in Running
    BY <1>3, <2>1, WireGoes DEF Crash, Running, Asking, Resting, Copying
  <2>2. CASE pc[r] \notin Running
    <3>1. /\ at = [at EXCEPT ![r] = at[r]] /\ next = [next EXCEPT ![r] = next[r]]
          /\ \A c \in Conv : conv[c] \in {conv[c], None}
      BY DEF Inv, Typed
    <3> QED
      BY <1>3, <2>2, <3>1, WireOutside DEF Crash, Active
  <2> QED
    BY <2>1, <2>2
<1>4. CASE List
  BY <1>4, WireUnmoved DEF List
<1>5. CASE UNCHANGED vars
  BY <1>5, WireUnmoved DEF vars
<1> QED
  BY <1>1, <1>2, <1>3, <1>4, <1>5, WireExpires DEF Next

\* Every call the model asked for has its answer when it is asked again, unless
\* the request that asked has ended in between or some run has lost its lock;
\* and every answer it is sent comes with the call it answers, however the
\* conversation was compressed (_provider_messages).
THEOREM WireAnswered == Spec => []WireIsAnswered
<1>1. Spec => []Wire
  BY InvHolds, WireStart, WireStep, PTL DEF Spec
<1> QED
  BY <1>1, InvHolds, WireTrue, PTL

-----------------------------------------------------------------------------
(* Logins and resets.                                                      *)

LoginTypes ==
  /\ at_l \in [Req -> LG!Steps] /\ id \in [Req -> Ids \cup {None}]
  /\ known \in [Req -> BOOLEAN] /\ live \in SUBSET Ids
  /\ flow \in LG!Flows /\ fails \in [LG!Kinds -> Nat]
  /\ locks \in [LG!Kinds -> BOOLEAN] /\ faults \in Nat

\* Who gets where: an unknown name has no counter, the address of a reset is
\* always one, only a login verifies a password, only a reset commits.
ByFlow ==
  \A r \in Req :
    /\ flow = "forgot" => known[r] /\ at_l[r] # "verify"
    /\ at_l[r] = "count_who" => known[r]
    /\ at_l[r] = "commit" => flow = "forgot"

\* The code of a reset that is past its removal is no longer valid.
CodeIsGone ==
  flow = "forgot" => \A r \in Req :
    at_l[r] \in {"clear_who", "clear_ip", "commit"} => id[r] \notin live

\* Past the look at the lock of a kind, and not yet past its counter.
Open(f, k) ==
  CASE f = "login"  /\ k = "who" -> {"ask_ip", "verify", "count_ip", "lock_ip", "count_who"}
    [] f = "login"  /\ k = "ip"  -> {"verify", "count_ip"}
    [] f = "forgot" /\ k = "who" -> {"ask_ip", "code", "count_who"}
    [] f = "forgot" /\ k = "ip"  -> {"code", "count_who", "lock_who", "count_ip"}
Trying(k)  == {r \in Req : at_l[r] \in Open(flow, k) /\ (k = "who" => known[r])}
Locking(k) == {r \in Req : at_l[r] = LG!LockOf[k]}

\* Without a lock, what is counted beyond one short of the limit belongs to a
\* request about to set it or to a failure of Redis.  With it, only those past
\* the look at it go on counting.
Tries(k) ==
  IF locks[k]
  THEN fails[k] + Cardinality(Trying(k)) <= LG!Limit(flow, k) - 1 + Cardinality(Req) + faults
  ELSE fails[k] <= LG!Limit(flow, k) - 1 + faults + Cardinality(Locking(k))

LoginInv ==
  /\ LoginTypes /\ ByFlow /\ CodeIsGone /\ LG!CodesServeOnce
  /\ \A k \in LG!Kinds : Tries(k)

LEMMA LoginConstants ==
  /\ IsFiniteSet(Req) /\ Cardinality(Req) \in Nat /\ None \notin Ids
  /\ \A f, k : LG!Limit(f, k) \in Nat \ {0}
  /\ \A S : LG!Cardinality(S) = Cardinality(S)
<1>1. IsFiniteSet(Req)
  BY Zenon, RedisAssumption DEF LG!LoginAssumption, LG!IsFiniteSet, IsFiniteSet
<1>2. \A S : LG!Cardinality(S) = Cardinality(S)
  BY Zenon DEF LG!Cardinality, Cardinality, LG!IsFiniteSet, IsFiniteSet
<1>3. Cardinality(Req) \in Nat
  BY <1>1, FS_CardinalityType
<1>4. \A f, k : LG!Limit(f, k) \in Nat \ {0}
  BY RedisAssumption DEF LG!LoginAssumption, LG!Limit
<1> QED
  BY <1>1, <1>2, <1>3, <1>4, RedisAssumption DEF LG!LoginAssumption

\* One request more or less in a set of them.
LEMMA OneMoves ==
  ASSUME NEW r \in Req, NEW S \in SUBSET Req, NEW T \in SUBSET Req, S \ {r} = T \ {r}
  PROVE  /\ Cardinality(S) \in Nat /\ Cardinality(T) \in Nat
         /\ r \in S /\ r \notin T => Cardinality(S) = Cardinality(T) + 1
         /\ r \notin S /\ r \in T => Cardinality(T) = Cardinality(S) + 1
         /\ (r \in S <=> r \in T) => S = T
<1>1. IsFiniteSet(S) /\ IsFiniteSet(T)
  BY LoginConstants, FS_Subset
<1>2. Cardinality(S) \in Nat /\ Cardinality(T) \in Nat
  BY <1>1, FS_CardinalityType
<1>3. ASSUME r \in S, r \notin T PROVE Cardinality(S) = Cardinality(T) + 1
  <2>1. S = T \cup {r}
    BY <1>3
  <2> QED
    BY <1>1, <1>3, <2>1, FS_AddElement
<1>4. ASSUME r \notin S, r \in T PROVE Cardinality(T) = Cardinality(S) + 1
  <2>1. T = S \cup {r}
    BY <1>4
  <2> QED
    BY <1>1, <1>4, <2>1, FS_AddElement
<1> QED
  BY <1>2, <1>3, <1>4

LEMMA TwoSets ==
  ASSUME NEW S \in SUBSET Req, NEW T \in SUBSET Req, S \cap T = {}
  PROVE  /\ Cardinality(S) \in Nat /\ Cardinality(T) \in Nat
         /\ Cardinality(S) + Cardinality(T) <= Cardinality(Req)
<1>1. IsFiniteSet(S) /\ IsFiniteSet(T) /\ S \cup T \in SUBSET Req
  BY LoginConstants, FS_Subset
<1>2. Cardinality(S) \in Nat /\ Cardinality(T) \in Nat
  BY <1>1, FS_CardinalityType
<1>3. Cardinality(S \cup T) = Cardinality(S) + Cardinality(T) - Cardinality(S \cap T)
  BY <1>1, FS_Union
<1>4. Cardinality(S \cap T) = 0
  BY FS_EmptySet
<1>5. Cardinality(S \cup T) <= Cardinality(Req)
  BY <1>1, LoginConstants, FS_Subset
<1> QED
  BY <1>2, <1>3, <1>4, <1>5, LoginConstants

\* Who is about to lock is not still trying.
LEMMA SetsApart ==
  ASSUME NEW k \in LG!Kinds, flow \in LG!Flows
  PROVE  /\ Cardinality(Trying(k)) \in Nat /\ Cardinality(Locking(k)) \in Nat
         /\ Cardinality(Trying(k)) + Cardinality(Locking(k)) <= Cardinality(Req)
<1>1. Trying(k) \cap Locking(k) = {}
  <2>1. /\ k \in {"who", "ip"} /\ flow \in {"login", "forgot"}
        /\ LG!LockOf["who"] = "lock_who" /\ LG!LockOf["ip"] = "lock_ip"
    BY DEF LG!LockOf, LG!Kinds, LG!Flows
  <2>2. LG!LockOf[k] \notin Open(flow, k)
    BY <2>1 DEF Open
  <2> QED
    BY <2>2 DEF Trying, Locking
<1>2. Trying(k) \in SUBSET Req /\ Locking(k) \in SUBSET Req
  BY DEF Trying, Locking
<1> QED
  BY <1>1, <1>2, TwoSets

LEMMA LoginStart == LG!Init => LoginInv
<1> SUFFICES ASSUME LG!Init PROVE LoginInv
  OBVIOUS
<1> USE DEF LG!Init
<1>1. LoginTypes
  BY DEF LoginTypes, LG!Steps
<1>2. ByFlow /\ CodeIsGone /\ LG!CodesServeOnce
  BY DEF ByFlow, CodeIsGone, LG!CodesServeOnce
<1>3. \A k \in LG!Kinds : Tries(k)
  BY <1>1, SetsApart, LoginConstants DEF Tries
<1> QED
  BY <1>1, <1>2, <1>3 DEF LoginInv

LEMMA LoginTrue == LoginInv => LoginsAreCounted
<1> SUFFICES ASSUME LoginInv PROVE LoginsAreCounted
  OBVIOUS
<1>1. ASSUME NEW k \in LG!Kinds
      PROVE  /\ fails[k] <= LG!Limit(flow, k) + (LG!Cardinality(Req) - 1) + faults
             /\ faults = 0 /\ fails[k] >= LG!Limit(flow, k) /\ ~locks[k]
                  => \E r \in Req : at_l[r] = LG!LockOf[k]
  <2>1. /\ fails[k] \in Nat /\ faults \in Nat /\ LG!Limit(flow, k) \in Nat
        /\ Cardinality(Req) \in Nat /\ LG!Cardinality(Req) = Cardinality(Req)
        /\ Cardinality(Trying(k)) \in Nat /\ Cardinality(Locking(k)) \in Nat
        /\ Cardinality(Locking(k)) <= Cardinality(Req) /\ Tries(k)
    BY SetsApart, LoginConstants DEF LoginInv, LoginTypes
  <2>2. Locking(k) = {} => Cardinality(Locking(k)) = 0
    BY FS_EmptySet
  <2>3. Cardinality(Locking(k)) # 0 => \E r \in Req : at_l[r] = LG!LockOf[k]
    BY <2>2 DEF Locking
  <2> QED
    BY <2>1, <2>3 DEF Tries
<1> QED
  BY <1>1 DEF LoginInv, LoginsAreCounted, LG!LoginsAreCounted, LG!LockFollowsFails,
              LG!TriesAreBounded
\* Request r goes to another place.
Hops(r, s) ==
  /\ at_l' \in [Req -> LG!Steps] /\ at_l'[r] = s /\ flow' = flow
  /\ id' \in [Req -> Ids \cup {None}] /\ known' \in [Req -> BOOLEAN]
  /\ \A q \in Req \ {r} : at_l'[q] = at_l[q] /\ known'[q] = known[q] /\ id'[q] = id[q]

LEMMA GoesTo ==
  ASSUME LoginInv, NEW r \in Req, NEW s \in LG!Steps, LG!Goto(r, s)
  PROVE  /\ Hops(r, s) /\ known'[r] = (known[r] \/ s = "idle")
         /\ s # "idle" => id'[r] = id[r]
  BY DEF LoginInv, LoginTypes, LG!Goto, Hops

\* What a step does to the count of a kind: it leaves it, counts, or locks.
Leaves(r, k) ==
  /\ fails'[k] \in Nat /\ fails'[k] <= fails[k] /\ locks'[k] = locks[k]
  /\ r \in Trying(k)' => r \in Trying(k) \/ ~locks[k]
  /\ \/ r \notin Locking(k) /\ faults' = faults
     \/ faults' = faults + 1
Counts(r, k) ==
  /\ fails'[k] = fails[k] + 1 /\ locks'[k] = locks[k] /\ faults' = faults
  /\ r \in Trying(k) /\ r \notin Trying(k)' /\ r \notin Locking(k)
  /\ fails'[k] >= LG!Limit(flow, k) => r \in Locking(k)'
Locks(r, k) ==
  /\ fails'[k] = fails[k] /\ locks'[k] /\ faults' = faults
  /\ r \notin Trying(k)'

LEMMA TriesKept ==
  ASSUME LoginInv, NEW r \in Req, NEW s, Hops(r, s), NEW k \in LG!Kinds,
         Leaves(r, k) \/ Counts(r, k) \/ Locks(r, k)
  PROVE  Tries(k)'
<1> DEFINE S == Cardinality(Trying(k))
           T == Cardinality(Trying(k)')
           L == Cardinality(Locking(k))
           M == Cardinality(Locking(k)')
           n == fails[k]
           m == fails'[k]
           lim == LG!Limit(flow, k)
           R == Cardinality(Req)
<1>1. /\ Trying(k) \ {r} = Trying(k)' \ {r} /\ Locking(k) \ {r} = Locking(k)' \ {r}
      /\ Trying(k) \in SUBSET Req /\ Trying(k)' \in SUBSET Req
      /\ Locking(k) \in SUBSET Req /\ Locking(k)' \in SUBSET Req
  BY DEF Trying, Locking, Hops
<1>2. /\ S \in Nat /\ T \in Nat
      /\ r \in Trying(k) /\ r \notin Trying(k)' => S = T + 1
      /\ r \notin Trying(k) /\ r \in Trying(k)' => T = S + 1
      /\ (r \in Trying(k) <=> r \in Trying(k)') => S = T
  BY <1>1, OneMoves
<1>3. /\ L \in Nat /\ M \in Nat
      /\ r \in Locking(k) /\ r \notin Locking(k)' => L = M + 1
      /\ r \notin Locking(k) /\ r \in Locking(k)' => M = L + 1
      /\ (r \in Locking(k) <=> r \in Locking(k)') => L = M
  BY <1>1, OneMoves
<1>4. /\ n \in Nat /\ lim \in Nat \ {0} /\ R \in Nat /\ faults \in Nat
      /\ S + L <= R /\ locks[k] \in BOOLEAN
      /\ locks[k] => n + S <= lim - 1 + R + faults
      /\ ~locks[k] => n <= lim - 1 + faults + L
  BY LoginConstants, SetsApart DEF LoginInv, LoginTypes, Tries
<1>5. /\ locks'[k] => m + T <= lim - 1 + R + faults'
      /\ ~locks'[k] => m <= lim - 1 + faults' + M
  <2>1. CASE Leaves(r, k)
    <3>1. /\ m \in Nat /\ m <= n /\ locks'[k] = locks[k]
          /\ faults' \in {faults, faults + 1}
      BY <2>1 DEF Leaves
    <3>2. locks[k] => T <= S
      BY <1>2, <2>1 DEF Leaves
    <3>3. L + faults <= M + faults'
      BY <1>3, <1>4, <2>1 DEF Leaves
    <3> QED
      BY <1>2, <1>3, <1>4, <3>1, <3>2, <3>3
  <2>2. CASE Counts(r, k)
    <3>1. m = n + 1 /\ locks'[k] = locks[k] /\ faults' = faults /\ S = T + 1
      BY <1>2, <2>2 DEF Counts
    <3>2. M >= L /\ (m >= lim => M = L + 1)
      BY <1>3, <2>2 DEF Counts
    <3> QED
      BY <1>2, <1>3, <1>4, <3>1, <3>2
  <2>3. CASE Locks(r, k)
    <3>1. m = n /\ locks'[k] /\ faults' = faults /\ T <= S
      BY <1>2, <2>3 DEF Locks
    <3> QED
      BY <1>2, <1>3, <1>4, <3>1
  <2> QED
    BY <2>1, <2>2, <2>3
<1>6. LG!Limit(flow, k)' = lim
  BY DEF Hops, LG!Limit
<1> QED
  BY <1>5, <1>6 DEF Tries

\* The places of the counters, and what follows what.
LEMMA Places ==
  /\ LG!Kinds = {"who", "ip"} /\ LG!Flows = {"login", "forgot"}
  /\ LG!AskOf["who"] = "ask_who" /\ LG!AskOf["ip"] = "ask_ip"
  /\ LG!ClearOf["who"] = "clear_who" /\ LG!ClearOf["ip"] = "clear_ip"
  /\ LG!CountOf["who"] = "count_who" /\ LG!CountOf["ip"] = "count_ip"
  /\ LG!LockOf["who"] = "lock_who" /\ LG!LockOf["ip"] = "lock_ip"
  BY DEF LG!Kinds, LG!Flows, LG!AskOf, LG!ClearOf, LG!CountOf, LG!LockOf

\* The parts of the invariant but for the counts, after a step of one request.
LEMMA RestKept ==
  ASSUME LoginInv, NEW r \in Req, NEW s \in LG!Steps, Hops(r, s),
         flow = "forgot" => s # "verify" /\ known'[r],
         s = "count_who" => known'[r],
         s = "commit" => flow = "forgot",
         flow = "forgot" /\ s \in {"clear_who", "clear_ip", "commit"} => id'[r] \notin live',
         live' \in SUBSET live, live' \cap spent' = {},
         fails' \in [LG!Kinds -> Nat], locks' \in [LG!Kinds -> BOOLEAN], faults' \in Nat
  PROVE  LoginTypes' /\ ByFlow' /\ CodeIsGone' /\ LG!CodesServeOnce'
<1>1. LoginTypes /\ ByFlow /\ CodeIsGone
  BY DEF LoginInv
<1>2. LoginTypes'
  BY <1>1 DEF LoginTypes, Hops
<1>3. ByFlow'
  <2> SUFFICES ASSUME NEW q \in Req
               PROVE  /\ flow' = "forgot" => known'[q] /\ at_l'[q] # "verify"
                      /\ at_l'[q] = "count_who" => known'[q]
                      /\ at_l'[q] = "commit" => flow' = "forgot"
    BY DEF ByFlow
  <2>1. CASE q = r
    BY <2>1 DEF Hops
  <2>2. CASE q # r
    BY <1>1, <2>2 DEF Hops, ByFlow
  <2> QED
    BY <2>1, <2>2
<1>4. CodeIsGone'
  BY <1>1 DEF CodeIsGone, Hops
<1> QED
  BY <1>2, <1>3, <1>4 DEF LG!CodesServeOnce

\* A request steps, and no counter and no lock changes.
LEMMA QuietStep ==
  ASSUME LoginInv, NEW r \in Req, NEW s \in LG!Steps, Hops(r, s),
         LoginTypes' /\ ByFlow' /\ CodeIsGone' /\ LG!CodesServeOnce',
         UNCHANGED <<fails, locks>>,
         \/ faults' = faults /\ \A k \in LG!Kinds : at_l[r] # LG!LockOf[k]
         \/ faults' = faults + 1,
         \A k \in LG!Kinds : r \in Trying(k)' => r \in Trying(k) \/ ~locks[k]
  PROVE  LoginInv'
<1>1. \A k \in LG!Kinds : Leaves(r, k)
  BY DEF Leaves, Locking, LoginInv, LoginTypes
<1>2. \A k \in LG!Kinds : Tries(k)'
  BY <1>1, TriesKept
<1> QED
  BY <1>2 DEF LoginInv

\* Where a request stands.
LEMMA Stands ==
  ASSUME LoginInv, NEW r \in Req
  PROVE  /\ at_l[r] \in LG!Steps /\ known[r] \in BOOLEAN /\ flow \in {"login", "forgot"}
         /\ flow = "forgot" => known[r] /\ at_l[r] # "verify"
         /\ at_l[r] = "count_who" => known[r]
         /\ at_l[r] = "commit" => flow = "forgot"
         /\ flow = "forgot" /\ at_l[r] \in {"clear_who", "clear_ip", "commit"}
              => id[r] \notin live
         /\ live \cap spent = {} /\ live \in SUBSET live
         /\ fails \in [LG!Kinds -> Nat] /\ locks \in [LG!Kinds -> BOOLEAN]
         /\ faults \in Nat
         /\ \A k \in LG!Kinds :
              r \in Trying(k) <=> at_l[r] \in Open(flow, k) /\ (k = "who" => known[r])
  BY DEF LoginInv, LoginTypes, LG!Flows, ByFlow, CodeIsGone, LG!CodesServeOnce, Trying

\* Where it stands after a step.
LEMMA StandsThen ==
  ASSUME NEW r \in Req, NEW s, Hops(r, s), NEW k \in LG!Kinds
  PROVE  r \in Trying(k)' <=> s \in Open(flow, k) /\ (k = "who" => known'[r])
  BY DEF Hops, Trying, Open

LEMMA BeginStep ==
  ASSUME LoginInv, NEW r \in Req, LG!Begin(r)
  PROVE  LoginInv'
<1> PICK i \in Ids, n \in BOOLEAN :
       /\ flow = "forgot" => n
       /\ id' = [id EXCEPT ![r] = i] /\ known' = [known EXCEPT ![r] = n]
  BY DEF LG!Begin
<1> DEFINE s == IF flow = "login" THEN "code" ELSE "ask_who"
<1>1. /\ s \in {"code", "ask_who"} /\ (flow = "forgot" => s = "ask_who") /\ s \in LG!Steps
      /\ at_l' = [at_l EXCEPT ![r] = s] /\ at_l[r] = "idle"
      /\ UNCHANGED <<flow, live, spent, fails, locks, faults>>
  BY DEF LG!Begin, LG!codes, LG!After, LG!Steps
<1> HIDE DEF s
<1>2. Hops(r, s) /\ known'[r] = n
  BY <1>1 DEF LoginInv, LoginTypes, Hops
<1>3. LoginTypes' /\ ByFlow' /\ CodeIsGone' /\ LG!CodesServeOnce'
  BY <1>1, <1>2, Stands, RestKept
<1>4. \A k \in LG!Kinds : r \notin Trying(k)'
  BY <1>1, <1>2, Stands, StandsThen, Places DEF Open
<1> QED
  BY <1>1, <1>2, <1>3, <1>4, Places, QuietStep

\* A request is over, and no counter and no lock changes.
LEMMA Rejected ==
  ASSUME LoginInv, NEW r \in Req, LG!Goto(r, "idle"),
         live' = live, live \cap spent' = {}, UNCHANGED <<fails, locks>>,
         \/ faults' = faults /\ at_l[r] \notin {"lock_who", "lock_ip"}
         \/ faults' = faults + 1
  PROVE  LoginInv'
<1> DEFINE s == "idle"
<1>1. s \in LG!Steps /\ Hops(r, s) /\ known'[r] /\ s = "idle"
  BY GoesTo DEF LG!Steps
<1> HIDE DEF s
<1>2. LoginTypes' /\ ByFlow' /\ CodeIsGone' /\ LG!CodesServeOnce'
  BY <1>1, Stands, RestKept
<1>3. \A k \in LG!Kinds : r \notin Trying(k)'
  BY <1>1, Stands, StandsThen, Places DEF Open
<1> QED
  BY <1>1, <1>2, <1>3, Places, QuietStep

LEMMA QuietSteps ==
  ASSUME LoginInv, NEW r \in Req,
         LG!ReadCode(r) \/ LG!CheckLock(r) \/ LG!Verify(r) \/ LG!Commit(r)
           \/ LG!DropCode(r) \/ LG!Fault(r)
  PROVE  LoginInv'
<1> USE DEF LG!codes, LG!Done, LG!Refused
<1>1. CASE LG!ReadCode(r)
  <2> PICK s \in {"drop", "idle", "count_who"} :
        /\ LG!Goto(r, s) /\ (s = "idle" <=> flow = "login" /\ s # "drop")
    BY <1>1, Stands DEF LG!ReadCode, LG!After, LG!Bump
  <2>1. /\ s \in LG!Steps /\ at_l[r] = "code" /\ Hops(r, s) /\ (known[r] => known'[r])
        /\ UNCHANGED <<live, spent, fails, locks, faults>>
    BY <1>1, GoesTo DEF LG!ReadCode, LG!Steps
  <2>2. LoginTypes' /\ ByFlow' /\ CodeIsGone' /\ LG!CodesServeOnce'
    BY <2>1, Stands, RestKept
  <2>3. \A k \in LG!Kinds : r \in Trying(k)' => r \in Trying(k)
    BY <2>1, Stands, StandsThen, Places DEF Open
  <2> QED
    BY <2>1, <2>2, <2>3, Places, QuietStep
<1>2. CASE LG!CheckLock(r)
  <2> PICK kind \in LG!Kinds :
        /\ at_l[r] = LG!AskOf[kind]
        /\ IF LG!Locked(r, kind) THEN LG!Goto(r, "idle") ELSE LG!Done(r)
    BY <1>2 DEF LG!CheckLock
  <2>1. UNCHANGED <<live, spent, fails, locks, faults>>
    BY <1>2 DEF LG!CheckLock
  <2>2. CASE LG!Locked(r, kind)
    BY <2>1, <2>2, Stands, Rejected, Places
  <2>3. CASE ~LG!Locked(r, kind)
    <3>1. PICK s \in {"ask_ip", "verify", "code"} :
            /\ LG!Goto(r, s) /\ (s = "ask_ip" <=> kind = "who")
            /\ kind = "ip" => (s = "verify" <=> flow = "login")
      BY <2>3, Stands, Places DEF LG!After
    <3>2. s \in LG!Steps /\ Hops(r, s) /\ (known'[r] <=> known[r])
      BY <3>1, GoesTo DEF LG!Steps
    <3>3. LoginTypes' /\ ByFlow' /\ CodeIsGone' /\ LG!CodesServeOnce'
      BY <2>1, <3>1, <3>2, Stands, Places, RestKept
    <3>4. \A k \in LG!Kinds : r \in Trying(k)' => r \in Trying(k) \/ ~locks[k]
      BY <2>3, <3>1, <3>2, Stands, StandsThen, Places DEF Open, LG!Locked
    <3> QED
      BY <2>1, <3>2, <3>3, <3>4, Places, QuietStep
  <2> QED
    BY <2>2, <2>3
<1>3. CASE LG!Verify(r)
  <2> PICK s \in {"clear_who", "count_ip"} : LG!Goto(r, s)
    BY <1>3, Stands DEF LG!Verify, LG!After, LG!Bump
  <2>1. /\ s \in LG!Steps /\ at_l[r] = "verify" /\ flow = "login" /\ Hops(r, s)
        /\ known'[r] = known[r] /\ UNCHANGED <<live, spent, fails, locks, faults>>
    BY <1>3, GoesTo, Stands DEF LG!Verify, LG!Steps
  <2>2. LoginTypes' /\ ByFlow' /\ CodeIsGone' /\ LG!CodesServeOnce'
    BY <2>1, Stands, RestKept
  <2>3. \A k \in LG!Kinds : r \in Trying(k)' => r \in Trying(k)
    BY <2>1, Stands, StandsThen, Places DEF Open
  <2> QED
    BY <2>1, <2>2, <2>3, Places, QuietStep
<1>4. CASE LG!Commit(r)
  <2>1. /\ at_l[r] = "commit" /\ flow = "forgot" /\ LG!Goto(r, "idle")
        /\ spent' = spent \cup {id[r]} /\ UNCHANGED <<live, fails, locks, faults>>
    BY <1>4, Stands DEF LG!Commit, LG!After
  <2>2. live \cap spent' = {}
    BY <2>1, Stands
  <2> QED
    BY <2>1, <2>2, Stands, Rejected, Places
<1>5. CASE LG!DropCode(r)
  <2> PICK s \in {"ask_who", "clear_who", "idle"} :
        /\ LG!Goto(r, s) /\ (flow = "forgot" => s = "clear_who" /\ spent' = spent)
        /\ flow = "login" => s # "clear_who"
        /\ spent' \in {spent, spent \cup {id[r]}}
    BY <1>5, Stands DEF LG!DropCode, LG!After
  <2>1. /\ s \in LG!Steps /\ at_l[r] = "drop" /\ Hops(r, s) /\ (known[r] => known'[r])
        /\ live' = (IF flow = "login" THEN live \ {id[r]} ELSE {})
        /\ UNCHANGED <<fails, locks, faults>>
    BY <1>5, GoesTo DEF LG!DropCode, LG!Steps
  <2>2. live' \in SUBSET live /\ live' \cap spent' = {} /\ (flow = "forgot" => live' = {})
    BY <2>1, Stands
  <2>3. LoginTypes' /\ ByFlow' /\ CodeIsGone' /\ LG!CodesServeOnce'
    BY <2>1, <2>2, Stands, RestKept
  <2>4. \A k \in LG!Kinds : r \notin Trying(k)'
    BY <2>1, Stands, StandsThen, Places DEF Open
  <2> QED
    BY <2>1, <2>3, <2>4, Places, QuietStep
<1>6. CASE LG!Fault(r)
  BY <1>6, Stands, Rejected DEF LG!Fault
<1> QED
  BY <1>1, <1>2, <1>3, <1>4, <1>5, <1>6

\* A success starts a counter anew.
LEMMA ClearStep ==
  ASSUME LoginInv, NEW r \in Req, LG!Clear(r)
  PROVE  LoginInv'
<1> PICK kind \in LG!Kinds :
      at_l[r] = LG!ClearOf[kind] /\ fails' = [fails EXCEPT ![kind] = 0]
  BY DEF LG!Clear
<1>1. /\ UNCHANGED <<live, spent, locks, faults>>
      /\ fails' \in [LG!Kinds -> Nat] /\ \A k \in LG!Kinds : fails'[k] <= fails[k]
  BY Stands DEF LG!Clear, LG!codes
<1>2. PICK s \in {"clear_ip", "commit", "idle"} :
        /\ LG!Goto(r, s) /\ (s = "commit" => flow = "forgot")
        /\ s = "clear_ip" <=> kind = "who"
  BY Stands, Places DEF LG!Clear, LG!Done, LG!After
<1>3. s \in LG!Steps /\ Hops(r, s) /\ (known[r] => known'[r]) /\ id'[r] \in {id[r], None}
      /\ (s # "idle" => id'[r] = id[r])
  BY <1>2, GoesTo DEF LG!Steps, LG!Goto, LoginInv, LoginTypes
<1>4. LoginTypes' /\ ByFlow' /\ CodeIsGone' /\ LG!CodesServeOnce'
  BY <1>1, <1>2, <1>3, Stands, RestKept, Places
<1>5. \A k \in LG!Kinds : r \notin Trying(k)' /\ r \notin Locking(k)
  BY <1>2, <1>3, Stands, StandsThen, Places DEF Open, Locking
<1>6. \A k \in LG!Kinds : Leaves(r, k)
  BY <1>1, <1>5 DEF Leaves
<1> QED
  BY <1>3, <1>4, <1>6, TriesKept DEF LoginInv

\* A failure counts; the one that reaches the limit is about to lock.
LEMMA CountStep ==
  ASSUME LoginInv, NEW r \in Req, LG!Count(r)
  PROVE  LoginInv'
<1> PICK kind \in LG!Kinds :
      /\ at_l[r] = LG!CountOf[kind]
      /\ fails' = [fails EXCEPT ![kind] = fails[kind] + 1]
      /\ LG!Goto(r, IF fails[kind] + 1 >= LG!Limit(flow, kind)
                    THEN LG!LockOf[kind] ELSE LG!Counted(r, kind))
  BY DEF LG!Count, LG!AtLimit
<1>1. UNCHANGED <<live, spent, locks, faults>> /\ fails' \in [LG!Kinds -> Nat]
  BY Stands DEF LG!Count, LG!codes
<1>2. PICK s \in {"lock_who", "lock_ip", "count_who", "count_ip", "idle"} :
        /\ LG!Goto(r, s)
        /\ s \in {"lock_who", "lock_ip"} => s = LG!LockOf[kind]
        /\ fails[kind] + 1 >= LG!Limit(flow, kind) => s = LG!LockOf[kind]
        /\ s = "count_who" => kind = "ip" /\ known[r] /\ flow = "login"
        /\ s = "count_ip" => kind = "who" /\ flow = "forgot"
  BY Stands, Places DEF LG!Counted, LG!After
<1>3. s \in LG!Steps /\ Hops(r, s) /\ (known[r] => known'[r])
      /\ (s # "idle" => (known'[r] <=> known[r]))
  BY <1>2, GoesTo DEF LG!Steps
<1>4. LoginTypes' /\ ByFlow' /\ CodeIsGone' /\ LG!CodesServeOnce'
  BY <1>1, <1>2, <1>3, Stands, RestKept
<1>5. Counts(r, kind)
  <2>1. r \in Trying(kind) /\ r \notin Locking(kind)
    BY Stands, Places DEF Open, Locking
  <2>2. r \notin Trying(kind)'
    BY <1>2, <1>3, Stands, StandsThen, Places DEF Open
  <2>3. fails'[kind] = fails[kind] + 1
    BY Stands
  <2>4. s = LG!LockOf[kind] => r \in Locking(kind)'
    BY <1>3 DEF Locking, Hops
  <2> QED
    BY <1>1, <1>2, <2>1, <2>2, <2>3, <2>4 DEF Counts
<1>6. ASSUME NEW k \in LG!Kinds, k # kind PROVE Leaves(r, k)
  <2>1. r \notin Locking(k) /\ fails'[k] = fails[k] /\ fails[k] \in Nat
    BY <1>6, Stands, Places DEF Locking
  <2>2. r \in Trying(k)' => r \in Trying(k)
    BY <1>2, <1>3, <1>6, Stands, StandsThen, Places DEF Open
  <2> QED
    BY <1>1, <2>1, <2>2 DEF Leaves
<1> QED
  BY <1>3, <1>4, <1>5, <1>6, TriesKept DEF LoginInv

LEMMA LockStep ==
  ASSUME LoginInv, NEW r \in Req, LG!Lock(r)
  PROVE  LoginInv'
<1> PICK kind \in LG!Kinds :
      /\ at_l[r] = LG!LockOf[kind] /\ locks' = [locks EXCEPT ![kind] = TRUE]
      /\ LG!Goto(r, LG!Counted(r, kind))
  BY DEF LG!Lock
<1>1. UNCHANGED <<live, spent, fails, faults>> /\ locks' \in [LG!Kinds -> BOOLEAN]
  BY Stands DEF LG!Lock, LG!codes
<1>2. PICK s \in {"count_who", "count_ip", "idle"} :
        /\ LG!Goto(r, s)
        /\ s = "count_who" => kind = "ip" /\ known[r] /\ flow = "login"
        /\ s = "count_ip" => kind = "who" /\ flow = "forgot"
  BY Stands, Places DEF LG!Counted, LG!After
<1>3. s \in LG!Steps /\ Hops(r, s) /\ (known[r] => known'[r])
      /\ (s # "idle" => (known'[r] <=> known[r]))
  BY <1>2, GoesTo DEF LG!Steps
<1>4. LoginTypes' /\ ByFlow' /\ CodeIsGone' /\ LG!CodesServeOnce'
  BY <1>1, <1>2, <1>3, Stands, RestKept
<1>5. Locks(r, kind)
  <2>1. r \notin Trying(kind)'
    BY <1>2, <1>3, Stands, StandsThen, Places DEF Open
  <2> QED
    BY <1>1, <2>1, Stands DEF Locks
<1>6. ASSUME NEW k \in LG!Kinds, k # kind PROVE Leaves(r, k)
  <2>1. r \notin Locking(k) /\ fails[k] \in Nat /\ locks'[k] = locks[k]
    BY <1>6, Stands, Places DEF Locking
  <2>2. r \in Trying(k)' => r \in Trying(k)
    BY <1>2, <1>3, <1>6, Stands, StandsThen, Places DEF Open
  <2>3. fails'[k] \in Nat /\ fails'[k] <= fails[k] /\ faults' = faults
    BY <1>1, <2>1
  <2> QED
    BY <2>1, <2>2, <2>3 DEF Leaves
<1> QED
  BY <1>3, <1>4, <1>5, <1>6, TriesKept DEF LoginInv

\* What nobody asks for: codes are issued, and keys expire.
LEMMA Elsewhere ==
  ASSUME LoginInv, UNCHANGED <<flow, at_l, id, known, faults>>,
         \/ LG!Issue
         \/ LG!ExpireCode
         \/ \E k \in LG!Kinds : LG!ExpireFails(k) \/ LG!ExpireLock(k)
         \/ UNCHANGED <<live, spent, fails, locks>>
  PROVE  LoginInv'
<1>1. \A k \in LG!Kinds :
        /\ Trying(k)' = Trying(k) /\ Locking(k)' = Locking(k)
        /\ LG!Limit(flow, k)' = LG!Limit(flow, k)
  BY DEF Trying, Locking, Open, LG!Limit
<1>2. LoginTypes /\ ByFlow /\ CodeIsGone /\ LG!CodesServeOnce
  BY DEF LoginInv
<1>3. ByFlow'
  BY <1>2 DEF ByFlow
<1>4. ASSUME UNCHANGED <<fails, locks>> PROVE \A k \in LG!Kinds : Tries(k)'
  BY <1>1, <1>4 DEF LoginInv, Tries
<1>5. CASE LG!Issue
  <2>1. PICK i \in LG!Unused : /\ live' = (IF flow = "login" THEN live ELSE {}) \cup {i}
                               /\ spent' = spent \ {i}
    BY <1>5 DEF LG!Issue
  <2>2. UNCHANGED <<fails, locks>> /\ i \in Ids /\ \A r \in Req : id[r] # i
    BY <1>5 DEF LG!Issue, LG!Unused
  <2>3. LoginTypes' /\ CodeIsGone' /\ LG!CodesServeOnce'
    BY <1>2, <2>1, <2>2 DEF LoginTypes, CodeIsGone, LG!CodesServeOnce
  <2> QED
    BY <1>3, <1>4, <2>2, <2>3 DEF LoginInv
<1>6. CASE LG!ExpireCode \/ UNCHANGED <<live, spent, fails, locks>>
  <2>1. UNCHANGED <<fails, locks, spent>> /\ live' \in SUBSET live
    BY <1>6 DEF LG!ExpireCode
  <2>2. LoginTypes' /\ CodeIsGone' /\ LG!CodesServeOnce'
    BY <1>2, <2>1 DEF LoginTypes, CodeIsGone, LG!CodesServeOnce
  <2> QED
    BY <1>3, <1>4, <2>1, <2>2 DEF LoginInv
<1>7. ASSUME NEW k \in LG!Kinds, LG!ExpireFails(k) \/ LG!ExpireLock(k)
      PROVE  LoginInv'
  <2>1. /\ UNCHANGED <<live, spent>>
        /\ \/ fails' = [fails EXCEPT ![k] = 0] /\ locks' = locks
           \/ /\ fails[k] < LG!Limit(flow, k) /\ fails' = fails
              /\ locks' = [locks EXCEPT ![k] = FALSE]
    BY <1>7 DEF LG!ExpireFails, LG!ExpireLock, LG!codes
  <2>2. LoginTypes' /\ CodeIsGone' /\ LG!CodesServeOnce'
    <3>1. fails' \in [LG!Kinds -> Nat] /\ locks' \in [LG!Kinds -> BOOLEAN]
      <4>1. fails \in [LG!Kinds -> Nat] /\ locks \in [LG!Kinds -> BOOLEAN]
        BY <1>2 DEF LoginTypes
      <4>2. CASE fails' = [fails EXCEPT ![k] = 0] /\ locks' = locks
        BY <4>1, <4>2
      <4>3. CASE fails' = fails /\ locks' = [locks EXCEPT ![k] = FALSE]
        BY <4>1, <4>3
      <4> QED
        BY <2>1, <4>2, <4>3
    <3>2. LoginTypes'
      BY <1>2, <2>1, <3>1 DEF LoginTypes
    <3> QED
      BY <1>2, <2>1, <3>2 DEF CodeIsGone, LG!CodesServeOnce
  <2>3. ASSUME NEW j \in LG!Kinds PROVE Tries(j)'
    <3>1. CASE j = k
      <4> DEFINE S == Cardinality(Trying(j))
                 L == Cardinality(Locking(j))
                 lim == LG!Limit(flow, j)
      <4>1. /\ S \in Nat /\ L \in Nat /\ S + L <= Cardinality(Req) /\ Cardinality(Req) \in Nat
            /\ lim \in Nat \ {0} /\ faults \in Nat /\ fails[j] \in Nat
        BY <1>2, SetsApart, LoginConstants DEF LoginTypes
      <4>2. \/ fails'[j] = 0
            \/ ~locks'[j] /\ fails'[j] < lim /\ fails'[j] = fails[j]
        BY <1>2, <2>1, <3>1 DEF LoginTypes
      <4>3. /\ locks'[j] => fails'[j] + S <= lim - 1 + Cardinality(Req) + faults
            /\ ~locks'[j] => fails'[j] <= lim - 1 + faults + L
        BY <4>1, <4>2
      <4> QED
        BY <1>1, <4>3 DEF Tries
    <3>2. CASE j # k
      <4>1. fails'[j] = fails[j] /\ locks'[j] = locks[j]
        BY <1>2, <2>1, <3>2 DEF LoginTypes
      <4> QED
        BY <1>1, <4>1 DEF LoginInv, Tries
    <3> QED
      BY <3>1, <3>2
  <2> QED
    BY <1>3, <2>2, <2>3 DEF LoginInv
<1> QED
  BY <1>5, <1>6, <1>7

LEMMA LoginStep == LoginInv /\ [LG!Next]_(LG!vars) => LoginInv'
<1> SUFFICES ASSUME LoginInv, [LG!Next]_(LG!vars) PROVE LoginInv'
  OBVIOUS
<1>1. CASE UNCHANGED LG!vars
  BY <1>1, Elsewhere DEF LG!vars
<1>2. ASSUME NEW r \in Req, LG!Begin(r) \/ LG!Step(r) \/ LG!Fault(r) PROVE LoginInv'
  BY <1>2, BeginStep, QuietSteps, ClearStep, CountStep, LockStep DEF LG!Step
<1>3. CASE \/ LG!Issue \/ LG!ExpireCode
           \/ \E k \in LG!Kinds : LG!ExpireFails(k) \/ LG!ExpireLock(k)
  BY <1>3, Elsewhere DEF LG!Issue, LG!ExpireCode, LG!ExpireFails, LG!ExpireLock, LG!asked
<1> QED
  BY <1>1, <1>2, <1>3 DEF LG!Next

\* For any requests, limits and failures of Redis: a code serves no request that
\* reads it after it was accepted, a counter at its limit goes with a lock unless
\* Redis failed, and beyond the limit only those get that were under way at once
\* (user.py, Captcha.py).
THEOREM LoginsCounted == (LG!Spec => []LG!LoginsAreCounted) /\ (MCSpec => []LoginsAreCounted)
<1>1. LoginInv => LG!LoginsAreCounted
  BY LoginTrue DEF LoginsAreCounted
<1>2. LG!Spec => []LG!LoginsAreCounted
  BY <1>1, LoginStart, LoginStep, PTL DEF LG!Spec
<1>3. MCInit => LoginInv
  BY LoginStart DEF MCInit
<1>4. LoginInv /\ [MCNext]_all => LoginInv'
  BY LoginStep DEF MCNext, all, login, LG!vars
<1>5. MCSpec => []LoginsAreCounted
  BY <1>3, <1>4, LoginTrue, PTL DEF MCSpec
<1> QED
  BY <1>2, <1>5

=============================================================================
