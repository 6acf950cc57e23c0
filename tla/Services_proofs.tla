--------------------------- MODULE Services_proofs ---------------------------
EXTENDS MCServices, FiniteSetTheorems, SequenceTheorems, TLAPS

-----------------------------------------------------------------------------
(* The parts stand side by side.                                           *)

\* A step of the whole is, for each part, a step of that part or none.
LEMMA PartSteps ==
  ASSUME [MCNext]_all
  PROVE  /\ [ML!Next]_(ML!vars) /\ [KI!Next]_(KI!vars) /\ [DI!Next]_(DI!vars)
         /\ [IV!Next]_(IV!vars) /\ [ES!Next]_(ES!vars) /\ [RE!Next]_(RE!vars)
<1> USE DEF mail, knowledge, diagnosis, investigation, stream, evidence,
            ML!vars, KI!vars, DI!vars, IV!vars, ES!vars, RE!vars
<1>1. CASE MCNext
  <2>1. \/ ML!Next
        \/ UNCHANGED mail
    BY <1>1 DEF MCNext, Turn
  <2>2. \/ KI!Next
        \/ UNCHANGED knowledge
    BY <1>1 DEF MCNext, Turn
  <2>3. \/ DI!Next
        \/ UNCHANGED diagnosis
    BY <1>1 DEF MCNext, Turn
  <2>4. \/ IV!Next
        \/ UNCHANGED investigation
    BY <1>1 DEF MCNext, Turn
  <2>5. \/ ES!Next
        \/ UNCHANGED stream
    BY <1>1 DEF MCNext, Turn
  <2>6. \/ RE!Next
        \/ UNCHANGED evidence
    BY <1>1 DEF MCNext, Turn
  <2> QED
    BY <2>1, <2>2, <2>3, <2>4, <2>5, <2>6
<1>2. CASE UNCHANGED all
  BY <1>2 DEF all
<1> QED
  BY <1>1, <1>2

LEMMA AuthoritySteps ==
  ASSUME [MCNext]_all
  PROVE  [Next]_vars
<1>1. CASE MCNext
  BY <1>1 DEF MCNext, Turn
<1>2. CASE UNCHANGED all
  BY <1>2 DEF all
<1> QED
  BY <1>1, <1>2

-----------------------------------------------------------------------------
(* The stream of a Run's events.                                           *)

\* The frames on their way are the events after those the client has seen, up to
\* those the server has sent; a terminal frame comes last, and the event that
\* ended the Run is not behind it.
OnTheWay ==
  LET n == Len(got) IN
  /\ n <= sent /\ Len(wire) \in {sent - n, sent - n + 1}
  /\ \A i \in 1 .. sent - n : wire[i] = n + i
  /\ Len(wire) = sent - n + 1 =>
       wire[Len(wire)] = ES!Terminal /\ ended # 0 /\ ended <= sent

StreamInv ==
  /\ seq \in Nat /\ ended \in 0 .. seq /\ sent \in 0 .. seq /\ Len(got) <= seq
  /\ wire \in Seq(Nat) /\ got \in Seq(Nat)
  /\ \A i \in 1 .. Len(got) : got[i] = i
  /\ open => OnTheWay
  /\ closed => ended # 0 /\ ended <= Len(got)

LEMMA SeenIsLength ==
  ASSUME StreamInv
  PROVE  ES!Seen = Len(got)
<1>1. CASE got = <<>>
  BY <1>1 DEF ES!Seen
<1>2. CASE got # <<>>
  <2>1. Len(got) \in 1 .. Len(got)
    BY <1>2 DEF StreamInv
  <2> QED
    BY <1>2, <2>1 DEF ES!Seen, ES!Last, StreamInv
<1> QED
  BY <1>1, <1>2

LEMMA AppendedFrame ==
  ASSUME NEW b \in Seq(Nat), NEW m \in Nat, NEW k \in Nat, Len(b) = m,
         \A i \in 1 .. m : b[i] = k + i
  PROVE  /\ b \o <<0>> \in Seq(Nat) /\ Len(b \o <<0>>) = m + 1
         /\ (b \o <<0>>)[m + 1] = 0
         /\ \A i \in 1 .. m : (b \o <<0>>)[i] = k + i
<1>1. b \o <<0>> = Append(b, 0)
  BY AppendIsConcat
<1> QED
  BY <1>1

LEMMA StreamStep == StreamInv /\ [ES!Next]_(ES!vars) => StreamInv'
<1> SUFFICES ASSUME StreamInv, [ES!Next]_(ES!vars)
             PROVE  StreamInv'
  OBVIOUS
<1> USE DEF StreamInv
<1>1. CASE ES!Append1
  BY <1>1 DEF ES!Append1, OnTheWay
<1>2. CASE ES!Connect
  BY <1>2, SeenIsLength DEF ES!Connect, ES!Resume, OnTheWay
<1>3. CASE ES!Poll
  <2> DEFINE up == ES!Upto
             body == [i \in 1 .. up - sent |-> sent + i]
  <2>1. /\ open /\ wire = <<>> /\ sent' = up
        /\ wire' = body \o IF ES!Finished THEN <<0>> ELSE <<>>
        /\ UNCHANGED <<seq, ended, open, got, closed, drops>>
    BY <1>3 DEF ES!Poll, ES!Terminal
  <2>2. Len(got) = sent
    BY <2>1 DEF OnTheWay
  <2>3. up \in sent .. seq
    BY ServicesAssumption DEF ES!StreamAssumption, ES!Upto, ES!Lesser
  <2> HIDE DEF up
  <2>4. body \in Seq(Nat) /\ Len(body) = up - sent /\ \A i \in 1 .. up - sent : body[i] = sent + i
    BY <2>3
  <2> HIDE DEF body
  <2>5. CASE ES!Finished
    <3>1. wire' = body \o <<0>> /\ <<0>> \in Seq(Nat) /\ Len(<<0>>) = 1 /\ <<0>>[1] = 0
      BY <2>1, <2>5
    <3>2. wire' \in Seq(Nat) /\ Len(wire') = up - sent + 1 /\ wire'[up - sent + 1] = 0
          /\ \A i \in 1 .. up - sent : wire'[i] = sent + i
      <4>1. up - sent \in Nat /\ sent \in Nat
        BY <2>3
      <4>2. /\ body \o <<0>> \in Seq(Nat) /\ Len(body \o <<0>>) = up - sent + 1
            /\ (body \o <<0>>)[up - sent + 1] = 0
            /\ \A i \in 1 .. up - sent : (body \o <<0>>)[i] = sent + i
        BY <4>1, <2>4, AppendedFrame
      <4> QED
        BY <4>2, <3>1
    <3>3. up = seq /\ ended # 0
      BY <2>3, <2>5 DEF ES!Finished, up
    <3>4. OnTheWay'
      BY <2>1, <2>2, <2>3, <3>2, <3>3 DEF OnTheWay, ES!Terminal
    <3> QED
      BY <2>1, <2>2, <2>3, <3>2, <3>4
  <2>6. CASE ~ES!Finished
    <3>1. wire' = body
      BY <2>1, <2>4, <2>6
    <3>2. OnTheWay'
      BY <2>1, <2>2, <2>3, <2>4, <3>1 DEF OnTheWay
    <3> QED
      BY <2>1, <2>2, <2>3, <2>4, <3>1, <3>2
  <2> QED
    BY <2>5, <2>6
<1>4. CASE ES!Receive
  <2> DEFINE n == Len(got)
  <2>1. /\ open /\ wire # <<>> /\ wire' = Tail(wire) /\ OnTheWay
        /\ UNCHANGED <<seq, ended, sent>>
    BY <1>4 DEF ES!Receive
  <2>2. /\ n \in Nat /\ Len(wire) \in Nat /\ Len(wire) >= 1 /\ Head(wire) = wire[1]
        /\ Tail(wire) \in Seq(Nat) /\ Len(Tail(wire)) = Len(wire) - 1
        /\ \A i \in 1 .. Len(wire) - 1 : Tail(wire)[i] = wire[i + 1]
    BY <2>1
  <2>3. CASE Head(wire) = 0
    <3>1. closed' /\ ~open' /\ got' = got
      BY <1>4, <2>3 DEF ES!Receive, ES!Terminal
    <3>2. n = sent
      BY <2>1, <2>2, <2>3 DEF OnTheWay
    <3>3. ended # 0 /\ ended <= n
      BY <2>1, <2>2, <3>2 DEF OnTheWay
    <3> QED
      BY <2>1, <2>2, <3>1, <3>3
  <2>4. CASE Head(wire) # 0
    <3>1. got' = Append(got, Head(wire)) /\ closed' = closed /\ open'
      BY <1>4, <2>1, <2>4 DEF ES!Receive, ES!Terminal
    <3>2. n < sent /\ Head(wire) = n + 1
      BY <2>1, <2>2, <2>4 DEF OnTheWay, ES!Terminal
    <3>3. /\ got' \in Seq(Nat) /\ Len(got') = n + 1
          /\ \A i \in 1 .. Len(got') : got'[i] = i
      BY <3>1, <3>2, <2>2
    <3>4. /\ Len(wire') \in {sent - (n + 1), sent - (n + 1) + 1}
          /\ \A i \in 1 .. sent - (n + 1) : wire'[i] = n + 1 + i
      <4>1. Len(wire) \in {sent - n, sent - n + 1} /\ \A i \in 1 .. sent - n : wire[i] = n + i
        BY <2>1 DEF OnTheWay
      <4>2. ASSUME NEW i \in 1 .. sent - (n + 1)
            PROVE  wire'[i] = n + 1 + i
        <5>1. i + 1 \in 1 .. sent - n /\ i \in 1 .. Len(wire) - 1
          BY <4>1, <2>2, <3>2
        <5> QED
          BY <5>1, <4>1, <2>1, <2>2
      <4> QED
        BY <4>1, <4>2, <2>1, <2>2, <3>2
    <3>5. Len(wire') = sent - (n + 1) + 1 =>
            wire'[Len(wire')] = 0 /\ ended # 0 /\ ended <= sent
      <4>1. SUFFICES ASSUME Len(wire') = sent - (n + 1) + 1
                     PROVE  wire'[Len(wire')] = 0 /\ ended # 0 /\ ended <= sent
        OBVIOUS
      <4>2. Len(wire) = sent - n + 1 /\ Len(wire') = Len(wire) - 1
        BY <4>1, <2>1, <2>2
      <4>3. wire[Len(wire)] = 0 /\ ended # 0 /\ ended <= sent
        BY <4>2, <2>1 DEF OnTheWay, ES!Terminal
      <4>4. Len(wire') \in 1 .. Len(wire) - 1
        BY <4>2, <3>2, <2>2
      <4> QED
        BY <4>2, <4>3, <4>4, <2>1, <2>2
    <3>6. OnTheWay'
      BY <2>1, <2>2, <3>2, <3>3, <3>4, <3>5 DEF OnTheWay, ES!Terminal
    <3> QED
      BY <2>1, <2>2, <3>1, <3>2, <3>3, <3>6
  <2> QED
    BY <2>3, <2>4
<1>5. CASE ES!Drop
  BY <1>5 DEF ES!Drop
<1>6. CASE UNCHANGED ES!vars
  BY <1>6 DEF ES!vars, OnTheWay
<1> QED
  BY <1>1, <1>2, <1>3, <1>4, <1>5, <1>6 DEF ES!Next

LEMMA StreamInit == ES!Init => StreamInv
BY DEF ES!Init, StreamInv

LEMMA StreamInvWhole == StreamInv => ES!StreamIsWhole
BY SeenIsLength DEF StreamInv, ES!StreamIsWhole, ES!EveryEventOnce, ES!TerminalIsLast

\* What the client of a Run's stream has seen is the first events of the Run,
\* each once and in order, and the terminal frame cuts none off: by itself and
\* beside the other services, for every batch and any number of lost
\* connections (_stream_generator of autonomy/views.py).
THEOREM StreamWhole == (ES!Spec => []ES!StreamIsWhole) /\ (MCSpec => []StreamIsWhole)
<1>1. ES!Spec => []ES!StreamIsWhole
  BY StreamInit, StreamStep, StreamInvWhole, PTL DEF ES!Spec
<1>2. MCInit => StreamInv
  BY StreamInit DEF MCInit
<1>3. StreamInv /\ [MCNext]_all => StreamInv'
  BY PartSteps, StreamStep
<1>4. StreamInv => StreamIsWhole
  BY StreamInvWhole DEF StreamIsWhole
<1>5. MCSpec => []StreamIsWhole
  BY <1>2, <1>3, <1>4, PTL DEF MCSpec
<1> QED
  BY <1>1, <1>5

\* What StreamInv leaves open of the types: a frame still there was sent.
StreamRest  == seq \in 1 .. MaxSeq /\ drops \in 0 .. MaxDrops /\ wire \in Seq(0 .. seq)
StreamFlags == open \in BOOLEAN /\ closed \in BOOLEAN

LEMMA StreamRestStart == ES!Init => StreamRest /\ StreamFlags
<1> SUFFICES ASSUME ES!Init PROVE StreamRest /\ StreamFlags
  OBVIOUS
<1>1. StreamRest
  BY ServicesAssumption DEF ES!Init, StreamRest, ES!StreamAssumption
<1>2. StreamFlags
  BY DEF ES!Init, StreamFlags
<1> QED
  BY <1>1, <1>2

LEMMA WiderFrames ==
  ASSUME NEW n \in Nat, NEW m \in Nat, n <= m, NEW w \in Seq(0 .. n)
  PROVE  w \in Seq(0 .. m)
<1>1. Len(w) \in Nat /\ DOMAIN w = 1 .. Len(w) /\ \A i \in 1 .. Len(w) : w[i] \in 0 .. n
  OBVIOUS
<1>2. w \in [1 .. Len(w) -> 0 .. m]
  BY <1>1
<1> QED
  BY <1>1, <1>2

LEMMA StreamRestStays == StreamInv /\ StreamRest /\ [ES!Next]_(ES!vars) => StreamRest'
<1> SUFFICES ASSUME StreamInv, StreamRest, [ES!Next]_(ES!vars) PROVE StreamRest'
  OBVIOUS
<1> USE DEF StreamRest
<1>1. CASE ES!Append1
  <2>1. seq' \in 1 .. MaxSeq /\ drops' \in 0 .. MaxDrops /\ wire' = wire /\ seq' = seq + 1
    BY <1>1, ServicesAssumption DEF ES!Append1, ES!StreamAssumption
  <2>2. seq \in Nat /\ seq' \in Nat /\ seq <= seq'
    BY <2>1
  <2>3. wire \in Seq(0 .. seq')
    BY <2>2, WiderFrames
  <2> QED
    BY <2>1, <2>3
<1>2. CASE ES!Connect
  BY <1>2 DEF ES!Connect
<1>3. CASE ES!Poll
  <2>1. PICK up, body : up = ES!Upto /\ body = [i \in 1 .. up - sent |-> sent + i]
    OBVIOUS
  <2>2. /\ open /\ wire = <<>> /\ wire' = body \o IF ES!Finished THEN <<0>> ELSE <<>>
        /\ UNCHANGED <<seq, drops>>
    BY <1>3, <2>1 DEF ES!Poll, ES!Terminal
  <2>3. Len(got) = sent /\ sent \in Nat
    BY <2>2 DEF StreamInv, OnTheWay
  <2>4. up \in sent .. seq
    BY <2>1, <2>3, ServicesAssumption DEF ES!StreamAssumption, ES!Upto, ES!Lesser, StreamInv
  <2>5. body \in Seq(0 .. seq)
    BY <2>1, <2>3, <2>4
  <2>6. <<0>> \in Seq(0 .. seq) /\ <<>> \in Seq(0 .. seq)
    OBVIOUS
  <2>7. PICK last \in {<<0>>, <<>>} : wire' = body \o last
    BY <2>2
  <2>8. wire' \in Seq(0 .. seq)
    BY <2>5, <2>6, <2>7, ConcatProperties
  <2> QED
    BY <2>2, <2>8
<1>4. CASE ES!Receive
  <2>1. wire # <<>> /\ wire' = Tail(wire) /\ UNCHANGED <<seq, drops>>
    BY <1>4 DEF ES!Receive
  <2> QED
    BY <2>1
<1>5. CASE ES!Drop
  BY <1>5, ServicesAssumption DEF ES!Drop, ES!StreamAssumption
<1>6. CASE UNCHANGED ES!vars
  BY <1>6 DEF ES!vars
<1> QED
  BY <1>1, <1>2, <1>3, <1>4, <1>5, <1>6 DEF ES!Next

LEMMA StreamFlagsStay == StreamFlags /\ [ES!Next]_(ES!vars) => StreamFlags'
BY DEF StreamFlags, ES!Next, ES!vars, ES!Append1, ES!Connect, ES!Poll, ES!Receive, ES!Drop

LEMMA StreamTyped == StreamInv /\ StreamRest /\ StreamFlags => ES!TypeOK
<1> SUFFICES ASSUME StreamInv, StreamRest, StreamFlags PROVE ES!TypeOK
  OBVIOUS
<1>1. got \in Seq(1 .. seq)
  <2>1. /\ got \in Seq(Nat) /\ Len(got) \in Nat /\ Len(got) <= seq /\ seq \in Nat
        /\ \A i \in 1 .. Len(got) : got[i] = i
    BY DEF StreamInv
  <2>2. \A i \in 1 .. Len(got) : got[i] \in 1 .. seq
    BY <2>1
  <2> QED
    BY <2>1, <2>2
<1> QED
  BY <1>1 DEF StreamInv, StreamRest, StreamFlags, ES!TypeOK

-----------------------------------------------------------------------------
(* The mail relay.                                                         *)

MailTypes ==
  /\ at \in [Requests -> ML!Windows \cup {"connect", "send", "done"}]
  /\ tries \in [Requests -> 0 .. MaxRetries]
  /\ smtp \in [Requests -> {"none", "open", "dirty"}]
  /\ refused \in [Requests -> Nat] /\ copies \in [Requests -> Nat]
  /\ answer \in [Requests -> {"none", "sent", "limited", "failed"}]

\* Until a request is done, every copy belongs to an attempt that failed.
MailTrue(r) ==
  /\ at[r] = "send" => smtp[r] = "open"
  /\ at[r] # "done" => copies[r] <= tries[r] /\ refused[r] = 0 /\ answer[r] # "sent"
  /\ copies[r] <= tries[r] + 1 /\ refused[r] <= 1
  /\ answer[r] = "sent" => copies[r] >= 1

MailInv == MailTypes /\ \A r \in Requests : MailTrue(r)

\* A step of one request leaves the others as they are.
LEMMA MailStepOf ==
  ASSUME MailInv, NEW q \in Requests, ML!Step(q) \/ ML!RedisFails(q)
  PROVE  MailInv'
<1> USE DEF MailInv, MailTypes, ML!Windows
<1>1. CASE ML!Increment(q)
  <2>1. /\ UNCHANGED <<tries, smtp, refused, copies>> /\ at[q] \in ML!Windows
        /\ \/ UNCHANGED <<at, answer>>
           \/ ML!Told(q, "limited")
           \/ at' = [at EXCEPT ![q] = ML!After(at[q])] /\ UNCHANGED answer
    BY <1>1 DEF ML!Increment, ML!mail, ML!Counting
  <2>2. ML!After(at[q]) \in {"hour", "connect"}
    BY DEF ML!After
  <2> QED
    BY <2>1, <2>2 DEF ML!Told, MailTrue
<1>2. CASE ML!Expire(q)
  <2>1. /\ UNCHANGED <<tries, smtp, refused, copies>> /\ at[q] \in ML!Windows
        /\ \/ ML!Told(q, "limited")
           \/ at' = [at EXCEPT ![q] = ML!After(at[q])] /\ UNCHANGED answer
    BY <1>2 DEF ML!Expire, ML!mail, ML!Counting
  <2>2. ML!After(at[q]) \in {"hour", "connect"}
    BY DEF ML!After
  <2> QED
    BY <2>1, <2>2 DEF ML!Told, MailTrue
<1>3. CASE ML!Connect(q)
  BY <1>3 DEF ML!Connect, ML!Told, MailTrue
<1>4. CASE ML!Accepted(q)
  BY <1>4 DEF ML!Accepted, ML!Told, MailTrue
<1>5. CASE ML!Broken(q)
  <2>1. /\ at[q] = "send" /\ smtp' = [smtp EXCEPT ![q] = "none"] /\ UNCHANGED refused
        /\ copies' \in {copies, [copies EXCEPT ![q] = @ + 1]}
        /\ IF tries[q] < MaxRetries
           THEN /\ tries' = [tries EXCEPT ![q] = @ + 1]
                /\ at' = [at EXCEPT ![q] = "connect"]
                /\ UNCHANGED answer
           ELSE ML!Told(q, "failed") /\ UNCHANGED tries
    BY <1>5 DEF ML!Broken, ML!Dropped, ML!Again
  <2>2. CASE tries[q] < MaxRetries
    <3>1. tries[q] + 1 \in 0 .. MaxRetries
      BY <2>2, ServicesAssumption DEF ML!MailAssumption
    <3> QED
      BY <2>1, <2>2, <3>1 DEF MailTrue
  <2>3. CASE ~(tries[q] < MaxRetries)
    BY <2>1, <2>3 DEF ML!Told, MailTrue
  <2> QED
    BY <2>2, <2>3
<1>6. CASE ML!Refused(q)
  BY <1>6 DEF ML!Refused, ML!Told, ML!Dropped, MailTrue
<1>7. CASE ML!RedisFails(q)
  BY <1>7 DEF ML!RedisFails, ML!mail, ML!Counting, MailTrue
<1> QED
  BY <1>1, <1>2, <1>3, <1>4, <1>5, <1>6, <1>7 DEF ML!Step

LEMMA MailStep == MailInv /\ [ML!Next]_(ML!vars) => MailInv'
<1>1. ASSUME MailInv, UNCHANGED <<at, tries, smtp, refused, copies, answer>>
      PROVE  MailInv'
  BY <1>1 DEF MailInv, MailTypes, MailTrue
<1> QED
  BY <1>1, MailStepOf DEF ML!Next, ML!Ended, ML!WindowPasses, ML!vars, ML!mail

LEMMA MailStart == ML!Init => MailInv
BY ServicesAssumption DEF ML!Init, MailInv, MailTypes, MailTrue, ML!Windows,
                        ML!MailAssumption

LEMMA MailInvTrue == MailInv => ML!MailIsTrue
<1> SUFFICES ASSUME MailInv, NEW r \in Requests
             PROVE  /\ answer[r] = "sent" => copies[r] >= 1
                    /\ copies[r] <= MaxRetries + 1 /\ refused[r] <= 1
                    /\ at[r] = "send" => smtp[r] = "open"
  BY DEF ML!MailIsTrue, ML!SentMeansDelivered, ML!RefusedOnce, ML!FreshSession
<1> QED
  BY ServicesAssumption DEF MailInv, MailTypes, MailTrue, ML!MailAssumption

\* What the caller is told of his message is true, for any number of requests,
\* limits and retries: sent is accepted at least once and at most MaxRetries
\* times more, a message refused for good is not offered again, and no attempt
\* is made on a session that broke (SendMail._send_msg).
THEOREM MailTold == (ML!Spec => []ML!MailIsTrue) /\ (MCSpec => []MailIsTrue)
<1>1. ML!Spec => []ML!MailIsTrue
  BY MailStart, MailStep, MailInvTrue, PTL DEF ML!Spec
<1>2. MCInit => MailInv
  BY MailStart DEF MCInit
<1>3. MailInv /\ [MCNext]_all => MailInv'
  BY PartSteps, MailStep
<1>4. MailInv => MailIsTrue
  BY MailInvTrue DEF MailIsTrue
<1>5. MCSpec => []MailIsTrue
  BY <1>2, <1>3, <1>4, PTL DEF MCSpec
<1> QED
  BY <1>1, <1>5

\* What MailInv leaves open of the types.
MailRest  == count \in [ML!Windows -> Nat] /\ faults \in 0 .. MaxFaults
MailFlags == expire \in [Requests -> BOOLEAN] /\ ttl \in [ML!Windows -> BOOLEAN]

LEMMA MailRestStart == ML!Init => MailRest /\ MailFlags
<1> SUFFICES ASSUME ML!Init PROVE MailRest /\ MailFlags
  OBVIOUS
<1>1. MailRest
  BY ServicesAssumption DEF ML!Init, MailRest, ML!MailAssumption
<1>2. MailFlags
  BY Zenon DEF ML!Init, MailFlags
<1> QED
  BY <1>1, <1>2

LEMMA MailRestStays == MailRest /\ [ML!Next]_(ML!vars) => MailRest'
<1> SUFFICES ASSUME MailRest, [ML!Next]_(ML!vars) PROVE MailRest'
  OBVIOUS
<1> USE DEF MailRest
<1>1. ASSUME UNCHANGED <<count, faults>> PROVE MailRest'
  BY <1>1
<1>2. ASSUME NEW q \in Requests, ML!Increment(q) PROVE MailRest'
  BY <1>2 DEF ML!Increment, ML!Counting
<1>3. ASSUME NEW q \in Requests, ML!RedisFails(q) PROVE MailRest'
  BY <1>3, ServicesAssumption DEF ML!RedisFails, ML!MailAssumption
<1>4. CASE ML!WindowPasses
  BY <1>4 DEF ML!WindowPasses
<1>5. ASSUME NEW q \in Requests, ML!Expire(q) \/ ML!Connect(q) \/ ML!Accepted(q)
                                 \/ ML!Broken(q) \/ ML!Refused(q)
      PROVE  MailRest'
  BY <1>1, <1>5 DEF ML!Expire, ML!Connect, ML!Accepted, ML!Broken, ML!Refused, ML!redis
<1>6. CASE ML!Ended \/ UNCHANGED ML!vars
  BY <1>1, <1>6 DEF ML!Ended, ML!vars
<1> QED
  BY <1>2, <1>3, <1>4, <1>5, <1>6 DEF ML!Next, ML!Step

LEMMA MailFlagsStay == MailFlags /\ [ML!Next]_(ML!vars) => MailFlags'
<1> SUFFICES ASSUME MailFlags, [ML!Next]_(ML!vars) PROVE MailFlags'
  OBVIOUS
<1> USE DEF MailFlags
<1>1. ASSUME UNCHANGED <<expire, ttl>> PROVE MailFlags'
  BY <1>1
<1>2. ASSUME NEW q \in Requests, NEW b \in BOOLEAN, expire' = [expire EXCEPT ![q] = b], ttl' = ttl
      PROVE  MailFlags'
  BY <1>2
<1>3. ASSUME NEW w \in ML!Windows, NEW b \in BOOLEAN, ttl' = [ttl EXCEPT ![w] = b],
             expire' \in [Requests -> BOOLEAN]
      PROVE  MailFlags'
  BY <1>3
<1>4. ASSUME NEW q \in Requests, ML!Increment(q) PROVE MailFlags'
  <2>1. PICK b : b = (count[at[q]] + 1 = 1)
    OBVIOUS
  <2>2. b \in BOOLEAN
    BY <2>1
  <2>3. expire' = [expire EXCEPT ![q] = b] /\ ttl' = ttl
    BY <1>4, <2>1, Zenon DEF ML!Increment
  <2> QED
    BY <1>2, <2>2, <2>3
<1>5. ASSUME NEW q \in Requests, ML!RedisFails(q) PROVE MailFlags'
  BY <1>2, <1>5 DEF ML!RedisFails
<1>6. ASSUME NEW q \in Requests, ML!Expire(q) PROVE MailFlags'
  <2>1. PICK b : b = (count[at[q]] > 0)
    OBVIOUS
  <2>2. b \in BOOLEAN
    BY <2>1
  <2>3. ttl' = [ttl EXCEPT ![at[q]] = b] /\ at[q] \in ML!Windows
    BY <1>6, <2>1, Zenon DEF ML!Expire, ML!Counting
  <2>4. expire' \in [Requests -> BOOLEAN]
    BY <1>6, Zenon DEF ML!Expire
  <2> QED
    BY <1>3, <2>2, <2>3, <2>4
<1>7. CASE ML!WindowPasses
  BY <1>3, <1>7 DEF ML!WindowPasses
<1>8. ASSUME NEW q \in Requests, ML!Connect(q) \/ ML!Accepted(q) \/ ML!Broken(q) \/ ML!Refused(q)
      PROVE  MailFlags'
  BY <1>1, <1>8 DEF ML!Connect, ML!Accepted, ML!Broken, ML!Refused, ML!redis
<1>9. CASE ML!Ended \/ UNCHANGED ML!vars
  BY <1>1, <1>9 DEF ML!Ended, ML!vars
<1> QED
  BY <1>4, <1>5, <1>6, <1>7, <1>8, <1>9 DEF ML!Next, ML!Step

LEMMA MailTyped == MailInv /\ MailRest /\ MailFlags => ML!TypeOK
BY Zenon DEF MailInv, MailTypes, MailRest, MailFlags, ML!TypeOK

-----------------------------------------------------------------------------
(* The evidence and the conclusion of a Run.                               *)

\* Evidence, and the worker's list of what lacks it, are of executed steps only;
\* a worker that recorded late finds the same steps executed.
EvidenceInv ==
  /\ status_e \in [RE!Step -> RE!Executed \cup {"open"}]
  /\ evidence_e \in [RE!Step -> Nat]
  /\ todo_e \in [Drive -> SUBSET RE!Step]
  /\ \A s \in RE!Step : evidence_e[s] > 0 => status_e[s] \in RE!Executed
  /\ \A w \in Drive : \A s \in todo_e[w] : status_e[s] \in RE!Executed

LEMMA EvidenceStart == RE!Init => EvidenceInv
BY DEF RE!Init, EvidenceInv, RE!Executed

LEMMA EvidenceStep == EvidenceInv /\ [RE!Next]_(RE!vars) => EvidenceInv'
<1> SUFFICES ASSUME EvidenceInv, [RE!Next]_(RE!vars)
             PROVE  EvidenceInv'
  OBVIOUS
<1> USE DEF EvidenceInv
<1>1. ASSUME UNCHANGED <<status_e, evidence_e, todo_e>>
      PROVE  EvidenceInv'
  BY <1>1
<1>2. ASSUME NEW w \in Drive, NEW s \in RE!Step, RE!Execute(w, s)
      PROVE  EvidenceInv'
  <2>1. PICK x \in RE!Executed : status_e' = [status_e EXCEPT ![s] = x]
    BY <1>2 DEF RE!Execute
  <2>2. UNCHANGED <<evidence_e, todo_e>>
    BY <1>2 DEF RE!Execute
  <2> QED
    BY <2>1, <2>2
<1>3. ASSUME NEW w \in Drive, RE!Observe(w)
      PROVE  EvidenceInv'
  BY <1>3 DEF RE!Observe, RE!Missing
<1>4. ASSUME NEW w \in Drive, RE!Record(w)
      PROVE  EvidenceInv'
  <2>1. CASE todo_e[w] = {}
    BY <1>1, <1>4, <2>1 DEF RE!Record
  <2>2. CASE todo_e[w] # {}
    <3>1. PICK s \in todo_e[w] :
            /\ evidence_e' = [evidence_e EXCEPT ![s] = @ + 1]
            /\ todo_e' = [todo_e EXCEPT ![w] = @ \ {s}]
      BY <1>4, <2>2 DEF RE!Record
    <3>2. s \in RE!Step /\ status_e' = status_e /\ status_e[s] \in RE!Executed
      BY <1>4 DEF RE!Record
    <3> QED
      BY <3>1, <3>2
  <2> QED
    BY <2>1, <2>2
<1>5. ASSUME NEW w \in Drive, RE!TakeOver(w) \/ RE!Conclude(w) \/ RE!Finalize(w)
      PROVE  EvidenceInv'
  BY <1>1, <1>5 DEF RE!TakeOver, RE!Conclude, RE!Finalize
<1>6. CASE RE!GiveUp
  BY <1>1, <1>6 DEF RE!GiveUp
<1>7. CASE UNCHANGED RE!vars
  BY <1>1, <1>7 DEF RE!vars
<1> QED
  BY <1>2, <1>3, <1>4, <1>5, <1>6, <1>7 DEF RE!Next

\* Only a conclusion or the end of the Run writes the outcome.
LEMMA OutcomeWritten ==
  ASSUME [RE!Next]_(RE!vars)
  PROVE  \/ \E w \in Drive : RE!Conclude(w) \/ RE!Finalize(w)
         \/ outcome_e' = outcome_e
BY DEF RE!Next, RE!TakeOver, RE!Observe, RE!Record, RE!Execute, RE!GiveUp, RE!vars

LEMMA Concludes ==
  ASSUME EvidenceInv, [RE!Next]_(RE!vars)
  PROVE  /\ outcome_e # None => outcome_e' = outcome_e
         /\ outcome_e = None /\ outcome_e' = "resolved" =>
              /\ \E s \in RE!Recorded \cap Checks : status_e[s] \in RE!Executed
              /\ ~RE!Unknown
<1> USE ServicesAssumption DEF RE!EvidenceAssumption
<1>1. ASSUME NEW w \in Drive, RE!Conclude(w)
      PROVE  /\ outcome_e = None
             /\ outcome_e' = "resolved" =>
                  /\ \E s \in RE!Recorded \cap Checks : status_e[s] \in RE!Executed
                  /\ ~RE!Unknown
  <2>1. outcome_e = None
    BY <1>1 DEF RE!Conclude, RE!Unset
  <2>2. PICK asked_ \in {"resolved", "not_resolved", "inconclusive"},
             cited \in SUBSET RE!Recorded \ {{}} :
          outcome_e' = RE!Outcome(asked_, cited)
    BY <1>1 DEF RE!Conclude
  <2>3. ASSUME outcome_e' = "resolved"
        PROVE  cited \cap Checks # {} /\ ~RE!Unknown
    BY <2>2, <2>3 DEF RE!Outcome
  <2>4. \A s \in cited : status_e[s] \in RE!Executed /\ s \in RE!Recorded
    BY DEF EvidenceInv, RE!Recorded
  <2> QED
    BY <2>1, <2>3, <2>4
<1>2. ASSUME NEW w \in Drive, RE!Finalize(w)
      PROVE  /\ outcome_e # None => outcome_e' = outcome_e
             /\ outcome_e = None => outcome_e' # "resolved"
  BY <1>2 DEF RE!Finalize, RE!Default
<1>3. ASSUME outcome_e' = outcome_e
      PROVE  outcome_e = None => outcome_e' # "resolved"
  BY <1>3
<1> QED
  BY <1>1, <1>2, <1>3, OutcomeWritten

\* For any number of workers and steps, late and double recording included: a
\* Run is called resolved only when one of its verifications, executed, has left
\* evidence and no write has an unknown result; and what a Run has concluded
\* stays (repository.conclude_run, drive._record_run_evidence).
THEOREM ConclusionsHold == (RE!Spec => RE!ConclusionHolds) /\ (MCSpec => ConclusionHolds)
<1> DEFINE Once == outcome_e # None => outcome_e' = outcome_e
           Checked == outcome_e = None /\ outcome_e' = "resolved" =>
                         /\ \E s \in RE!Recorded \cap Checks : status_e[s] \in RE!Executed
                         /\ ~RE!Unknown
<1>1. EvidenceInv /\ [RE!Next]_(RE!vars) => [Once]_(RE!vars) /\ [Checked]_(RE!vars)
  BY Concludes
<1>2. RE!ConclusionHolds <=> [][Once]_(RE!vars) /\ [][Checked]_(RE!vars)
  BY PTL DEF RE!ConclusionHolds, RE!ConcludesOnce, RE!ResolvedIsVerified
<1> HIDE DEF Once, Checked
<1>3. RE!Spec => RE!ConclusionHolds
  BY <1>1, <1>2, EvidenceStart, EvidenceStep, PTL DEF RE!Spec
<1>4. MCInit => EvidenceInv
  BY EvidenceStart DEF MCInit
<1>5. [MCNext]_all => [RE!Next]_(RE!vars)
  BY PartSteps
<1>6. MCSpec => RE!ConclusionHolds
  BY <1>1, <1>2, <1>4, <1>5, EvidenceStep, PTL DEF MCSpec
<1> QED
  BY <1>3, <1>6 DEF ConclusionHolds

\* What EvidenceInv leaves open of the types.
EvidenceRest  == claim \in Drive \cup {None}
                 /\ outcome_e \in {None, "resolved", "not_resolved", "inconclusive"}
EvidenceFlags == attention \in BOOLEAN /\ done \in BOOLEAN

LEMMA EvidenceRestStart == RE!Init => EvidenceRest /\ EvidenceFlags
BY DEF RE!Init, EvidenceRest, EvidenceFlags

LEMMA EvidenceRestStays == EvidenceRest /\ [RE!Next]_(RE!vars) => EvidenceRest'
<1> SUFFICES ASSUME EvidenceRest, [RE!Next]_(RE!vars) PROVE EvidenceRest'
  OBVIOUS
<1> USE DEF EvidenceRest
<1>1. claim' \in Drive \cup {None}
  BY DEF RE!Next, RE!vars, RE!GiveUp, RE!TakeOver, RE!Execute, RE!Observe, RE!Record,
         RE!Conclude, RE!Finalize
<1>2. CASE outcome_e' = outcome_e
  BY <1>1, <1>2
<1>3. ASSUME NEW w \in Drive, RE!Conclude(w) PROVE EvidenceRest'
  BY <1>1, <1>3 DEF RE!Conclude, RE!Outcome
<1>4. ASSUME NEW w \in Drive, RE!Finalize(w) PROVE EvidenceRest'
  BY <1>1, <1>4 DEF RE!Finalize, RE!Default
<1> QED
  BY <1>2, <1>3, <1>4, OutcomeWritten

LEMMA EvidenceFlagsStay == EvidenceFlags /\ [RE!Next]_(RE!vars) => EvidenceFlags'
<1> SUFFICES ASSUME EvidenceFlags, [RE!Next]_(RE!vars) PROVE EvidenceFlags'
  OBVIOUS
<1> USE DEF EvidenceFlags
<1>1. ASSUME NEW w \in Drive, NEW s \in RE!Step, RE!Execute(w, s) PROVE EvidenceFlags'
  <2>1. PICK x : attention' = (x = "outcome_unknown")
    BY <1>1 DEF RE!Execute
  <2>2. done' = done
    BY <1>1 DEF RE!Execute
  <2> QED
    BY <2>1, <2>2
<1>2. ASSUME NEW w \in Drive, RE!Finalize(w) PROVE EvidenceFlags'
  BY <1>2 DEF RE!Finalize
<1>3. CASE RE!GiveUp
  BY <1>3 DEF RE!GiveUp
<1>4. ASSUME NEW w \in Drive, RE!TakeOver(w) \/ RE!Observe(w) \/ RE!Record(w) \/ RE!Conclude(w)
      PROVE  EvidenceFlags'
  BY <1>4 DEF RE!TakeOver, RE!Observe, RE!Record, RE!Conclude
<1>5. CASE UNCHANGED RE!vars
  BY <1>5 DEF RE!vars
<1> QED
  BY <1>1, <1>2, <1>3, <1>4, <1>5 DEF RE!Next

LEMMA EvidenceTyped == EvidenceInv /\ EvidenceRest /\ EvidenceFlags => RE!TypeOK
BY Zenon DEF EvidenceInv, EvidenceRest, EvidenceFlags, RE!TypeOK

-----------------------------------------------------------------------------
(* A diagnosis.                                                            *)

RunRow == [status : DI!TERMINAL_STATUSES \cup {"queued", "running"},
           cancel : BOOLEAN, seq : Nat]

DiagnosisTypes ==
  /\ run_d \in RunRow
  /\ items \in SUBSET [host : Host, probe : Nat, ok : BOOLEAN]
  /\ evidence_d \subseteq items /\ todo_d \in SUBSET Host /\ probe \in Nat

\* A probe begun after the cancel leaves no check that would begin another.
OneOverrun ==
  /\ overrun \in {0, 1}
  /\ overrun = 1 => run_d.cancel /\ work \notin {"created", "begin"}

\* The last should_cancel hears a cancel that came before it.
CancelHeard ==
  early =>
    /\ run_d.cancel
    /\ work \in {"report", "close"} => heard \in {"cancel", "denied"}
    /\ work = "ended" => run_d.status \notin {"completed", "partial"}

HasItem(h) == \E i \in items : i.host = h

\* Between probes every host has been reached or none, and what is stored when
\* the report is made is all that was collected.
HostsReached ==
  /\ work \in {"probe", "hung"} => \A h \in Host \ todo_d : HasItem(h)
  /\ work \in {"created", "check", "begin", "store", "report", "close"} /\ items # {} =>
       \A h \in Host : HasItem(h)
  /\ work \in {"report", "close"} => items \subseteq evidence_d

Rests(st) ==
  /\ st = "completed" => \A h \in Host :
       /\ \E i \in evidence_d : i.host = h
       /\ \A i \in evidence_d : i.host = h => i.ok
  /\ st = "partial" => \E i \in evidence_d : ~i.ok

StatusWritten ==
  /\ work = "close" => report = DI!Outcome
  /\ work = "failing" => report = "failed"
  /\ work = "ended" /\ ~run_d.cancel => report = run_d.status /\ Rests(report)

DiagnosisInv ==
  /\ DiagnosisTypes /\ OneOverrun /\ CancelHeard /\ HostsReached /\ StatusWritten

LEMMA DiagnosisStart == DI!Init => DiagnosisInv
BY DEF DI!Init, DI!Created, DI!TargetsValid, DiagnosisInv, DiagnosisTypes, OneOverrun,
       CancelHeard, HostsReached,
       StatusWritten, DI!TERMINAL_STATUSES, RunRow

\* The outcome of what is stored rests on it.
LEMMA OutcomeRests ==
  ASSUME DiagnosisTypes, HostsReached, work = "close"
  PROVE  Rests(DI!Outcome) /\ DI!Outcome \in DI!TERMINAL_STATUSES
<1>1. DI!Outcome \in DI!TERMINAL_STATUSES
  BY DEF DI!Outcome, DI!TERMINAL_STATUSES
<1>2. DI!Outcome = "completed" => DI!Good = Host
  BY DEF DI!Outcome
<1>3. ASSUME DI!Outcome = "partial"
      PROVE  \E i \in evidence_d : ~i.ok
  <2>1. DI!Good # Host /\ DI!Good # {}
    BY <1>3 DEF DI!Outcome
  <2>2. items # {} /\ evidence_d = items
    BY <2>1 DEF DI!Good, HostsReached, DiagnosisTypes
  <2>3. PICK h \in Host : h \notin DI!Good
    BY <2>1 DEF DI!Good
  <2>4. \E i \in evidence_d : i.host = h
    BY <2>2 DEF HostsReached, HasItem
  <2> QED
    BY <2>3, <2>4 DEF DI!Good
<1> QED
  BY <1>1, <1>2, <1>3 DEF Rests, DI!Good

LEMMA EmitWrites ==
  ASSUME run_d \in RunRow, NEW st, DI!Emits(st),
         st \in DI!TERMINAL_STATUSES \cup {"queued", "running"}
  PROVE  run_d' \in RunRow /\ run_d'.status = st /\ run_d'.cancel = run_d.cancel
<1> DEFINE S == DI!TERMINAL_STATUSES \cup {"queued", "running"}
<1>1. run_d.cancel \in BOOLEAN /\ run_d.seq + 1 \in Nat
  BY DEF RunRow
<1>2. run_d' = [status |-> st, cancel |-> run_d.cancel, seq |-> run_d.seq + 1]
  BY DEF DI!Emits, RunRow
<1> HIDE DEF S
<1>3. RunRow = [status : S, cancel : BOOLEAN, seq : Nat]
  BY DEF RunRow, S
<1>4. st \in S
  BY DEF S
<1> QED
  BY <1>1, <1>2, <1>3, <1>4

LEMMA DiagnosisStep == DiagnosisInv /\ [DI!Next]_(DI!vars) => DiagnosisInv'
<1> SUFFICES ASSUME DiagnosisInv, [DI!Next]_(DI!vars)
             PROVE  DiagnosisInv'
  OBVIOUS
<1> USE DEF DiagnosisInv
<1>0. run_d.status \in DI!TERMINAL_STATUSES \cup {"queued", "running"}
  BY DEF DiagnosisTypes, RunRow
<1>1. CASE DI!Start
  <2>1. run_d' \in RunRow /\ run_d'.cancel = run_d.cancel
    BY <1>1, EmitWrites DEF DI!Start, DiagnosisTypes
  <2> QED
    BY <1>1, <2>1 DEF DI!Start, DI!inputs, DiagnosisTypes, OneOverrun, CancelHeard,
                      HostsReached, StatusWritten, HasItem
<1>2. CASE DI!Check
  BY <1>2 DEF DI!Check, DI!inputs, DI!Heard, DiagnosisTypes, OneOverrun, CancelHeard,
              HostsReached, StatusWritten, HasItem
<1>3. CASE DI!Begin
  BY <1>3 DEF DI!Begin, DI!inputs, DiagnosisTypes, OneOverrun, CancelHeard,
              HostsReached, StatusWritten, HasItem
<1>4. CASE DI!Command
  <2>1. /\ run_d' \in RunRow /\ run_d'.cancel = run_d.cancel
        /\ UNCHANGED <<report, evidence_d, probe, heard, overrun, early>>
        /\ work = "probe" /\ work' \in {"probe", "check"}
    BY <1>4, <1>0, EmitWrites DEF DI!Command, DI!Emit, DI!inputs, DiagnosisTypes
  <2>2. PICK h \in todo_d, ok \in BOOLEAN :
          /\ todo_d' = todo_d \ {h}
          /\ items' = items \cup {[host |-> h, probe |-> probe, ok |-> ok]}
          /\ work' = IF todo_d = {h} THEN "check" ELSE "probe"
    BY <1>4 DEF DI!Command
  <2>3. DiagnosisTypes' /\ OneOverrun' /\ CancelHeard' /\ StatusWritten'
    BY <2>1, <2>2 DEF DiagnosisTypes, OneOverrun, CancelHeard, StatusWritten
  <2>4. \A g \in Host \ todo_d' : HasItem(g)'
    <3>1. \A g \in Host \ todo_d : HasItem(g)
      BY <2>1 DEF HostsReached
    <3>2. \A g : HasItem(g) => HasItem(g)'
      BY <2>2 DEF HasItem
    <3>3. HasItem(h)'
      <4> DEFINE i == [host |-> h, probe |-> probe, ok |-> ok]
      <4>1. i \in items' /\ i.host = h
        BY <2>2
      <4> HIDE DEF i
      <4> QED
        BY <4>1 DEF HasItem
    <3> QED
      BY <3>1, <3>2, <3>3, <2>2
  <2>5. work' = "check" => todo_d' = {}
    BY <2>2
  <2> QED
    BY <2>1, <2>3, <2>4, <2>5 DEF HostsReached
<1>5. CASE DI!BreakDown
  BY <1>5 DEF DI!BreakDown, DI!inputs, DiagnosisTypes, OneOverrun, CancelHeard,
              HostsReached, StatusWritten, HasItem
<1>6. CASE DI!Store
  <2>1. /\ work = "store"
        /\ UNCHANGED <<report, probe, todo_d, items, overrun, early>>
    BY <1>6 DEF DI!Store, DI!AddEvidence, DI!inputs
  <2>2. CASE /\ UNCHANGED <<work, heard>> /\ DI!Emit
             /\ \E i \in items \ evidence_d : evidence_d' = evidence_d \cup {i}
    <3>1. run_d' \in RunRow /\ run_d'.cancel = run_d.cancel
      BY <2>2, <1>0, EmitWrites DEF DI!Emit, DiagnosisTypes
    <3> QED
      BY <2>1, <2>2, <3>1 DEF DiagnosisTypes, OneOverrun, CancelHeard, HostsReached,
                              StatusWritten, HasItem
  <2>3. CASE /\ items \subseteq evidence_d /\ work' = "report"
             /\ heard' = IF heard = "denied" THEN "denied" ELSE DI!Heard
             /\ UNCHANGED <<run_d, evidence_d>>
    BY <2>1, <2>3 DEF DiagnosisTypes, OneOverrun, CancelHeard, HostsReached,
                      StatusWritten, HasItem, DI!Heard
  <2> QED
    BY <1>6, <2>2, <2>3 DEF DI!Store, DI!AddEvidence
<1>7. CASE DI!SaveReport
  BY <1>7 DEF DI!SaveReport, DI!WriteReport, DI!inputs, DiagnosisTypes, OneOverrun,
              CancelHeard,
              HostsReached, StatusWritten, HasItem, DI!Outcome, DI!Good
<1>8. CASE DI!Close
  <2>1. /\ work = "close" /\ work' = "ended"
        /\ UNCHANGED <<report, evidence_d, probe, todo_d, items, heard, overrun, early>>
    BY <1>8 DEF DI!Close, DI!inputs
  <2>2. Rests(DI!Outcome) /\ DI!Outcome \in DI!TERMINAL_STATUSES
    BY <2>1, OutcomeRests
  <2>3. run_d' \in RunRow /\ run_d'.status = DI!Outcome /\ run_d'.cancel = run_d.cancel
    BY <1>8, <2>2, EmitWrites DEF DI!Close, DiagnosisTypes
  <2>4. CancelHeard'
    BY <2>1, <2>3 DEF CancelHeard, DI!Outcome
  <2>5. report = DI!Outcome /\ Rests(report)'
    BY <2>1, <2>2 DEF StatusWritten, Rests
  <2>6. StatusWritten'
    BY <2>1, <2>3, <2>5 DEF StatusWritten
  <2> QED
    BY <2>1, <2>3, <2>4, <2>6 DEF DiagnosisTypes, OneOverrun, HostsReached
<1>9. CASE DI!CloseFailed
  <2>1. /\ work = "failing" /\ work' = "ended" /\ report = "failed"
        /\ UNCHANGED <<report, evidence_d, probe, todo_d, items, heard, overrun, early>>
    BY <1>9 DEF DI!CloseFailed, DI!inputs, StatusWritten
  <2>2. run_d' \in RunRow /\ run_d'.status = "failed" /\ run_d'.cancel = run_d.cancel
    BY <1>9, EmitWrites DEF DI!CloseFailed, DiagnosisTypes, DI!TERMINAL_STATUSES
  <2> QED
    BY <2>1, <2>2 DEF DiagnosisTypes, OneOverrun, CancelHeard, HostsReached,
                      StatusWritten, Rests
<1>15. CASE DI!Fail \/ DI!Abandon
  BY <1>15 DEF DI!Fail, DI!WriteReport, DI!Abandon, DI!inputs, DiagnosisTypes, OneOverrun,
               CancelHeard,
               HostsReached, StatusWritten
<1>16. CASE DI!Hang \/ DI!Return
  <2>1. UNCHANGED <<run_d, report, evidence_d, probe, todo_d, items, heard, early, overrun>>
    BY <1>16 DEF DI!Hang, DI!Return, DI!inputs
  <2>2. work \in {"probe", "hung"} /\ work' \in {"probe", "hung"}
    BY <1>16 DEF DI!Hang, DI!Return
  <2> QED
    BY <2>1, <2>2 DEF DiagnosisTypes, OneOverrun, CancelHeard, HostsReached, StatusWritten,
                      HasItem
<1>10. ASSUME NEW c \in Canceller, DI!Cancel(c)
       PROVE  DiagnosisInv'
  <2>1. /\ run_d' \in RunRow /\ run_d'.status = "cancelled" /\ run_d'.cancel
        /\ UNCHANGED <<report, evidence_d, work, probe, todo_d, items, heard, overrun>>
        /\ early' = (early \/ work \in {"created", "check", "begin", "probe", "hung"})
    <3>1. run_d.seq + 1 \in Nat
      BY DEF DiagnosisTypes, RunRow
    <3>2. run_d' = [status |-> "cancelled", cancel |-> TRUE, seq |-> run_d.seq + 1]
      BY <1>10 DEF DI!Cancel, DI!Cancelled, DiagnosisTypes, RunRow
    <3>3. run_d' \in RunRow /\ run_d'.status = "cancelled" /\ run_d'.cancel
      BY <3>1, <3>2 DEF RunRow, DI!TERMINAL_STATUSES
    <3> QED
      BY <1>10, <3>3 DEF DI!Cancel
  <2>2. DI!Outcome' = DI!Outcome
    BY <2>1 DEF DI!Outcome, DI!Good
  <2> QED
    BY <2>1, <2>2 DEF DiagnosisTypes, OneOverrun, CancelHeard, HostsReached, StatusWritten,
                      HasItem
<1>11. ASSUME UNCHANGED <<run_d, report, evidence_d, work, probe, todo_d, items, heard,
                          early, overrun>>
       PROVE  DiagnosisInv'
  BY <1>11 DEF DiagnosisTypes, OneOverrun, CancelHeard, HostsReached, StatusWritten,
               HasItem, DI!Outcome, DI!Good, Rests
<1>12. ASSUME NEW c \in Canceller, DI!ReadRun(c)
       PROVE  DiagnosisInv'
  BY <1>11, <1>12 DEF DI!ReadRun
<1>13. CASE DI!Regrant \/ DI!DropHost
  BY <1>11, <1>13 DEF DI!Regrant, DI!DropHost
<1>14. CASE UNCHANGED DI!vars
  BY <1>11, <1>14 DEF DI!vars
<1> QED
  BY <1>1, <1>2, <1>3, <1>4, <1>5, <1>6, <1>7, <1>8, <1>9, <1>10, <1>12, <1>13, <1>14,
     <1>15, <1>16
     DEF DI!Next, DI!Diagnose

LEMMA DiagnosisInvTrue == DiagnosisInv => DI!DiagnosisIsTrue
BY DEF DiagnosisInv, OneOverrun, CancelHeard, StatusWritten, Rests, DI!DiagnosisIsTrue,
       DI!OneProbeAfterCancel, DI!EarlyCancelCounts, DI!StatusRestsOnEvidence

\* For any hosts, probes, budget and cancelling requests: at most one probe begins
\* after a cancel, a cancel that came before the last probe was over is not
\* forgotten, and the status at the end rests on the evidence that was stored
\* (DiagnosticService.start and cancel).
THEOREM DiagnosisTells ==
  (DI!Spec => []DI!DiagnosisIsTrue) /\ (MCSpec => []DiagnosisIsTrue)
<1>1. DI!Spec => []DI!DiagnosisIsTrue
  BY DiagnosisStart, DiagnosisStep, DiagnosisInvTrue, PTL DEF DI!Spec
<1>2. MCInit => DiagnosisInv
  BY DiagnosisStart DEF MCInit
<1>3. DiagnosisInv /\ [MCNext]_all => DiagnosisInv'
  BY PartSteps, DiagnosisStep
<1>4. DiagnosisInv => DiagnosisIsTrue
  BY DiagnosisInvTrue DEF DiagnosisIsTrue
<1>5. MCSpec => []DiagnosisIsTrue
  BY <1>2, <1>3, <1>4, PTL DEF MCSpec
<1> QED
  BY <1>1, <1>5

\* What DiagnosisInv leaves open of the types: a probe that runs has its number.
Works == {"created", "check", "begin", "probe", "hung", "store", "report", "close", "broken",
          "failing", "ended", "gone"}
DiagnosisRest ==
  /\ report \in DI!TERMINAL_STATUSES \cup {"none"} /\ work \in Works
  /\ heard \in {"go", "cancel", "denied"}
  /\ ask \in [Canceller -> {"idle", "write", "done"}]
ProbesCounted ==
  /\ probe <= ProbesOfProfile
  /\ work = "begin" => probe < ProbesOfProfile
  /\ work \in {"probe", "hung"} => probe >= 1
  /\ overrun <= probe
  /\ \A i \in items : i.probe \in 1 .. ProbesOfProfile
DiagnosisFlags == granted \in BOOLEAN /\ present \in BOOLEAN /\ early \in BOOLEAN

LEMMA DiagnosisRestStart == DI!Init => DiagnosisRest /\ ProbesCounted /\ DiagnosisFlags
<1> SUFFICES ASSUME DI!Init PROVE DiagnosisRest /\ ProbesCounted /\ DiagnosisFlags
  OBVIOUS
<1> USE DEF DI!Init, DI!Created, DI!TargetsValid
<1>1. DiagnosisRest
  BY DEF DiagnosisRest, Works
<1>2. ProbesCounted
  BY ServicesAssumption DEF ProbesCounted, DI!DiagnosisAssumption
<1>3. DiagnosisFlags
  BY DEF DiagnosisFlags
<1> QED
  BY <1>1, <1>2, <1>3

LEMMA DiagnosisRestStays == DiagnosisRest /\ [DI!Next]_(DI!vars) => DiagnosisRest'
<1> SUFFICES ASSUME DiagnosisRest, [DI!Next]_(DI!vars) PROVE DiagnosisRest'
  OBVIOUS
<1> USE DEF DiagnosisRest, Works
<1>1. CASE UNCHANGED <<report, heard, ask>> /\ work' \in Works
  BY <1>1
<1>2. CASE DI!Check \/ DI!Store
  BY <1>2 DEF DI!Check, DI!Store, DI!Heard, DI!inputs
<1>3. CASE DI!SaveReport \/ DI!Fail
  BY <1>3 DEF DI!SaveReport, DI!Fail, DI!WriteReport, DI!Outcome, DI!inputs,
              DI!TERMINAL_STATUSES
<1>4. CASE DI!Start \/ DI!Begin \/ DI!BreakDown \/ DI!Close \/ DI!CloseFailed \/ DI!Abandon
           \/ DI!Hang \/ DI!Return \/ DI!Regrant \/ DI!DropHost
  BY <1>4 DEF DI!Start, DI!Begin, DI!BreakDown, DI!Close, DI!CloseFailed, DI!Abandon,
              DI!Hang, DI!Return, DI!Regrant, DI!DropHost, DI!inputs
<1>5. CASE DI!Command
  <2>1. work' \in {"check", "probe"} /\ UNCHANGED <<report, heard, ask>>
    BY <1>5 DEF DI!Command, DI!inputs
  <2> QED
    BY <2>1
<1>6. ASSUME NEW c \in Canceller, DI!ReadRun(c) \/ DI!Cancel(c) PROVE DiagnosisRest'
  BY <1>6 DEF DI!ReadRun, DI!Cancel
<1>7. CASE UNCHANGED DI!vars
  BY <1>7 DEF DI!vars
<1> QED
  BY <1>2, <1>3, <1>4, <1>5, <1>6, <1>7 DEF DI!Next, DI!Diagnose

LEMMA ProbesCountedStay ==
  DiagnosisInv /\ ProbesCounted /\ [DI!Next]_(DI!vars) => ProbesCounted'
<1> SUFFICES ASSUME DiagnosisInv, ProbesCounted, [DI!Next]_(DI!vars) PROVE ProbesCounted'
  OBVIOUS
<1>0. probe \in Nat /\ overrun \in Nat /\ ProbesOfProfile \in Nat
  BY ServicesAssumption DEF DiagnosisInv, DiagnosisTypes, OneOverrun, DI!DiagnosisAssumption
<1> USE DEF ProbesCounted
<1>1. CASE /\ UNCHANGED <<probe, overrun, items>>
           /\ \/ work' \notin {"begin", "probe", "hung"} \/ work' = work
              \/ work \in {"probe", "hung"} /\ work' \in {"probe", "hung"}
  BY <1>1
<1>2. CASE DI!Check
  BY <1>0, <1>2 DEF DI!Check, DI!AllDone
<1>3. CASE DI!Begin
  <2>1. /\ work = "begin" /\ probe' = probe + 1 /\ items' = items
        /\ overrun' \in {overrun, overrun + 1} /\ work' \in {"probe", "broken"}
    BY <1>3 DEF DI!Begin
  <2> QED
    BY <1>0, <2>1
<1>4. CASE DI!Command
  <2>1. PICK h \in todo_d, ok \in BOOLEAN :
          items' = items \cup {[host |-> h, probe |-> probe, ok |-> ok]}
    BY <1>4 DEF DI!Command
  <2>2. work = "probe" /\ work' \in {"check", "probe"} /\ UNCHANGED <<probe, overrun>>
    BY <1>4 DEF DI!Command
  <2>3. probe \in 1 .. ProbesOfProfile
    BY <1>0, <2>2
  <2>4. \A i \in items' : i.probe \in 1 .. ProbesOfProfile
    BY <2>1, <2>3
  <2> QED
    BY <2>2, <2>3, <2>4
<1>5. CASE DI!Start \/ DI!BreakDown \/ DI!Store \/ DI!SaveReport \/ DI!Close \/ DI!Fail
           \/ DI!CloseFailed \/ DI!Abandon \/ DI!Hang \/ DI!Return \/ DI!Regrant \/ DI!DropHost
  BY <1>1, <1>5 DEF DI!Start, DI!BreakDown, DI!Store, DI!SaveReport, DI!Close, DI!Fail,
                    DI!CloseFailed, DI!Abandon, DI!Hang, DI!Return, DI!Regrant, DI!DropHost
<1>6. ASSUME NEW c \in Canceller, DI!ReadRun(c) \/ DI!Cancel(c) PROVE ProbesCounted'
  BY <1>1, <1>6 DEF DI!ReadRun, DI!Cancel
<1>7. CASE UNCHANGED DI!vars
  BY <1>1, <1>7 DEF DI!vars
<1> QED
  BY <1>2, <1>3, <1>4, <1>5, <1>6, <1>7 DEF DI!Next, DI!Diagnose

LEMMA DiagnosisFlagsStay == DiagnosisFlags /\ [DI!Next]_(DI!vars) => DiagnosisFlags'
<1> SUFFICES ASSUME DiagnosisFlags, [DI!Next]_(DI!vars) PROVE DiagnosisFlags'
  OBVIOUS
<1> USE DEF DiagnosisFlags
<1>1. CASE UNCHANGED <<granted, present, early>>
  BY <1>1
<1>2. CASE DI!Diagnose \/ DI!Hang \/ DI!Return \/ DI!Abandon
  BY <1>1, <1>2 DEF DI!Diagnose, DI!Hang, DI!Return, DI!Abandon, DI!Start, DI!Check, DI!Begin, DI!Command,
                    DI!BreakDown,
                    DI!Store, DI!SaveReport, DI!Close, DI!Fail, DI!CloseFailed, DI!inputs
<1>3. ASSUME NEW c \in Canceller, DI!ReadRun(c) PROVE DiagnosisFlags'
  BY <1>1, <1>3 DEF DI!ReadRun
<1>4. ASSUME NEW c \in Canceller, DI!Cancel(c) PROVE DiagnosisFlags'
  <2>1. PICK b : b = (work \in {"created", "check", "begin", "probe", "hung"})
    OBVIOUS
  <2>2. b \in BOOLEAN
    BY <2>1
  <2>3. early' = (early \/ b) /\ UNCHANGED <<granted, present>>
    BY <1>4, <2>1, Zenon DEF DI!Cancel
  <2> QED
    BY <2>2, <2>3
<1>5. CASE DI!Regrant \/ DI!DropHost
  BY <1>5 DEF DI!Regrant, DI!DropHost
<1>6. CASE UNCHANGED DI!vars
  BY <1>1, <1>6 DEF DI!vars
<1> QED
  BY <1>2, <1>3, <1>4, <1>5, <1>6 DEF DI!Next

LEMMA DiagnosisTyped ==
  DiagnosisInv /\ DiagnosisRest /\ ProbesCounted /\ DiagnosisFlags => DI!TypeOK
<1> SUFFICES ASSUME DiagnosisInv, DiagnosisRest, ProbesCounted, DiagnosisFlags PROVE DI!TypeOK
  OBVIOUS
<1>1. items \in SUBSET DI!Item
  BY DEF DiagnosisInv, DiagnosisTypes, ProbesCounted, DI!Item
<1>2. probe \in 0 .. ProbesOfProfile /\ overrun \in 0 .. ProbesOfProfile
  BY ServicesAssumption DEF DiagnosisInv, DiagnosisTypes, OneOverrun, ProbesCounted,
                            DI!DiagnosisAssumption
<1>3. /\ run_d.status \in DI!TERMINAL_STATUSES \cup {"queued", "running"}
      /\ run_d.cancel \in BOOLEAN /\ run_d.seq \in Nat
  BY DEF DiagnosisInv, DiagnosisTypes, RunRow
<1> QED
  BY <1>1, <1>2, <1>3, Zenon
  DEF DiagnosisInv, DiagnosisTypes, DiagnosisRest, DiagnosisFlags, Works, DI!TypeOK

-----------------------------------------------------------------------------
(* The rounds of an investigation.                                         *)

StepRow == [kind : IV!StepKinds, id : Probes \cup {"-"}, st : IV!StepStatuses]

InvestigationTypes ==
  /\ steps \in Seq(StepRow)
  /\ plan_i \in [st : {"none", "waiting", "approved"}, left : Nat]
  /\ node \in {"plan", "ask", "repair", "policy", "pause", "execute", "decide", "end"}
  /\ ctx \in [plan : BOOLEAN, finish : BOOLEAN, checks : BOOLEAN]

Idle(st) == \A i \in IV!Ids : steps[i].st # st
Single(st) == \A i, j \in IV!Ids : steps[i].st = st /\ steps[j].st = st => i = j

\* An open plan has actions left, no step is pending beside it and it does not
\* outlast the execution; until it ends the latest write is not verified.
PlanIsAlone ==
  plan_i # IV!NoPlan =>
    /\ plan_i.st \in {"waiting", "approved"} /\ plan_i.left >= 1
    /\ node \in {"policy", "pause", "execute"}
    /\ node = "execute" => plan_i.st = "approved"
    /\ ~IV!RequiresFinish
    /\ Idle("proposed") /\ Idle("approved")

\* At most one step is pending, and only from its proposal to its execution; the
\* phase the model was shown is still the phase of the Run when it answers.
OneStepPending ==
  /\ node \in {"plan", "ask", "repair", "decide"} => Idle("proposed") /\ Idle("approved")
  /\ node = "policy" => Single("proposed") /\ Idle("approved")
  /\ node = "execute" => Idle("proposed") /\ Single("approved")
  /\ node = "pause" => plan_i # IV!NoPlan
  /\ node \in {"ask", "repair"} => ctx.finish = IV!RequiresFinish

InvestigationInv ==
  /\ InvestigationTypes /\ IV!Actions <= MaxActions /\ PlanIsAlone /\ OneStepPending

Acting(s) == {i \in DOMAIN s : s[i].kind \in {"probe", "write"}}

\* The instance's Cardinality is the module's.
LEMMA SameCardinality == \A S : IV!Cardinality(S) = Cardinality(S)
BY Zenon DEF IV!Cardinality, Cardinality, IV!IsFiniteSet, IsFiniteSet

LEMMA ActionsCounted ==
  ASSUME InvestigationTypes
  PROVE  /\ IV!Actions = Cardinality(Acting(steps))
         /\ IV!Actions \in Nat /\ IsFiniteSet(Acting(steps))
<1>1. IV!Actions = Cardinality(Acting(steps))
  BY Zenon, SameCardinality DEF IV!Actions, Acting, IV!Ids
<1>2. Acting(steps) \subseteq 1 .. Len(steps) /\ Len(steps) \in Nat
  BY DEF Acting, InvestigationTypes
<1>3. IsFiniteSet(Acting(steps))
  <2>1. 1 \in Int /\ Len(steps) \in Int
    BY <1>2
  <2>2. IsFiniteSet(1 .. Len(steps))
    BY <2>1, FS_Interval
  <2> QED
    BY <1>2, <2>2, FS_Subset
<1> QED
  BY <1>1, <1>3, FS_CardinalityType

\* A decision or a result changes a step's status and nothing else.
LEMMA StatusSet ==
  ASSUME InvestigationTypes, NEW i \in IV!Ids, NEW st \in IV!StepStatuses,
         steps' = [steps EXCEPT ![i].st = st]
  PROVE  /\ steps' \in Seq(StepRow) /\ Len(steps') = Len(steps)
         /\ IV!Ids' = IV!Ids /\ steps'[i].st = st
         /\ \A j \in IV!Ids : /\ steps'[j].kind = steps[j].kind
                              /\ j # i => steps'[j] = steps[j]
         /\ IV!Actions' = IV!Actions
<1>1. i \in 1 .. Len(steps) /\ steps[i] \in StepRow /\ IV!Ids = 1 .. Len(steps)
  BY DEF InvestigationTypes, IV!Ids
<1> DEFINE to == [steps[i] EXCEPT !.st = st]
<1>2. to \in StepRow /\ to.st = st /\ to.kind = steps[i].kind
  BY <1>1 DEF StepRow
<1>3. steps' = [steps EXCEPT ![i] = to]
  OBVIOUS
<1> HIDE DEF to
<1>4. /\ steps' \in Seq(StepRow) /\ Len(steps') = Len(steps) /\ steps'[i] = to
      /\ \A j \in 1 .. Len(steps) : j # i => steps'[j] = steps[j]
  BY <1>1, <1>2, <1>3 DEF InvestigationTypes
<1>5. IV!Ids' = IV!Ids
  BY <1>4, <1>1 DEF IV!Ids
<1>6. \A j \in IV!Ids : steps'[j].kind = steps[j].kind
  BY <1>1, <1>2, <1>4
<1>7. IV!Actions' = IV!Actions
  BY <1>5, <1>6 DEF IV!Actions
<1> QED
  BY <1>1, <1>2, <1>4, <1>5, <1>6, <1>7

\* A new step goes to the end and counts once, a verification not at all.
LEMMA StepAdded ==
  ASSUME InvestigationTypes, NEW k \in IV!StepKinds, NEW d \in Probes \cup {"-"},
         NEW st \in IV!StepStatuses, steps' = IV!NewStep(k, d, st)
  PROVE  /\ steps' \in Seq(StepRow) /\ Len(steps') = Len(steps) + 1
         /\ Len(steps) \in Nat
         /\ IV!Ids = 1 .. Len(steps) /\ IV!Ids' = 1 .. Len(steps) + 1
         /\ steps'[Len(steps) + 1].kind = k /\ steps'[Len(steps) + 1].st = st
         /\ \A j \in IV!Ids : steps'[j] = steps[j]
         /\ IV!Actions' \in {IV!Actions, IV!Actions + 1}
         /\ k = "check" => IV!Actions' = IV!Actions
<1> DEFINE new == [kind |-> k, id |-> d, st |-> st]
           n == Len(steps)
<1>1. new \in StepRow /\ new.kind = k /\ new.st = st
  BY DEF StepRow
<1>2. steps' = Append(steps, new)
  BY DEF IV!NewStep
<1> HIDE DEF new
<1>3. /\ steps' \in Seq(StepRow) /\ Len(steps') = n + 1 /\ n \in Nat
      /\ steps'[n + 1] = new /\ \A j \in 1 .. n : steps'[j] = steps[j]
  BY <1>1, <1>2 DEF InvestigationTypes
<1>4. IV!Ids = 1 .. n /\ IV!Ids' = 1 .. n + 1 /\ DOMAIN steps' = 1 .. n + 1
  BY <1>3 DEF IV!Ids, InvestigationTypes
<1>5. Acting(steps') = IF k = "check" THEN Acting(steps) ELSE Acting(steps) \cup {n + 1}
  BY <1>1, <1>3, <1>4 DEF Acting, IV!Ids, IV!StepKinds
<1>6. n + 1 \notin Acting(steps)
  BY <1>3, <1>4 DEF Acting, IV!Ids
<1>7. IV!Actions' = Cardinality(Acting(steps'))
  BY Zenon, SameCardinality DEF IV!Actions, Acting, IV!Ids
<1>8. Cardinality(Acting(steps) \cup {n + 1}) = Cardinality(Acting(steps)) + 1
  BY <1>6, ActionsCounted, FS_AddElement
<1>9. IV!Actions' \in {IV!Actions, IV!Actions + 1} /\ (k = "check" => IV!Actions' = IV!Actions)
  BY <1>5, <1>7, <1>8, ActionsCounted
<1> QED
  BY <1>1, <1>3, <1>4, <1>9

\* The tool of the phase is the only one whose answer is taken, and a probe is
\* taken while the budget has room.
LEMMA Accepted ==
  ASSUME NEW a \in IV!Answer, IV!Verdict(a) = "-", ctx.finish \in BOOLEAN
  PROVE  /\ a.call \in {"probe", "check", "plan", "finish"}
         /\ ctx.finish => a.call = "finish"
         /\ a.call = "probe" => IV!Room(1) /\ a.id \in Probes
         /\ a.call = "check" => a.id \in Probes
         /\ a.call = "plan" => a.n \in 1 .. MaxPlan
<1>1. /\ a.call \in {"cut", "none", "other", "probe", "check", "plan", "finish"}
      /\ a.call \in {"probe", "check"} => a.id \in Probes
      /\ a.call = "plan" => a.n \in 1 .. MaxPlan
  BY DEF IV!Answer
<1>2. ctx.finish => IV!Phase = {"finish"} /\ IV!PhaseTool = "finish"
  BY DEF IV!Phase, IV!PhaseTool, IV!Tools
<1>3. IV!PhaseTool \in IV!Tools
  BY DEF IV!Phase, IV!PhaseTool, IV!Tools
<1>4. a.call \notin {"cut", "none"}
  BY <1>3 DEF IV!Verdict, IV!Tools
<1>5. /\ ~(IV!Phase # IV!Tools /\ a.call \notin IV!Phase)
      /\ IV!Contract(a) = "-"
  BY <1>3, <1>4 DEF IV!Verdict, IV!Tools
<1>6. a.call # "other"
  BY <1>5 DEF IV!Contract
<1>7. a.call = "probe" => IV!Room(1)
  BY <1>5 DEF IV!Contract, IV!ProbeContract
<1>8. ctx.finish => a.call = "finish"
  BY <1>2, <1>5 DEF IV!Tools
<1> QED
  BY <1>1, <1>4, <1>6, <1>7, <1>8

LEMMA InvestigationStart == IV!Init => InvestigationInv
<1> SUFFICES ASSUME IV!Init
             PROVE  InvestigationInv
  OBVIOUS
<1> USE DEF IV!Init, IV!NoPlan
<1>1. InvestigationTypes /\ IV!Ids = {}
  BY DEF InvestigationTypes, StepRow, IV!Ids
<1>2. IV!Actions = 0
  <2>1. Acting(steps) = {}
    BY <1>1 DEF Acting, IV!Ids
  <2> QED
    BY <1>1, <2>1, ActionsCounted, FS_EmptySet
<1>3. PlanIsAlone /\ OneStepPending
  BY <1>1 DEF PlanIsAlone, OneStepPending, Idle
<1> QED
  BY <1>1, <1>2, <1>3, ServicesAssumption DEF InvestigationInv, IV!InvestigationAssumption

LEMMA SameSteps ==
  ASSUME UNCHANGED steps
  PROVE  /\ IV!Ids' = IV!Ids /\ IV!Actions' = IV!Actions
         /\ IV!RequiresFinish' = IV!RequiresFinish
         /\ \A st : Idle(st)' = Idle(st) /\ Single(st)' = Single(st)
<1>1. IV!Ids' = IV!Ids
  BY DEF IV!Ids
<1> QED
  BY <1>1 DEF IV!Actions, IV!RequiresFinish, IV!Wrote, IV!Checked, Idle, Single

\* What an accepted answer writes.
LEMMA AcceptKeeps ==
  ASSUME InvestigationInv, node \in {"ask", "repair"}, NEW a \in IV!Answer, IV!Accept(a)
  PROVE  /\ InvestigationInv'
         /\ IV!RequiresFinish => Len(steps') = Len(steps) /\ plan_i' = plan_i
<1> USE DEF InvestigationInv
<1>1. /\ plan_i = IV!NoPlan /\ Idle("proposed") /\ Idle("approved")
      /\ ctx.finish = IV!RequiresFinish /\ ctx.finish \in BOOLEAN
  BY DEF PlanIsAlone, OneStepPending, InvestigationTypes
<1>2. /\ node' = "policy" /\ UNCHANGED ctx /\ IV!Write(a) /\ IV!Verdict(a) = "-"
  BY DEF IV!Accept
<1>3. /\ a.call \in {"probe", "check", "plan", "finish"}
      /\ IV!RequiresFinish => a.call = "finish"
      /\ a.call = "probe" => IV!Room(1) /\ a.id \in Probes
      /\ a.call = "check" => a.id \in Probes
      /\ a.call = "plan" => a.n \in 1 .. MaxPlan
  BY <1>1, <1>2, Accepted
<1>4. ASSUME NEW k \in {"probe", "check"}, NEW st \in {"proposed", "failed"},
             steps' = IV!NewStep(k, a.id, st), a.id \in Probes, UNCHANGED plan_i,
             k = "probe" => IV!Room(1)
      PROVE  InvestigationInv'
  <2>1. st \in IV!StepStatuses /\ k \in IV!StepKinds
    BY DEF IV!StepStatuses, IV!StepKinds
  <2>2. IV!Actions' <= MaxActions
    <3>1. /\ IV!Actions' \in {IV!Actions, IV!Actions + 1}
          /\ k = "check" => IV!Actions' = IV!Actions
      BY <1>4, <2>1, StepAdded
    <3> QED
      BY <1>4, <3>1, ActionsCounted, ServicesAssumption
         DEF IV!Room, IV!InvestigationAssumption
  <2>3. InvestigationTypes'
    BY <1>2, <1>4, <2>1, StepAdded DEF InvestigationTypes
  <2>4. \A i \in IV!Ids' : i \in IV!Ids \/ i = Len(steps) + 1
    BY <1>4, <2>1, StepAdded
  <2>5. \A i \in IV!Ids : steps'[i] = steps[i] /\ steps'[Len(steps) + 1].st = st
    BY <1>4, <2>1, StepAdded
  <2>6. Idle("approved")'
    BY <1>1, <1>4, <2>1, <2>4, <2>5, StepAdded DEF Idle
  <2>7. Single("proposed")'
    BY <1>1, <2>4, <2>5 DEF Single, Idle
  <2> QED
    BY <1>1, <1>2, <1>4, <2>2, <2>3, <2>6, <2>7 DEF PlanIsAlone, OneStepPending, IV!NoPlan
<1>5. CASE a.call \in {"probe", "check"}
  <2>1. /\ UNCHANGED plan_i
        /\ \E st \in {"proposed", "failed"} : steps' = IV!NewStep(a.call, a.id, st)
    BY <1>2, <1>5 DEF IV!Write
  <2> QED
    BY <1>3, <1>4, <1>5, <2>1
<1>6. CASE a.call = "plan"
  <2>1. /\ UNCHANGED steps /\ ~IV!RequiresFinish
        /\ \E st \in {"waiting", "approved"} : plan_i' = [st |-> st, left |-> a.n]
    BY <1>2, <1>3, <1>6 DEF IV!Write
  <2>2. /\ IV!Ids' = IV!Ids /\ IV!Actions' = IV!Actions /\ IV!RequiresFinish' = IV!RequiresFinish
    BY <2>1 DEF IV!Ids, IV!Actions, IV!RequiresFinish, IV!Wrote, IV!Checked
  <2>3. Idle("proposed")' /\ Idle("approved")' /\ Single("proposed")'
    BY <1>1, <2>1, <2>2 DEF Idle, Single
  <2>4. /\ plan_i' \in [st : {"none", "waiting", "approved"}, left : Nat]
        /\ plan_i'.st \in {"waiting", "approved"} /\ plan_i'.left >= 1
    BY <1>3, <1>6, <2>1
  <2> QED
    BY <1>2, <2>1, <2>2, <2>3, <2>4 DEF PlanIsAlone, OneStepPending, InvestigationTypes
<1>7. CASE a.call = "finish"
  <2>1. UNCHANGED <<steps, plan_i>>
    BY <1>2, <1>7 DEF IV!Write
  <2>2. IV!Ids' = IV!Ids /\ IV!Actions' = IV!Actions
    BY <2>1 DEF IV!Ids, IV!Actions
  <2>3. Idle("proposed")' /\ Idle("approved")' /\ Single("proposed")'
    BY <1>1, <2>1, <2>2 DEF Idle, Single
  <2> QED
    BY <1>1, <1>2, <2>1, <2>2, <2>3 DEF PlanIsAlone, OneStepPending, InvestigationTypes
<1> QED
  BY <1>3, <1>5, <1>6, <1>7 DEF IV!Write

Bound == IV!RequiresFinish => /\ Len(steps') = Len(steps)
                              /\ plan_i = IV!NoPlan => plan_i' = IV!NoPlan

LEMMA PolicyKeeps ==
  ASSUME InvestigationInv, IV!Policy
  PROVE  InvestigationInv' /\ Bound
<1> USE DEF InvestigationInv
<1>1. /\ node = "policy" /\ UNCHANGED <<plan_i, ctx>>
      /\ Single("proposed") /\ Idle("approved")
  BY DEF IV!Policy, OneStepPending
<1>2. CASE IV!Proposed # {}
  <2>1. PICK i \in IV!Proposed, st \in {"approved", "failed", "skipped"} :
          steps' = [steps EXCEPT ![i].st = st] /\ node' = "execute"
    BY <1>2 DEF IV!Policy
  <2>2. i \in IV!Ids /\ steps[i].st = "proposed" /\ st \in IV!StepStatuses
    BY DEF IV!Proposed, IV!StepStatuses
  <2>3. plan_i = IV!NoPlan
    BY <2>2 DEF PlanIsAlone, Idle
  <2>4. /\ steps' \in Seq(StepRow) /\ Len(steps') = Len(steps)
        /\ IV!Ids' = IV!Ids /\ steps'[i].st = st
        /\ \A j \in IV!Ids : j # i => steps'[j] = steps[j]
        /\ IV!Actions' = IV!Actions
    BY <2>1, <2>2, StatusSet
  <2>5. Idle("proposed")'
    BY <1>1, <2>2, <2>4 DEF Single, Idle
  <2>6. Single("approved")'
    BY <1>1, <2>2, <2>4 DEF Single, Idle
  <2> QED
    BY <1>1, <2>1, <2>3, <2>4, <2>5, <2>6
       DEF InvestigationTypes, PlanIsAlone, OneStepPending, Bound
<1>3. CASE IV!Proposed = {}
  <2>1. UNCHANGED steps /\ node' = IF plan_i.st = "waiting" THEN "pause" ELSE "execute"
    BY <1>3 DEF IV!Policy
  <2>2. Idle("proposed") /\ Single("approved")
    BY <1>1, <1>3 DEF IV!Proposed, Idle, Single
  <2>3. plan_i.st = "waiting" => plan_i # IV!NoPlan
    BY DEF IV!NoPlan
  <2> QED
    BY <1>1, <2>1, <2>2, <2>3, SameSteps
       DEF InvestigationTypes, PlanIsAlone, OneStepPending, Bound
<1> QED
  BY <1>2, <1>3

LEMMA ExecuteStepKeeps ==
  ASSUME InvestigationInv, IV!ExecuteStep
  PROVE  InvestigationInv' /\ Bound
<1> USE DEF InvestigationInv
<1>1. PICK i \in IV!Ids, st \in {"succeeded", "failed"} :
        steps[i].st = "approved" /\ steps' = [steps EXCEPT ![i].st = st]
  BY DEF IV!ExecuteStep
<1>2. /\ node = "execute" /\ node' = "decide" /\ UNCHANGED <<plan_i, ctx>>
      /\ Idle("proposed") /\ Single("approved")
  BY DEF IV!ExecuteStep, OneStepPending
<1>3. st \in IV!StepStatuses
  BY DEF IV!StepStatuses
<1>4. /\ steps' \in Seq(StepRow) /\ Len(steps') = Len(steps)
      /\ IV!Ids' = IV!Ids /\ steps'[i].st = st
      /\ \A j \in IV!Ids : j # i => steps'[j] = steps[j]
      /\ IV!Actions' = IV!Actions
  BY <1>1, <1>3, StatusSet
<1>5. plan_i = IV!NoPlan
  BY <1>1 DEF PlanIsAlone, Idle
<1>6. Idle("proposed")' /\ Idle("approved")'
  BY <1>1, <1>2, <1>4 DEF Single, Idle
<1> QED
  BY <1>2, <1>4, <1>5, <1>6 DEF InvestigationTypes, PlanIsAlone, OneStepPending, Bound

\* A write of the plan that succeeds comes after every verification.
LEMMA ExecutePlanKeeps ==
  ASSUME InvestigationInv, IV!ExecutePlan
  PROVE  InvestigationInv' /\ Bound
<1> USE DEF InvestigationInv
<1>1. /\ node = "execute" /\ plan_i.st = "approved" /\ IV!Room(plan_i.left)
      /\ UNCHANGED ctx
  BY DEF IV!ExecutePlan
<1>2. plan_i # IV!NoPlan
  BY <1>1 DEF IV!NoPlan
<1>3. /\ plan_i.left >= 1 /\ ~IV!RequiresFinish /\ Idle("proposed") /\ Idle("approved")
      /\ plan_i.left \in Nat
  BY <1>2 DEF PlanIsAlone, InvestigationTypes
<1>4. PICK kind \in {"probe", "write"}, st \in {"succeeded", "failed", "unknown"} :
        /\ \E id \in IF kind = "probe" THEN Probes ELSE {"-"} :
             steps' = IV!NewStep(kind, id, st)
        /\ LET over == st # "succeeded" \/ plan_i.left = 1 IN
           /\ plan_i' = IF over THEN IV!NoPlan ELSE [plan_i EXCEPT !.left = @ - 1]
           /\ node' = IF st = "unknown" THEN "end" ELSE IF over THEN "decide" ELSE "execute"
  BY DEF IV!ExecutePlan
<1>5. PICK id \in Probes \cup {"-"} : steps' = IV!NewStep(kind, id, st)
  BY <1>4
<1>6. kind \in IV!StepKinds /\ st \in IV!StepStatuses
  BY DEF IV!StepKinds, IV!StepStatuses
<1> DEFINE n == Len(steps)
<1>7. /\ steps' \in Seq(StepRow) /\ n \in Nat
      /\ IV!Ids = 1 .. n /\ IV!Ids' = 1 .. n + 1
      /\ steps'[n + 1].kind = kind /\ steps'[n + 1].st = st
      /\ \A j \in IV!Ids : steps'[j] = steps[j]
      /\ IV!Actions' \in {IV!Actions, IV!Actions + 1}
  BY <1>5, <1>6, StepAdded
<1> HIDE DEF n
<1>8. IV!Actions' <= MaxActions
  BY <1>1, <1>3, <1>7, ActionsCounted, ServicesAssumption
     DEF IV!Room, IV!InvestigationAssumption
<1>9. Idle("proposed")' /\ Idle("approved")'
  BY <1>3, <1>7 DEF Idle
<1>10. ~IV!RequiresFinish'
  <2>1. IV!Checked' = IV!Checked
    BY <1>7 DEF IV!Checked
  <2>2. IV!Wrote' = IF kind = "write" /\ st = "succeeded" THEN IV!Wrote \cup {n + 1}
                    ELSE IV!Wrote
    BY <1>7 DEF IV!Wrote
  <2>3. \A c \in IV!Checked : c \in 1 .. n
    BY <1>7 DEF IV!Checked
  <2>4. ~(IV!Wrote # {} /\ \E c \in IV!Checked : \A i \in IV!Wrote : i < c)
    BY <1>3 DEF IV!RequiresFinish
  <2>5. ~(IV!Wrote' # {} /\ \E c \in IV!Checked : \A i \in IV!Wrote' : i < c)
    <3>1. CASE kind = "write" /\ st = "succeeded"
      <4>1. n + 1 \in IV!Wrote' /\ \A c \in 1 .. n : ~(n + 1 < c)
        BY <2>2, <3>1, <1>7
      <4> QED
        BY <4>1, <2>3
    <3>2. CASE ~(kind = "write" /\ st = "succeeded")
      BY <2>2, <2>4, <3>2
    <3> QED
      BY <3>1, <3>2
  <2> QED
    BY <2>1, <2>5 DEF IV!RequiresFinish
<1>11. /\ plan_i' \in [st : {"none", "waiting", "approved"}, left : Nat]
       /\ plan_i' # IV!NoPlan =>
            plan_i'.st = "approved" /\ plan_i'.left >= 1 /\ node' = "execute"
       /\ node' \in {"end", "decide", "execute"}
  <2>1. CASE st # "succeeded" \/ plan_i.left = 1
    BY <1>4, <2>1 DEF IV!NoPlan
  <2>2. CASE ~(st # "succeeded" \/ plan_i.left = 1)
    <3>1. plan_i' = [plan_i EXCEPT !.left = @ - 1] /\ node' = "execute"
      BY <1>4, <2>2
    <3>2. plan_i.left - 1 \in Nat /\ plan_i.left - 1 >= 1
      BY <1>3, <2>2
    <3> QED
      BY <3>1, <3>2, <1>1 DEF InvestigationTypes
  <2> QED
    BY <2>1, <2>2
<1>12. Single("approved")'
  BY <1>9 DEF Idle, Single
<1> QED
  BY <1>1, <1>3, <1>7, <1>8, <1>9, <1>10, <1>11, <1>12
     DEF InvestigationTypes, PlanIsAlone, OneStepPending, Bound

LEMMA InvestigationStep ==
  InvestigationInv /\ [IV!Next]_(IV!vars) => InvestigationInv' /\ Bound
<1> SUFFICES ASSUME InvestigationInv, [IV!Next]_(IV!vars)
             PROVE  InvestigationInv' /\ Bound
  OBVIOUS
<1> USE DEF InvestigationInv
<1>1. CASE IV!StartRound
  <2>1. /\ node = "plan" /\ node' \in {"policy", "ask"} /\ UNCHANGED <<steps, plan_i>>
        /\ ctx' \in [plan : BOOLEAN, finish : BOOLEAN, checks : BOOLEAN]
        /\ ctx'.finish = IV!RequiresFinish
    BY <1>1 DEF IV!StartRound, IV!RequiresPlan, IV!RequiresFinish
  <2>2. plan_i = IV!NoPlan /\ Idle("proposed") /\ Idle("approved") /\ Single("proposed")
    BY <2>1 DEF PlanIsAlone, OneStepPending, Idle, Single
  <2> QED
    BY <2>1, <2>2, SameSteps DEF InvestigationTypes, PlanIsAlone, OneStepPending, Bound
<1>2. ASSUME IV!Fail, node \in {"ask", "repair"}
      PROVE  InvestigationInv' /\ Bound
  BY <1>2, SameSteps DEF IV!Fail, InvestigationTypes, PlanIsAlone, OneStepPending, Bound
<1>3. ASSUME NEW a \in IV!Answer, IV!Accept(a), node \in {"ask", "repair"}
      PROVE  InvestigationInv' /\ Bound
  BY <1>3, AcceptKeeps DEF Bound
<1>4. CASE IV!FirstAnswer
  <2>1. ASSUME node = "ask", node' = "repair", UNCHANGED <<steps, plan_i, ctx>>
        PROVE  InvestigationInv' /\ Bound
    BY <2>1, SameSteps DEF InvestigationTypes, PlanIsAlone, OneStepPending, Bound
  <2> QED
    BY <1>2, <1>3, <1>4, <2>1 DEF IV!FirstAnswer
<1>5. CASE IV!SecondAnswer
  <2>1. ASSUME node = "repair", IV!Fallback
        PROVE  InvestigationInv' /\ Bound
    <3>1. plan_i = IV!NoPlan /\ Idle("proposed") /\ Idle("approved") /\ Single("proposed")
      BY <2>1 DEF PlanIsAlone, OneStepPending, Idle, Single
    <3> QED
      BY <2>1, <3>1, SameSteps
         DEF IV!Fallback, InvestigationTypes, PlanIsAlone, OneStepPending, Bound
  <2> QED
    BY <1>2, <1>3, <1>5, <2>1 DEF IV!SecondAnswer
<1>6. CASE IV!Policy
  BY <1>6, PolicyKeeps
<1>7. CASE IV!ExecuteStep
  BY <1>7, ExecuteStepKeeps
<1>8. CASE IV!ExecutePlan
  BY <1>8, ExecutePlanKeeps
<1>9. ASSUME IV!InvalidatePlan \/ IV!SkipExecute
      PROVE  InvestigationInv' /\ Bound
  <2>1. /\ node = "execute" /\ node' = "decide" /\ UNCHANGED <<steps, ctx>>
        /\ plan_i' = IV!NoPlan
    BY <1>9 DEF IV!InvalidatePlan, IV!SkipExecute, PlanIsAlone
  <2>2. Idle("proposed") /\ Idle("approved")
    BY <1>9 DEF IV!InvalidatePlan, IV!SkipExecute, PlanIsAlone, OneStepPending, Idle,
                IV!NoPlan
  <2> QED
    BY <2>1, <2>2, SameSteps
       DEF InvestigationTypes, PlanIsAlone, OneStepPending, Bound, IV!NoPlan
<1>10. CASE IV!Decision
  <2>1. /\ node = "pause" /\ node' = "execute" /\ UNCHANGED <<steps, ctx>>
        /\ plan_i # IV!NoPlan
        /\ plan_i' \in {IV!NoPlan, [plan_i EXCEPT !.st = "approved"]}
    BY <1>10 DEF IV!Decision, OneStepPending
  <2>2. /\ Idle("proposed") /\ Idle("approved") /\ Single("approved")
        /\ ~IV!RequiresFinish /\ plan_i.left >= 1
    BY <2>1 DEF PlanIsAlone, Idle, Single
  <2>3. /\ plan_i' \in [st : {"none", "waiting", "approved"}, left : Nat]
        /\ plan_i' # IV!NoPlan => plan_i'.st = "approved" /\ plan_i'.left >= 1
    BY <2>1, <2>2 DEF InvestigationTypes, IV!NoPlan
  <2> QED
    BY <2>1, <2>2, <2>3, SameSteps
       DEF InvestigationTypes, PlanIsAlone, OneStepPending, Bound
<1>11. CASE IV!Decide
  <2>1. node = "decide" /\ node' \in {"end", "plan"} /\ UNCHANGED <<steps, plan_i, ctx>>
    BY <1>11 DEF IV!Decide
  <2> QED
    BY <2>1, SameSteps DEF InvestigationTypes, PlanIsAlone, OneStepPending, Bound
<1>12. CASE IV!Ended \/ UNCHANGED IV!vars
  <2>1. UNCHANGED <<steps, plan_i, node, ctx>>
    BY <1>12 DEF IV!Ended, IV!vars
  <2> QED
    BY <2>1, SameSteps DEF InvestigationTypes, PlanIsAlone, OneStepPending, Bound
<1> QED
  BY <1>1, <1>4, <1>5, <1>6, <1>7, <1>8, <1>9, <1>10, <1>11, <1>12 DEF IV!Next, IV!Round

\* Whatever the model answers, for any budgets: the Run never has more actions
\* than max_actions, and once its latest write is verified no step and no plan
\* is added (planner._dispatch, repository.propose_probe and propose_plan,
\* drive._execute_approved_plan).
THEOREM InvestigationBounded == (IV!Spec => IV!StaysInBounds) /\ (MCSpec => StaysInBounds)
<1>1. InvestigationInv => IV!WithinActions
  BY DEF InvestigationInv, IV!WithinActions
<1>2. IV!StaysInBounds <=> []IV!WithinActions /\ [][Bound]_(IV!vars)
  BY PTL DEF IV!StaysInBounds, IV!VerifiedMeansFinish, Bound
<1>3. InvestigationInv /\ [IV!Next]_(IV!vars) => InvestigationInv' /\ [Bound]_(IV!vars)
  BY InvestigationStep
<1>4. IV!Spec => IV!StaysInBounds
  BY <1>1, <1>2, <1>3, InvestigationStart, PTL DEF IV!Spec
<1>5. MCInit => InvestigationInv
  BY InvestigationStart DEF MCInit
<1>6. [MCNext]_all => [IV!Next]_(IV!vars)
  BY PartSteps
<1>7. MCSpec => IV!StaysInBounds
  BY <1>1, <1>2, <1>3, <1>5, <1>6, PTL DEF MCSpec
<1> QED
  BY <1>4, <1>7 DEF StaysInBounds

\* What InvestigationInv leaves open of the types: only the last round reaches
\* max_loops.
Outcomes == {"none", "resolved", "not_resolved", "inconclusive"}
InvestigationRest ==
  /\ status_i \in {"running", "completed", "failed", "attention"}
  /\ outcome_i \in Outcomes
  /\ plan_i.left <= MaxPlan
  /\ tool \in IV!Tools \cup {"-"}
RoundsCounted == /\ loops \in Nat /\ loops <= MaxLoops
                 /\ node # "end" => loops < MaxLoops
InvestigationFlags == more \in BOOLEAN /\ asked \in BOOLEAN

LEMMA InvestigationRestStart ==
  IV!Init => InvestigationRest /\ RoundsCounted /\ InvestigationFlags
<1> SUFFICES ASSUME IV!Init PROVE InvestigationRest /\ RoundsCounted /\ InvestigationFlags
  OBVIOUS
<1> USE ServicesAssumption DEF IV!Init, IV!InvestigationAssumption
<1>1. InvestigationRest
  BY DEF InvestigationRest, Outcomes, IV!NoPlan
<1>2. RoundsCounted
  BY DEF RoundsCounted
<1>3. InvestigationFlags
  BY DEF InvestigationFlags
<1> QED
  BY <1>1, <1>2, <1>3

LEMMA RoundsCountedStay ==
  RoundsCounted /\ [IV!Next]_(IV!vars) => RoundsCounted'
<1> SUFFICES ASSUME RoundsCounted, [IV!Next]_(IV!vars) PROVE RoundsCounted'
  OBVIOUS
<1> USE DEF RoundsCounted
<1>1. CASE loops' = loops /\ (node = "end" => node' = "end")
  BY <1>1
<1>2. CASE IV!Decide
  <2>1. MaxLoops \in Nat
    BY ServicesAssumption DEF IV!InvestigationAssumption
  <2>2. node = "decide" /\ loops' = loops + 1 /\ (loops + 1 >= MaxLoops => node' = "end")
    BY <1>2, <2>1 DEF IV!Decide, IV!LastRound
  <2> QED
    BY <2>1, <2>2
<1>3. CASE IV!StartRound \/ IV!Policy \/ IV!Decision \/ IV!ExecuteStep \/ IV!InvalidatePlan
           \/ IV!SkipExecute
  BY <1>1, <1>3 DEF IV!StartRound, IV!Policy, IV!Decision, IV!ExecuteStep,
                    IV!InvalidatePlan,
                    IV!SkipExecute
<1>4. CASE IV!ExecutePlan
  BY <1>1, <1>4 DEF IV!ExecutePlan
<1>5. CASE IV!FirstAnswer \/ IV!SecondAnswer
  <2>1. node # "end" /\ loops' = loops
    BY <1>5 DEF IV!FirstAnswer, IV!SecondAnswer, IV!Accept, IV!Fail, IV!Fallback
  <2> QED
    BY <1>1, <2>1
<1>6. CASE IV!Ended \/ UNCHANGED IV!vars
  BY <1>1, <1>6 DEF IV!Ended, IV!vars
<1> QED
  BY <1>2, <1>3, <1>4, <1>5, <1>6 DEF IV!Next, IV!Round

LEMMA AnswerWrites ==
  ASSUME InvestigationRest, NEW a \in IV!Answer, IV!Accept(a)
  PROVE  InvestigationRest'
<1> USE DEF InvestigationRest
<1>1. IV!Write(a) /\ status_i' = status_i /\ tool' = "-"
  BY DEF IV!Accept
<1>2. CASE a.call \in {"probe", "check"}
  <2>1. UNCHANGED <<plan_i, outcome_i>>
    BY <1>1, <1>2 DEF IV!Write
  <2> QED
    BY <1>1, <2>1
<1>3. CASE a.call = "plan"
  <2>1. a.n \in 1 .. MaxPlan
    BY <1>3 DEF IV!Answer
  <2>2. PICK st : plan_i' = [st |-> st, left |-> a.n]
    BY <1>1, <1>3 DEF IV!Write
  <2>3. outcome_i' = outcome_i
    BY <1>1, <1>3 DEF IV!Write
  <2>4. plan_i'.left <= MaxPlan
    BY <2>1, <2>2
  <2> QED
    BY <1>1, <2>3, <2>4
<1>4. CASE a.call = "finish"
  <2>1. a.says \in Outcomes
    BY <1>4 DEF IV!Answer, Outcomes
  <2>2. outcome_i' \in Outcomes /\ plan_i' = plan_i
    BY <1>1, <1>4, <2>1 DEF IV!Write, IV!Concluded, Outcomes
  <2> QED
    BY <1>1, <2>2
<1> QED
  BY <1>1, <1>2, <1>3, <1>4 DEF IV!Write

LEMMA InvestigationRestStays ==
  InvestigationInv /\ InvestigationRest /\ [IV!Next]_(IV!vars) => InvestigationRest'
<1> SUFFICES ASSUME InvestigationInv, InvestigationRest, [IV!Next]_(IV!vars)
             PROVE  InvestigationRest'
  OBVIOUS
<1>0. /\ MaxPlan \in Nat /\ IV!NoPlan.left = 0
      /\ plan_i \in [st : {"none", "waiting", "approved"}, left : Nat]
  BY ServicesAssumption
  DEF IV!InvestigationAssumption, IV!NoPlan, InvestigationInv, InvestigationTypes
<1> USE DEF InvestigationRest
<1>1. CASE UNCHANGED <<status_i, outcome_i, plan_i, tool>>
  BY <1>1
<1>2. ASSUME IV!Fail PROVE InvestigationRest'
  BY <1>2 DEF IV!Fail, Outcomes
<1>3. CASE IV!FirstAnswer
  <2>1. ASSUME NEW a, IV!Verdict(a) \in IV!Tools, tool' = IV!Verdict(a),
               UNCHANGED <<status_i, outcome_i, plan_i>>
        PROVE  InvestigationRest'
    BY <2>1
  <2> QED
    BY <1>2, <1>3, <2>1, AnswerWrites DEF IV!FirstAnswer
<1>4. CASE IV!SecondAnswer
  <2>1. ASSUME IV!Fallback PROVE InvestigationRest'
    BY <2>1 DEF IV!Fallback, Outcomes
  <2> QED
    BY <1>2, <1>4, <2>1, AnswerWrites DEF IV!SecondAnswer
<1>5. CASE IV!StartRound \/ IV!Policy \/ IV!ExecuteStep \/ IV!SkipExecute
  BY <1>1, <1>5 DEF IV!StartRound, IV!Policy, IV!ExecuteStep, IV!SkipExecute
<1>6. CASE IV!InvalidatePlan
  BY <1>0, <1>6 DEF IV!InvalidatePlan
<1>7. CASE IV!Decision
  <2>1. plan_i' \in {IV!NoPlan, [plan_i EXCEPT !.st = "approved"]}
        /\ UNCHANGED <<status_i, outcome_i, tool>>
    BY <1>7 DEF IV!Decision
  <2>2. plan_i'.left \in {0, plan_i.left}
    BY <1>0, <2>1
  <2> QED
    BY <1>0, <2>1, <2>2
<1>8. CASE IV!ExecutePlan
  <2>1. /\ status_i' \in {"running", "attention"} /\ UNCHANGED <<outcome_i, tool>>
        /\ plan_i' \in {IV!NoPlan, [plan_i EXCEPT !.left = @ - 1]}
    BY <1>8 DEF IV!ExecutePlan, IV!Halted
  <2>2. plan_i'.left \in {0, plan_i.left - 1}
    BY <1>0, <2>1
  <2> QED
    BY <1>0, <2>1, <2>2
<1>9. CASE IV!Decide
  BY <1>9 DEF IV!Decide, Outcomes
<1>10. CASE IV!Ended \/ UNCHANGED IV!vars
  BY <1>1, <1>10 DEF IV!Ended, IV!vars
<1> QED
  BY <1>3, <1>4, <1>5, <1>6, <1>7, <1>8, <1>9, <1>10 DEF IV!Next, IV!Round

LEMMA InvestigationFlagsStay ==
  InvestigationFlags /\ [IV!Next]_(IV!vars) => InvestigationFlags'
<1> SUFFICES ASSUME InvestigationFlags, [IV!Next]_(IV!vars) PROVE InvestigationFlags'
  OBVIOUS
<1> USE DEF InvestigationFlags
<1>1. CASE more' \in {more, TRUE, FALSE} /\ asked' \in {asked, FALSE}
  BY <1>1
<1>2. CASE IV!StartRound
  <2>1. PICK b : b = (node' = "ask")
    OBVIOUS
  <2>2. b \in BOOLEAN
    BY <2>1
  <2>3. more' = FALSE /\ asked' = (asked \/ b)
    BY <1>2, <2>1, Zenon DEF IV!StartRound
  <2> QED
    BY <2>2, <2>3
<1>3. ASSUME NEW a, IV!Accept(a) PROVE InvestigationFlags'
  BY <1>3 DEF IV!Accept, IV!Write
<1>4. CASE IV!FirstAnswer \/ IV!SecondAnswer
  BY <1>3, <1>4 DEF IV!FirstAnswer, IV!SecondAnswer, IV!Fail, IV!Fallback
<1>5. CASE IV!ExecutePlan
  BY <1>5 DEF IV!ExecutePlan
<1>6. CASE \/ IV!Policy \/ IV!ExecuteStep \/ IV!SkipExecute \/ IV!InvalidatePlan
           \/ IV!Decision \/ IV!Decide
  BY <1>6 DEF IV!Policy, IV!ExecuteStep, IV!SkipExecute, IV!InvalidatePlan, IV!Decision,
              IV!Decide
<1>7. CASE IV!Ended \/ UNCHANGED IV!vars
  BY <1>7 DEF IV!Ended, IV!vars
<1> QED
  BY <1>2, <1>4, <1>5, <1>6, <1>7 DEF IV!Next, IV!Round

LEMMA InvestigationTyped ==
  InvestigationInv /\ InvestigationRest /\ RoundsCounted /\ InvestigationFlags => IV!TypeOK
<1> SUFFICES ASSUME InvestigationInv, InvestigationRest, RoundsCounted, InvestigationFlags
             PROVE  IV!TypeOK
  OBVIOUS
<1>1. loops \in 0 .. MaxLoops /\ plan_i.left \in 0 .. MaxPlan
      /\ plan_i.st \in {"none", "waiting", "approved"}
  BY ServicesAssumption DEF InvestigationInv, InvestigationTypes, InvestigationRest,
                            RoundsCounted, IV!InvestigationAssumption
<1> QED
  BY <1>1, Zenon DEF InvestigationInv, InvestigationTypes, InvestigationRest,
                     InvestigationFlags,
                     StepRow, Outcomes, IV!TypeOK

-----------------------------------------------------------------------------
(* The knowledge base and its index.                                       *)

DocRow   == [ver : Nat, text : Nat, idx : Model \cup {NoModel}]
DocRows  == [Doc -> DocRow \cup {NoDoc}]
Chunk    == [doc : Doc, ver : Nat, text : Nat, model : Model]
IndexStates == {"empty", "ready", "stale", "rebuilding", "error"}
ReadRow == [row : DocRow \cup {NoDoc}, state : IndexStates, model : Model, op : Nat]
Lookup   == [at : {"idle", "query", "cite"}, doc : DocRows \cup {NoDoc},
             model : Model \cup {NoModel}, hits : SUBSET Chunk]
Building == [doc : DocRows \cup {NoDoc}, was : IndexStates, model : Model, by : Model]

RowsTyped ==
  /\ cfg \in KI!Cfg /\ doc \in DocRows /\ born \in SUBSET Doc /\ index \in SUBSET Chunk
  /\ msgs \in Nat /\ ops \in Nat

\* What a request holds between its first read and its commit.
ClientsTyped ==
  /\ job \in [Client -> {"idle", "create", "update", "delete", "configure", "dispatch"}]
  /\ saw \in [Client -> ReadRow \cup {NoDoc}] /\ goal \in [Client -> Doc \cup {NoDoc}]
  /\ \A c \in Client :
       /\ job[c] \in {"create", "update", "delete", "configure"} => saw[c] \in ReadRow
       /\ job[c] \in {"create", "update", "delete"} => goal[c] \in Doc
       /\ job[c] = "update" => saw[c].row \in DocRow

SearchesTyped ==
  /\ search \in [Reader -> Lookup]
  /\ \A r \in Reader : search[r].at # "idle" => search[r].doc \in DocRows

\* What a rebuild holds; it loads documents of its snapshot.
TasksTyped ==
  /\ task \in [Task -> {"idle", "mark", "reset", "load"}]
  /\ view \in [Task -> Building \cup {NoDoc}] /\ todo_k \in [Task -> SUBSET Doc]
  /\ \A t \in Task :
       /\ task[t] # "idle" => view[t] \in Building
       /\ task[t] = "load" =>
            view[t].doc \in DocRows /\ \A d \in todo_k[t] : view[t].doc[d] # NoDoc

KnowledgeTypes == RowsTyped /\ ClientsTyped /\ SearchesTyped /\ TasksTyped

LEMMA CfgWritten ==
  ASSUME cfg \in KI!Cfg
  PROVE  /\ cfg.state \in IndexStates /\ cfg.model \in Model
         /\ \A old : /\ KI!Stale(old) \in KI!Cfg /\ KI!Stale(old).model = cfg.model
                     /\ KI!Stale(old) = cfg \/ KI!Stale(old).state = "stale"
         /\ KI!Erred \in KI!Cfg /\ KI!Erred.state = "error" /\ KI!Erred.model = cfg.model
BY DEF KI!Cfg, KI!Stale, KI!Erred, IndexStates

LEMMA KnowledgeTypesStart == KI!Init => KnowledgeTypes
<1> SUFFICES ASSUME KI!Init
             PROVE  KnowledgeTypes
  OBVIOUS
<1> USE DEF KI!Init
<1>1. RowsTyped
  BY DEF RowsTyped, KI!Cfg, DocRows, DocRow, KI!First
<1>2. ClientsTyped
  BY DEF ClientsTyped
<1>3. SearchesTyped
  BY DEF SearchesTyped, Lookup, KI!Idle
<1>4. TasksTyped
  BY DEF TasksTyped
<1> QED
  BY <1>1, <1>2, <1>3, <1>4 DEF KnowledgeTypes

\* A request's first read.
LEMMA OpenTyped ==
  ASSUME KnowledgeTypes, NEW c \in Client, NEW what, NEW d, KI!Open(c, what, d),
         \/ what \in {"create", "delete"} /\ d \in Doc
         \/ what = "update" /\ d \in KI!Docs
         \/ what = "configure" /\ d = NoDoc
  PROVE  KnowledgeTypes'
<1> DEFINE found == IF d = NoDoc THEN NoDoc ELSE doc[d]
           snap == [row |-> found, state |-> cfg.state, model |-> cfg.model, op |-> ops + 1]
<1>1. found \in DocRow \cup {NoDoc} /\ (what = "update" => found \in DocRow)
  BY ServicesAssumption DEF KnowledgeTypes, RowsTyped, DocRows, KI!Docs,
                        KI!KnowledgeAssumption
<1> HIDE DEF found
<1>2. snap \in ReadRow /\ snap.row = found
  BY <1>1, CfgWritten DEF KnowledgeTypes, RowsTyped, ReadRow
<1>3. /\ ops' = ops + 1 /\ job' = [job EXCEPT ![c] = what] /\ goal' = [goal EXCEPT ![c] = d]
      /\ saw' = [saw EXCEPT ![c] = snap]
      /\ UNCHANGED <<cfg, doc, born, index, search, msgs, task, view, todo_k>>
  BY DEF KI!Open, KI!work, found
<1> HIDE DEF snap
<1>4. ClientsTyped'
  <2> USE DEF KnowledgeTypes, ClientsTyped
  <2>1. what \in {"create", "update", "delete", "configure"} /\ d \in Doc \cup {NoDoc}
    BY DEF KI!Docs
  <2>2. what \in {"create", "update", "delete"} => d \in Doc
    BY DEF KI!Docs
  <2>3. /\ job' \in [Client -> {"idle", "create", "update", "delete", "configure", "dispatch"}]
        /\ saw' \in [Client -> ReadRow \cup {NoDoc}] /\ goal' \in [Client -> Doc \cup {NoDoc}]
    BY <1>2, <1>3, <2>1
  <2>4. /\ job'[c] = what /\ saw'[c] = snap /\ goal'[c] = d
        /\ \A e \in Client : e # c => job'[e] = job[e] /\ saw'[e] = saw[e] /\ goal'[e] = goal[e]
    BY <1>3
  <2> QED
    BY <1>1, <1>2, <2>1, <2>2, <2>3, <2>4
<1> QED
  BY <1>3, <1>4 DEF KnowledgeTypes, RowsTyped, SearchesTyped, TasksTyped

LEMMA DoneTyped ==
  ASSUME ClientsTyped, NEW c \in Client, KI!Done(c)
  PROVE  ClientsTyped'
<1>1. /\ \A e \in Client : e # c => job'[e] = job[e] /\ saw'[e] = saw[e] /\ goal'[e] = goal[e]
      /\ job'[c] = "idle"
  BY DEF KI!Done, ClientsTyped
<1>2. /\ job' \in [Client -> {"idle", "create", "update", "delete", "configure", "dispatch"}]
      /\ saw' \in [Client -> ReadRow \cup {NoDoc}] /\ goal' \in [Client -> Doc \cup {NoDoc}]
  BY DEF KI!Done, ClientsTyped
<1> QED
  BY <1>1, <1>2 DEF ClientsTyped

\* The row a request commits.
LEMMA WrittenTyped ==
  ASSUME KnowledgeTypes, NEW c \in Client, job[c] \in {"create", "update", "delete"},
         job[c] = "update" => doc[goal[c]] # NoDoc
  PROVE  /\ KI!Written(c, goal[c]) \in DocRow \cup {NoDoc}
         /\ job[c] = "create" => /\ KI!Written(c, goal[c]) \in DocRow
                                 /\ KI!Written(c, goal[c]).ver = 1
         /\ job[c] = "update" => /\ KI!Written(c, goal[c]) \in DocRow
                                 /\ KI!Written(c, goal[c]).ver = saw[c].row.ver + 1
         /\ job[c] = "delete" => KI!Written(c, goal[c]) = NoDoc
<1>1. /\ saw[c].op \in Nat /\ goal[c] \in Doc
      /\ job[c] = "update" => saw[c].row \in DocRow
  BY DEF KnowledgeTypes, ClientsTyped, ReadRow
<1>2. CASE job[c] = "create"
  BY <1>1, <1>2 DEF KI!Written, KI!First, DocRow
<1>3. CASE job[c] = "delete"
  BY <1>3 DEF KI!Written
<1>4. CASE job[c] = "update"
  <2>1. doc[goal[c]] \in DocRow
    BY <1>1, <1>4 DEF KnowledgeTypes, RowsTyped, DocRows
  <2>2. KI!Written(c, goal[c]) = KI!Edited(c, goal[c])
    BY <1>4 DEF KI!Written
  <2>3. /\ KI!Edited(c, goal[c]) \in DocRow
        /\ KI!Edited(c, goal[c]).ver = saw[c].row.ver + 1
    BY <1>1, <1>4, <2>1 DEF KI!Edited, DocRow
  <2> QED
    BY <1>4, <2>2, <2>3
<1> QED
  BY <1>2, <1>3, <1>4

LEMMA RequestTyped ==
  ASSUME KnowledgeTypes, NEW c \in Client, KI!Request(c) \/ KI!Dispatch(c)
  PROVE  KnowledgeTypes'
<1> USE DEF KnowledgeTypes
<1>1. CASE KI!Writing(c)
  BY <1>1, OpenTyped DEF KI!Writing, KI!Docs
<1>2. CASE KI!CommitDoc(c)
  <2> DEFINE d == goal[c]
  <2>1. /\ job[c] \in {"create", "update", "delete"} /\ KI!Done(c)
        /\ born' = born \cup {d} /\ d \in Doc
        /\ UNCHANGED <<index, search, msgs, task, view, todo_k, ops>>
    BY <1>2 DEF KI!CommitDoc, KI!work, ClientsTyped
  <2>2. \/ UNCHANGED <<doc, cfg>>
        \/ /\ job[c] = "update" => doc[d] # NoDoc
           /\ doc' = [doc EXCEPT ![d] = KI!Written(c, d)]
           /\ cfg' = KI!Stale(saw[c].state)
    BY <1>2 DEF KI!CommitDoc
  <2>3. doc' \in DocRows
    BY <2>1, <2>2, WrittenTyped DEF RowsTyped, DocRows
  <2>4. cfg' \in KI!Cfg
    BY <2>2, CfgWritten DEF RowsTyped
  <2> QED
    BY <2>1, <2>3, <2>4, DoneTyped DEF RowsTyped, SearchesTyped, TasksTyped
<1>3. CASE KI!CommitConfig(c)
  <2>1. /\ KI!Done(c)
        /\ UNCHANGED <<doc, born, index, search, msgs, task, view, todo_k, ops>>
    BY <1>3 DEF KI!CommitConfig, KI!work
  <2>2. PICK m \in Model : cfg' = [KI!Stale(saw[c].state) EXCEPT !.model = m]
    BY <1>3 DEF KI!CommitConfig
  <2>3. cfg' \in KI!Cfg
    BY <2>2, CfgWritten DEF RowsTyped, KI!Cfg
  <2> QED
    BY <2>1, <2>3, DoneTyped DEF RowsTyped, SearchesTyped, TasksTyped
<1>4. CASE KI!RequestReindex(c)
  <2>1. cfg' \in KI!Cfg
    BY <1>4 DEF KI!RequestReindex, RowsTyped, KI!Cfg
  <2>2. ClientsTyped'
    BY <1>4 DEF KI!RequestReindex, ClientsTyped
  <2> QED
    BY <1>4, <2>1, <2>2
       DEF KI!RequestReindex, KI!work, RowsTyped, SearchesTyped, TasksTyped
<1>5. CASE KI!Dispatch(c)
  <2>1. /\ KI!Done(c) /\ cfg' \in KI!Cfg /\ msgs' \in Nat
        /\ UNCHANGED <<doc, born, index, search, task, view, todo_k, ops>>
    <3>1. cfg \in KI!Cfg /\ KI!Erred \in KI!Cfg /\ msgs \in Nat
      BY CfgWritten DEF RowsTyped
    <3>2. \/ msgs' = msgs + 1 /\ UNCHANGED cfg
          \/ cfg' = KI!Erred /\ UNCHANGED msgs
          \/ UNCHANGED <<cfg, msgs>>
      BY <1>5 DEF KI!Dispatch
    <3>3. /\ KI!Done(c)
          /\ UNCHANGED <<doc, born, index, search, task, view, todo_k, ops>>
      BY <1>5 DEF KI!Dispatch
    <3> QED
      BY <3>1, <3>2, <3>3
  <2> QED
    BY <2>1, DoneTyped DEF RowsTyped, SearchesTyped, TasksTyped
<1> QED
  BY <1>1, <1>2, <1>3, <1>4, <1>5 DEF KI!Request

LEMMA LookupMoved ==
  ASSUME NEW x \in Lookup, NEW h \in SUBSET Chunk
  PROVE  /\ [x EXCEPT !.at = "cite", !.hits = h] \in Lookup
         /\ [x EXCEPT !.at = "cite", !.hits = h].at = "cite"
         /\ [x EXCEPT !.at = "cite", !.hits = h].doc = x.doc
         /\ [x EXCEPT !.at = "cite", !.hits = h].hits = h
BY DEF Lookup

LEMMA SearchTyped ==
  ASSUME KnowledgeTypes, NEW r \in Reader, KI!Search(r)
  PROVE  KnowledgeTypes'
<1>1. UNCHANGED <<cfg, doc, born, index, msgs, ops, job, saw, goal, task, view, todo_k>>
  BY DEF KI!Search, KI!BeginSearch, KI!Query, KI!Answer, KI!client, KI!work
<1>2. PICK l : search' = [search EXCEPT ![r] = l] /\ l \in Lookup
               /\ (l.at # "idle" => l.doc \in DocRows)
  <2>1. CASE KI!BeginSearch(r)
    <3> DEFINE l == [at |-> "query", doc |-> doc, model |-> cfg.model, hits |-> {}]
    <3>1. l \in Lookup /\ l.doc \in DocRows
      BY CfgWritten DEF KnowledgeTypes, RowsTyped, Lookup
    <3> QED
      BY <2>1, <3>1 DEF KI!BeginSearch
  <2>2. CASE KI!Query(r)
    <3> DEFINE h == {e \in index : KI!Cites(search[r].doc[e.doc], e, search[r].model)}
               l == [search[r] EXCEPT !.at = "cite", !.hits = h]
    <3>1. h \in SUBSET Chunk
      BY DEF KnowledgeTypes, RowsTyped
    <3>2. search[r] \in Lookup /\ search[r].doc \in DocRows
      BY <2>2 DEF KnowledgeTypes, SearchesTyped, KI!Query
    <3>3. search' = [search EXCEPT ![r].at = "cite", ![r].hits = h]
      BY <2>2 DEF KI!Query
    <3> HIDE DEF h
    <3>4. search' = [search EXCEPT ![r] = l]
      BY <3>3 DEF KnowledgeTypes, SearchesTyped
    <3>5. l \in Lookup /\ l.doc \in DocRows
      BY <3>1, <3>2, LookupMoved
    <3> QED
      BY <3>4, <3>5
  <2>3. CASE KI!Answer(r)
    <3>1. KI!Idle \in Lookup /\ KI!Idle.at = "idle"
      BY DEF KI!Idle, Lookup
    <3> QED
      BY <2>3, <3>1 DEF KI!Answer
  <2> QED
    BY <2>1, <2>2, <2>3 DEF KI!Search
<1>3. SearchesTyped'
  BY <1>2 DEF KnowledgeTypes, SearchesTyped
<1> QED
  BY <1>1, <1>3 DEF KnowledgeTypes, RowsTyped, ClientsTyped, TasksTyped

LEMMA EndTyped ==
  ASSUME TasksTyped, NEW t \in Task, KI!End(t)
  PROVE  TasksTyped'
<1>1. /\ task'[t] = "idle"
      /\ \A u \in Task : u # t => task'[u] = task[u] /\ view'[u] = view[u]
                                  /\ todo_k'[u] = todo_k[u]
  BY DEF KI!End, KI!At, TasksTyped
<1>2. /\ task' \in [Task -> {"idle", "mark", "reset", "load"}]
      /\ view' \in [Task -> Building \cup {NoDoc}] /\ todo_k' \in [Task -> SUBSET Doc]
  BY DEF KI!End, KI!At, TasksTyped
<1> QED
  BY <1>1, <1>2 DEF TasksTyped

\* What a finished rebuild stamps: the fingerprint, never the content.
LEMMA StampedRow ==
  ASSUME KnowledgeTypes, NEW t \in Task, KI!Finish(t), NEW d \in Doc
  PROVE  /\ doc'[d] \in DocRow \cup {NoDoc}
         /\ doc'[d] = NoDoc <=> doc[d] = NoDoc
         /\ doc[d] # NoDoc => doc'[d].ver = doc[d].ver /\ doc'[d].text = doc[d].text
<1>1. doc[d] \in DocRow \cup {NoDoc} /\ view[t] \in Building
  BY DEF KnowledgeTypes, RowsTyped, TasksTyped, DocRows, KI!Finish
<1>2. CASE UNCHANGED doc
  BY <1>1, <1>2
<1>3. CASE doc' = [e \in Doc |-> KI!Stamped(t, e)]
           /\ \A e \in KI!Manifest(t) : doc[e] = NoDoc => view[t].doc[e].idx = view[t].model
  <2>1. doc'[d] = KI!Stamped(t, d)
    BY <1>3
  <2>2. doc[d] = NoDoc => doc'[d] = doc[d]
    BY <1>3, <2>1 DEF KI!Stamped
  <2>3. ASSUME doc[d] # NoDoc
        PROVE  /\ doc'[d] \in DocRow
               /\ doc'[d].ver = doc[d].ver /\ doc'[d].text = doc[d].text
    <3>1. view[t].model \in Model /\ doc[d] \in DocRow
      BY <1>1, <2>3 DEF Building
    <3>2. doc'[d] = doc[d] \/ doc'[d] = [doc[d] EXCEPT !.idx = view[t].model]
      BY <2>1 DEF KI!Stamped
    <3> QED
      BY <3>1, <3>2 DEF DocRow
  <2>4. NoDoc \notin DocRow
    BY ServicesAssumption DEF KI!KnowledgeAssumption, DocRow
  <2> QED
    BY <1>1, <2>2, <2>3, <2>4
<1> QED
  BY <1>2, <1>3 DEF KI!Finish

LEMMA RebuildTyped ==
  ASSUME KnowledgeTypes, NEW t \in Task, KI!Rebuild(t) \/ KI!Crash(t)
  PROVE  KnowledgeTypes'
<1> USE DEF KnowledgeTypes
<1>0. UNCHANGED <<born, job, saw, goal, search, ops>>
  BY DEF KI!Rebuild, KI!Begin, KI!Mark, KI!Reset, KI!Load, KI!Finish, KI!Fail, KI!Crash,
         KI!client
<1>a. ClientsTyped' /\ SearchesTyped'
  BY <1>0 DEF ClientsTyped, SearchesTyped
<1>1. CASE KI!Begin(t)
  <2> DEFINE v == [doc |-> NoDoc, was |-> cfg.state, model |-> cfg.model, by |-> cfg.model]
  <2>1. v \in Building
    BY CfgWritten DEF RowsTyped, Building
  <2>2. /\ msgs > 0 /\ msgs' = msgs - 1 /\ view' = [view EXCEPT ![t] = v]
        /\ task' = [task EXCEPT ![t] = "mark"] /\ UNCHANGED <<cfg, doc, index, todo_k>>
    BY <1>1 DEF KI!Begin, KI!At
  <2> HIDE DEF v
  <2>3. msgs' \in Nat
    BY <2>2 DEF RowsTyped
  <2>4. TasksTyped'
    BY <2>1, <2>2 DEF TasksTyped
  <2> QED
    BY <1>0, <1>a, <2>2, <2>3, <2>4 DEF RowsTyped
<1>2. CASE KI!Mark(t)
  <2>1. cfg' \in KI!Cfg
    BY <1>2 DEF KI!Mark, RowsTyped, KI!Cfg
  <2>2. task' = [task EXCEPT ![t] = "reset"] /\ UNCHANGED <<doc, index, msgs, view, todo_k>>
        /\ task[t] = "mark"
    BY <1>2 DEF KI!Mark, KI!At
  <2>3. TasksTyped'
    BY <2>2 DEF TasksTyped
  <2> QED
    BY <1>0, <1>a, <2>1, <2>2, <2>3 DEF RowsTyped
<1>3. CASE KI!Reset(t)
  <2> DEFINE v == [view[t] EXCEPT !.doc = doc, !.by = cfg.model]
  <2>1. /\ task[t] = "reset" /\ view' = [view EXCEPT ![t].doc = doc, ![t].by = cfg.model]
        /\ index' = {} /\ todo_k' = [todo_k EXCEPT ![t] = KI!Docs]
        /\ task' = [task EXCEPT ![t] = "load"] /\ UNCHANGED <<cfg, doc, msgs>>
    BY <1>3 DEF KI!Reset, KI!At
  <2>2. v \in Building /\ v.doc = doc /\ doc \in DocRows
    <3>1. view[t] \in Building
      BY <2>1 DEF TasksTyped
    <3>2. doc \in DocRows /\ cfg.model \in Model
      BY CfgWritten DEF RowsTyped
    <3> QED
      BY <3>1, <3>2 DEF Building
  <2>3. view' = [view EXCEPT ![t] = v]
    BY <2>1 DEF TasksTyped
  <2> HIDE DEF v
  <2>4. KI!Docs \in SUBSET Doc /\ \A d \in KI!Docs : doc[d] # NoDoc
    BY DEF KI!Docs
  <2>5. TasksTyped'
    <3>1. /\ task' \in [Task -> {"idle", "mark", "reset", "load"}]
          /\ view' \in [Task -> Building \cup {NoDoc}] /\ todo_k' \in [Task -> SUBSET Doc]
      <4>1. /\ task \in [Task -> {"idle", "mark", "reset", "load"}]
            /\ view \in [Task -> Building \cup {NoDoc}] /\ todo_k \in [Task -> SUBSET Doc]
        BY DEF TasksTyped
      <4>2. view' \in [Task -> Building \cup {NoDoc}]
        BY <2>2, <2>3, <4>1
      <4>3. todo_k' \in [Task -> SUBSET Doc]
        BY <2>1, <2>4, <4>1
      <4> QED
        BY <2>1, <4>1, <4>2, <4>3
    <3>2. /\ task'[t] = "load" /\ view'[t] = v /\ todo_k'[t] = KI!Docs
          /\ \A u \in Task : u # t => task'[u] = task[u] /\ view'[u] = view[u]
                                      /\ todo_k'[u] = todo_k[u]
      BY <2>1, <2>3 DEF TasksTyped
    <3>3. ASSUME NEW u \in Task
          PROVE  /\ task'[u] # "idle" => view'[u] \in Building
                 /\ task'[u] = "load" =>
                      /\ view'[u].doc \in DocRows
                      /\ \A d \in todo_k'[u] : view'[u].doc[d] # NoDoc
      <4>1. CASE u = t
        BY <3>2, <2>2, <2>4, <4>1
      <4>2. CASE u # t
        BY <3>2, <4>2 DEF TasksTyped
      <4> QED
        BY <4>1, <4>2
    <3> QED
      BY <3>1, <3>3 DEF TasksTyped
  <2> QED
    BY <1>0, <1>a, <2>1, <2>5 DEF RowsTyped
<1>4. CASE KI!Load(t)
  <2>1. PICK d \in todo_k[t] :
          /\ index' = index \cup
               {[doc |-> d, ver |-> view[t].doc[d].ver,
                 text |-> view[t].doc[d].text, model |-> view[t].by]}
          /\ todo_k' = [todo_k EXCEPT ![t] = @ \ {d}]
    BY <1>4 DEF KI!Load, KI!Chunks
  <2>2. task[t] = "load" /\ UNCHANGED <<cfg, doc, msgs, task, view>>
    BY <1>4 DEF KI!Load, KI!Chunks
  <2>3. view[t].doc[d] \in DocRow /\ view[t].by \in Model /\ d \in Doc
    BY <2>2 DEF TasksTyped, DocRows, Building
  <2>4. index' \in SUBSET Chunk
    BY <2>1, <2>3 DEF RowsTyped, Chunk, DocRow
  <2>5. TasksTyped'
    BY <2>1, <2>2 DEF TasksTyped
  <2> QED
    BY <1>0, <1>a, <2>2, <2>4, <2>5 DEF RowsTyped
<1>5. CASE KI!Finish(t)
  <2>1. doc' \in DocRows
    <3>1. \A d \in Doc : doc'[d] \in DocRow \cup {NoDoc}
      BY <1>5, StampedRow
    <3>2. doc' = [d \in Doc |-> doc'[d]]
      BY <1>5 DEF KI!Finish, RowsTyped, DocRows
    <3> QED
      BY <3>1, <3>2 DEF DocRows
  <2>2. cfg' \in KI!Cfg
    BY <1>5 DEF KI!Finish, RowsTyped, KI!Cfg
  <2>3. KI!End(t) /\ UNCHANGED <<index, msgs>>
    BY <1>5 DEF KI!Finish
  <2> QED
    BY <1>0, <1>a, <2>1, <2>2, <2>3, EndTyped DEF RowsTyped
<1>6. CASE KI!Fail(t)
  BY <1>0, <1>a, <1>6, EndTyped, CfgWritten DEF KI!Fail, RowsTyped
<1>7. CASE KI!Crash(t)
  <2>1. /\ KI!End(t) /\ UNCHANGED <<cfg, doc, index>>
        /\ msgs' = msgs + 1 \/ msgs' = msgs
    BY <1>7 DEF KI!Crash
  <2> QED
    BY <1>0, <1>a, <2>1, EndTyped DEF RowsTyped
<1> QED
  BY <1>1, <1>2, <1>3, <1>4, <1>5, <1>6, <1>7 DEF KI!Rebuild

LEMMA KnowledgeTypesStep == KnowledgeTypes /\ [KI!Next]_(KI!vars) => KnowledgeTypes'
<1> SUFFICES ASSUME KnowledgeTypes, [KI!Next]_(KI!vars)
             PROVE  KnowledgeTypes'
  OBVIOUS
<1>1. CASE UNCHANGED KI!vars
  BY <1>1 DEF KI!vars, KnowledgeTypes, RowsTyped, ClientsTyped, SearchesTyped, TasksTyped
<1>2. CASE KI!Next
  BY <1>2, RequestTyped, SearchTyped, RebuildTyped DEF KI!Next
<1> QED
  BY <1>1, <1>2

\* A mark that was not written, or a rebuild nobody will do.
MarkLost == past \cap {"unmarked", "abandoned"} # {}
Queued   == msgs > 0 \/ \E c \in Client : job[c] = "dispatch"
Other(t) == Queued \/ \E u \in Task : u # t /\ task[u] # "idle"

\* The rebuild t works on the documents and the model of now, and what it has
\* loaded is in the index.
Fresh(t) ==
  /\ view[t].by = cfg.model
  /\ \A d \in Doc :
       /\ view[t].doc[d] = NoDoc <=> doc[d] = NoDoc
       /\ doc[d] # NoDoc => /\ view[t].doc[d].ver = doc[d].ver
                            /\ view[t].doc[d].text = doc[d].text
  /\ \A d \in KI!Docs \ todo_k[t] :
       [doc |-> d, ver |-> doc[d].ver, text |-> doc[d].text, model |-> cfg.model] \in index

\* While the state is rebuilding, a rebuild is fresh or not the last one: each
\* that ends takes the state away from rebuilding, and only a new request or
\* delivery, which is then still under way, brings it back.
RebuildInv ==
  ~MarkLost =>
    /\ cfg.state = "rebuilding" =>
         \A t \in Task : task[t] = "load" => Fresh(t) \/ Other(t)
    /\ cfg.state = "ready" =>
         KI!Complete \/ Queued \/ \E t \in Task : task[t] # "idle"

LEMMA RebuildStart == KI!Init => RebuildInv
BY DEF KI!Init, RebuildInv

\* A step that takes the state away from rebuilding and ready, or loses a mark.
LEMMA RebuildOver ==
  ASSUME MarkLost' \/ cfg'.state \notin {"rebuilding", "ready"}
  PROVE  RebuildInv'
BY DEF RebuildInv

\* A step after which a message or a dispatch is under way.
LEMMA RebuildQueued ==
  ASSUME Queued'
  PROVE  RebuildInv'
BY DEF RebuildInv, Other

LEMMA RebuildSame ==
  ASSUME RebuildInv, Queued => Queued',
         UNCHANGED <<cfg, doc, index, task, view, todo_k, past>>
  PROVE  RebuildInv'
<1>1. MarkLost' = MarkLost
  BY DEF MarkLost
<1>2. \A t \in Task : Fresh(t) => Fresh(t)'
  BY DEF Fresh, KI!Docs
<1>3. \A t \in Task : Other(t) => Other(t)'
  BY DEF Other
<1>4. KI!Complete => KI!Complete'
  BY DEF KI!Complete, KI!Docs
<1> QED
  BY <1>1, <1>2, <1>3, <1>4 DEF RebuildInv

LEMMA RequestRebuildInv ==
  ASSUME KnowledgeTypes, RebuildInv, NEW c \in Client, KI!Request(c) \/ KI!Dispatch(c)
  PROVE  RebuildInv'
<1>0. job \in [Client -> {"idle", "create", "update", "delete", "configure", "dispatch"}]
  BY DEF KnowledgeTypes, ClientsTyped
<1>1. CASE KI!Writing(c)
  <2>1. job[c] = "idle" /\ \A e \in Client : e # c => job'[e] = job[e]
    BY <1>0, <1>1 DEF KI!Writing, KI!Open
  <2>2. UNCHANGED <<cfg, doc, index, msgs, task, view, todo_k, past>>
    BY <1>1 DEF KI!Writing, KI!Open, KI!work
  <2>3. Queued => Queued'
    BY <2>1, <2>2 DEF Queued
  <2> QED
    BY <2>2, <2>3, RebuildSame
<1>2. CASE KI!CommitDoc(c)
  <2>1. CASE UNCHANGED <<doc, cfg, past>>
    <3>1. job[c] # "dispatch" /\ \A e \in Client : e # c => job'[e] = job[e]
      BY <1>0, <1>2 DEF KI!CommitDoc, KI!Done
    <3>2. UNCHANGED <<index, msgs, task, view, todo_k>>
      BY <1>2 DEF KI!CommitDoc, KI!work
    <3>3. Queued => Queued'
      BY <3>1, <3>2 DEF Queued
    <3> QED
      BY <2>1, <3>2, <3>3, RebuildSame
  <2>2. CASE ~UNCHANGED <<doc, cfg, past>>
    <3>1. cfg'.state # "stale" => "unmarked" \in past'
      BY <1>2, <2>2 DEF KI!CommitDoc
    <3> QED
      BY <3>1, RebuildOver DEF MarkLost
  <2> QED
    BY <2>1, <2>2
<1>3. CASE KI!CommitConfig(c)
  <2>1. cfg'.state # "stale" => "unmarked" \in past'
    BY <1>3 DEF KI!CommitConfig, KI!Note
  <2> QED
    BY <2>1, RebuildOver DEF MarkLost
<1>4. CASE KI!RequestReindex(c)
  <2>1. job'[c] = "dispatch"
    BY <1>0, <1>4 DEF KI!RequestReindex
  <2> QED
    BY <2>1, RebuildQueued DEF Queued
<1>5. CASE KI!Dispatch(c)
  <2>1. CASE msgs' = msgs + 1
    <3>1. Queued'
      BY <2>1 DEF Queued, KnowledgeTypes, RowsTyped
    <3> QED
      BY <3>1, RebuildQueued
  <2>2. CASE cfg' = KI!Erred
    <3>1. cfg'.state = "error"
      BY <2>2, CfgWritten DEF KnowledgeTypes, RowsTyped
    <3> QED
      BY <3>1, RebuildOver
  <2>3. CASE KI!Note("abandoned", TRUE)
    BY <2>3, RebuildOver DEF KI!Note, MarkLost
  <2> QED
    BY <1>5, <2>1, <2>2, <2>3 DEF KI!Dispatch
<1> QED
  BY <1>1, <1>2, <1>3, <1>4, <1>5 DEF KI!Request

\* A rebuild under way makes the others wait for its end.
LEMMA RebuildBusy ==
  ASSUME KnowledgeTypes, NEW t \in Task, task' = [task EXCEPT ![t] = "mark"]
           \/ task' = [task EXCEPT ![t] = "reset"]
  PROVE  RebuildInv'
<1>1. task'[t] \in {"mark", "reset"}
  BY DEF KnowledgeTypes, TasksTyped
<1>2. \A u \in Task : task'[u] = "load" => Other(u)'
  BY <1>1 DEF Other
<1> QED
  BY <1>1, <1>2 DEF RebuildInv

LEMMA ResetInv ==
  ASSUME KnowledgeTypes, NEW t \in Task, KI!Reset(t)
  PROVE  RebuildInv'
<1>1. /\ task' = [task EXCEPT ![t] = "load"] /\ UNCHANGED <<cfg, doc>>
      /\ todo_k' = [todo_k EXCEPT ![t] = KI!Docs]
      /\ view' = [view EXCEPT ![t].doc = doc, ![t].by = cfg.model] /\ task[t] = "reset"
  BY DEF KI!Reset, KI!At
<1>2. view \in [Task -> Building \cup {NoDoc}] /\ view[t] \in Building
  BY <1>1 DEF KnowledgeTypes, TasksTyped
<1>3. view'[t] = [view[t] EXCEPT !.doc = doc, !.by = cfg.model]
  BY <1>1, <1>2
<1>4. view'[t].doc = doc /\ view'[t].by = cfg.model
  BY <1>2, <1>3 DEF Building
<1>5. task'[t] = "load" /\ todo_k'[t] = KI!Docs /\ KI!Docs' = KI!Docs
  BY <1>1 DEF KnowledgeTypes, TasksTyped, KI!Docs
<1>6. Fresh(t)'
  BY <1>1, <1>4, <1>5 DEF Fresh
<1>7. \A u \in Task : u # t => Other(u)'
  BY <1>5 DEF Other
<1> QED
  BY <1>5, <1>6, <1>7 DEF RebuildInv

LEMMA LoadInv ==
  ASSUME KnowledgeTypes, RebuildInv, NEW t \in Task, KI!Load(t)
  PROVE  RebuildInv'
<1>1. /\ UNCHANGED <<cfg, doc, task, view, msgs, job, past>> /\ task[t] = "load"
  BY DEF KI!Load, KI!Chunks, KI!client
<1>2. PICK d \in todo_k[t] :
        /\ index' = index \cup
             {[doc |-> d, ver |-> view[t].doc[d].ver,
               text |-> view[t].doc[d].text, model |-> view[t].by]}
        /\ todo_k' = [todo_k EXCEPT ![t] = @ \ {d}]
  BY DEF KI!Load, KI!Chunks
<1>3. ASSUME Fresh(t)
      PROVE  Fresh(t)'
  <2>1. todo_k'[t] = todo_k[t] \ {d} /\ d \in Doc
    BY <1>2 DEF KnowledgeTypes, TasksTyped
  <2>2. ASSUME NEW x \in KI!Docs' \ todo_k'[t]
        PROVE  [doc |-> x, ver |-> doc[x].ver, text |-> doc[x].text, model |-> cfg.model]
                 \in index'
    <3>1. x \in KI!Docs
      BY <1>1 DEF KI!Docs
    <3>2. CASE x = d
      <4>1. /\ view[t].doc[d].ver = doc[d].ver /\ view[t].doc[d].text = doc[d].text
            /\ view[t].by = cfg.model
        BY <1>3, <2>1, <3>1, <3>2 DEF Fresh, KI!Docs
      <4> QED
        BY <1>2, <3>2, <4>1
    <3>3. CASE x # d
      BY <1>2, <1>3, <2>1, <2>2, <3>1, <3>3 DEF Fresh
    <3> QED
      BY <3>2, <3>3
  <2> QED
    BY <1>1, <1>3, <2>2 DEF Fresh
<1>4. Other(t) => Other(t)'
  BY <1>1 DEF Other, Queued
<1>5. \A u \in Task : u # t => Other(u)'
  BY <1>1 DEF Other
<1>6. MarkLost' = MarkLost
  BY <1>1 DEF MarkLost
<1> QED
  BY <1>1, <1>3, <1>4, <1>5, <1>6 DEF RebuildInv

\* The last rebuild, if the state is still rebuilding, leaves a complete index.
LEMMA FinishInv ==
  ASSUME KnowledgeTypes, RebuildInv, NEW t \in Task, KI!Finish(t)
  PROVE  RebuildInv'
<1>1. /\ task[t] = "load" /\ todo_k[t] = {} /\ KI!End(t)
      /\ UNCHANGED <<index, msgs, job, past>>
  BY DEF KI!Finish, KI!client
<1>2. CASE ~KI!Unchanged(t)
  <2>1. cfg' = [cfg EXCEPT !.state = "stale"]
    BY <1>2 DEF KI!Finish
  <2>2. cfg'.state = "stale"
    BY <2>1 DEF KnowledgeTypes, RowsTyped, KI!Cfg
  <2> QED
    BY <2>2, RebuildOver
<1>3. CASE KI!Unchanged(t)
  <2>1. /\ cfg.state = "rebuilding"
        /\ cfg' = [cfg EXCEPT !.state = IF KI!Manifest(t) = {} THEN "empty" ELSE "ready"]
    BY <1>3 DEF KI!Finish, KI!Unchanged
  <2>2. cfg'.model = cfg.model /\ cfg'.state \in {"empty", "ready"}
    BY <2>1 DEF KnowledgeTypes, RowsTyped, KI!Cfg
  <2>3. SUFFICES ASSUME ~MarkLost'
                 PROVE  KI!Complete' \/ Queued' \/ \E u \in Task : task'[u] # "idle"
    BY <2>2 DEF RebuildInv
  <2>4. Fresh(t) \/ Other(t)
    BY <1>1, <2>1, <2>3 DEF RebuildInv, MarkLost
  <2>5. CASE Fresh(t)
    <3>1. ASSUME NEW d \in KI!Docs'
          PROVE  [doc |-> d, ver |-> doc'[d].ver, text |-> doc'[d].text,
                  model |-> cfg'.model] \in index'
      <4>1. d \in Doc /\ doc[d] # NoDoc
        BY StampedRow DEF KI!Docs
      <4>2. doc'[d].ver = doc[d].ver /\ doc'[d].text = doc[d].text
        BY <4>1, StampedRow
      <4>3. d \in KI!Docs \ todo_k[t]
        BY <1>1, <4>1 DEF KI!Docs
      <4> QED
        BY <1>1, <2>2, <2>5, <4>2, <4>3 DEF Fresh
    <3> QED
      BY <3>1 DEF KI!Complete
  <2>6. CASE Other(t)
    <3>1. \A u \in Task : u # t => task'[u] = task[u]
      BY <1>1 DEF KI!End, KI!At, KnowledgeTypes, TasksTyped
    <3> QED
      BY <1>1, <2>6, <3>1 DEF Other, Queued
  <2> QED
    BY <2>4, <2>5, <2>6
<1> QED
  BY <1>2, <1>3

LEMMA RebuildStep ==
  KnowledgeTypes /\ RebuildInv /\ [KI!Next]_(KI!vars) => RebuildInv'
<1> SUFFICES ASSUME KnowledgeTypes, RebuildInv, [KI!Next]_(KI!vars)
             PROVE  RebuildInv'
  OBVIOUS
<1>1. ASSUME NEW r \in Reader, KI!Search(r)
      PROVE  RebuildInv'
  <2>1. UNCHANGED <<cfg, doc, index, msgs, job, task, view, todo_k, past>>
    BY <1>1 DEF KI!Search, KI!BeginSearch, KI!Query, KI!Answer, KI!client, KI!work
  <2> QED
    BY <2>1, RebuildSame DEF Queued
<1>2. ASSUME NEW t \in Task, KI!Begin(t) \/ KI!Mark(t)
      PROVE  RebuildInv'
  BY <1>2, RebuildBusy DEF KI!Begin, KI!Mark, KI!At
<1>3. ASSUME NEW t \in Task, KI!Fail(t)
      PROVE  RebuildInv'
  BY <1>3, CfgWritten, RebuildOver DEF KI!Fail, KnowledgeTypes, RowsTyped
<1>4. ASSUME NEW t \in Task, KI!Crash(t)
      PROVE  RebuildInv'
  <2>1. msgs' = msgs + 1 \/ KI!Note("abandoned", TRUE)
    BY <1>4 DEF KI!Crash
  <2>2. ASSUME msgs' = msgs + 1
        PROVE  Queued'
    BY <2>2 DEF Queued, KnowledgeTypes, RowsTyped
  <2>3. ASSUME KI!Note("abandoned", TRUE)
        PROVE  MarkLost'
    BY <2>3 DEF KI!Note, MarkLost
  <2> QED
    BY <2>1, <2>2, <2>3, RebuildOver, RebuildQueued
<1>5. CASE UNCHANGED KI!vars
  BY <1>5, RebuildSame DEF KI!vars, Queued
<1> QED
  BY <1>1, <1>2, <1>3, <1>4, <1>5, RequestRebuildInv, ResetInv, LoadInv, FinishInv
     DEF KI!Next, KI!Rebuild

LEMMA ReadyComplete == RebuildInv => KI!ReadyIsComplete
BY DEF RebuildInv, KI!ReadyIsComplete, KI!Quiet, MarkLost, Queued

Says(x, v, text) == x # NoDoc /\ x.ver = v /\ x.text = text

\* Version v of document d is said to be this text: by its row, by the snapshot
\* of a rebuild or a search, or by the index.
Told(d, v, text) ==
  \/ Says(doc[d], v, text)
  \/ \E t \in Task : task[t] = "load" /\ Says(view[t].doc[d], v, text)
  \/ \E r \in Reader : search[r].at # "idle" /\ Says(search[r].doc[d], v, text)
  \/ \E e \in index : e.doc = d /\ e.ver = v /\ e.text = text

\* Without overwritten edits a version has one text wherever it is kept, and no
\* place is ahead of the row; what a search found is the text it cites.
VersionsInv ==
  "overwritten" \notin past =>
    /\ \A d \in Doc : \A v, x \in Nat :
         Told(d, v, x) => d \in born /\ (doc[d] # NoDoc => v <= doc[d].ver)
    /\ \A d \in Doc : \A v, x, y \in Nat : Told(d, v, x) /\ Told(d, v, y) => x = y
    /\ \A r \in Reader : search[r].at = "cite" =>
         \A e \in search[r].hits : e.text = search[r].doc[e.doc].text

LEMMA VersionsStart == KI!Init => VersionsInv
<1> SUFFICES ASSUME KI!Init
             PROVE  VersionsInv
  OBVIOUS
<1>1. /\ \A r \in Reader : search[r].at = "idle"
      /\ \A t \in Task : task[t] = "idle"
      /\ index = {}
  BY DEF KI!Init, KI!Idle
<1>2. \A d \in Doc : \A v, x : Told(d, v, x) => d \in born /\ v = doc[d].ver /\ x = doc[d].text
  BY <1>1 DEF KI!Init, Told, Says, KI!First
<1>3. \A d \in Doc : doc[d] # NoDoc => doc[d].ver = 1
  BY DEF KI!Init, KI!First
<1> QED
  BY <1>1, <1>2, <1>3 DEF VersionsInv

\* A step that says nothing new.
LEMMA NothingNew ==
  ASSUME VersionsInv, KnowledgeTypes,
         past \subseteq past', born \subseteq born',
         \A d \in Doc : \A v, x \in Nat : Told(d, v, x)' => Told(d, v, x),
         \A d \in Doc : doc'[d] # NoDoc => doc[d] # NoDoc /\ doc'[d].ver = doc[d].ver,
         UNCHANGED search
  PROVE  VersionsInv'
<1> SUFFICES ASSUME "overwritten" \notin past'
             PROVE  VersionsInv'
  BY DEF VersionsInv
<1>1. ASSUME NEW d \in Doc, NEW v \in Nat, NEW x \in Nat, Told(d, v, x)'
      PROVE  d \in born' /\ (doc'[d] # NoDoc => v <= doc'[d].ver)
  BY <1>1 DEF VersionsInv
<1>2. ASSUME NEW d \in Doc, NEW v \in Nat, NEW x \in Nat, NEW y \in Nat,
             Told(d, v, x)', Told(d, v, y)'
      PROVE  x = y
  BY <1>2 DEF VersionsInv
<1>3. \A r \in Reader : search'[r].at = "cite" =>
        \A e \in search'[r].hits : e.text = search'[r].doc[e.doc].text
  BY DEF VersionsInv
<1> QED
  BY <1>1, <1>2, <1>3 DEF VersionsInv

LEMMA SearchVersions ==
  ASSUME VersionsInv, KnowledgeTypes, NEW r \in Reader, KI!Search(r)
  PROVE  VersionsInv'
<1>1. UNCHANGED <<doc, born, index, task, view, past>>
  BY DEF KI!Search, KI!BeginSearch, KI!Query, KI!Answer, KI!client, KI!work
<1>2. /\ search \in [Reader -> Lookup]
      /\ search[r].at # "idle" => search[r].doc \in DocRows
      /\ doc \in DocRows /\ index \in SUBSET Chunk
  BY DEF KnowledgeTypes, SearchesTyped, RowsTyped
<1>3. \A q \in Reader : q # r => search'[q] = search[q]
  BY <1>2 DEF KI!Search, KI!BeginSearch, KI!Query, KI!Answer
<1>4. \/ KI!BeginSearch(r) /\ search'[r].at = "query" /\ search'[r].doc = doc
      \/ /\ KI!Query(r) /\ search[r].at = "query"
         /\ search'[r].at = "cite" /\ search'[r].doc = search[r].doc
         /\ search'[r].hits =
              {e \in index : KI!Cites(search[r].doc[e.doc], e, search[r].model)}
      \/ KI!Answer(r) /\ search'[r].at = "idle"
  <2>1. CASE KI!BeginSearch(r)
    BY <1>2, <2>1 DEF KI!BeginSearch
  <2>2. CASE KI!Query(r)
    <3> DEFINE h == {e \in index : KI!Cites(search[r].doc[e.doc], e, search[r].model)}
    <3>1. search' = [search EXCEPT ![r].at = "cite", ![r].hits = h] /\ search[r].at = "query"
      BY <2>2 DEF KI!Query
    <3>2. h \in SUBSET Chunk
      BY <1>2
    <3> HIDE DEF h
    <3>3. search'[r] = [search[r] EXCEPT !.at = "cite", !.hits = h]
      BY <3>1, <1>2
    <3>4. search'[r].at = "cite" /\ search'[r].doc = search[r].doc /\ search'[r].hits = h
      <4>1. search[r] \in Lookup
        BY <1>2
      <4> QED
        BY <3>2, <3>3, <4>1 DEF Lookup
    <3> QED
      BY <2>2, <3>1, <3>4 DEF h
  <2>3. CASE KI!Answer(r)
    BY <1>2, <2>3 DEF KI!Answer, KI!Idle
  <2> QED
    BY <2>1, <2>2, <2>3 DEF KI!Search
<1>5. \A d \in Doc : \A v, x \in Nat : Told(d, v, x)' => Told(d, v, x)
  BY <1>1, <1>3, <1>4 DEF Told
<1>6. ASSUME "overwritten" \notin past
      PROVE  \A q \in Reader : search'[q].at = "cite" =>
               \A e \in search'[q].hits : e.text = search'[q].doc[e.doc].text
  <2>1. ASSUME NEW e \in search'[r].hits, search'[r].at = "cite"
        PROVE  e.text = search'[r].doc[e.doc].text
    <3>1. /\ e \in index /\ KI!Cites(search[r].doc[e.doc], e, search[r].model)
          /\ search[r].at = "query" /\ search'[r].doc = search[r].doc
      BY <1>4, <2>1
    <3>2. e \in Chunk /\ search[r].doc[e.doc] \in DocRow
      BY <1>2, <3>1 DEF KI!Cites, DocRows, Chunk
    <3> DEFINE x == search[r].doc[e.doc]
    <3>3. /\ e.doc \in Doc /\ e.ver \in Nat /\ e.text \in Nat
          /\ x.text \in Nat /\ x.ver = e.ver /\ x # NoDoc
      BY <3>1, <3>2 DEF Chunk, DocRow, KI!Cites
    <3>4. Told(e.doc, e.ver, e.text)
      BY <3>1 DEF Told
    <3>5. Told(e.doc, e.ver, x.text)
      BY <3>1, <3>3 DEF Told, Says
    <3> QED
      BY <1>6, <3>1, <3>3, <3>4, <3>5 DEF VersionsInv
  <2>2. ASSUME NEW q \in Reader, q # r, search'[q].at = "cite"
        PROVE  \A e \in search'[q].hits : e.text = search'[q].doc[e.doc].text
    BY <1>3, <1>6, <2>2 DEF VersionsInv
  <2> QED
    BY <2>1, <2>2
<1> QED
  BY <1>1, <1>5, <1>6 DEF VersionsInv

\* A new version is one the document never had.
LEMMA CommitVersions ==
  ASSUME VersionsInv, KnowledgeTypes, NEW c \in Client, KI!CommitDoc(c)
  PROVE  VersionsInv'
<1> DEFINE d == goal[c]
<1>1. /\ UNCHANGED <<index, search, task, view>> /\ born' = born \cup {d} /\ d \in Doc
      /\ job[c] \in {"create", "update", "delete"}
      /\ job[c] = "create" => d \notin born
  BY DEF KI!CommitDoc, KI!work, KnowledgeTypes, ClientsTyped
<1>2. CASE UNCHANGED <<doc, past>>
  <2>1. \A g \in Doc : \A v, x \in Nat : Told(g, v, x)' => Told(g, v, x)
    BY <1>1, <1>2 DEF Told
  <2> QED
    BY <1>1, <1>2, <2>1, NothingNew
<1>3. CASE ~UNCHANGED <<doc, past>>
  <2>1. /\ job[c] = "update" => doc[d] # NoDoc
        /\ doc' = [doc EXCEPT ![d] = KI!Written(c, d)]
        /\ past \subseteq past'
        /\ job[c] = "update" /\ doc[d].ver # saw[c].row.ver => "overwritten" \in past'
    BY <1>3 DEF KI!CommitDoc
  <2> DEFINE new == KI!Written(c, d)
  <2>2. /\ new \in DocRow \cup {NoDoc}
        /\ job[c] = "create" => new \in DocRow /\ new.ver = 1
        /\ job[c] = "update" => new \in DocRow /\ new.ver = saw[c].row.ver + 1
        /\ job[c] = "delete" => new = NoDoc
    BY <1>1, <2>1, WrittenTyped
  <2> HIDE DEF new
  <2>3. doc'[d] = new /\ \A g \in Doc : g # d => doc'[g] = doc[g]
    BY <1>1, <2>1 DEF new, KnowledgeTypes, RowsTyped, DocRows
  <2>4. \A g \in Doc : \A v, x \in Nat :
          Told(g, v, x)' => Told(g, v, x) \/ (g = d /\ Says(new, v, x))
    BY <1>1, <2>3 DEF Told, Says
  <2>5. SUFFICES ASSUME "overwritten" \notin past'
                 PROVE  VersionsInv'
    BY DEF VersionsInv
  <2>6. "overwritten" \notin past
    BY <2>1, <2>5
  <2>7. ASSUME new # NoDoc, NEW v \in Nat, NEW x \in Nat, Told(d, v, x)
        PROVE  v < new.ver
    <3>1. d \in born /\ (doc[d] # NoDoc => v <= doc[d].ver)
      BY <1>1, <2>6, <2>7 DEF VersionsInv
    <3>2. job[c] = "update"
      BY <1>1, <2>2, <2>7, <3>1
    <3>3. /\ new.ver = doc[d].ver + 1 /\ doc[d] # NoDoc
          /\ doc[d].ver \in Nat
      BY <1>1, <2>1, <2>2, <2>5, <3>2 DEF KnowledgeTypes, RowsTyped, DocRows, DocRow
    <3> QED
      BY <3>1, <3>3
  <2>8. ASSUME NEW g \in Doc, NEW v \in Nat, NEW x \in Nat, Told(g, v, x)'
        PROVE  g \in born' /\ (doc'[g] # NoDoc => v <= doc'[g].ver)
    <3>1. CASE Told(g, v, x)
      <4>1. g \in born /\ (doc[g] # NoDoc => v <= doc[g].ver)
        BY <2>6, <3>1 DEF VersionsInv
      <4>2. CASE g = d
        <5>1. new # NoDoc => new.ver \in Nat
          BY <2>2 DEF DocRow
        <5> QED
          BY <1>1, <2>3, <2>7, <3>1, <4>1, <4>2, <5>1
      <4>3. CASE g # d
        BY <1>1, <2>3, <4>1, <4>3
      <4> QED
        BY <4>2, <4>3
    <3>2. CASE g = d /\ Says(new, v, x)
      BY <1>1, <2>3, <3>2 DEF Says
    <3> QED
      BY <2>4, <2>8, <3>1, <3>2
  <2>9. ASSUME NEW g \in Doc, NEW v \in Nat, NEW x \in Nat, NEW y \in Nat,
               Told(g, v, x)', Told(g, v, y)'
        PROVE  x = y
    <3>1. CASE Told(g, v, x) /\ Told(g, v, y)
      BY <2>6, <3>1 DEF VersionsInv
    <3>2. CASE ~(Told(g, v, x) /\ Told(g, v, y))
      <4>1. g = d /\ (Says(new, v, x) \/ Says(new, v, y))
        BY <2>4, <2>9, <3>2
      <4>2. new # NoDoc /\ new.ver = v
        BY <4>1 DEF Says
      <4>3. ~Told(d, v, x) /\ ~Told(d, v, y)
        BY <2>7, <4>2
      <4>4. Says(new, v, x) /\ Says(new, v, y)
        BY <2>4, <2>9, <4>1, <4>3
      <4> QED
        BY <4>4 DEF Says
    <3> QED
      BY <3>1, <3>2
  <2>10. \A r \in Reader : search'[r].at = "cite" =>
           \A e \in search'[r].hits : e.text = search'[r].doc[e.doc].text
    BY <1>1, <2>6 DEF VersionsInv
  <2> QED
    BY <2>8, <2>9, <2>10 DEF VersionsInv
<1> QED
  BY <1>2, <1>3

LEMMA RebuildVersions ==
  ASSUME VersionsInv, KnowledgeTypes, NEW t \in Task, KI!Rebuild(t) \/ KI!Crash(t)
  PROVE  VersionsInv'
<1>0. UNCHANGED <<born, search>> /\ past \subseteq past'
  BY DEF KI!Rebuild, KI!Begin, KI!Mark, KI!Reset, KI!Load, KI!Finish, KI!Fail, KI!Crash,
         KI!Note
<1>t. /\ task \in [Task -> {"idle", "mark", "reset", "load"}]
      /\ view \in [Task -> Building \cup {NoDoc}]
  BY DEF KnowledgeTypes, TasksTyped
<1>1. CASE KI!Begin(t) \/ KI!Mark(t)
  <2>1. /\ \A u \in Task : u # t => task'[u] = task[u] /\ view'[u] = view[u]
        /\ task'[t] # "load" /\ UNCHANGED <<doc, index>>
    BY <1>1, <1>t DEF KI!Begin, KI!Mark, KI!At
  <2>2. \A d \in Doc : \A v, x \in Nat : Told(d, v, x)' => Told(d, v, x)
    BY <1>0, <2>1 DEF Told
  <2> QED
    BY <1>0, <2>1, <2>2, NothingNew
<1>2. CASE KI!Reset(t)
  <2>1. /\ task[t] = "reset" /\ view' = [view EXCEPT ![t].doc = doc, ![t].by = cfg.model]
        /\ index' = {} /\ task' = [task EXCEPT ![t] = "load"] /\ UNCHANGED doc
    BY <1>2 DEF KI!Reset, KI!At
  <2>2. view[t] \in Building
    BY <2>1 DEF KnowledgeTypes, TasksTyped
  <2>3. view'[t] = [view[t] EXCEPT !.doc = doc, !.by = cfg.model]
        /\ \A u \in Task : u # t => task'[u] = task[u] /\ view'[u] = view[u]
    BY <1>t, <2>1
  <2>4. view'[t].doc = doc
    BY <2>2, <2>3 DEF Building
  <2>5. \A d \in Doc : \A v, x \in Nat : Told(d, v, x)' => Told(d, v, x)
    BY <1>0, <2>1, <2>3, <2>4 DEF Told
  <2> QED
    BY <1>0, <2>1, <2>5, NothingNew
<1>3. CASE KI!Load(t)
  <2>1. PICK d \in todo_k[t] :
          index' = index \cup {[doc |-> d, ver |-> view[t].doc[d].ver,
                                text |-> view[t].doc[d].text, model |-> view[t].by]}
    BY <1>3 DEF KI!Load, KI!Chunks
  <2>2. /\ task[t] = "load" /\ UNCHANGED <<doc, task, view>>
        /\ view[t].doc[d] # NoDoc
    BY <1>3 DEF KI!Load, KI!Chunks, KnowledgeTypes, TasksTyped
  <2>3. Says(view[t].doc[d], view[t].doc[d].ver, view[t].doc[d].text)
    BY <2>2 DEF Says
  <2>4. \A g \in Doc : \A v, x \in Nat : Told(g, v, x)' => Told(g, v, x)
    BY <1>0, <2>1, <2>2, <2>3 DEF Told
  <2> QED
    BY <1>0, <2>2, <2>4, NothingNew
<1>4. CASE KI!Finish(t)
  <2>1. /\ \A u \in Task : u # t => task'[u] = task[u] /\ view'[u] = view[u]
        /\ task'[t] # "load" /\ UNCHANGED index
    BY <1>4, <1>t DEF KI!Finish, KI!End, KI!At
  <2>2. \A d \in Doc : \A v, x \in Nat : Says(doc'[d], v, x) => Says(doc[d], v, x)
    BY <1>4, StampedRow DEF Says
  <2>3. \A d \in Doc : \A v, x \in Nat : Told(d, v, x)' => Told(d, v, x)
    BY <1>0, <2>1, <2>2 DEF Told
  <2> QED
    BY <1>0, <1>4, <2>1, <2>3, StampedRow, NothingNew
<1>5. CASE KI!Fail(t) \/ KI!Crash(t)
  <2>1. /\ \A u \in Task : u # t => task'[u] = task[u] /\ view'[u] = view[u]
        /\ task'[t] # "load" /\ UNCHANGED <<doc, index>>
    BY <1>5, <1>t DEF KI!Fail, KI!Crash, KI!End, KI!At
  <2>2. \A d \in Doc : \A v, x \in Nat : Told(d, v, x)' => Told(d, v, x)
    BY <1>0, <2>1 DEF Told
  <2> QED
    BY <1>0, <2>1, <2>2, NothingNew
<1> QED
  BY <1>1, <1>2, <1>3, <1>4, <1>5 DEF KI!Rebuild

LEMMA VersionsStep ==
  KnowledgeTypes /\ VersionsInv /\ [KI!Next]_(KI!vars) => VersionsInv'
<1> SUFFICES ASSUME KnowledgeTypes, VersionsInv, [KI!Next]_(KI!vars)
             PROVE  VersionsInv'
  OBVIOUS
<1>1. ASSUME past \subseteq past', UNCHANGED <<doc, born, index, search, task, view>>
      PROVE  VersionsInv'
  <2>1. \A d \in Doc : \A v, x \in Nat : Told(d, v, x)' => Told(d, v, x)
    BY <1>1 DEF Told
  <2> QED
    BY <1>1, <2>1, NothingNew
<1>2. ASSUME NEW c \in Client, KI!Writing(c) \/ KI!CommitConfig(c) \/ KI!RequestReindex(c)
                                 \/ KI!Dispatch(c)
      PROVE  VersionsInv'
  BY <1>1, <1>2 DEF KI!Writing, KI!Open, KI!CommitConfig, KI!RequestReindex, KI!Dispatch,
                    KI!Note, KI!work
<1>3. CASE UNCHANGED KI!vars
  BY <1>1, <1>3 DEF KI!vars
<1> QED
  BY <1>2, <1>3, CommitVersions, SearchVersions, RebuildVersions DEF KI!Next, KI!Request

KnowledgeInv == KnowledgeTypes /\ RebuildInv /\ VersionsInv

LEMMA KnowledgeStart == KI!Init => KnowledgeInv
BY KnowledgeTypesStart, RebuildStart, VersionsStart DEF KnowledgeInv

LEMMA KnowledgeStep == KnowledgeInv /\ [KI!Next]_(KI!vars) => KnowledgeInv'
BY KnowledgeTypesStep, RebuildStep, VersionsStep DEF KnowledgeInv

LEMMA KnowledgeCurrent == KnowledgeInv => KI!AnswersAreCurrent
BY ReadyComplete
   DEF KnowledgeInv, VersionsInv, KI!AnswersAreCurrent, KI!CitationsAreCurrent

\* For any requests, searches, rebuilds, documents and models: a citation shows
\* the text of the version it names, unless an edit overwrote another of the
\* same version; and when no rebuild is under way and the state is ready, every
\* document is in the index as it is now, unless a mark was not written or a
\* rebuild died for good (reindex, search and _mark_stale of knowledge.py).
THEOREM IndexIsCurrent ==
  (KI!Spec => []KI!AnswersAreCurrent) /\ (MCSpec => []AnswersAreCurrent)
<1>1. KI!Spec => []KI!AnswersAreCurrent
  BY KnowledgeStart, KnowledgeStep, KnowledgeCurrent, PTL DEF KI!Spec
<1>2. MCInit => KnowledgeInv
  BY KnowledgeStart DEF MCInit
<1>3. KnowledgeInv /\ [MCNext]_all => KnowledgeInv'
  BY PartSteps, KnowledgeStep
<1>4. KnowledgeInv => AnswersAreCurrent
  BY KnowledgeCurrent DEF AnswersAreCurrent
<1>5. MCSpec => []AnswersAreCurrent
  BY <1>2, <1>3, <1>4, PTL DEF MCSpec
<1> QED
  BY <1>1, <1>5

\* What KnowledgeInv leaves open of the types: that versions and texts stay
\* within the number of writing requests, in the rows, in the snapshots that a
\* rebuild or an edit still works from and in the chunks made of them.
Young(x, n)    == x # NoDoc => x.ver \in 1 .. n + 1 /\ x.text \in 0 .. n
RowsYoung      == \A d \in Doc : Young(doc[d], ops)
SnapshotsYoung == \A t \in Task : task[t] = "load" => \A d \in Doc : Young(view[t].doc[d], ops)
ChunksYoung    == /\ \A e \in index : e.ver \in 1 .. ops + 1 /\ e.text \in 0 .. ops
                  /\ \A r \in Reader : \A e \in search[r].hits :
                       e.ver \in 1 .. ops + 1 /\ e.text \in 0 .. ops
EditsYoung     ==
  \A c \in Client :
    /\ job[c] \in {"create", "update", "delete"} => saw[c].op \in 1 .. ops
    /\ job[c] = "update" => saw[c].row.ver \in 1 .. saw[c].op
VersionsYoung  == ops \in 0 .. MaxOps /\ RowsYoung /\ SnapshotsYoung /\ ChunksYoung /\ EditsYoung

\* A document has an id given out.
KnowledgeRest ==
  /\ \A d \in Doc : doc[d] # NoDoc => d \in born
  /\ deaths_k \in 0 .. MaxDeaths
  /\ past \subseteq {"unmarked", "overwritten", "abandoned"}

\* A dispatch holds a place in the queue of messages.
Undispatched   == {c \in Client : job[c] # "dispatch"}
MessagesCounted == msgs <= MaxMsgs + Cardinality(Undispatched)

LEMMA KnowledgeBounds ==
  /\ MaxOps \in Nat /\ MaxMsgs \in Nat /\ MaxDeaths \in Nat /\ IsFiniteSet(Client)
  /\ NoDoc \notin Doc /\ NoDoc \notin DocRow /\ NoModel \notin Model
  /\ KI!Cardinality(Client) = Cardinality(Client)
<1>1. KI!IsFiniteSet(Client) <=> IsFiniteSet(Client)
  BY Zenon DEF KI!IsFiniteSet, IsFiniteSet
<1>2. KI!Cardinality(Client) = Cardinality(Client)
  BY Zenon DEF KI!Cardinality, Cardinality, KI!IsFiniteSet, IsFiniteSet
<1> QED
  BY <1>1, <1>2, ServicesAssumption DEF KI!KnowledgeAssumption, DocRow

LEMMA VersionsYoungStart == KI!Init => VersionsYoung /\ KnowledgeRest /\ MessagesCounted
<1> SUFFICES ASSUME KI!Init PROVE VersionsYoung /\ KnowledgeRest /\ MessagesCounted
  OBVIOUS
<1> USE KnowledgeBounds DEF KI!Init
<1>1. RowsYoung
  BY DEF RowsYoung, Young, KI!First
<1>2. SnapshotsYoung /\ ChunksYoung /\ EditsYoung
  BY DEF SnapshotsYoung, ChunksYoung, EditsYoung, KI!Idle
<1>3. KnowledgeRest
  BY DEF KnowledgeRest
<1>4. MessagesCounted
  <2>1. IsFiniteSet(Undispatched)
    BY FS_Subset DEF Undispatched
  <2>2. Cardinality(Undispatched) \in Nat
    BY <2>1, FS_CardinalityType
  <2> QED
    BY <2>2 DEF MessagesCounted
<1> QED
  BY <1>1, <1>2, <1>3, <1>4 DEF VersionsYoung

\* Another writing request: what was within the number before still is.
LEMMA StillYoung ==
  ASSUME NEW n \in Nat, NEW m \in Nat, n <= m
  PROVE  /\ \A x : Young(x, n) => Young(x, m)
         /\ 0 .. n \subseteq 0 .. m /\ 1 .. n \subseteq 1 .. m /\ 1 .. n + 1 \subseteq 1 .. m + 1
BY DEF Young

LEMMA OpenYoung ==
  ASSUME KnowledgeTypes, VersionsYoung, NEW c \in Client, NEW what, NEW d,
         KI!Open(c, what, d) /\ what # "dispatch",
         what = "update" => d \in KI!Docs
  PROVE  VersionsYoung'
<1>1. /\ ops < MaxOps /\ ops' = ops + 1 /\ job' = [job EXCEPT ![c] = what]
      /\ saw' = [saw EXCEPT ![c] =
           [row |-> IF d = NoDoc THEN NoDoc ELSE doc[d], state |-> cfg.state,
            model |-> cfg.model, op |-> ops + 1]]
      /\ UNCHANGED <<doc, index, search, task, view>>
  BY DEF KI!Open, KI!work
<1>2. ops \in Nat /\ ops' \in Nat /\ ops <= ops' /\ ops' \in 0 .. MaxOps
  BY <1>1, KnowledgeBounds DEF VersionsYoung
<1>3. RowsYoung' /\ SnapshotsYoung'
  BY <1>1, <1>2, StillYoung DEF VersionsYoung, RowsYoung, SnapshotsYoung
<1>4. ChunksYoung'
  BY <1>1, <1>2, StillYoung DEF VersionsYoung, ChunksYoung
<1>5. EditsYoung'
  <2>1. /\ job'[c] = what /\ saw'[c].op = ops + 1
        /\ what = "update" => saw'[c].row = doc[d] /\ doc[d] # NoDoc /\ d \in Doc
        /\ \A e \in Client : e # c => job'[e] = job[e] /\ saw'[e] = saw[e]
    BY <1>1, KnowledgeBounds DEF KnowledgeTypes, ClientsTyped, KI!Docs
  <2>2. what = "update" => saw'[c].row.ver \in 1 .. ops + 1
    BY <2>1 DEF VersionsYoung, RowsYoung, Young
  <2>3. \A e \in Client : e # c =>
          /\ job'[e] \in {"create", "update", "delete"} => saw'[e].op \in 1 .. ops'
          /\ job'[e] = "update" => saw'[e].row.ver \in 1 .. saw'[e].op
    BY <1>2, <2>1, StillYoung DEF VersionsYoung, EditsYoung
  <2>4. saw'[c].op \in 1 .. ops'
    BY <1>1, <1>2, <2>1
  <2> QED
    BY <2>1, <2>2, <2>3, <2>4 DEF EditsYoung
<1> QED
  BY <1>2, <1>3, <1>4, <1>5 DEF VersionsYoung

\* Steps that write no document and read none.
LEMMA SameYoung ==
  ASSUME KnowledgeTypes, VersionsYoung, ops' \in {ops, ops + 1}, ops' \in 0 .. MaxOps,
         UNCHANGED <<doc, index, search, task, view>>,
         \A c \in Client : \/ job'[c] \notin {"create", "update", "delete"}
                           \/ job'[c] = job[c] /\ saw'[c] = saw[c]
  PROVE  VersionsYoung'
<1>1. ops \in Nat /\ ops' \in Nat /\ ops <= ops'
  BY KnowledgeBounds DEF VersionsYoung
<1>2. RowsYoung' /\ SnapshotsYoung'
  BY <1>1, StillYoung DEF VersionsYoung, RowsYoung, SnapshotsYoung
<1>3. ChunksYoung'
  BY <1>1, StillYoung DEF VersionsYoung, ChunksYoung
<1>4. EditsYoung'
  BY <1>1, StillYoung DEF VersionsYoung, EditsYoung
<1> QED
  BY <1>2, <1>3, <1>4 DEF VersionsYoung

LEMMA DoneLeaves ==
  ASSUME KnowledgeTypes, NEW c \in Client, KI!Done(c)
  PROVE  \A e \in Client : \/ job'[e] \notin {"create", "update", "delete"}
                           \/ job'[e] = job[e] /\ saw'[e] = saw[e]
<1>1. job'[c] = "idle" /\ \A e \in Client : e # c => job'[e] = job[e] /\ saw'[e] = saw[e]
  BY DEF KI!Done, KnowledgeTypes, ClientsTyped
<1> QED
  BY <1>1

LEMMA RequestYoung ==
  ASSUME KnowledgeTypes, VersionsYoung, NEW c \in Client, KI!Request(c) \/ KI!Dispatch(c)
  PROVE  VersionsYoung'
<1>1. CASE KI!Writing(c)
  BY <1>1, OpenYoung DEF KI!Writing
<1>2. CASE KI!CommitDoc(c)
  <2> DEFINE d == goal[c]
  <2>1. /\ job[c] \in {"create", "update", "delete"} /\ KI!Done(c) /\ d \in Doc
        /\ UNCHANGED <<index, search, task, view, ops>>
    BY <1>2 DEF KI!CommitDoc, KI!work, KnowledgeTypes, ClientsTyped
  <2>2. ASSUME UNCHANGED doc PROVE VersionsYoung'
    BY <2>1, <2>2, DoneLeaves, SameYoung DEF VersionsYoung
  <2>3. ASSUME doc' = [doc EXCEPT ![d] = KI!Written(c, d)] PROVE VersionsYoung'
    <3>1. /\ saw[c].op \in 1 .. ops /\ ops \in Nat
          /\ job[c] = "update" => saw[c].row.ver \in 1 .. saw[c].op
      BY <2>1, KnowledgeBounds DEF VersionsYoung, EditsYoung
    <3>2. Young(KI!Written(c, d), ops)
      <4>1. CASE job[c] = "create"
        <5>1. KI!Written(c, d) = [ver |-> 1, text |-> saw[c].op, idx |-> NoModel]
          BY <4>1 DEF KI!Written, KI!First
        <5> QED
          BY <3>1, <5>1 DEF Young
      <4>2. CASE job[c] = "update"
        <5>1. KI!Written(c, d).ver = saw[c].row.ver + 1 /\ KI!Written(c, d).text = saw[c].op
          BY <4>2 DEF KI!Written, KI!Edited
        <5> QED
          BY <3>1, <4>2, <5>1 DEF Young
      <4>3. CASE job[c] = "delete"
        BY <4>3 DEF KI!Written, Young
      <4> QED
        BY <2>1, <4>1, <4>2, <4>3
    <3>3. RowsYoung'
      BY <2>1, <2>3, <3>2 DEF VersionsYoung, RowsYoung, KnowledgeTypes, RowsTyped, DocRows
    <3>4. SnapshotsYoung' /\ ChunksYoung'
      BY <2>1 DEF VersionsYoung, SnapshotsYoung, ChunksYoung
    <3>5. EditsYoung'
      BY <2>1, DoneLeaves DEF VersionsYoung, EditsYoung
    <3> QED
      BY <2>1, <3>3, <3>4, <3>5 DEF VersionsYoung
  <2> QED
    BY <1>2, <2>2, <2>3 DEF KI!CommitDoc
<1>3. CASE KI!CommitConfig(c)
  BY <1>3, DoneLeaves, SameYoung DEF KI!CommitConfig, KI!work, VersionsYoung
<1>4. CASE KI!RequestReindex(c)
  <2>1. /\ ops < MaxOps /\ ops' = ops + 1 /\ job' = [job EXCEPT ![c] = "dispatch"]
        /\ UNCHANGED <<doc, index, search, task, view, saw>>
    BY <1>4 DEF KI!RequestReindex, KI!work
  <2>2. ops' \in 0 .. MaxOps
    BY <2>1, KnowledgeBounds DEF VersionsYoung
  <2>3. \A e \in Client : \/ job'[e] \notin {"create", "update", "delete"}
                          \/ job'[e] = job[e] /\ saw'[e] = saw[e]
    BY <2>1 DEF KnowledgeTypes, ClientsTyped
  <2> QED
    BY <2>1, <2>2, <2>3, SameYoung
<1>5. CASE KI!Dispatch(c)
  BY <1>5, DoneLeaves, SameYoung DEF KI!Dispatch, VersionsYoung
<1> QED
  BY <1>1, <1>2, <1>3, <1>4, <1>5 DEF KI!Request

LEMMA SearchYoung ==
  ASSUME KnowledgeTypes, VersionsYoung, NEW r \in Reader, KI!Search(r)
  PROVE  VersionsYoung'
<1>1. UNCHANGED <<doc, index, ops, job, saw, task, view>>
  BY DEF KI!Search, KI!BeginSearch, KI!Query, KI!Answer, KI!client, KI!work
<1>2. PICK l : search' = [search EXCEPT ![r] = l] /\ l.hits \subseteq index
  <2>1. CASE KI!BeginSearch(r)
    <3> DEFINE l == [at |-> "query", doc |-> doc, model |-> cfg.model, hits |-> {}]
    <3>1. l.hits \subseteq index
      OBVIOUS
    <3>2. search' = [search EXCEPT ![r] = l]
      BY <2>1 DEF KI!BeginSearch
    <3> QED
      BY <3>1, <3>2
  <2>2. CASE KI!Query(r)
    <3> DEFINE h == {e \in index : KI!Cites(search[r].doc[e.doc], e, search[r].model)}
               l == [search[r] EXCEPT !.at = "cite", !.hits = h]
    <3>1. h \subseteq index
      OBVIOUS
    <3>2. search' = [search EXCEPT ![r].at = "cite", ![r].hits = h] /\ search[r] \in Lookup
      BY <2>2 DEF KI!Query, KnowledgeTypes, SearchesTyped
    <3> HIDE DEF h
    <3>3. search' = [search EXCEPT ![r] = l] /\ l.hits = h
      BY <3>2 DEF Lookup
    <3> QED
      BY <3>1, <3>3
  <2>3. CASE KI!Answer(r)
    <3>1. search' = [search EXCEPT ![r] = KI!Idle]
      BY <2>3 DEF KI!Answer
    <3>2. KI!Idle.hits \subseteq index
      BY DEF KI!Idle
    <3> QED
      BY <3>1, <3>2
  <2> QED
    BY <2>1, <2>2, <2>3 DEF KI!Search
<1>3. \A s \in Reader : \A e \in search'[s].hits : e.ver \in 1 .. ops + 1 /\ e.text \in 0 .. ops
  BY <1>2 DEF VersionsYoung, ChunksYoung, KnowledgeTypes, SearchesTyped
<1>4. ChunksYoung'
  BY <1>1, <1>3 DEF VersionsYoung, ChunksYoung
<1> QED
  BY <1>1, <1>4 DEF VersionsYoung, RowsYoung, SnapshotsYoung, EditsYoung

LEMMA RebuildYoung ==
  ASSUME KnowledgeTypes, VersionsYoung, NEW t \in Task, KI!Rebuild(t) \/ KI!Crash(t)
  PROVE  VersionsYoung'
<1>0. UNCHANGED <<job, saw, search, ops>> /\ EditsYoung'
  <2>1. UNCHANGED <<job, saw, search, ops>>
    BY DEF KI!Rebuild, KI!Begin, KI!Mark, KI!Reset, KI!Load, KI!Finish, KI!Fail, KI!Crash,
           KI!client
  <2> QED
    BY <2>1 DEF VersionsYoung, EditsYoung
<1>1. ASSUME NEW l, l # "load", task' = [task EXCEPT ![t] = l],
             \A u \in Task \ {t} : view'[u] = view[u]
      PROVE  SnapshotsYoung'
  <2>1. \A u \in Task : u # t => task'[u] = task[u]
    BY <1>1 DEF KnowledgeTypes, TasksTyped
  <2>2. task'[t] = l
    BY <1>1 DEF KnowledgeTypes, TasksTyped
  <2>3. ASSUME NEW u \in Task, task'[u] = "load", NEW d \in Doc
        PROVE  Young(view'[u].doc[d], ops')
    <3>1. u # t
      BY <1>1, <2>2, <2>3
    <3>2. task[u] = "load" /\ view'[u] = view[u] /\ ops' = ops
      BY <1>0, <1>1, <2>1, <2>3, <3>1
    <3> QED
      BY <3>2 DEF VersionsYoung, SnapshotsYoung
  <2> QED
    BY <2>3 DEF SnapshotsYoung
<1>2. UNCHANGED doc => RowsYoung'
  BY <1>0 DEF VersionsYoung, RowsYoung
<1>3. index' \subseteq index => ChunksYoung'
  BY <1>0 DEF VersionsYoung, ChunksYoung
<1>4. KI!End(t) => SnapshotsYoung'
  <2>1. KI!End(t) => /\ task' = [task EXCEPT ![t] = "idle"]
                     /\ \A u \in Task \ {t} : view'[u] = view[u]
    BY DEF KI!End, KI!At, KnowledgeTypes, TasksTyped
  <2> QED
    BY <1>1, <2>1
<1>5. CASE KI!Begin(t)
  <2>1. task' = [task EXCEPT ![t] = "mark"] /\ \A u \in Task \ {t} : view'[u] = view[u]
    BY <1>5 DEF KI!Begin, KI!At, KnowledgeTypes, TasksTyped
  <2> QED
    BY <1>0, <1>1, <1>2, <1>3, <1>5, <2>1 DEF KI!Begin, VersionsYoung
<1>6. CASE KI!Mark(t)
  <2>1. task' = [task EXCEPT ![t] = "reset"] /\ view' = view
    BY <1>6 DEF KI!Mark, KI!At
  <2> QED
    BY <1>0, <1>1, <1>2, <1>3, <1>6, <2>1 DEF KI!Mark, VersionsYoung
<1>7. CASE KI!Reset(t)
  <2>1. /\ task' = [task EXCEPT ![t] = "load"] /\ index' = {} /\ UNCHANGED doc
        /\ view' = [view EXCEPT ![t].doc = doc, ![t].by = cfg.model]
        /\ view[t] \in Building
    BY <1>7 DEF KI!Reset, KI!At, KnowledgeTypes, TasksTyped
  <2>2. view'[t].doc = doc /\ \A u \in Task : u # t => view'[u] = view[u] /\ task'[u] = task[u]
    BY <2>1 DEF KnowledgeTypes, TasksTyped, Building
  <2>3. ASSUME NEW u \in Task, task'[u] = "load", NEW d \in Doc
        PROVE  Young(view'[u].doc[d], ops')
    <3>1. CASE u = t
      BY <1>0, <2>2, <3>1 DEF VersionsYoung, RowsYoung
    <3>2. CASE u # t
      BY <1>0, <2>2, <2>3, <3>2 DEF VersionsYoung, SnapshotsYoung
    <3> QED
      BY <3>1, <3>2
  <2> QED
    BY <1>0, <1>2, <1>3, <2>1, <2>3 DEF VersionsYoung, SnapshotsYoung
<1>8. CASE KI!Load(t)
  <2>1. PICK d \in todo_k[t] : index' = index \cup {KI!Chunks(t, d)}
    BY <1>8 DEF KI!Load
  <2>2. task[t] = "load" /\ UNCHANGED <<doc, task, view>>
    BY <1>8 DEF KI!Load
  <2>3. d \in Doc /\ view[t].doc[d] # NoDoc
    BY <2>2 DEF KnowledgeTypes, TasksTyped
  <2>4. view[t].doc[d].ver \in 1 .. ops + 1 /\ view[t].doc[d].text \in 0 .. ops
    BY <2>2, <2>3 DEF VersionsYoung, SnapshotsYoung, Young
  <2>5. KI!Chunks(t, d).ver \in 1 .. ops + 1 /\ KI!Chunks(t, d).text \in 0 .. ops
    BY <2>4 DEF KI!Chunks
  <2>6. ChunksYoung'
    BY <1>0, <2>1, <2>5 DEF VersionsYoung, ChunksYoung
  <2> QED
    BY <1>0, <1>2, <2>2, <2>6 DEF VersionsYoung, SnapshotsYoung
<1>9. CASE KI!Finish(t)
  <2>1. KI!End(t) /\ index' = index
    BY <1>9 DEF KI!Finish
  <2>2. ASSUME NEW d \in Doc PROVE Young(doc'[d], ops')
    <3>1. /\ doc'[d] = NoDoc <=> doc[d] = NoDoc
          /\ doc[d] # NoDoc => doc'[d].ver = doc[d].ver /\ doc'[d].text = doc[d].text
      BY <1>9, StampedRow
    <3>2. Young(doc[d], ops)
      BY DEF VersionsYoung, RowsYoung
    <3> QED
      BY <1>0, <3>1, <3>2 DEF Young
  <2> QED
    BY <1>0, <1>3, <1>4, <2>1, <2>2 DEF VersionsYoung, RowsYoung
<1>10. CASE KI!Fail(t) \/ KI!Crash(t)
  BY <1>0, <1>2, <1>3, <1>4, <1>10 DEF KI!Fail, KI!Crash, VersionsYoung
<1> QED
  BY <1>5, <1>6, <1>7, <1>8, <1>9, <1>10 DEF KI!Rebuild

LEMMA VersionsYoungStay ==
  KnowledgeTypes /\ VersionsYoung /\ [KI!Next]_(KI!vars) => VersionsYoung'
<1> SUFFICES ASSUME KnowledgeTypes, VersionsYoung, [KI!Next]_(KI!vars) PROVE VersionsYoung'
  OBVIOUS
<1>1. UNCHANGED KI!vars => VersionsYoung'
  BY SameYoung DEF KI!vars, VersionsYoung
<1> QED
  BY <1>1, RequestYoung, SearchYoung, RebuildYoung DEF KI!Next

LEMMA KnowledgeRestStays ==
  KnowledgeTypes /\ KnowledgeRest /\ [KI!Next]_(KI!vars) => KnowledgeRest'
<1> SUFFICES ASSUME KnowledgeTypes, KnowledgeRest, [KI!Next]_(KI!vars) PROVE KnowledgeRest'
  OBVIOUS
<1> USE KnowledgeBounds DEF KnowledgeRest
<1>1. ASSUME UNCHANGED <<doc, born, deaths_k>>,
             past' \subseteq past \cup {"unmarked", "overwritten", "abandoned"}
      PROVE  KnowledgeRest'
  BY <1>1
<1>2. CASE \E c \in Client : KI!Writing(c)
  BY <1>1, <1>2 DEF KI!Writing, KI!Open
<1>3. ASSUME NEW c \in Client, KI!CommitDoc(c) PROVE KnowledgeRest'
  <2>1. /\ born' = born \cup {goal[c]}
        /\ doc' \in {doc, [doc EXCEPT ![goal[c]] = KI!Written(c, goal[c])]}
        /\ past' \subseteq past \cup {"unmarked", "overwritten", "abandoned"}
        /\ deaths_k' = deaths_k
    BY <1>3 DEF KI!CommitDoc
  <2>2. \A d \in Doc : doc'[d] # NoDoc => d \in born'
    BY <2>1 DEF KnowledgeTypes, RowsTyped, DocRows
  <2> QED
    BY <2>1, <2>2
<1>4. ASSUME NEW c \in Client, KI!CommitConfig(c) PROVE KnowledgeRest'
  BY <1>1, <1>4 DEF KI!CommitConfig, KI!Note
<1>5. ASSUME NEW c \in Client, KI!RequestReindex(c) PROVE KnowledgeRest'
  BY <1>1, <1>5 DEF KI!RequestReindex
<1>6. ASSUME NEW c \in Client, KI!Dispatch(c) PROVE KnowledgeRest'
  BY <1>1, <1>6 DEF KI!Dispatch, KI!Note
<1>7. ASSUME NEW r \in Reader, KI!Search(r) PROVE KnowledgeRest'
  BY <1>1, <1>7 DEF KI!Search, KI!BeginSearch, KI!Query, KI!Answer
<1>8. ASSUME NEW t \in Task, KI!Begin(t) \/ KI!Reset(t) \/ KI!Load(t) \/ KI!Fail(t)
      PROVE  KnowledgeRest'
  BY <1>1, <1>8 DEF KI!Begin, KI!Reset, KI!Load, KI!Fail
<1>9. ASSUME NEW t \in Task, KI!Mark(t) PROVE KnowledgeRest'
  BY <1>1, <1>9 DEF KI!Mark
<1>10. ASSUME NEW t \in Task, KI!Finish(t) PROVE KnowledgeRest'
  <2>1. \A d \in Doc : doc'[d] = NoDoc <=> doc[d] = NoDoc
    BY <1>10, StampedRow
  <2> QED
    BY <1>10, <2>1 DEF KI!Finish
<1>11. ASSUME NEW t \in Task, KI!Crash(t) PROVE KnowledgeRest'
  <2>1. /\ deaths_k < MaxDeaths /\ deaths_k' = deaths_k + 1 /\ UNCHANGED <<cfg, doc, born>>
        /\ past' \subseteq past \cup {"abandoned"}
    BY <1>11 DEF KI!Crash, KI!Note
  <2>2. deaths_k' \in 0 .. MaxDeaths
    BY <2>1
  <2> QED
    BY <2>1, <2>2
<1>12. CASE UNCHANGED KI!vars
  BY <1>12 DEF KI!vars
<1> QED
  BY <1>2, <1>3, <1>4, <1>5, <1>6, <1>7, <1>8, <1>9, <1>10, <1>11, <1>12
  DEF KI!Next, KI!Request, KI!Rebuild

LEMMA UndispatchedCounted ==
  ASSUME NEW S \in SUBSET Client
  PROVE  IsFiniteSet(S) /\ Cardinality(S) \in Nat /\ Cardinality(S) <= Cardinality(Client)
         /\ Cardinality(Client) \in Nat
<1>1. IsFiniteSet(S) /\ Cardinality(S) <= Cardinality(Client)
  BY KnowledgeBounds, FS_Subset
<1> QED
  BY <1>1, KnowledgeBounds, FS_CardinalityType

LEMMA MessagesCountedStay ==
  KnowledgeTypes /\ MessagesCounted /\ [KI!Next]_(KI!vars) => MessagesCounted'
<1> SUFFICES ASSUME KnowledgeTypes, MessagesCounted, [KI!Next]_(KI!vars)
             PROVE  MessagesCounted'
  OBVIOUS
<1>0. /\ msgs \in Nat /\ MaxMsgs \in Nat
      /\ Undispatched \in SUBSET Client /\ Undispatched' \in SUBSET Client
  BY KnowledgeBounds DEF KnowledgeTypes, RowsTyped, Undispatched
<1>1. /\ IsFiniteSet(Undispatched)
      /\ Cardinality(Undispatched) \in Nat /\ Cardinality(Undispatched') \in Nat
  BY <1>0, UndispatchedCounted
<1>2. ASSUME Undispatched' = Undispatched, msgs' \in Nat, msgs' <= msgs \/ msgs' <= MaxMsgs
      PROVE  MessagesCounted'
  BY <1>0, <1>1, <1>2 DEF MessagesCounted
<1>3. ASSUME NEW c \in Client, NEW what, job' = [job EXCEPT ![c] = what],
             job[c] # "dispatch", what # "dispatch"
      PROVE  Undispatched' = Undispatched
  BY <1>3 DEF KnowledgeTypes, ClientsTyped, Undispatched
<1>4. UNCHANGED job => Undispatched' = Undispatched
  BY DEF Undispatched
<1>5. ASSUME NEW c \in Client, KI!Writing(c) PROVE MessagesCounted'
  <2>1. PICK what \in {"create", "update", "delete", "configure"} :
          job[c] = "idle" /\ job' = [job EXCEPT ![c] = what] /\ msgs' = msgs
    BY <1>5 DEF KI!Writing, KI!Open, KI!work
  <2>2. Undispatched' = Undispatched
    BY <1>3, <2>1
  <2> QED
    BY <1>0, <1>2, <2>1, <2>2
<1>6. ASSUME NEW c \in Client, KI!CommitDoc(c) \/ KI!CommitConfig(c) PROVE MessagesCounted'
  <2>1. job[c] # "dispatch" /\ job' = [job EXCEPT ![c] = "idle"] /\ msgs' = msgs
    BY <1>6 DEF KI!CommitDoc, KI!CommitConfig, KI!Done, KI!work
  <2>2. Undispatched' = Undispatched
    BY <1>3, <2>1
  <2> QED
    BY <1>0, <1>2, <2>1, <2>2
<1>7. ASSUME NEW c \in Client, KI!RequestReindex(c) PROVE MessagesCounted'
  <2>1. msgs < MaxMsgs /\ msgs' = msgs
    BY <1>7 DEF KI!RequestReindex, KI!work
  <2> QED
    BY <1>0, <1>1, <2>1 DEF MessagesCounted
<1>8. ASSUME NEW c \in Client, KI!Dispatch(c) PROVE MessagesCounted'
  <2>1. job[c] = "dispatch" /\ job' = [job EXCEPT ![c] = "idle"] /\ msgs' \in {msgs, msgs + 1}
    BY <1>8 DEF KI!Dispatch, KI!Done
  <2>2. c \notin Undispatched /\ Undispatched' = Undispatched \cup {c}
    BY <2>1 DEF KnowledgeTypes, ClientsTyped, Undispatched
  <2>3. Cardinality(Undispatched') = Cardinality(Undispatched) + 1
    BY <1>1, <2>2, FS_AddElement
  <2> QED
    BY <1>0, <1>1, <2>1, <2>3 DEF MessagesCounted
<1>9. ASSUME NEW r \in Reader, KI!Search(r) PROVE MessagesCounted'
  BY <1>0, <1>2, <1>4, <1>9
  DEF KI!Search, KI!BeginSearch, KI!Query, KI!Answer, KI!client, KI!work
<1>10. ASSUME NEW t \in Task, KI!Rebuild(t) \/ KI!Crash(t) PROVE MessagesCounted'
  <2>1. job' = job
    BY <1>10 DEF KI!Rebuild, KI!Begin, KI!Mark, KI!Reset, KI!Load, KI!Finish, KI!Fail,
                 KI!Crash,
                 KI!client
  <2>3. \/ msgs' = msgs
        \/ msgs > 0 /\ msgs' = msgs - 1
        \/ msgs < MaxMsgs /\ msgs' = msgs + 1
    <3>1. CASE KI!Begin(t)
      BY <3>1 DEF KI!Begin
    <3>2. CASE KI!Crash(t)
      BY <3>2, Zenon DEF KI!Crash
    <3>3. CASE KI!Mark(t) \/ KI!Reset(t) \/ KI!Load(t) \/ KI!Finish(t) \/ KI!Fail(t)
      <4>1. msgs' = msgs
        BY <3>3, Zenon DEF KI!Mark, KI!Reset, KI!Load, KI!Finish, KI!Fail
      <4> QED
        BY <4>1
    <3> QED
      BY <1>10, <3>1, <3>2, <3>3 DEF KI!Rebuild
  <2>2. msgs' \in Nat /\ (msgs' <= msgs \/ msgs' <= MaxMsgs)
    BY <1>0, <2>3
  <2> QED
    BY <1>2, <1>4, <2>1, <2>2
<1>11. UNCHANGED KI!vars => MessagesCounted'
  BY <1>0, <1>2, <1>4 DEF KI!vars
<1> QED
  BY <1>5, <1>6, <1>7, <1>8, <1>9, <1>10, <1>11 DEF KI!Next, KI!Request

LEMMA KnowledgeTyped ==
  KnowledgeInv /\ VersionsYoung /\ KnowledgeRest /\ MessagesCounted => KI!TypeOK
<1> SUFFICES ASSUME KnowledgeInv, VersionsYoung, KnowledgeRest, MessagesCounted
             PROVE  KI!TypeOK
  OBVIOUS
<1> USE DEF KnowledgeInv, KnowledgeTypes
<1>1. ops \in Nat /\ ops <= MaxOps /\ MaxOps \in Nat
  BY KnowledgeBounds DEF VersionsYoung
<1>2. 1 .. ops + 1 \subseteq 1 .. MaxOps + 1 /\ 0 .. ops \subseteq 0 .. MaxOps
  BY <1>1, StillYoung
<1>3. doc \in [Doc -> KI!Row \cup {NoDoc}]
  <2>1. ASSUME NEW d \in Doc PROVE doc[d] \in KI!Row \cup {NoDoc}
    <3>1. doc[d] \in DocRow \cup {NoDoc} /\ Young(doc[d], ops)
      BY DEF RowsTyped, DocRows, VersionsYoung, RowsYoung
    <3>2. CASE doc[d] # NoDoc
      <4>1. /\ doc[d] \in DocRow
            /\ doc[d].ver \in 1 .. MaxOps + 1 /\ doc[d].text \in 0 .. MaxOps
        BY <1>2, <3>1, <3>2 DEF Young
      <4> QED
        BY <4>1 DEF DocRow, KI!Row
    <3> QED
      BY <3>2
  <2> QED
    BY <2>1 DEF RowsTyped, DocRows
<1>4. ASSUME NEW e \in Chunk, e.ver \in 1 .. ops + 1, e.text \in 0 .. ops PROVE e \in KI!Entry
  <2>1. e.ver \in 1 .. MaxOps + 1 /\ e.text \in 0 .. MaxOps
    BY <1>2, <1>4
  <2> QED
    BY <2>1 DEF Chunk, KI!Entry
<1>5. index \in SUBSET KI!Entry
  BY <1>4 DEF RowsTyped, VersionsYoung, ChunksYoung
<1>6. \A r \in Reader : /\ search[r].at \in {"idle", "query", "cite"}
                        /\ search[r].hits \in SUBSET KI!Entry
  <2>1. ASSUME NEW r \in Reader
        PROVE  search[r].at \in {"idle", "query", "cite"} /\ search[r].hits \in SUBSET Chunk
    BY DEF SearchesTyped, Lookup
  <2> QED
    BY <1>4, <2>1 DEF VersionsYoung, ChunksYoung
<1>7. KI!Docs \subseteq born
  BY DEF KI!Docs, KnowledgeRest
<1>8. msgs \in 0 .. MaxMsgs + KI!Cardinality(Client)
  <2>1. Undispatched \in SUBSET Client
    BY DEF Undispatched
  <2>2. msgs \in Nat /\ MaxMsgs \in Nat
    BY KnowledgeBounds DEF RowsTyped
  <2> QED
    BY <2>1, <2>2, UndispatchedCounted, KnowledgeBounds DEF MessagesCounted
<1>9. ops \in 0 .. MaxOps
  BY <1>1
<1> QED
  BY <1>3, <1>5, <1>6, <1>7, <1>8, <1>9, Zenon
  DEF RowsTyped, ClientsTyped, TasksTyped, KnowledgeRest, KI!TypeOK

-----------------------------------------------------------------------------
(* The authority of commands: AuthorityIsKept.  Neither half is inductive.   *)
(* That only one command is late rests on what the second probe left behind: *)
(* a command about to be sent while another was already late had its rows    *)
(* compared after the last change (LateOnce).  That a stopped Run begins     *)
(* nothing rests on what can make it active again: only a decision can, which*)
(* needs a Run that waits (Deciding), and a Run that waits has no drive      *)
(* (Parked); the drive that is left in a stopped Run stands at an action     *)
(* that did not succeed, from where it only ends (Ended).                    *)

AtAction == {"check", "commit", "probe", "connect", "send", "command"}
Executing == AtAction \cup {"verify", "start", "expand"}

\* What the argument needs of the types: of the drive and of the steps.
Status == {"absent", "approved", "running"} \cup Decided
Places == {"idle", "plan", "verify", "start", "expand", "check", "commit", "probe",
           "connect", "send", "command", "dead"}
Drives == [pc : Places, plan : Plan \cup {None}, k : Position,
           saw : Rows \cup {None}, solo : BOOLEAN]
Shape  == /\ drive \in Drives /\ row \in Rows
          /\ step \in [Plan -> [Position -> Status]]

\* Whoever works on a plan has one, and names an action of it.
HasPlan == drive.pc \in Executing => drive.plan \in Plan

LateOnce == /\ late \in {0, 1}
            /\ (drive.pc = "send" /\ late = 1) => Held(drive.saw)

Deciding == txn # None => run = "waiting"
Parked   == run = "waiting" => drive.pc = "idle"
Ended    == revoked =>
              /\ run \in {"failed", "attention"}
              /\ drive.pc \in {"idle", "expand", "dead"}
              /\ drive.pc = "expand" => Here \in {"failed", "unknown"}

IInv == Shape /\ HasPlan /\ LateOnce /\ Deciding /\ Parked /\ Ended

\* The rows were as the drive compares them, so what runs on them is allowed.
LEMMA HeldIsNotAstray == Held(drive.saw) => ~Astray
BY DEF Held, Astray, Entitled, Active, Authorised, ModeAllows

\* A drive of nobody, and the positions of a plan.
LEMMA Moves ==
  ASSUME PlanAuthorityAssumption
  PROVE  /\ 1 \in Position
         /\ \A k \in Position : k < PlanLen => k + 1 \in Position
         /\ Nobody \in Drives /\ Nobody.pc = "idle"
<1>1. 1 \in Position /\ \A k \in Position : k < PlanLen => k + 1 \in Position
  BY DEF Position, PlanAuthorityAssumption
<1> QED
  BY <1>1 DEF Nobody, Drives, Places

LEMMA InitHolds == PlanAuthorityAssumption /\ Init => IInv
<1> SUFFICES ASSUME PlanAuthorityAssumption, Init PROVE IInv
  OBVIOUS
<1>1. Nobody \in Drives
  BY Moves
<1>2. /\ late = 0 /\ revoked = FALSE /\ run = "active" /\ txn = None
      /\ drive = Nobody /\ drive.pc = "idle" /\ row \in Rows
  BY DEF Init, Nobody
<1>3. step \in [Plan -> [Position -> Status]]
  BY DEF Init, Status
<1> QED
  BY <1>1, <1>2, <1>3
  DEF IInv, Shape, HasPlan, LateOnce, Deciding, Parked, Ended, Executing, AtAction

\* A step of the drive's plan gets a status.
LEMMA StepSet ==
  ASSUME Shape, drive.plan \in Plan, NEW s \in Status, SetStep(s)
  PROVE  /\ step' \in [Plan -> [Position -> Status]]
         /\ step'[drive.plan][drive.k] = s
BY DEF Shape, Drives, SetStep

\* An ended action goes back to its plan, or ends the drive.
LEMMA AfterMoves ==
  ASSUME PlanAuthorityAssumption, drive \in Drives, After
  PROVE  /\ drive' \in Drives
         /\ drive' = Nobody \/ Go("expand")
BY Moves DEF After, Go, Drives, Places

\* Every action keeps the shape, and a drive that has a plan keeps it.
LEMMA ShapeStep ==
  ASSUME PlanAuthorityAssumption, Shape, HasPlan, [Next]_vars
  PROVE  Shape' /\ HasPlan'
<1> DEFINE G == Shape' /\ HasPlan'
<1> USE Moves
<1>1. ASSUME NEW p \in Plan, NEW kinds \in [Position -> Kinds], Propose(p, kinds)
      PROVE  G
  <2>1. \/ drive' = Nobody
        \/ drive' = [drive EXCEPT !.pc = "verify", !.plan = p, !.k = 1]
    BY <1>1 DEF Propose
  <2>2. CASE drive' = Nobody
    BY <1>1, <2>2 DEF Propose, Shape, HasPlan, Executing, AtAction
  <2>3. CASE drive' = [drive EXCEPT !.pc = "verify", !.plan = p, !.k = 1]
    <3>1. drive' \in Drives /\ drive'.plan = p
      BY <2>3 DEF Shape, Drives, Places
    <3> QED
      BY <1>1, <3>1 DEF Propose, Shape, HasPlan
  <2> QED
    BY <2>1, <2>2, <2>3
<1>2. ASSUME NEW p \in Plan, DecideRead(p) PROVE G
  BY <1>2 DEF DecideRead, Shape, HasPlan
<1>3. \A c \in Places :
        /\ Go(c) => drive' \in Drives /\ drive'.pc = c /\ drive'.plan = drive.plan
                    /\ drive'.k = drive.k
  BY DEF Go, Shape, Drives
<1>4. ASSUME NEW c \in Places, Go(c), UNCHANGED row,
             c \in Executing => drive.pc \in Executing,
             step' \in [Plan -> [Position -> Status]]
      PROVE  G
  BY <1>3, <1>4 DEF Shape, HasPlan
<1>5. ASSUME drive' = Nobody, UNCHANGED row, step' \in [Plan -> [Position -> Status]]
      PROVE  G
  BY <1>5 DEF Shape, HasPlan, Executing, AtAction
<1>6. Refused => G
  BY <1>4 DEF Refused, Executing, AtAction, Places, Shape
<1>7. Conclude => G
  BY <1>5 DEF Conclude, Shape
<1>8. ASSUME Claim PROVE G
  <2>1. CASE Open = {}
    <3>1. drive' = [Nobody EXCEPT !.pc = "plan"]
      BY <1>8, <2>1 DEF Claim
    <3>2. drive' \in Drives /\ drive'.pc = "plan"
      BY <3>1 DEF Nobody, Drives, Places
    <3> QED
      BY <1>8, <3>2 DEF Claim, Shape, HasPlan, Executing, AtAction
  <2>2. CASE Open # {}
    <3>1. PICK p \in Plan : drive' = [Nobody EXCEPT !.pc = "verify", !.plan = p]
      BY <1>8, <2>2 DEF Claim, Open
    <3>2. drive' \in Drives /\ drive'.plan = p
      BY <3>1 DEF Nobody, Drives, Places
    <3> QED
      BY <1>8, <3>2 DEF Claim, Shape, HasPlan
  <2> QED
    BY <2>1, <2>2
<1>9. Verify => G
  BY <1>4 DEF Verify, At, Executing, AtAction, Places, Shape
<1>10. ASSUME Start PROVE G
  <2>1. drive' = [drive EXCEPT !.pc = "expand", !.k = 1] /\ drive.pc = "start"
    BY <1>10 DEF Start, At
  <2>2. drive'.plan = drive.plan /\ drive' \in Drives
    BY <2>1 DEF Shape, Drives, Places
  <2> QED
    BY <1>10, <2>1, <2>2 DEF Start, Shape, HasPlan, Executing
<1>11. ASSUME Expand PROVE G
  <2>1. drive.pc = "expand" /\ drive.plan \in Plan
    BY <1>11 DEF Expand, At, HasPlan, Executing
  <2>2. step' \in [Plan -> [Position -> Status]]
    <3>1. SetStep("approved") \/ UNCHANGED step
      BY <1>11 DEF Expand
    <3> QED
      BY <2>1, <3>1, StepSet DEF Shape, Status
  <2>3. \/ drive' = Nobody \/ Go("check") \/ Go("plan")
        \/ drive.k < PlanLen /\ drive' = [drive EXCEPT !.k = @ + 1]
    BY <1>11 DEF Expand
  <2>4. CASE drive.k < PlanLen /\ drive' = [drive EXCEPT !.k = @ + 1]
    <3>1. drive' \in Drives /\ drive'.plan = drive.plan
      BY <2>4 DEF Shape, Drives
    <3> QED
      BY <1>11, <2>1, <2>2, <3>1 DEF Expand, Shape, HasPlan
  <2> QED
    BY <1>4, <1>5, <1>11, <2>1, <2>2, <2>3, <2>4 DEF Expand, Executing, AtAction, Places
<1>12. ASSUME Check PROVE G
  <2>1. CASE Go("dead")
    BY <1>4, <1>12, <2>1 DEF Check, Executing, AtAction, Places, Shape
  <2>2. CASE drive' = [drive EXCEPT !.pc = "commit", !.saw = row]
    <3>1. drive' \in Drives /\ drive'.plan = drive.plan
      BY <2>2 DEF Shape, Drives, Places
    <3>2. drive.pc = "check"
      BY <1>12 DEF Check, At
    <3> QED
      BY <1>12, <3>1, <3>2 DEF Check, Shape, HasPlan, Executing, AtAction
  <2> QED
    BY <1>12, <2>1, <2>2 DEF Check
<1>13. ASSUME Commit PROVE G
  <2>1. drive.pc = "commit" /\ drive.plan \in Plan
    BY <1>13 DEF Commit, At, HasPlan, Executing, AtAction
  <2>2. step' \in [Plan -> [Position -> Status]]
    BY <1>13, <2>1, StepSet DEF Commit, Status
  <2> QED
    BY <1>4, <1>13, <2>1, <2>2 DEF Commit, Executing, AtAction, Places
<1>14. ASSUME drive.pc \in AtAction, NEW b \in BOOLEAN, Stop(b) PROVE G
  <2>1. drive.plan \in Plan
    BY <1>14 DEF HasPlan, Executing
  <2>2. step' \in [Plan -> [Position -> Status]]
    BY <1>14, <2>1, StepSet DEF Stop, Status, Decided
  <2>3. drive' = Nobody \/ Go("expand")
    BY <1>14 DEF Stop, After
  <2> QED
    BY <1>4, <1>5, <1>14, <2>2, <2>3 DEF Stop, Executing, Places
<1>15. ASSUME ProbeTwice PROVE G
  <2>1. drive.pc \in AtAction
    BY <1>15 DEF ProbeTwice, At, AtAction
  <2>2. CASE Stop(FALSE)
    BY <1>14, <2>1, <2>2
  <2>3. CASE /\ Go("connect") \/ Go("send")
             /\ UNCHANGED <<fixed, row, run, plan, step, txn, history>>
    BY <1>4, <2>1, <2>3 DEF Executing, Places, Shape
  <2> QED
    BY <1>15, <2>2, <2>3 DEF ProbeTwice
<1>16. Send => G
  BY <1>4 DEF Send, At, Executing, AtAction, Places, Shape
<1>17. Look => G
  BY <1>14 DEF Look, At, AtAction
<1>18. ASSUME Ends PROVE G
  <2>1. drive.pc = "command" /\ drive.plan \in Plan
    BY <1>18 DEF Ends, At, HasPlan, Executing, AtAction
  <2>2. step' \in [Plan -> [Position -> Status]]
    <3>1. PICK s \in Status : SetStep(s)
      BY <1>18 DEF Ends, Status, Decided
    <3> QED
      BY <2>1, <3>1, StepSet
  <2>3. drive' = Nobody \/ Go("expand")
    BY <1>18 DEF Ends, After
  <2> QED
    BY <1>4, <1>5, <1>18, <2>1, <2>2, <2>3 DEF Ends, Executing, AtAction, Places
<1>19. ASSUME Recover PROVE G
  <2>1. step' \in [Plan -> [Position -> Status]]
    <3> DEFINE retry  == {a \in With("running") : plan[a[1]].kinds[a[2]] = "probe"}
               single == \E a \in Actions : Actions = {a}
    <3>1. \/ step' = [p \in Plan |-> [k \in Position |->
                       IF <<p, k>> \in retry THEN "approved" ELSE step[p][k]]]
          \/ step' = [p \in Plan |-> [k \in Position |->
                       IF single /\ <<p, k>> \in With("running") THEN "unknown"
                       ELSE step[p][k]]]
      BY <1>19 DEF Recover
    <3>2. \A p \in Plan, k \in Position :
            /\ (IF <<p, k>> \in retry THEN "approved" ELSE step[p][k]) \in Status
            /\ (IF single /\ <<p, k>> \in With("running") THEN "unknown"
                ELSE step[p][k]) \in Status
      BY DEF Shape, Status, Decided
    <3> HIDE DEF retry, single
    <3>3. CASE step' = [p \in Plan |-> [k \in Position |->
                          IF <<p, k>> \in retry THEN "approved" ELSE step[p][k]]]
      BY <3>2, <3>3
    <3>4. CASE step' = [p \in Plan |-> [k \in Position |->
                          IF single /\ <<p, k>> \in With("running") THEN "unknown"
                          ELSE step[p][k]]]
      BY <3>2, <3>4
    <3> QED
      BY <3>1, <3>3, <3>4
  <2>2. drive' = Nobody \/ \E a \in Actions :
          drive' = [Nobody EXCEPT !.pc = "check", !.plan = a[1], !.k = a[2],
                                  !.solo = TRUE]
    BY <1>19 DEF Recover, With
  <2>3. ASSUME NEW a \in Actions,
               drive' = [Nobody EXCEPT !.pc = "check", !.plan = a[1], !.k = a[2],
                                       !.solo = TRUE]
        PROVE  G
    <3>1. a[1] \in Plan /\ a[2] \in Position
      BY DEF Actions
    <3>2. drive' \in Drives /\ drive'.plan \in Plan
      BY <2>3, <3>1 DEF Nobody, Drives, Places
    <3> QED
      BY <1>19, <2>1, <3>2 DEF Recover, Shape, HasPlan
  <2> QED
    BY <1>5, <1>19, <2>1, <2>2, <2>3 DEF Recover
<1>20. Die => G
  BY <1>4 DEF Die, Executing, AtAction, Places, Shape
<1>21. Change => G
  BY DEF Change, Shape, HasPlan, Rows
<1>22. Expire => G
  BY DEF Expire, Shape, HasPlan
<1>23. DecideCommit => G
  BY DEF DecideCommit, Shape, HasPlan
<1>24. UNCHANGED vars => G
  BY DEF vars, Shape, HasPlan
<1> QED
  BY <1>1, <1>2, <1>6, <1>7, <1>8, <1>9, <1>10, <1>11, <1>12, <1>13, <1>15, <1>16,
     <1>17, <1>18, <1>19, <1>20, <1>21, <1>22, <1>23, <1>24 DEF Next, Work

\* What a move does to the place.
LEMMA PlaceAfter ==
  ASSUME drive \in Drives, NEW c, Go(c)
  PROVE  drive'.pc = c /\ drive'.plan = drive.plan /\ drive'.k = drive.k
BY DEF Drives, Go

\* At most one command is late: it passed its last comparison before the rows
\* changed, and the next one is compared with the changed rows.
LEMMA LateStep ==
  ASSUME PlanAuthorityAssumption, Shape, LateOnce, [Next]_vars
  PROVE  LateOnce'
<1> USE Moves, PlaceAfter DEF Shape
<1>1. ASSUME UNCHANGED <<fixed, row, late>>, UNCHANGED drive \/ drive'.pc # "send"
      PROVE  LateOnce'
  <2>1. UNCHANGED drive => (Held(drive.saw) <=> Held(drive.saw)')
    BY <1>1 DEF Held, Active, Authorised, ModeAllows, fixed
  <2> QED
    BY <1>1, <2>1 DEF LateOnce
<1>2. ASSUME NEW p \in Plan, NEW kinds \in [Position -> Kinds], Propose(p, kinds)
      PROVE  LateOnce'
  <2>1. drive' = Nobody \/ drive' = [drive EXCEPT !.pc = "verify", !.plan = p, !.k = 1]
    BY <1>2 DEF Propose
  <2>2. drive'.pc # "send"
    BY <2>1 DEF Drives
  <2> QED
    BY <1>1, <1>2, <2>2 DEF Propose, history
<1>3. ASSUME NEW p \in Plan, DecideRead(p) PROVE LateOnce'
  BY <1>1, <1>3 DEF DecideRead, history
<1>4. Refused \/ Conclude \/ Verify \/ Commit => LateOnce'
  BY <1>1 DEF Refused, Conclude, Verify, Commit, history
<1>5. ASSUME Claim PROVE LateOnce'
  <2>1. drive'.pc # "send"
    BY <1>5 DEF Claim, Nobody
  <2> QED
    BY <1>1, <1>5, <2>1 DEF Claim, history
<1>6. ASSUME Start PROVE LateOnce'
  <2>1. drive'.pc # "send"
    BY <1>6 DEF Start, Drives
  <2> QED
    BY <1>1, <1>6, <2>1 DEF Start, history
<1>7. ASSUME Expand PROVE LateOnce'
  <2>1. drive'.pc # "send"
    <3>1. CASE drive' = [drive EXCEPT !.k = @ + 1]
      BY <1>7, <3>1 DEF Expand, At, Drives
    <3>2. CASE drive' = Nobody \/ Go("check") \/ Go("plan")
      BY <3>2
    <3> QED
      BY <1>7, <3>1, <3>2 DEF Expand
  <2> QED
    BY <1>1, <1>7, <2>1 DEF Expand, history
<1>8. ASSUME Check PROVE LateOnce'
  <2>1. drive'.pc # "send"
    <3>1. CASE drive' = [drive EXCEPT !.pc = "commit", !.saw = row]
      BY <3>1 DEF Drives
    <3>2. CASE Go("dead")
      BY <3>2
    <3> QED
      BY <1>8, <3>1, <3>2 DEF Check
  <2> QED
    BY <1>1, <1>8, <2>1 DEF Check, history
<1>9. ASSUME NEW b \in BOOLEAN, Stop(b) PROVE LateOnce'
  BY <1>1, <1>9 DEF Stop, After
<1>10. ASSUME ProbeTwice PROVE LateOnce'
  <2>1. CASE drive.pc = "connect" /\ Held(drive.saw) /\ Go("send")
             /\ UNCHANGED <<fixed, row, run, plan, step, txn, history>>
    <3>1. drive'.saw = drive.saw
      BY <2>1 DEF Go, Drives
    <3>2. Held(drive.saw)'
      BY <2>1, <3>1 DEF Held, Active, Authorised, ModeAllows, fixed
    <3> QED
      BY <2>1, <3>2 DEF LateOnce, history
  <2>2. CASE Go("connect") /\ UNCHANGED <<fixed, row, run, plan, step, txn, history>>
    BY <1>1, <2>2 DEF history
  <2>3. CASE Stop(FALSE)
    BY <1>9, <2>3
  <2> QED
    BY <1>10, <2>1, <2>2, <2>3 DEF ProbeTwice, At
<1>11. ASSUME Send PROVE LateOnce'
  <2>1. drive.pc = "send" /\ drive'.pc = "command"
    BY <1>11 DEF Send, At
  <2>2. late = 1 => late' = 1
    BY <1>11, <2>1, HeldIsNotAstray DEF Send, LateOnce
  <2>3. late = 0 => late' \in {0, 1}
    BY <1>11 DEF Send
  <2> QED
    BY <2>1, <2>2, <2>3 DEF LateOnce
<1>12. Look => LateOnce'
  BY <1>9 DEF Look
<1>13. ASSUME Ends PROVE LateOnce'
  <2>1. drive'.pc # "send"
    BY <1>13 DEF Ends, After
  <2> QED
    BY <1>1, <1>13, <2>1 DEF Ends, history
<1>14. ASSUME Recover PROVE LateOnce'
  <2>1. drive' = Nobody \/ drive'.pc = "check"
    BY <1>14 DEF Recover, Nobody
  <2> QED
    BY <1>1, <1>14, <2>1 DEF Recover, history
<1>15. Die => LateOnce'
  BY <1>1 DEF Die
<1>16. Change => LateOnce'
  BY DEF Change, LateOnce
<1>17. Expire \/ DecideCommit => LateOnce'
  BY <1>1 DEF Expire, DecideCommit, history
<1>18. UNCHANGED vars => LateOnce'
  BY <1>1 DEF vars, fixed
<1> QED
  BY <1>2, <1>3, <1>4, <1>5, <1>6, <1>7, <1>8, <1>10, <1>11, <1>12, <1>13, <1>14,
     <1>15, <1>16, <1>17, <1>18 DEF Next, Work

\* A Run that was stopped stays stopped, and its drive only ends.
LEMMA StoppedStep ==
  ASSUME PlanAuthorityAssumption, Shape, HasPlan, Deciding, Parked, Ended, [Next]_vars
  PROVE  Deciding' /\ Parked' /\ Ended'
<1> DEFINE G == Deciding' /\ Parked' /\ Ended'
<1> USE Moves, PlaceAfter DEF Shape
\* While a drive works, nothing is decided and nothing was stopped.
<1>1. ASSUME drive.pc \notin {"idle", "expand", "dead"}
      PROVE  run # "waiting" /\ txn = None /\ ~revoked
  BY <1>1 DEF Deciding, Parked, Ended
<1>2. ASSUME run = "active" PROVE txn = None /\ ~revoked
  BY <1>2 DEF Deciding, Ended
<1>3. ASSUME txn = None, ~revoked, UNCHANGED <<txn, revoked>>,
             run' = "waiting" => drive'.pc = "idle"
      PROVE  G
  BY <1>3 DEF Deciding, Parked, Ended
<1>4. ASSUME drive.pc \notin {"idle", "expand", "dead"}, UNCHANGED <<run, txn, revoked>>
      PROVE  G
  BY <1>1, <1>3, <1>4
<1>5. ASSUME NEW p \in Plan, NEW kinds \in [Position -> Kinds], Propose(p, kinds)
      PROVE  G
  <2>1. drive.pc = "plan" /\ (run' = "waiting" => drive' = Nobody)
    BY <1>1, <1>5 DEF Propose, At
  <2> QED
    BY <1>1, <1>3, <1>5, <2>1 DEF Propose, history
<1>6. ASSUME NEW p \in Plan, DecideRead(p) PROVE G
  <2>1. ~revoked
    BY <1>6 DEF DecideRead, Ended
  <2> QED
    BY <1>6, <2>1 DEF DecideRead, Deciding, Parked, Ended, history
<1>7. Refused \/ Verify \/ Start \/ Check \/ Commit => G
  BY <1>4 DEF Refused, Verify, Start, Check, Commit, At, history
<1>8. Conclude => G
  BY <1>1, <1>3 DEF Conclude, At, history
<1>9. Claim => G
  BY <1>2, <1>3 DEF Claim, history
<1>10. ASSUME Expand PROVE G
  <2>1. drive.pc = "expand" /\ run # "waiting" /\ txn = None /\ run' = run
    BY <1>10 DEF Expand, At, Deciding, Parked
  <2>2. CASE revoked
    <3>1. Here \in {"failed", "unknown"} /\ run \in {"failed", "attention"}
      BY <2>1, <2>2 DEF Ended
    <3>2. drive' = Nobody
      BY <1>10, <3>1 DEF Expand
    <3> QED
      BY <1>10, <2>1, <3>1, <3>2 DEF Expand, Deciding, Parked, Ended, history
  <2> QED
    BY <1>3, <1>10, <2>1, <2>2 DEF Expand, history
<1>11. ASSUME drive.pc \in AtAction, NEW b \in BOOLEAN, Stop(b) PROVE G
  <2>1. drive.plan \in Plan /\ txn = None
    BY <1>1, <1>11 DEF HasPlan, Executing, AtAction
  <2>2. PICK s \in {"failed", "unknown"} : SetStep(s)
    BY <1>11 DEF Stop
  <2>3. step'[drive.plan][drive.k] = s
    BY <2>1, <2>2, StepSet DEF Status, Decided
  <2>4. drive' = Nobody \/ Go("expand")
    BY <1>11 DEF Stop, After
  <2>5. drive'.pc = "expand" => Here' \in {"failed", "unknown"}
    BY <2>3, <2>4 DEF Here
  <2> QED
    BY <1>11, <2>1, <2>4, <2>5 DEF Stop, Deciding, Parked, Ended
<1>12. ASSUME ProbeTwice PROVE G
  <2>1. drive.pc \in {"probe", "connect"}
    BY <1>12 DEF ProbeTwice, At
  <2>2. CASE Stop(FALSE)
    BY <1>11, <2>1, <2>2 DEF AtAction
  <2>3. CASE UNCHANGED <<fixed, row, run, plan, step, txn, history>>
    BY <1>4, <2>1, <2>3 DEF history
  <2> QED
    BY <1>12, <2>2, <2>3 DEF ProbeTwice
<1>13. Send => G
  BY <1>4 DEF Send, At
<1>14. Look => G
  BY <1>11 DEF Look, At, AtAction
<1>15. ASSUME Ends PROVE G
  <2>1. drive.pc = "command" /\ run' # "waiting"
    BY <1>1, <1>15 DEF Ends, At
  <2> QED
    BY <1>1, <1>3, <1>15, <2>1 DEF Ends, history
<1>16. ASSUME Recover PROVE G
  <2>1. run = "active" /\ run' # "waiting"
    BY <1>16 DEF Recover
  <2> QED
    BY <1>2, <1>3, <1>16, <2>1 DEF Recover, history
<1>17. Die => G
  BY DEF Die, Deciding, Parked, Ended
<1>18. Change \/ Expire => G
  BY DEF Change, Expire, Deciding, Parked, Ended, Here, history
<1>19. ASSUME DecideCommit PROVE G
  <2>1. ~revoked
    BY <1>19 DEF DecideCommit, Deciding, Ended
  <2> QED
    BY <1>3, <1>19, <2>1 DEF DecideCommit, Deciding, Parked, Ended, history
<1>20. UNCHANGED vars => G
  BY DEF vars, Deciding, Parked, Ended, Here
<1> QED
  BY <1>5, <1>6, <1>7, <1>8, <1>9, <1>10, <1>12, <1>13, <1>14, <1>15, <1>16,
     <1>17, <1>18, <1>19, <1>20 DEF Next, Work

LEMMA InductiveInvariant == PlanAuthorityAssumption => (Spec => []IInv)
<1> SUFFICES ASSUME PlanAuthorityAssumption PROVE Spec => []IInv
  OBVIOUS
<1>1. Init => IInv
  BY InitHolds
<1>2. IInv /\ [Next]_vars => IInv'
  BY ShapeStep, LateStep, StoppedStep DEF IInv
<1> QED
  BY <1>1, <1>2, PTL DEF Spec

\* After the rows have changed at most one command begins that they no longer
\* allow, and a Run stopped for lost authority begins none
\* (executor.py: the control probe of execute_step, and its end).
THEOREM WithdrawalIsKept == (Spec => []AuthorityIsKept) /\ (MCSpec => []AuthorityIsKept)
<1>1. IInv => AuthorityIsKept
  BY DEF IInv, LateOnce, Ended, AuthorityIsKept, OneLateCommand, StoppedForGood
<1>2. PlanAuthorityAssumption
  BY ServicesAssumption
<1>3. Spec => []AuthorityIsKept
  BY <1>1, <1>2, InductiveInvariant, PTL
<1>4. MCInit => IInv
  BY <1>2, InitHolds DEF MCInit
<1>5. IInv /\ [MCNext]_all => IInv'
  BY <1>2, AuthoritySteps, ShapeStep, LateStep, StoppedStep DEF IInv
<1>6. MCSpec => []AuthorityIsKept
  BY <1>1, <1>4, <1>5, PTL DEF MCSpec
<1> QED
  BY <1>3, <1>6

\* What IInv leaves open of the types.
RunStatus == {"active", "waiting", "completed", "failed", "attention", "expired"}
AuthorityRest ==
  /\ mode \in Modes /\ profile \in Profiles /\ run \in RunStatus
  /\ txn # None => txn \in [plan : Plan, env : Environments]
  /\ changes \in 0 .. MaxChanges /\ deaths \in 0 .. MaxDeaths
PlansTyped     == plan \in [Plan -> Snapshot]
AuthorityFlags == revoked \in BOOLEAN

LEMMA AuthorityRestStart ==
  PlanAuthorityAssumption /\ Init => AuthorityRest /\ PlansTyped /\ AuthorityFlags
<1> SUFFICES ASSUME PlanAuthorityAssumption, Init
             PROVE  AuthorityRest /\ PlansTyped /\ AuthorityFlags
  OBVIOUS
<1> USE DEF Init
<1>1. AuthorityRest
  BY DEF AuthorityRest, RunStatus, PlanAuthorityAssumption
<1>2. PlansTyped
  <2>1. NoPlan \in Snapshot
    BY DEF NoPlan, Snapshot, Kinds
  <2> QED
    BY <2>1 DEF PlansTyped
<1>3. AuthorityFlags
  BY DEF AuthorityFlags
<1> QED
  BY <1>1, <1>2, <1>3

LEMMA AuthorityRestStays ==
  PlanAuthorityAssumption /\ Shape /\ AuthorityRest /\ [Next]_vars => AuthorityRest'
<1> SUFFICES ASSUME PlanAuthorityAssumption, Shape, AuthorityRest, [Next]_vars
             PROVE  AuthorityRest'
  OBVIOUS
<1> USE DEF AuthorityRest, fixed, history
<1>1. ASSUME UNCHANGED <<fixed, changes, deaths>>, run' \in RunStatus, txn' \in {txn, None}
      PROVE  AuthorityRest'
  BY <1>1
<1>2. ASSUME NEW p \in Plan, NEW kinds \in [Position -> Kinds], Propose(p, kinds)
      PROVE  AuthorityRest'
  <2>1. run' \in {"waiting", run}
    BY <1>2 DEF Propose
  <2> QED
    BY <1>1, <1>2, <2>1 DEF Propose, RunStatus
<1>3. ASSUME NEW p \in Plan, DecideRead(p) PROVE AuthorityRest'
  <2>1. row.env \in Environments
    BY DEF Shape, Rows
  <2>2. run' \in {run, "expired"}
    BY <1>3 DEF DecideRead
  <2>3. txn' = txn \/ txn' = [plan |-> p, env |-> row.env]
    BY <1>3 DEF DecideRead
  <2> QED
    BY <1>3, <2>1, <2>2, <2>3 DEF DecideRead, RunStatus
<1>4. CASE DecideCommit \/ Conclude
  BY <1>1, <1>4 DEF DecideCommit, Conclude, RunStatus
<1>5. CASE Refused \/ Claim \/ Verify \/ Start \/ Expand \/ Check \/ Commit \/ Send \/ Expire
  BY <1>1, <1>5 DEF Refused, Claim, Verify, Start, Expand, Check, Commit, Send, Expire
<1>6. ASSUME NEW b \in BOOLEAN, Stop(b) PROVE AuthorityRest'
  BY <1>1, <1>6 DEF Stop, RunStatus
<1>7. CASE ProbeTwice
  BY <1>1, <1>6, <1>7 DEF ProbeTwice
<1>8. CASE Look
  BY <1>6, <1>8 DEF Look
<1>9. CASE Ends
  <2>1. run' \in {"attention", "completed", run}
    BY <1>9 DEF Ends
  <2> QED
    BY <1>1, <1>9, <2>1 DEF Ends, RunStatus
<1>10. CASE Recover
  <2>1. run' \in {"attention", run}
    BY <1>10 DEF Recover
  <2> QED
    BY <1>1, <1>10, <2>1 DEF Recover, RunStatus
<1>11. CASE Die
  BY <1>11 DEF Die, PlanAuthorityAssumption
<1>12. CASE Change
  BY <1>12 DEF Change, PlanAuthorityAssumption
<1>13. CASE UNCHANGED vars
  BY <1>1, <1>13 DEF vars
<1> QED
  BY <1>2, <1>3, <1>4, <1>5, <1>7, <1>8, <1>9, <1>10, <1>11, <1>12, <1>13 DEF Next, Work

\* A snapshot is written field by field.
LEMMA SnapshotWritten ==
  ASSUME NEW x \in Snapshot, NEW s \in Undecided \cup Decided, NEW e \in Environments
  PROVE  /\ [x EXCEPT !.status = s] \in Snapshot
         /\ [x EXCEPT !.status = s, !.env = e] \in Snapshot
         /\ [x EXCEPT !.expired = TRUE] \in Snapshot
BY DEF Snapshot

LEMMA PlanWritten ==
  ASSUME PlansTyped, NEW p \in Plan, NEW s \in Undecided \cup Decided, SetPlan(p, s)
  PROVE  PlansTyped'
<1>1. PICK x : x = [plan[p] EXCEPT !.status = s]
  OBVIOUS
<1>2. plan[p] \in Snapshot
  BY DEF PlansTyped
<1>3. "lab" \in Environments
  BY DEF Environments
<1>4. x \in Snapshot
  BY <1>1, <1>2, <1>3, SnapshotWritten
<1>5. plan' = [plan EXCEPT ![p] = x]
  BY <1>1 DEF SetPlan
<1> QED
  BY <1>4, <1>5 DEF PlansTyped

LEMMA PlansTypedStay ==
  Shape /\ HasPlan /\ AuthorityRest /\ PlansTyped /\ [Next]_vars => PlansTyped'
<1> SUFFICES ASSUME Shape, HasPlan, AuthorityRest, PlansTyped, [Next]_vars PROVE PlansTyped'
  OBVIOUS
<1>1. UNCHANGED plan => PlansTyped'
  BY DEF PlansTyped
<1>2. ASSUME NEW s \in Undecided \cup Decided, SetPlan(drive.plan, s), drive.pc \in Executing
      PROVE  PlansTyped'
  BY <1>2, PlanWritten DEF HasPlan
<1>3. ASSUME NEW p \in Plan, NEW kinds \in [Position -> Kinds], Propose(p, kinds)
      PROVE  PlansTyped'
  <2>1. PICK st \in {"waiting", "approved"} :
          plan' = [plan EXCEPT ![p] = [status |-> st, kinds |-> kinds, expired |-> FALSE,
                                       env |-> row.env]]
    BY <1>3 DEF Propose
  <2>2. PICK x : x = [status |-> st, kinds |-> kinds, expired |-> FALSE, env |-> row.env]
    OBVIOUS
  <2>3. row.env \in Environments
    BY DEF Shape, Rows
  <2>4. x \in Snapshot
    BY <2>2, <2>3 DEF Snapshot, Undecided
  <2>5. plan' = [plan EXCEPT ![p] = x]
    BY <2>1, <2>2
  <2> QED
    BY <2>4, <2>5 DEF PlansTyped
<1>4. ASSUME NEW p \in Plan, DecideRead(p) PROVE PlansTyped'
  <2>1. SetPlan(p, "cancelled") \/ UNCHANGED plan
    BY <1>4 DEF DecideRead
  <2>2. "cancelled" \in Undecided \cup Decided
    BY DEF Decided
  <2> QED
    BY <1>1, <2>1, <2>2, PlanWritten
<1>5. CASE DecideCommit
  <2>1. PICK s \in {"approved", "failed"} :
          plan' = [plan EXCEPT ![txn.plan].status = s, ![txn.plan].env = txn.env]
    BY <1>5 DEF DecideCommit
  <2>2. txn.plan \in Plan /\ txn.env \in Environments
    BY <1>5 DEF DecideCommit, AuthorityRest
  <2>3. PICK x : x = [plan[txn.plan] EXCEPT !.status = s, !.env = txn.env]
    OBVIOUS
  <2>4. plan[txn.plan] \in Snapshot /\ s \in Undecided \cup Decided
    BY <2>1, <2>2 DEF PlansTyped, Undecided, Decided
  <2>5. x \in Snapshot
    BY <2>2, <2>3, <2>4, SnapshotWritten
  <2>6. plan' = [plan EXCEPT ![txn.plan] = x]
    BY <2>1, <2>2, <2>3 DEF PlansTyped
  <2> QED
    BY <2>5, <2>6 DEF PlansTyped
<1>6. CASE Verify
  <2>1. SetPlan(drive.plan, "failed") \/ UNCHANGED plan
    BY <1>6 DEF Verify
  <2>2. drive.pc \in Executing /\ "failed" \in Undecided \cup Decided
    BY <1>6 DEF Verify, At, Executing, Decided
  <2> QED
    BY <1>1, <1>2, <2>1, <2>2
<1>7. CASE Start
  <2>1. drive.pc \in Executing /\ "running" \in Undecided \cup Decided
    BY <1>7 DEF Start, At, Executing, Undecided
  <2> QED
    BY <1>2, <1>7, <2>1 DEF Start
<1>8. CASE Expand
  <2>1. UNCHANGED plan \/ SetPlan(drive.plan, "succeeded") \/ SetPlan(drive.plan, "failed")
    BY <1>8 DEF Expand
  <2>2. drive.pc \in Executing /\ {"succeeded", "failed"} \subseteq Undecided \cup Decided
    BY <1>8 DEF Expand, At, Executing, Decided
  <2> QED
    BY <1>1, <1>2, <2>1, <2>2
<1>9. CASE Recover
  <2>1. \/ UNCHANGED plan
        \/ \E again : plan' = [p \in Plan |-> IF p \in again
                                              THEN [plan[p] EXCEPT !.status = "approved"]
                                              ELSE plan[p]]
    BY <1>9 DEF Recover
  <2>2. ASSUME NEW again,
               plan' = [p \in Plan |-> IF p \in again
                                       THEN [plan[p] EXCEPT !.status = "approved"]
                                       ELSE plan[p]]
        PROVE  PlansTyped'
    <3>1. ASSUME NEW p \in Plan
          PROVE  (IF p \in again THEN [plan[p] EXCEPT !.status = "approved"] ELSE plan[p])
                   \in Snapshot
      <4>1. plan[p] \in Snapshot
        BY DEF PlansTyped
      <4>2. "approved" \in Undecided \cup Decided /\ "lab" \in Environments
        BY DEF Undecided, Environments
      <4>3. [plan[p] EXCEPT !.status = "approved"] \in Snapshot
        BY <4>1, <4>2, SnapshotWritten
      <4> QED
        BY <4>1, <4>3
    <3> QED
      BY <2>2, <3>1 DEF PlansTyped
  <2> QED
    BY <1>1, <2>1, <2>2
<1>10. CASE Expire
  <2>1. PICK p \in Plan : plan' = [plan EXCEPT ![p].expired = TRUE]
    BY <1>10 DEF Expire, Open
  <2>2. PICK x : x = [plan[p] EXCEPT !.expired = TRUE]
    OBVIOUS
  <2>3. plan[p] \in Snapshot /\ "lab" \in Environments /\ "failed" \in Undecided \cup Decided
    BY <2>1 DEF PlansTyped, Environments, Decided
  <2>4. x \in Snapshot
    BY <2>2, <2>3, SnapshotWritten
  <2>5. plan' = [plan EXCEPT ![p] = x]
    BY <2>1, <2>2
  <2> QED
    BY <2>4, <2>5 DEF PlansTyped
<1>11. CASE \/ Refused \/ Conclude \/ Claim \/ Check \/ Commit \/ ProbeTwice \/ Send \/ Look
            \/ Ends \/ Die \/ Change
  <2>1. \A b \in BOOLEAN : Stop(b) => UNCHANGED plan
    BY DEF Stop
  <2>2. UNCHANGED plan
    BY <1>11, <2>1 DEF Refused, Conclude, Claim, Check, Commit, ProbeTwice, Send, Look,
                       Ends, Die,
                       Change
  <2> QED
    BY <1>1, <2>2
<1>12. CASE UNCHANGED vars
  BY <1>1, <1>12 DEF vars
<1> QED
  BY <1>3, <1>4, <1>5, <1>6, <1>7, <1>8, <1>9, <1>10, <1>11, <1>12 DEF Next, Work

LEMMA AuthorityFlagsStay == AuthorityFlags /\ [Next]_vars => AuthorityFlags'
<1> SUFFICES ASSUME AuthorityFlags, [Next]_vars PROVE AuthorityFlags'
  OBVIOUS
<1> USE DEF AuthorityFlags, history
<1>1. UNCHANGED revoked => AuthorityFlags'
  OBVIOUS
<1>2. ASSUME NEW b \in BOOLEAN, Stop(b) PROVE AuthorityFlags'
  BY <1>2 DEF Stop
<1>3. CASE ProbeTwice \/ Look
  BY <1>1, <1>2, <1>3 DEF ProbeTwice, Look
<1>4. ASSUME NEW p \in Plan, NEW kinds \in [Position -> Kinds], Propose(p, kinds)
      PROVE  AuthorityFlags'
  BY <1>1, <1>4 DEF Propose
<1>5. ASSUME NEW p \in Plan, DecideRead(p) PROVE AuthorityFlags'
  BY <1>1, <1>5 DEF DecideRead
<1>6. CASE \/ Refused \/ Conclude \/ Claim \/ Verify \/ Start \/ Expand \/ Check \/ Commit
           \/ Send \/ Recover \/ Ends \/ Die \/ Change \/ Expire \/ DecideCommit
  <2>1. UNCHANGED revoked
    BY <1>6 DEF Refused, Conclude, Claim, Verify, Start, Expand, Check, Commit, Send,
                Recover,
                Ends, Die, Change, Expire, DecideCommit
  <2> QED
    BY <1>1, <2>1
<1>7. CASE UNCHANGED vars
  BY <1>1, <1>7 DEF vars
<1> QED
  BY <1>3, <1>4, <1>5, <1>6, <1>7 DEF Next, Work

LEMMA AuthorityTyped == IInv /\ AuthorityRest /\ PlansTyped /\ AuthorityFlags => TypeOK
<1> SUFFICES ASSUME IInv, AuthorityRest, PlansTyped, AuthorityFlags PROVE TypeOK
  OBVIOUS
<1>1. late \in Nat
  BY DEF IInv, LateOnce
<1>2. revoked \in BOOLEAN
  BY DEF AuthorityFlags
<1>3. drive \in Drives /\ row \in Rows /\ step \in [Plan -> [Position -> Status]]
  BY DEF IInv, Shape
<1> QED
  BY <1>1, <1>2, <1>3, Zenon
  DEF Drives, Places, Status, AuthorityRest, PlansTyped, RunStatus, TypeOK

-----------------------------------------------------------------------------
(* The types of all the parts.                                             *)

MailHeld          == MailInv /\ MailRest /\ MailFlags
KnowledgeHeld     == KnowledgeInv /\ VersionsYoung /\ KnowledgeRest /\ MessagesCounted
DiagnosisHeld     == DiagnosisInv /\ DiagnosisRest /\ ProbesCounted /\ DiagnosisFlags
InvestigationHeld == InvestigationInv /\ InvestigationRest /\ RoundsCounted
                      /\ InvestigationFlags
StreamHeld        == StreamInv /\ StreamRest /\ StreamFlags
EvidenceHeld      == EvidenceInv /\ EvidenceRest /\ EvidenceFlags
AuthorityHeld     == IInv /\ AuthorityRest /\ PlansTyped /\ AuthorityFlags
ServicesInv ==
  /\ MailHeld /\ KnowledgeHeld /\ DiagnosisHeld /\ InvestigationHeld /\ StreamHeld
  /\ EvidenceHeld /\ AuthorityHeld

LEMMA ServicesStart == MCInit => ServicesInv
<1> SUFFICES ASSUME MCInit PROVE ServicesInv
  OBVIOUS
<1>1. /\ ML!Init /\ DI!Init /\ IV!Init /\ ES!Init /\ RE!Init /\ KI!Init /\ Init
      /\ PlanAuthorityAssumption
  BY ServicesAssumption DEF MCInit
<1>2. MailHeld /\ StreamHeld /\ EvidenceHeld
  BY <1>1, StreamInit, MailStart, MailRestStart, StreamRestStart, EvidenceStart,
     EvidenceRestStart DEF MailHeld, StreamHeld, EvidenceHeld
<1>3. DiagnosisHeld /\ InvestigationHeld
  BY <1>1, DiagnosisStart, DiagnosisRestStart, InvestigationStart, InvestigationRestStart
  DEF DiagnosisHeld, InvestigationHeld
<1>4. KnowledgeHeld /\ AuthorityHeld
  BY <1>1, KnowledgeStart, VersionsYoungStart, InitHolds, AuthorityRestStart
  DEF KnowledgeHeld, AuthorityHeld
<1> QED
  BY <1>2, <1>3, <1>4 DEF ServicesInv

LEMMA ServicesStep == ServicesInv /\ [MCNext]_all => ServicesInv'
<1> SUFFICES ASSUME ServicesInv, [MCNext]_all PROVE ServicesInv'
  OBVIOUS
<1>1. /\ [ML!Next]_(ML!vars) /\ [KI!Next]_(KI!vars) /\ [DI!Next]_(DI!vars)
      /\ [IV!Next]_(IV!vars) /\ [ES!Next]_(ES!vars) /\ [RE!Next]_(RE!vars)
      /\ [Next]_vars /\ PlanAuthorityAssumption
  BY PartSteps, AuthoritySteps, ServicesAssumption
<1>2. MailHeld'
  BY <1>1, MailStep, MailRestStays, MailFlagsStay DEF ServicesInv, MailHeld
<1>3. KnowledgeHeld'
  BY <1>1, KnowledgeStep, VersionsYoungStay, KnowledgeRestStays, MessagesCountedStay
  DEF ServicesInv, KnowledgeHeld, KnowledgeInv
<1>4. DiagnosisHeld'
  BY <1>1, DiagnosisStep, DiagnosisRestStays, ProbesCountedStay, DiagnosisFlagsStay
  DEF ServicesInv, DiagnosisHeld
<1>5. InvestigationHeld'
  BY <1>1, InvestigationStep, InvestigationRestStays, RoundsCountedStay,
     InvestigationFlagsStay DEF ServicesInv, InvestigationHeld
<1>6. StreamHeld'
  BY <1>1, StreamStep, StreamRestStays, StreamFlagsStay DEF ServicesInv, StreamHeld
<1>7. EvidenceHeld'
  BY <1>1, EvidenceStep, EvidenceRestStays, EvidenceFlagsStay DEF ServicesInv, EvidenceHeld
<1>8. AuthorityHeld'
  BY <1>1, ShapeStep, LateStep, StoppedStep, AuthorityRestStays, PlansTypedStay,
     AuthorityFlagsStay DEF ServicesInv, AuthorityHeld, IInv
<1> QED
  BY <1>2, <1>3, <1>4, <1>5, <1>6, <1>7, <1>8 DEF ServicesInv

\* The types of every service, for any requests, documents, hosts, probes,
\* rounds, events, drives and plans: counters within the budgets the code checks
\* them against, versions and texts within the writing requests there were,
\* chunks, findings and snapshots of things that exist (MailRelay to
\* PlanAuthority, the parts of MCServices).
THEOREM ServicesTyped == MCSpec => []AllTypesOK
<1>1. ServicesInv => AllTypesOK
  BY MailTyped, KnowledgeTyped, DiagnosisTyped, InvestigationTyped, StreamTyped,
     EvidenceTyped, AuthorityTyped
  DEF ServicesInv, MailHeld, KnowledgeHeld, DiagnosisHeld, InvestigationHeld,
      StreamHeld, EvidenceHeld, AuthorityHeld, AllTypesOK
<1> QED
  BY <1>1, ServicesStart, ServicesStep, PTL DEF MCSpec
=============================================================================
