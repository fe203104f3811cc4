------------------------- MODULE SocketClientProofs -------------------------
(***************************************************************************)
(* Theorems about SocketClient: what a connection carries is what writes   *)
(* reported, in order, and a reported end is one.  For any budgets, window *)
(* and sizes, with signals or without.                                     *)
(***************************************************************************)
EXTENDS SocketClient, SequenceTheorems, TLAPS

\* The numbers that follow k.
Follows(s, k) == \A i \in 1..Len(s) : s[i] = k + i

Typed ==
  /\ wire \in [Ends -> Seq(Nat)] /\ arrived \in [Ends -> Seq(Nat)]
  /\ received \in [Ends -> Seq(Nat)]
  /\ ending \in [Ends -> {"none", "fin", "rst"}] /\ ended \in [Ends -> {"none", "fin", "rst"}]
  /\ socket \in [Ends -> BOOLEAN] /\ timeout \in [Ends -> BOOLEAN]
  /\ call \in [Ends -> Calls]
  /\ want \in [Ends -> Nat] /\ totalSent \in [Ends -> Nat] /\ reported \in [Ends -> Nat]
  /\ answer \in [Ends -> {"bytes", "alive", "ended"}] /\ misled \in [Ends -> BOOLEAN]

\* Only a closed socket sends an end, and only an open one is called.
Closing ==
  \A e \in Ends :
    /\ ending[e] # "none" \/ ended[e] # "none" => ~socket[Other(e)]
    /\ call[e] \notin {"none", "killed"} => socket[e]

\* Behind an end no byte is on its way, and a reset is the last of a connection.
NothingBehind ==
  \A e \in Ends :
    /\ ended[e] # "none" => wire[e] = <<>>
    /\ ended[e] = "rst" => ending[e] = "none" /\ wire[Other(e)] = <<>>

\* An end that was reported is one, and has been read up to.
Answers ==
  \A e \in Ends :
    answer[e] = "ended" /\ ~misled[e] /\ socket[e] => ended[e] # "none" /\ arrived[e] = <<>>

Sending(o) == IF call[o] = "send" THEN totalSent[o] ELSE 0

\* The bytes read, those in the buffer and those on the wire go on from each
\* other, and they are as many as were reported and sent.
Carried(e) ==
  /\ Follows(received[e], 0)
  /\ socket[e] => /\ Follows(arrived[e], Len(received[e]))
                  /\ Follows(wire[e], Len(received[e]) + Len(arrived[e]))
  /\ socket[e] /\ ended[e] # "rst" =>
       Len(received[e]) + Len(arrived[e]) + Len(wire[e])
         = reported[Other(e)] + Sending(Other(e))

IInv == Typed /\ Closing /\ NothingBehind /\ Answers /\ \A e \in Ends : Carried(e)

-----------------------------------------------------------------------------
(* Sequences.                                                              *)

\* A sum of three.
LEMMA SumsAssociate ==
  ASSUME NEW x \in Nat, NEW y \in Nat, NEW z \in Nat
  PROVE  x + y + z = x + (y + z)
OBVIOUS

\* What goes on from a sequence can be put behind it.
LEMMA FollowsBehind ==
  ASSUME NEW s \in Seq(Nat), NEW t \in Seq(Nat), NEW k \in Nat,
         Follows(s, k), Follows(t, k + Len(s))
  PROVE  s \o t \in Seq(Nat) /\ Len(s \o t) = Len(s) + Len(t) /\ Follows(s \o t, k)
<1> DEFINE c == s \o t
<1>1. Len(s) \in Nat /\ Len(t) \in Nat
  OBVIOUS
<1>2. /\ c \in Seq(Nat) /\ Len(c) = Len(s) + Len(t)
      /\ \A i \in 1..(Len(s) + Len(t)) : c[i] = IF i <= Len(s) THEN s[i] ELSE t[i - Len(s)]
  BY ConcatProperties, Zenon
<1> HIDE DEF c
<1>3. ASSUME NEW i \in 1..Len(c) PROVE c[i] = k + i
  <2>1. i \in Nat /\ 1 <= i /\ i <= Len(s) + Len(t)
    BY <1>1, <1>2
  <2>2. c[i] = IF i <= Len(s) THEN s[i] ELSE t[i - Len(s)]
    BY <1>1, <1>2, <2>1
  <2>3. CASE i <= Len(s)
    <3>1. i \in 1..Len(s)
      BY <1>1, <2>1, <2>3
    <3>2. s[i] = k + i
      BY <3>1 DEF Follows
    <3> QED
      BY <2>2, <2>3, <3>2
  <2>4. CASE ~(i <= Len(s))
    <3>1. i - Len(s) \in 1..Len(t)
      BY <1>1, <2>1, <2>4
    <3>2. t[i - Len(s)] = k + Len(s) + (i - Len(s))
      BY <3>1 DEF Follows
    <3> QED
      BY <1>1, <2>1, <2>2, <2>4, <3>2
  <2> QED
    BY <2>3, <2>4
<1>4. Follows(c, k)
  BY <1>3 DEF Follows
<1> QED
  BY <1>2, <1>4 DEF c

\* The first byte of what follows can be moved to the end of what is there.
LEMMA FirstMoves ==
  ASSUME NEW a \in Seq(Nat), NEW w \in Seq(Nat), NEW k \in Nat, w # <<>>,
         Follows(a, k), Follows(w, k + Len(a))
  PROVE  /\ Append(a, Head(w)) \in Seq(Nat) /\ Tail(w) \in Seq(Nat)
         /\ Len(Append(a, Head(w))) = Len(a) + 1 /\ Len(Tail(w)) = Len(w) - 1
         /\ Follows(Append(a, Head(w)), k)
         /\ Follows(Tail(w), k + Len(a) + 1)
<1>1. Len(a) \in Nat /\ Len(w) \in Nat /\ Len(w) > 0 /\ Head(w) = w[1] /\ Head(w) \in Nat
  BY EmptySeq
<1>2. Head(w) = k + Len(a) + 1
  BY <1>1 DEF Follows
<1>3. <<Head(w)>> \in Seq(Nat) /\ Len(<<Head(w)>>) = 1 /\ Follows(<<Head(w)>>, k + Len(a))
  BY <1>1, <1>2 DEF Follows
<1>4. Append(a, Head(w)) = a \o <<Head(w)>>
  BY <1>1, AppendIsConcat, Zenon
<1>5. /\ Append(a, Head(w)) \in Seq(Nat) /\ Len(Append(a, Head(w))) = Len(a) + 1
      /\ Follows(Append(a, Head(w)), k)
  <2> DEFINE h == <<Head(w)>>
  <2>1. h \in Seq(Nat) /\ Len(h) = 1 /\ Follows(h, k + Len(a)) /\ Append(a, Head(w)) = a \o h
    BY <1>3, <1>4
  <2> HIDE DEF h
  <2>2. a \o h \in Seq(Nat) /\ Len(a \o h) = Len(a) + Len(h)
    BY <2>1, FollowsBehind
  <2>3. Follows(a \o h, k)
    BY <2>1, FollowsBehind
  <2> QED
    BY <2>1, <2>2, <2>3
<1>6. /\ Tail(w) \in Seq(Nat) /\ Len(Tail(w)) = Len(w) - 1
      /\ \A i \in 1..Len(Tail(w)) : Tail(w)[i] = w[i + 1]
  BY HeadTailProperties, Zenon
<1>7. Follows(Tail(w), k + Len(a) + 1)
  BY <1>1, <1>6 DEF Follows
<1> QED
  BY <1>5, <1>6, <1>7

\* So can the first n of them.
LEMMA PrefixMoves ==
  ASSUME NEW r \in Seq(Nat), NEW a \in Seq(Nat), NEW n \in 0..Len(a),
         Follows(r, 0), Follows(a, Len(r)),
         NEW z, z = r \o SubSeq(a, 1, n), NEW y, y = SubSeq(a, n + 1, Len(a))
  PROVE  /\ z \in Seq(Nat) /\ y \in Seq(Nat)
         /\ Len(z) = Len(r) + n /\ Len(y) = Len(a) - n
         /\ Follows(z, 0) /\ Follows(y, Len(r) + n)
<1> DEFINE x == SubSeq(a, 1, n)
<1>1. Len(r) \in Nat /\ Len(a) \in Nat /\ n \in Nat /\ n <= Len(a)
  OBVIOUS
<1>2. x \in Seq(Nat) /\ Len(x) = n /\ \A i \in 1..n : x[i] = a[i]
  BY <1>1
<1>3. y \in Seq(Nat) /\ Len(y) = Len(a) - n /\ \A i \in 1..(Len(a) - n) : y[i] = a[n + i]
  BY <1>1
<1> HIDE DEF x
<1>4. Follows(x, 0 + Len(r))
  <2>1. \A i \in 1..n : a[i] = Len(r) + i
    BY <1>1 DEF Follows
  <2>2. Follows(x, Len(r))
    BY <1>2, <2>1 DEF Follows
  <2> QED
    BY <1>1, <2>2
<1>5. r \o x \in Seq(Nat) /\ Len(r \o x) = Len(r) + n /\ Follows(r \o x, 0)
  BY <1>2, <1>4, FollowsBehind
<1>6. Follows(y, Len(r) + n)
  BY <1>1, <1>3 DEF Follows
<1> QED
  BY <1>2, <1>3, <1>5, <1>6 DEF x

\* Bytes numbered on from a sequence's last can be put behind it.
LEMMA NextFollow ==
  ASSUME NEW w \in Seq(Nat), NEW k \in Nat, NEW n \in Nat, Follows(w, k)
  PROVE  LET more == [i \in 1..n |-> k + Len(w) + i]
         IN /\ w \o more \in Seq(Nat) /\ Len(w \o more) = Len(w) + n
            /\ Follows(w \o more, k)
<1> DEFINE more == [i \in 1..n |-> k + Len(w) + i]
<1>1. more \in [1..n -> Nat]
  OBVIOUS
<1>2. more \in Seq(Nat) /\ Len(more) = n /\ \A i \in 1..n : more[i] = k + Len(w) + i
  BY <1>1
<1>3. Follows(more, k + Len(w))
  BY <1>2 DEF Follows
<1> HIDE DEF more
<1>4. w \o more \in Seq(Nat) /\ Len(w \o more) = Len(w) + n /\ Follows(w \o more, k)
  BY <1>2, <1>3, FollowsBehind
<1> QED
  BY <1>4 DEF more

\* What goes on from 0 is the numbers up to its length.
LEMMA CountingFromOne ==
  ASSUME NEW s \in Seq(Nat), Follows(s, 0)
  PROVE  s = [i \in 1..Len(s) |-> i]
<1>1. s \in [1..Len(s) -> Nat]
  BY LenProperties
<1>2. \A i \in 1..Len(s) : s[i] = i
  BY DEF Follows
<1> QED
  BY <1>1, <1>2

\* Three sequences that go on from each other do so one behind the other.
LEMMA FollowingCount ==
  ASSUME NEW r \in Seq(Nat), NEW a \in Seq(Nat), NEW w \in Seq(Nat),
         Follows(r, 0), Follows(a, Len(r)), Follows(w, Len(r) + Len(a)),
         NEW s, s = r \o (a \o w)
  PROVE  /\ s \in Seq(Nat) /\ Follows(s, 0)
         /\ Len(s) = Len(r) + Len(a) + Len(w)
<1> DEFINE t == a \o w
<1>1. Len(r) \in Nat /\ Len(a) \in Nat /\ Len(w) \in Nat
  OBVIOUS
<1>2. t \in Seq(Nat) /\ Len(t) = Len(a) + Len(w) /\ Follows(t, Len(r))
  BY <1>1, FollowsBehind
<1> HIDE DEF t
<1>3. Follows(t, 0 + Len(r))
  BY <1>1, <1>2
<1>4. s = r \o t
  BY DEF t
<1>5. s \in Seq(Nat) /\ Len(s) = Len(r) + Len(t) /\ Follows(s, 0)
  <2>1. r \o t \in Seq(Nat) /\ Len(r \o t) = Len(r) + Len(t) /\ Follows(r \o t, 0)
    BY <1>2, <1>3, FollowsBehind
  <2> QED
    BY <1>4, <2>1
<1>6. Len(r) + Len(a) + Len(w) = Len(r) + (Len(a) + Len(w))
  BY <1>1, SumsAssociate
<1> QED
  BY <1>2, <1>5, <1>6

-----------------------------------------------------------------------------
(* The steps.                                                              *)

\* A connection has two ends.
LEMMA TwoEnds ==
  ASSUME NEW e \in Ends
  PROVE  /\ Other(e) \in Ends /\ Other(e) # e /\ Other(Other(e)) = e
         /\ \A x \in Ends : x = e \/ x = Other(e)
  BY DEF Ends, Other

\* A step that moves no byte and reports none leaves what is carried alone.
LEMMA QuietKeepsCarried ==
  ASSUME IInv, UNCHANGED <<kernel, socket, history>>,
         \A e \in Ends : Sending(e)' = Sending(e)
  PROVE  (\A e \in Ends : Carried(e)') /\ NothingBehind'
<1>1. ASSUME NEW e \in Ends PROVE Carried(e)'
  <2>1. Carried(e) /\ Other(e) \in Ends
    BY TwoEnds DEF IInv
  <2>2. Sending(Other(e))' = Sending(Other(e))
    BY <2>1
  <2> QED
    BY <2>1, <2>2 DEF Carried, kernel, history
<1>2. NothingBehind'
  BY DEF IInv, NothingBehind, kernel
<1> QED
  BY <1>1, <1>2

\* setTimeout, available, connected and the calls they make.
LEMMA AskingKeeps ==
  ASSUME IInv, NEW e \in Ends,
         \/ \E on \in BOOLEAN : SetTimeout(e, on)
         \/ Available(e) \/ Connected(e)
         \/ QueryPendingBytes(e) \/ Select(e) \/ ProbeByte(e)
         \/ RecvNothing(e) \/ RecvInterrupted(e) \/ RecvWouldBlock(e)
  PROVE  IInv'
<1>1. /\ UNCHANGED <<kernel, socket, totalSent, history>>
      /\ want' = want \/ want' = [want EXCEPT ![e] = 0]
  BY DEF SetTimeout, Available, Connected, QueryPendingBytes, Select, ProbeByte,
         RecvNothing, RecvInterrupted, RecvWouldBlock, ReturnsNothing, Returns, Answered, Goes,
         local
<1>2. /\ call[e] # "send"
      /\ \E next \in {"none", "ioctl", "select", "peek"} :
           /\ call' = [call EXCEPT ![e] = next]
           /\ next # "none" => socket[e]
  <2>1. CASE \E on \in BOOLEAN : SetTimeout(e, on)
    <3>1. call[e] = "none" /\ call' = call
      BY <2>1 DEF SetTimeout, Idle
    <3>2. call' = [call EXCEPT ![e] = "none"]
      BY <3>1 DEF IInv, Typed
    <3> QED
      BY <3>1, <3>2
  <2>2. CASE Available(e) \/ Connected(e)
    BY <2>2 DEF Available, Connected, Idle, Answered, Goes
  <2>3. CASE QueryPendingBytes(e) \/ Select(e) \/ ProbeByte(e)
    <3>1. call[e] \in {"ioctl", "select", "peek"} /\ socket[e]
      BY <2>3 DEF QueryPendingBytes, Select, ProbeByte, IInv, Closing
    <3> QED
      BY <2>3, <3>1 DEF QueryPendingBytes, Select, ProbeByte, Answered, Goes
  <2>4. CASE RecvNothing(e) \/ RecvInterrupted(e) \/ RecvWouldBlock(e)
    BY <2>4 DEF RecvNothing, RecvInterrupted, RecvWouldBlock, ReturnsNothing, Returns, Receiving
  <2> QED
    BY <2>1, <2>2, <2>3, <2>4
<1>3. \A x \in Ends : Sending(x)' = Sending(x)
  BY <1>1, <1>2 DEF Sending, IInv, Typed
<1>4. (\A x \in Ends : Carried(x)') /\ NothingBehind'
  BY <1>1, <1>3, QuietKeepsCarried
<1>5. Closing'
  BY <1>1, <1>2 DEF IInv, Typed, Closing, kernel
<1>6. /\ timeout' \in [Ends -> BOOLEAN]
      /\ answer' \in [Ends -> {"bytes", "alive", "ended"}] /\ misled' \in [Ends -> BOOLEAN]
  <2>1. \/ \E on \in BOOLEAN : timeout' = [timeout EXCEPT ![e] = on]
        \/ timeout' = timeout
    BY DEF SetTimeout, Available, Connected, QueryPendingBytes, Select, ProbeByte,
           RecvNothing, RecvInterrupted, RecvWouldBlock, ReturnsNothing, Answered, Goes, local
  <2>2. \/ UNCHANGED <<answer, misled>>
        \/ \E a \in {"bytes", "alive", "ended"}, m \in BOOLEAN :
             answer' = [answer EXCEPT ![e] = a] /\ misled' = [misled EXCEPT ![e] = m]
    BY DEF SetTimeout, Available, Connected, QueryPendingBytes, Select, ProbeByte,
           RecvNothing, RecvInterrupted, RecvWouldBlock, ReturnsNothing, Answered, Goes
  <2>3. timeout' \in [Ends -> BOOLEAN]
    BY <2>1 DEF IInv, Typed
  <2>4. answer' \in [Ends -> {"bytes", "alive", "ended"}]
    BY <2>2 DEF IInv, Typed
  <2>5. misled' \in [Ends -> BOOLEAN]
    BY <2>2 DEF IInv, Typed
  <2> QED
    BY <2>3, <2>4, <2>5
<1>7. Typed'
  <2>1. call' \in [Ends -> Calls]
    BY <1>2 DEF IInv, Typed, Calls
  <2>2. want' \in [Ends -> Nat]
    <3>1. want \in [Ends -> Nat]
      BY DEF IInv, Typed
    <3>2. CASE want' = want
      BY <3>1, <3>2
    <3>3. CASE want' = [want EXCEPT ![e] = 0]
      BY <3>1, <3>3
    <3> QED
      BY <1>1, <3>2, <3>3
  <2> QED
    BY <1>1, <1>6, <2>1, <2>2 DEF IInv, Typed, kernel, history
<1>8. ASSUME UNCHANGED <<answer, misled>> PROVE Answers'
  BY <1>1, <1>8 DEF IInv, Answers, kernel
<1>9. ASSUME Answered(e, "alive", FALSE) \/ Answered(e, "bytes", FALSE)
             \/ Answered(e, "ended", TRUE)
      PROVE  Answers'
  <2>1. answer'[e] # "ended" \/ misled'[e]
    BY <1>9 DEF Answered, IInv, Typed
  <2>2. \A x \in Ends \ {e} : answer'[x] = answer[x] /\ misled'[x] = misled[x]
    BY <1>9 DEF Answered, IInv, Typed
  <2> QED
    BY <1>1, <2>1, <2>2 DEF IInv, Answers, kernel
<1>10. ASSUME Answered(e, "ended", FALSE), socket[e] => ended[e] # "none" /\ arrived[e] = <<>>
       PROVE  Answers'
  BY <1>1, <1>10 DEF Answered, IInv, Typed, Answers, kernel
<1>11. Answers'
  <2>1. CASE Available(e) \/ Connected(e)
    BY <1>8, <1>10, <2>1 DEF Available, Connected, Goes
  <2>2. CASE QueryPendingBytes(e)
    BY <1>8, <1>9, <2>2 DEF QueryPendingBytes, Goes
  <2>3. CASE Select(e)
    BY <1>8, <1>9, <2>3 DEF Select, Goes
  <2>4. CASE ProbeByte(e)
    BY <1>9, <1>10, <2>4 DEF ProbeByte, Readable
  <2>5. CASE RecvNothing(e) \/ RecvInterrupted(e) \/ RecvWouldBlock(e) \/ \E on \in BOOLEAN : SetTimeout(e, on)
    BY <1>8, <2>5 DEF RecvNothing, RecvInterrupted, RecvWouldBlock, ReturnsNothing, SetTimeout
  <2> QED
    BY <2>1, <2>2, <2>3, <2>4, <2>5
<1> QED
  BY <1>4, <1>5, <1>7, <1>11 DEF IInv

\* The beginning of a read, of ReadAsVector or of a write.
LEMMA BeginKeeps ==
  ASSUME IInv, NEW e \in Ends, NEW next \in {"recv", "recvAll", "send"}, NEW size \in Nat,
         Begin(e, next, size)
  PROVE  IInv'
<1>1. /\ call[e] = "none" /\ socket[e]
      /\ call' = [call EXCEPT ![e] = next] /\ want' = [want EXCEPT ![e] = size]
      /\ totalSent' = [totalSent EXCEPT ![e] = 0]
      /\ UNCHANGED <<kernel, local, answer, misled, history>>
  BY DEF Begin, Idle
<1>2. Typed'
  BY <1>1 DEF IInv, Typed, kernel, local, history, Calls
<1>3. \A x \in Ends : Sending(x)' = Sending(x)
  BY <1>1 DEF IInv, Typed, Sending
<1>4. (\A x \in Ends : Carried(x)') /\ NothingBehind'
  BY <1>1, <1>3, QuietKeepsCarried DEF local
<1>5. Closing'
  BY <1>1 DEF IInv, Typed, Closing, kernel, local
<1>6. Answers'
  BY <1>1 DEF IInv, Answers, kernel, local
<1> QED
  BY <1>2, <1>4, <1>5, <1>6 DEF IInv

\* A segment that arrives moves from the wire to the buffer of an open socket.
LEMMA DeliverKeeps ==
  ASSUME IInv, NEW e \in Ends, Deliver(e)
  PROVE  IInv'
<1> DEFINE o == Other(e)
<1>1. /\ wire[e] # <<>> /\ wire' = [wire EXCEPT ![e] = Tail(@)]
      /\ UNCHANGED <<ended, local, call, want, totalSent, answer, misled, history>>
  BY DEF Deliver
<1>2. o \in Ends /\ o # e /\ Other(o) = e /\ \A x \in Ends : x = e \/ x = o
  BY TwoEnds
<1>3. ended[e] = "none" /\ ended[o] # "rst"
  BY <1>1, <1>2 DEF IInv, Typed, NothingBehind
<1>4. Tail(wire[e]) \in Seq(Nat)
  BY <1>1 DEF IInv, Typed
<1>5. wire' \in [Ends -> Seq(Nat)] /\ wire'[e] = Tail(wire[e]) /\ wire'[o] = wire[o]
  BY <1>1, <1>2, <1>4 DEF IInv, Typed
<1> HIDE DEF o
<1>6. \A x \in Ends : Sending(x)' = Sending(x)
  BY <1>1 DEF Sending
<1>7. CASE socket[e]
  <2>1. arrived' = [arrived EXCEPT ![e] = Append(@, Head(wire[e]))] /\ ending' = ending
    BY <1>7 DEF Deliver
  <2> DEFINE a == Append(arrived[e], Head(wire[e]))
             k == Len(received[e])
  <2>2. Follows(arrived[e], k) /\ Follows(wire[e], k + Len(arrived[e])) /\ k \in Nat
    BY <1>7 DEF IInv, Carried, Typed
  <2>3. /\ a \in Seq(Nat) /\ Len(a) = Len(arrived[e]) + 1
        /\ Len(Tail(wire[e])) = Len(wire[e]) - 1
        /\ Follows(a, k) /\ Follows(Tail(wire[e]), k + Len(arrived[e]) + 1)
    <3>1. arrived[e] \in Seq(Nat) /\ wire[e] \in Seq(Nat)
      BY DEF IInv, Typed
    <3> HIDE DEF k
    <3> QED
      BY <1>1, <2>2, <3>1, FirstMoves
  <2>4. arrived' \in [Ends -> Seq(Nat)] /\ arrived'[e] = a /\ arrived'[o] = arrived[o]
    BY <1>2, <2>1, <2>3 DEF IInv, Typed
  <2> HIDE DEF a
  <2>5. Typed'
    BY <1>1, <1>5, <2>1, <2>4 DEF IInv, Typed, local, history
  <2>6. Closing'
    BY <1>1, <2>1 DEF IInv, Closing, local
  <2>7. NothingBehind'
    BY <1>1, <1>2, <1>3, <1>5, <2>1 DEF IInv, NothingBehind
  <2>8. Answers'
    BY <1>1, <1>2, <1>3, <2>4 DEF IInv, Answers, local
  <2>9. Carried(e)'
    <3>1. Len(arrived[e]) \in Nat /\ Len(wire[e]) \in Nat
      BY DEF IInv, Typed
    <3>2. k + Len(arrived[e]) + Len(wire[e]) = reported[o] + Sending(o)
      BY <1>3, <1>7 DEF IInv, Carried, o
    <3> DEFINE la == Len(arrived[e])
               lw == Len(wire[e])
    <3>3. la \in Nat /\ lw \in Nat /\ k \in Nat
      BY <2>2, <3>1
    <3>4. Len(a) = la + 1 /\ Len(Tail(wire[e])) = lw - 1
      BY <2>3
    <3> HIDE DEF k, la, lw
    <3>5. k + (la + 1) + (lw - 1) = k + la + lw /\ k + (la + 1) = k + la + 1
      BY <3>3
    <3>6. k + Len(a) + Len(Tail(wire[e])) = reported[o] + Sending(o)
      BY <3>2, <3>4, <3>5 DEF la, lw
    <3>7. Follows(Tail(wire[e]), k + Len(a))
      BY <2>3, <3>4, <3>5 DEF la
    <3>8. received' = received /\ reported' = reported /\ Sending(o)' = Sending(o)
      BY <1>1, <1>2, <1>6 DEF history
    <3>9. Follows(received[e], 0)
      BY DEF IInv, Carried
    <3> QED
      BY <1>5, <2>3, <2>4, <3>6, <3>7, <3>8, <3>9 DEF Carried, o, k
  <2>10. Carried(o)'
    BY <1>1, <1>2, <1>5, <1>6, <2>4 DEF IInv, Carried, local, history
  <2> QED
    BY <1>2, <2>5, <2>6, <2>7, <2>8, <2>9, <2>10 DEF IInv
<1>8. CASE ~socket[e]
  <2>1. arrived' = arrived /\ ending' = [ending EXCEPT ![o] = "rst"]
    BY <1>8 DEF Deliver, o
  <2>2. Typed'
    BY <1>1, <1>2, <1>5, <2>1 DEF IInv, Typed, local, history
  <2>3. Closing'
    BY <1>1, <1>2, <1>8, <2>1 DEF IInv, Typed, Closing, local
  <2>4. NothingBehind'
    BY <1>1, <1>2, <1>3, <1>5, <2>1 DEF IInv, Typed, NothingBehind
  <2>5. Answers'
    BY <1>1, <2>1 DEF IInv, Answers, local
  <2>6. Carried(e)' /\ Carried(o)'
    BY <1>1, <1>2, <1>5, <1>6, <1>8, <2>1 DEF IInv, Carried, local, history
  <2> QED
    BY <1>2, <2>2, <2>3, <2>4, <2>5, <2>6 DEF IInv
<1> QED
  BY <1>7, <1>8 DEF IInv, Typed

\* An end that arrives, orderly or not.
LEMMA EndKeeps ==
  ASSUME IInv, NEW e \in Ends, DeliverFin(e) \/ DeliverReset(e)
  PROVE  IInv'
<1> DEFINE o == Other(e)
<1>1. o \in Ends /\ o # e /\ Other(o) = e /\ \A x \in Ends : x = e \/ x = o
  BY TwoEnds
<1>2. ending[e] # "none"
  BY DEF DeliverFin, DeliverReset
<1>3. ~socket[o] /\ ended[e] # "rst"
  BY <1>2 DEF IInv, Closing, NothingBehind
<1> HIDE DEF o
<1>4. UNCHANGED <<arrived, local, call, want, totalSent, answer, misled, history>>
  BY DEF DeliverFin, DeliverReset
<1>5. /\ ending' = [ending EXCEPT ![e] = "none"]
      /\ \/ wire' = wire /\ wire[e] = <<>> /\ ended' = [ended EXCEPT ![e] = "fin"]
         \/ wire' = [x \in Ends |-> <<>>] /\ ended' = [ended EXCEPT ![e] = "rst"]
  BY DEF DeliverFin, DeliverReset
<1>6. <<>> \in Seq(Nat)
  OBVIOUS
<1>7. Typed'
  <2>1. /\ ending' \in [Ends -> {"none", "fin", "rst"}]
        /\ ended' \in [Ends -> {"none", "fin", "rst"}]
    BY <1>5 DEF IInv, Typed
  <2>2. wire' \in [Ends -> Seq(Nat)]
    <3>1. wire \in [Ends -> Seq(Nat)]
      BY DEF IInv, Typed
    <3>2. wire' = wire \/ wire' = [x \in Ends |-> <<>>]
      BY <1>5
    <3> QED
      BY <1>6, <3>1, <3>2
  <2> QED
    BY <1>4, <2>1, <2>2 DEF IInv, Typed, local, history
<1>8. Closing'
  <2>1. /\ \A x \in Ends : socket'[x] = socket[x] /\ call'[x] = call[x]
        /\ ending'[o] = ending[o] /\ ended'[o] = ended[o]
    BY <1>1, <1>4, <1>5 DEF IInv, Typed, local
  <2>2. ~socket'[Other(e)]
    BY <1>1, <1>3, <2>1 DEF o
  <2>3. ending'[o] # "none" \/ ended'[o] # "none" => ~socket'[Other(o)]
    BY <1>1, <2>1, TwoEnds DEF IInv, Closing
  <2> QED
    BY <1>1, <2>1, <2>2, <2>3 DEF IInv, Closing
<1>9. NothingBehind'
  <2>1. wire'[e] = <<>> /\ (ended'[e] = "rst" => ending'[e] = "none" /\ wire'[o] = <<>>)
    BY <1>1, <1>5 DEF IInv, Typed
  <2>2. /\ ended'[o] = ended[o] /\ ending'[o] = ending[o]
        /\ wire[o] = <<>> => wire'[o] = <<>>
    BY <1>1, <1>5 DEF IInv, Typed
  <2> QED
    BY <1>1, <2>1, <2>2 DEF IInv, NothingBehind, o
<1>10. Answers'
  BY <1>4, <1>5 DEF IInv, Typed, Answers, local
<1>11. \A x \in Ends : Sending(x)' = Sending(x)
  BY <1>4 DEF Sending
<1>12. Carried(o)'
  BY <1>1, <1>3, <1>4 DEF IInv, Carried, local, history
<1>13. Carried(e)'
  <2>1. Carried(e) /\ ended[e] # "rst"
    BY <1>3 DEF IInv
  <2>2. CASE wire' = wire /\ wire[e] = <<>> /\ ended' = [ended EXCEPT ![e] = "fin"]
    BY <1>1, <1>4, <1>11, <2>1, <2>2 DEF Carried, local, history, o
  <2>3. CASE wire' = [x \in Ends |-> <<>>] /\ ended' = [ended EXCEPT ![e] = "rst"]
    <3>1. wire'[e] = <<>> /\ ended'[e] = "rst" /\ \A k : Follows(<<>>, k)
      BY <2>3 DEF Follows, IInv, Typed
    <3> QED
      BY <1>4, <2>1, <3>1 DEF Carried, local, history
  <2> QED
    BY <1>5, <2>2, <2>3
<1> QED
  BY <1>1, <1>7, <1>8, <1>9, <1>10, <1>12, <1>13 DEF IInv

\* What a reset takes out of a buffer is behind everything that was read.
LEMMA DiscardKeeps ==
  ASSUME IInv, NEW e \in Ends, DiscardArrived(e)
  PROVE  IInv'
<1>1. /\ ended[e] = "rst" /\ arrived' = [arrived EXCEPT ![e] = <<>>]
      /\ UNCHANGED <<wire, ending, ended, local, call, want, totalSent, answer, misled, history>>
  BY DEF DiscardArrived
<1>2. wire[e] = <<>>
  BY <1>1 DEF IInv, NothingBehind
<1>3. <<>> \in Seq(Nat) /\ Len(<<>>) = 0 /\ \A k : Follows(<<>>, k)
  BY DEF Follows
<1>4. /\ arrived' \in [Ends -> Seq(Nat)] /\ arrived'[e] = <<>>
      /\ \A x \in Ends \ {e} : arrived'[x] = arrived[x]
  BY <1>1, <1>3 DEF IInv, Typed
<1>5. Typed'
  BY <1>1, <1>4 DEF IInv, Typed, local, history
<1>6. Closing' /\ NothingBehind'
  BY <1>1 DEF IInv, Closing, NothingBehind, local
<1>7. Answers'
  BY <1>1, <1>4 DEF IInv, Answers, local
<1>8. ASSUME NEW x \in Ends PROVE Carried(x)'
  <2>1. Carried(x) /\ Sending(Other(x))' = Sending(Other(x))
    BY <1>1 DEF IInv, Sending
  <2>2. CASE x = e
    BY <1>1, <1>2, <1>3, <1>4, <2>1, <2>2 DEF Carried, local, history
  <2>3. CASE x # e
    BY <1>1, <1>4, <2>1, <2>3 DEF Carried, local, history
  <2> QED
    BY <2>2, <2>3
<1> QED
  BY <1>5, <1>6, <1>7, <1>8 DEF IInv

\* close(2), by stop or at the end of a program that a signal killed.
LEMMA CloseKeeps ==
  ASSUME IInv, NEW e \in Ends, Stop(e) \/ SigPipe(e)
  PROVE  IInv'
<1> DEFINE o == Other(e)
<1>1. o \in Ends /\ o # e /\ Other(o) = e /\ \A x \in Ends : x = e \/ x = o
  BY TwoEnds
<1>2. socket[e]
  BY DEF Stop, SigPipe, IInv, Closing
<1>3. ended[o] = "none"
  BY <1>1, <1>2 DEF IInv, Closing
<1> HIDE DEF o
<1>4. /\ socket' = [socket EXCEPT ![e] = FALSE]
      /\ arrived' = [arrived EXCEPT ![e] = <<>>]
      /\ \E way \in {"fin", "rst", ending[o]} : ending' = [ending EXCEPT ![o] = way]
      /\ UNCHANGED <<wire, ended, timeout, want, totalSent, answer, misled, history>>
  BY DEF Stop, SigPipe, KernelClose, o
<1>5. /\ call' \in [Ends -> Calls] /\ call'[o] = call[o] /\ call'[e] \in {"none", "killed"}
  <2>1. /\ call[e] \in Calls
        /\ \/ call' = call /\ call[e] = "none"
           \/ call' = [call EXCEPT ![e] = "killed"]
    BY DEF Stop, SigPipe, Idle, Calls, IInv, Typed
  <2> QED
    BY <1>1, <2>1 DEF IInv, Typed, Calls
<1>6. <<>> \in Seq(Nat) /\ ending[o] \in {"none", "fin", "rst"}
  BY <1>1 DEF IInv, Typed
<1>7. Typed'
  <2>1. socket' \in [Ends -> BOOLEAN] /\ arrived' \in [Ends -> Seq(Nat)]
    BY <1>4, <1>6 DEF IInv, Typed
  <2>2. ending' \in [Ends -> {"none", "fin", "rst"}]
    BY <1>4, <1>6 DEF IInv, Typed
  <2> QED
    BY <1>4, <1>5, <2>1, <2>2 DEF IInv, Typed, history
<1>8. Closing'
  <2>1. /\ ~socket'[e] /\ socket'[o] = socket[o]
        /\ ending'[e] = ending[e] /\ ended'[e] = ended[e]
        /\ call'[e] \in {"none", "killed"} /\ call'[o] = call[o]
    BY <1>1, <1>4, <1>5 DEF IInv, Typed
  <2>2. /\ ending'[e] # "none" \/ ended'[e] # "none" => ~socket'[o]
        /\ call'[o] \notin {"none", "killed"} => socket'[o]
    BY <1>1, <2>1 DEF IInv, Closing, o
  <2> QED
    BY <1>1, <2>1, <2>2 DEF Closing, o
<1>9. NothingBehind'
  BY <1>1, <1>3, <1>4 DEF IInv, Typed, NothingBehind
<1>10. Answers'
  BY <1>1, <1>4 DEF IInv, Typed, Answers
<1>11. Carried(e)'
  BY <1>4 DEF IInv, Typed, Carried, history
<1>12. Carried(o)'
  <2>1. /\ received'[o] = received[o] /\ arrived'[o] = arrived[o] /\ wire'[o] = wire[o]
        /\ socket'[o] = socket[o] /\ ended'[o] = ended[o] /\ reported' = reported
    BY <1>1, <1>4 DEF IInv, Typed, history
  <2>2. socket[o] => Sending(e)' = Sending(e)
    <3>1. CASE Stop(e)
      BY <1>4, <3>1 DEF Stop, Idle, Sending
    <3>2. CASE SigPipe(e)
      BY <3>2 DEF SigPipe, IInv, Closing, o
    <3> QED
      BY <3>1, <3>2
  <2> QED
    BY <1>1, <2>1, <2>2 DEF IInv, Carried
<1> QED
  BY <1>1, <1>7, <1>8, <1>9, <1>10, <1>11, <1>12 DEF IInv

\* A recv moves bytes from the buffer to those that were read.
LEMMA RecvKeeps ==
  ASSUME IInv, NEW e \in Ends, Recv(e)
  PROVE  IInv'
<1> DEFINE o == Other(e)
           asked == IF call[e] = "recvAll" /\ Chunk < want[e] THEN Chunk ELSE want[e]
           n == IF asked < Len(arrived[e]) THEN asked ELSE Len(arrived[e])
<1>1. o \in Ends /\ o # e /\ Other(o) = e /\ \A x \in Ends : x = e \/ x = o
  BY TwoEnds
<1>2. /\ received[e] \in Seq(Nat) /\ arrived[e] \in Seq(Nat) /\ wire[e] \in Seq(Nat)
      /\ Len(received[e]) \in Nat /\ Len(arrived[e]) \in Nat /\ Len(wire[e]) \in Nat
  BY DEF IInv, Typed
<1>3. want[e] \in Nat /\ Chunk \in Nat
  BY BoundsAssumption DEF IInv, Typed
<1>4. asked \in Nat
  BY <1>3
<1> HIDE DEF asked
<1>5. n \in 0..Len(arrived[e]) /\ n <= want[e]
  <2>1. n \in 0..Len(arrived[e]) /\ n <= asked
    BY <1>2, <1>4
  <2>2. asked <= want[e]
    BY <1>3 DEF asked
  <2> HIDE DEF n
  <2> QED
    BY <1>2, <1>3, <1>4, <2>1, <2>2
<1>6. /\ call[e] \in {"recv", "recvAll"} /\ arrived[e] # <<>>
      /\ received' = [received EXCEPT ![e] = @ \o SubSeq(arrived[e], 1, n)]
      /\ arrived' = [arrived EXCEPT ![e] = SubSeq(@, n + 1, Len(@))]
      /\ want' = [want EXCEPT ![e] = @ - n] \/ want' = [want EXCEPT ![e] = 0]
      /\ call' = call \/ call' = [call EXCEPT ![e] = "none"]
      /\ UNCHANGED <<wire, ending, ended, local, totalSent, answer, misled, reported>>
  BY DEF Recv, Receiving, Returns, asked
<1> DEFINE r == received[e] \o SubSeq(arrived[e], 1, n)
           a == SubSeq(arrived[e], n + 1, Len(arrived[e]))
<1> HIDE DEF o, n
<1>7. socket[e]
  BY <1>6 DEF IInv, Closing
<1>8. /\ Follows(received[e], 0) /\ Follows(arrived[e], Len(received[e]))
      /\ Follows(wire[e], Len(received[e]) + Len(arrived[e]))
  BY <1>7 DEF IInv, Carried
<1>9. /\ r \in Seq(Nat) /\ a \in Seq(Nat)
      /\ Len(r) = Len(received[e]) + n /\ Len(a) = Len(arrived[e]) - n
      /\ Follows(r, 0) /\ Follows(a, Len(received[e]) + n)
  <2>1. n \in 0..Len(arrived[e])
    BY <1>5
  <2>2. r = received[e] \o SubSeq(arrived[e], 1, n) /\ a = SubSeq(arrived[e], n + 1, Len(arrived[e]))
    OBVIOUS
  <2> HIDE DEF r, a
  <2> DEFINE R == received[e]
             A == arrived[e]
  <2>3. R \in Seq(Nat) /\ A \in Seq(Nat) /\ Follows(R, 0) /\ Follows(A, Len(R)) /\ n \in 0..Len(A)
    BY <1>2, <1>8, <2>1
  <2>4. r = R \o SubSeq(A, 1, n) /\ a = SubSeq(A, n + 1, Len(A))
    BY <2>2
  <2> HIDE DEF R, A
  <2>5. r \in Seq(Nat) /\ a \in Seq(Nat)
    BY <2>3, <2>4, PrefixMoves
  <2>6. Len(r) = Len(R) + n /\ Len(a) = Len(A) - n
    <3>1. Len(r) = Len(R) + n
      <4>1. SubSeq(A, 1, n) \in Seq(Nat) /\ Len(SubSeq(A, 1, n)) = n
        BY <2>3
      <4> DEFINE x == SubSeq(A, 1, n)
      <4> HIDE DEF x
      <4> QED
        BY <2>3, <2>4, <4>1, ConcatProperties DEF x
    <3>2. Len(a) = Len(A) - n
      BY <2>3, <2>4
    <3> QED
      BY <3>1, <3>2
  <2>7. Follows(r, 0) /\ Follows(a, Len(R) + n)
    BY <2>3, <2>4, PrefixMoves
  <2> QED
    BY <2>5, <2>6, <2>7 DEF R, A
<1>10. /\ received' = [received EXCEPT ![e] = r] /\ arrived' = [arrived EXCEPT ![e] = a]
  BY <1>6
<1> HIDE DEF r, a
<1>11. /\ received' \in [Ends -> Seq(Nat)] /\ received'[e] = r /\ received'[o] = received[o]
       /\ arrived' \in [Ends -> Seq(Nat)] /\ arrived'[e] = a /\ arrived'[o] = arrived[o]
  BY <1>1, <1>9, <1>10 DEF IInv, Typed
<1>12. want[e] - n \in Nat
  BY <1>2, <1>3, <1>5
<1>13. Typed'
  <2>1. want' \in [Ends -> Nat]
    <3>1. want \in [Ends -> Nat]
      BY DEF IInv, Typed
    <3>2. CASE want' = [want EXCEPT ![e] = @ - n]
      BY <1>12, <3>1, <3>2
    <3>3. CASE want' = [want EXCEPT ![e] = 0]
      BY <3>1, <3>3
    <3> QED
      BY <1>6, <3>2, <3>3
  <2>2. call' \in [Ends -> Calls]
    <3>1. call \in [Ends -> Calls] /\ "none" \in Calls
      BY DEF IInv, Typed, Calls
    <3>2. CASE call' = call
      BY <3>1, <3>2
    <3>3. CASE call' = [call EXCEPT ![e] = "none"]
      BY <3>1, <3>3
    <3> QED
      BY <1>6, <3>2, <3>3
  <2> QED
    BY <1>6, <1>11, <2>1, <2>2 DEF IInv, Typed, local
<1>14. Closing'
  BY <1>6, <1>7 DEF IInv, Typed, Closing, local
<1>15. NothingBehind'
  BY <1>6 DEF IInv, NothingBehind
<1>16. Answers'
  <2>1. ~(answer[e] = "ended" /\ ~misled[e])
    BY <1>6, <1>7 DEF IInv, Answers
  <2> QED
    BY <1>1, <1>6, <1>11, <2>1 DEF IInv, Answers, local
<1>17. \A x \in Ends : Sending(x)' = Sending(x)
  BY <1>6 DEF Sending, IInv, Typed
<1>18. Carried(e)'
  <2> DEFINE lr == Len(received[e])
             la == Len(arrived[e])
             lw == Len(wire[e])
  <2>1. lr \in Nat /\ la \in Nat /\ lw \in Nat /\ n \in Nat
    BY <1>2, <1>5
  <2>2. Len(r) = lr + n /\ Len(a) = la - n
    BY <1>9
  <2>3. ended[e] # "rst" => lr + la + lw = reported[o] + Sending(o)
    BY <1>7 DEF IInv, Carried, o
  <2>4. Follows(wire[e], lr + la) /\ Follows(a, lr + n)
    BY <1>8, <1>9
  <2> HIDE DEF lr, la, lw
  <2>5. (lr + n) + (la - n) = lr + la /\ (lr + n) + (la - n) + lw = lr + la + lw
    BY <2>1
  <2>6. /\ Follows(a, Len(r)) /\ Follows(wire[e], Len(r) + Len(a))
        /\ ended[e] # "rst" => Len(r) + Len(a) + Len(wire[e]) = reported[o] + Sending(o)
    BY <2>2, <2>3, <2>4, <2>5 DEF lw
  <2>7. /\ socket' = socket /\ wire' = wire /\ ended' = ended
        /\ reported' = reported /\ Sending(o)' = Sending(o)
    BY <1>1, <1>6, <1>17 DEF local
  <2> QED
    BY <1>9, <1>11, <2>6, <2>7 DEF Carried, o
<1>19. Carried(o)'
  BY <1>1, <1>6, <1>11, <1>17 DEF IInv, Carried, local
<1> QED
  BY <1>1, <1>13, <1>14, <1>15, <1>16, <1>18, <1>19 DEF IInv

\* A send puts the next bytes of its buffer behind those on the wire.
LEMMA SendKeeps ==
  ASSUME IInv, NEW e \in Ends, NEW n \in Nat, Send(e, n)
  PROVE  IInv'
<1> DEFINE o == Other(e)
           more == Taken(e, n)
<1>1. o \in Ends /\ o # e /\ Other(o) = e /\ \A x \in Ends : x = e \/ x = o
  BY TwoEnds
<1>2. /\ call[e] = "send" /\ ended[e] # "rst"
      /\ wire' = [wire EXCEPT ![o] = @ \o more]
      /\ \/ /\ totalSent[e] + n = want[e]
            /\ reported' = [reported EXCEPT ![e] = @ + want[e]]
            /\ call' = [call EXCEPT ![e] = "none"]
            /\ totalSent' = [totalSent EXCEPT ![e] = 0] /\ want' = [want EXCEPT ![e] = 0]
         \/ /\ totalSent' = [totalSent EXCEPT ![e] = @ + n]
            /\ UNCHANGED <<call, want, reported>>
      /\ UNCHANGED <<arrived, ending, ended, local, answer, misled, received>>
  BY DEF Send, Reports, Returns
<1>3. socket[e]
  BY <1>2 DEF IInv, Closing
<1>4. ended[o] = "none"
  BY <1>1, <1>3 DEF IInv, Closing
<1> HIDE DEF o
<1>5. /\ reported[e] \in Nat /\ totalSent[e] \in Nat /\ want[e] \in Nat
      /\ received[o] \in Seq(Nat) /\ arrived[o] \in Seq(Nat) /\ wire[o] \in Seq(Nat)
      /\ Len(received[o]) \in Nat /\ Len(arrived[o]) \in Nat /\ Len(wire[o]) \in Nat
  BY <1>1 DEF IInv, Typed
<1>6. more = [i \in 1..n |-> (reported[e] + totalSent[e]) + i]
  BY DEF Taken
<1>7. more \in Seq(Nat) /\ Len(more) = n
  <2>1. reported[e] + totalSent[e] \in Nat
    BY <1>5
  <2>2. more \in [1..n -> Nat]
    BY <1>6, <2>1
  <2> HIDE DEF more
  <2> QED
    BY <2>2
<1> HIDE DEF more
<1>8. wire[o] \o more \in Seq(Nat) /\ Len(wire[o] \o more) = Len(wire[o]) + n
  BY <1>5, <1>7, ConcatProperties, Zenon
<1>9. /\ wire' \in [Ends -> Seq(Nat)]
      /\ wire'[o] = wire[o] \o more /\ wire'[e] = wire[e]
  BY <1>1, <1>2, <1>8 DEF IInv, Typed
<1>10. /\ reported' \in [Ends -> Nat] /\ reported'[o] = reported[o]
       /\ totalSent' \in [Ends -> Nat] /\ Sending(o)' = Sending(o)
       /\ reported'[e] + Sending(e)' = reported[e] + totalSent[e] + n
  <2>1. /\ totalSent[e] + n \in Nat /\ reported[e] + want[e] \in Nat
        /\ totalSent[e] + n = want[e] => reported[e] + want[e] = reported[e] + totalSent[e] + n
        /\ reported[e] + (totalSent[e] + n) = reported[e] + totalSent[e] + n
        /\ reported[e] + want[e] + 0 = reported[e] + want[e]
    BY <1>5
  <2>2. totalSent' \in [Ends -> Nat] /\ totalSent'[o] = totalSent[o]
    <3>1. totalSent \in [Ends -> Nat]
      BY DEF IInv, Typed
    <3>2. CASE totalSent' = [totalSent EXCEPT ![e] = @ + n]
      BY <1>1, <2>1, <3>1, <3>2
    <3>3. CASE totalSent' = [totalSent EXCEPT ![e] = 0]
      BY <1>1, <3>1, <3>3
    <3> QED
      BY <1>2, <3>2, <3>3
  <2>3. CASE totalSent[e] + n = want[e] /\ reported' = [reported EXCEPT ![e] = @ + want[e]]
             /\ call' = [call EXCEPT ![e] = "none"]
    <3>1. /\ reported' \in [Ends -> Nat] /\ reported'[e] = reported[e] + want[e]
          /\ reported'[o] = reported[o] /\ call'[e] = "none" /\ call'[o] = call[o]
      BY <1>1, <2>1, <2>3 DEF IInv, Typed
    <3>2. Sending(e)' = 0 /\ Sending(o)' = Sending(o)
      BY <2>2, <3>1 DEF Sending
    <3> QED
      BY <2>1, <2>2, <2>3, <3>1, <3>2
  <2>4. CASE totalSent' = [totalSent EXCEPT ![e] = @ + n] /\ UNCHANGED <<call, want, reported>>
    <3>1. Sending(e)' = totalSent[e] + n /\ Sending(o)' = Sending(o)
      BY <1>1, <1>2, <2>2, <2>4 DEF Sending, IInv, Typed
    <3> QED
      BY <2>1, <2>2, <2>4, <3>1 DEF IInv, Typed
  <2> QED
    BY <1>2, <2>3, <2>4
<1>11. Typed'
  <2>1. call \in [Ends -> Calls] /\ want \in [Ends -> Nat] /\ "none" \in Calls
    BY DEF IInv, Typed, Calls
  <2>2. \/ UNCHANGED <<call, want>>
        \/ call' = [call EXCEPT ![e] = "none"] /\ want' = [want EXCEPT ![e] = 0]
    BY <1>2
  <2>3. call' \in [Ends -> Calls]
    BY <2>1, <2>2
  <2>4. want' \in [Ends -> Nat]
    BY <2>1, <2>2
  <2> QED
    BY <1>2, <1>9, <1>10, <2>3, <2>4 DEF IInv, Typed, local
<1>12. Closing'
  BY <1>2, <1>3 DEF IInv, Typed, Closing, local
<1>13. NothingBehind'
  BY <1>1, <1>2, <1>4, <1>9 DEF IInv, NothingBehind
<1>14. Answers'
  BY <1>2 DEF IInv, Answers, local
<1>15. Carried(e)'
  BY <1>1, <1>2, <1>9, <1>10 DEF IInv, Carried, local, o
<1>16. Carried(o)'
  <2>1. received' = received /\ arrived' = arrived /\ socket' = socket /\ ended' = ended
    BY <1>2 DEF local
  <2>2. Follows(received[o], 0)
    BY <1>1 DEF IInv, Carried
  <2>3. CASE ~socket[o]
    BY <2>1, <2>2, <2>3 DEF Carried
  <2>4. CASE socket[o]
    <3> DEFINE lr == Len(received[o])
               la == Len(arrived[o])
               lw == Len(wire[o])
    <3>1. /\ Follows(arrived[o], lr) /\ Follows(wire[o], lr + la)
          /\ lr + la + lw = reported[e] + totalSent[e]
      BY <1>1, <1>2, <1>4, <2>4 DEF IInv, Carried, Sending
    <3>2. more = [i \in 1..n |-> lr + la + lw + i]
      BY <1>6, <3>1
    <3>3. lr \in Nat /\ la \in Nat /\ lw \in Nat
      BY <1>5
    <3> HIDE DEF lr, la
    <3>4. lr + la \in Nat
      BY <3>3
    <3>5. Follows(wire[o] \o more, lr + la)
      BY <1>5, <3>1, <3>2, <3>4, NextFollow
    <3> HIDE DEF lw
    <3>6. lr + la + (lw + n) = reported[e] + totalSent[e] + n
      <4>1. lr + la + (lw + n) = lr + la + lw + n
        BY <3>3
      <4> QED
        BY <3>1, <4>1
    <3>7. lr + la + Len(wire[o] \o more) = reported'[e] + Sending(e)'
      BY <1>8, <1>10, <3>6 DEF lw
    <3>8. /\ Follows(received'[o], 0) /\ Follows(arrived'[o], Len(received'[o]))
          /\ Follows(wire'[o], Len(received'[o]) + Len(arrived'[o]))
          /\ Len(received'[o]) + Len(arrived'[o]) + Len(wire'[o]) = reported'[e] + Sending(e)'
      BY <1>9, <2>1, <2>2, <3>1, <3>5, <3>7 DEF lr, la
    <3> QED
      BY <1>1, <3>8 DEF Carried
  <2> QED
    BY <2>3, <2>4
<1> QED
  BY <1>1, <1>11, <1>12, <1>13, <1>14, <1>15, <1>16 DEF IInv

\* A send that fails or is interrupted reports what was sent before it.
LEMMA SendFailsKeeps ==
  ASSUME IInv, NEW e \in Ends, SendFails(e) \/ SendInterrupted(e) \/ SendWouldBlock(e)
  PROVE  IInv'
<1>1. /\ call[e] = "send"
      /\ reported' = [reported EXCEPT ![e] = @ + totalSent[e]]
      /\ call' = [call EXCEPT ![e] = "none"]
      /\ totalSent' = [totalSent EXCEPT ![e] = 0] /\ want' = [want EXCEPT ![e] = 0]
      /\ UNCHANGED <<kernel, local, answer, misled, received>>
  BY DEF SendFails, SendInterrupted, SendWouldBlock, Reports, Returns
<1>2. /\ reported[e] \in Nat /\ totalSent[e] \in Nat /\ reported[e] + totalSent[e] \in Nat
      /\ reported[e] + totalSent[e] + 0 = reported[e] + totalSent[e]
  BY DEF IInv, Typed
<1>3. Typed'
  <2>1. /\ reported' \in [Ends -> Nat] /\ call' \in [Ends -> Calls]
        /\ totalSent' \in [Ends -> Nat] /\ want' \in [Ends -> Nat]
    BY <1>1, <1>2 DEF IInv, Typed, Calls
  <2> QED
    BY <1>1, <2>1 DEF IInv, Typed, kernel, local
<1>4. Closing'
  BY <1>1 DEF IInv, Typed, Closing, kernel, local
<1>5. NothingBehind'
  BY <1>1 DEF IInv, NothingBehind, kernel
<1>6. Answers'
  BY <1>1 DEF IInv, Answers, kernel, local
<1>7. \A x \in Ends : reported'[x] + Sending(x)' = reported[x] + Sending(x)
  <2>1. reported'[e] = reported[e] + totalSent[e] /\ Sending(e)' = 0
    BY <1>1 DEF IInv, Typed, Sending
  <2>2. Sending(e) = totalSent[e]
    BY <1>1 DEF Sending
  <2>3. \A x \in Ends \ {e} : reported'[x] = reported[x] /\ Sending(x)' = Sending(x)
    BY <1>1 DEF IInv, Typed, Sending
  <2> QED
    BY <1>2, <2>1, <2>2, <2>3
<1>8. ASSUME NEW x \in Ends PROVE Carried(x)'
  <2>1. Other(x) \in Ends
    BY TwoEnds
  <2>2. reported'[Other(x)] + Sending(Other(x))' = reported[Other(x)] + Sending(Other(x))
    BY <1>7, <2>1
  <2> QED
    BY <1>1, <2>2 DEF IInv, Carried, kernel, local
<1> QED
  BY <1>3, <1>4, <1>5, <1>6, <1>8 DEF IInv

\* The invariant holds at the beginning.
LEMMA InitIInv == Init => IInv
<1> SUFFICES ASSUME Init PROVE IInv
  OBVIOUS
<1>1. <<>> \in Seq(Nat) /\ Len(<<>>) = 0 /\ \A k : Follows(<<>>, k)
  BY DEF Follows
<1>2. Typed
  BY <1>1 DEF Init, Typed, Calls
<1>3. Closing /\ NothingBehind /\ Answers
  BY TwoEnds DEF Init, Closing, NothingBehind, Answers
<1>4. ASSUME NEW e \in Ends PROVE Carried(e)
  <2>1. Other(e) \in Ends
    BY TwoEnds
  <2>2. /\ received[e] = <<>> /\ arrived[e] = <<>> /\ wire[e] = <<>>
        /\ reported[Other(e)] = 0 /\ Sending(Other(e)) = 0
    BY <2>1 DEF Init, Sending
  <2> QED
    BY <1>1, <2>2 DEF Carried
<1> QED
  BY <1>2, <1>3, <1>4 DEF IInv

\* Every step keeps it.
LEMMA StepIInv == IInv /\ [Next]_vars => IInv'
<1> SUFFICES ASSUME IInv, [Next]_vars PROVE IInv'
  OBVIOUS
<1>1. ASSUME NEW size \in 1..MaxSize PROVE size \in Nat
  BY BoundsAssumption
<1>2. ASSUME NEW e \in Ends, Deliver(e) PROVE IInv'
  BY <1>2, DeliverKeeps
<1>3. ASSUME NEW e \in Ends, DeliverFin(e) \/ DeliverReset(e) PROVE IInv'
  BY <1>3, EndKeeps
<1>4. ASSUME NEW e \in Ends, Stop(e) \/ SigPipe(e) PROVE IInv'
  BY <1>4, CloseKeeps
<1>5. ASSUME NEW e \in Ends,
             \/ \E on \in BOOLEAN : SetTimeout(e, on)
             \/ Available(e) \/ Connected(e)
             \/ QueryPendingBytes(e) \/ Select(e) \/ ProbeByte(e)
             \/ RecvNothing(e) \/ RecvInterrupted(e) \/ RecvWouldBlock(e)
      PROVE  IInv'
  BY <1>5, AskingKeeps
<1>6. ASSUME NEW e \in Ends, NEW size \in 1..MaxSize,
             Read(e, size) \/ ReadAsVector(e, size) \/ Write(e, size)
      PROVE  IInv'
  <2>1. PICK next \in {"recv", "recvAll", "send"} : Begin(e, next, size)
    BY <1>6 DEF Read, ReadAsVector, Write
  <2> QED
    BY <1>1, <2>1, BeginKeeps
<1>7. ASSUME NEW e \in Ends, Recv(e) PROVE IInv'
  BY <1>7, RecvKeeps
<1>8. ASSUME NEW e \in Ends, NEW n \in 1..MaxSize, Send(e, n) PROVE IInv'
  BY <1>1, <1>8, SendKeeps
<1>9. ASSUME NEW e \in Ends, SendFails(e) \/ SendInterrupted(e) \/ SendWouldBlock(e) PROVE IInv'
  BY <1>9, SendFailsKeeps
<1>10. CASE UNCHANGED vars
  <2>1. \A e \in Ends : Sending(e)' = Sending(e)
    BY <1>10 DEF Sending, vars
  <2>2. (\A e \in Ends : Carried(e)') /\ NothingBehind'
    BY <1>10, <2>1, QuietKeepsCarried DEF vars, local
  <2> QED
    BY <1>10, <2>2 DEF IInv, Typed, Closing, Answers, vars, kernel, local, history
<1>11. ASSUME NEW e \in Ends, DiscardArrived(e) PROVE IInv'
  BY <1>11, DiscardKeeps
<1> QED
  BY <1>2, <1>3, <1>4, <1>5, <1>6, <1>7, <1>8, <1>9, <1>10, <1>11 DEF Next

\* So the invariant always holds.
LEMMA Invariant == Spec => []IInv
<1>1. Init => IInv
  BY InitIInv
<1>2. IInv /\ [Next]_vars => IInv'
  BY StepIInv
<1> QED
  BY <1>1, <1>2, PTL DEF Spec

-----------------------------------------------------------------------------
(* The theorems.                                                           *)

\* What an end has got or can still get, byte for byte, and how many that are.
LEMMA StreamCount ==
  ASSUME IInv, NEW e \in Ends
  PROVE  /\ Stream(e) = [i \in 1..Len(Stream(e)) |-> i]
         /\ Len(Stream(e)) = Len(received[e])
              + IF socket[e] THEN Len(arrived[e]) + Len(wire[e]) ELSE 0
<1>1. /\ received[e] \in Seq(Nat) /\ arrived[e] \in Seq(Nat) /\ wire[e] \in Seq(Nat)
      /\ Len(received[e]) \in Nat /\ Len(arrived[e]) \in Nat /\ Len(wire[e]) \in Nat
  BY DEF IInv, Typed
<1>2. Follows(received[e], 0)
  BY DEF IInv, Carried
<1>3. CASE socket[e]
  <2>1. /\ Follows(arrived[e], Len(received[e]))
        /\ Follows(wire[e], Len(received[e]) + Len(arrived[e]))
    BY <1>3 DEF IInv, Carried
  <2> DEFINE r == received[e]
             a == arrived[e]
             w == wire[e]
             s == Stream(e)
  <2>2. s = r \o (a \o w)
    BY <1>3 DEF Stream
  <2>3. /\ s = [i \in 1..Len(s) |-> i]
        /\ Len(s) = Len(r) + Len(a) + Len(w)
    <3>1. /\ r \in Seq(Nat) /\ a \in Seq(Nat) /\ w \in Seq(Nat)
          /\ Follows(r, 0) /\ Follows(a, Len(r)) /\ Follows(w, Len(r) + Len(a))
      BY <1>1, <1>2, <2>1
    <3> HIDE DEF r, a, w, s
    <3>2. s \in Seq(Nat) /\ Follows(s, 0)
      BY <2>2, <3>1, FollowingCount
    <3>3. Len(s) = Len(r) + Len(a) + Len(w)
      BY <2>2, <3>1, FollowingCount
    <3>4. s = [i \in 1..Len(s) |-> i]
      BY <3>2, CountingFromOne
    <3> QED
      BY <3>3, <3>4
  <2>4. Len(received[e]) + Len(arrived[e]) + Len(wire[e])
          = Len(received[e]) + (Len(arrived[e]) + Len(wire[e]))
    BY <1>1, SumsAssociate
  <2> QED
    BY <1>3, <2>3, <2>4
<1>4. CASE ~socket[e]
  <2>1. Stream(e) = received[e]
    BY <1>1, <1>4, ConcatEmptySeq DEF Stream
  <2>2. received[e] = [i \in 1..Len(received[e]) |-> i]
    BY <1>1, <1>2, CountingFromOne
  <2>3. Len(received[e]) = Len(received[e]) + 0
    BY <1>1
  <2> QED
    BY <1>4, <2>1, <2>2, <2>3
<1> QED
  BY <1>3, <1>4

\* A program that writes on from what its writes reported sends every byte once
\* and in order: for any budgets, window and sizes, however the sends are cut.
THEOREM BytesContiguous == Spec => []Contiguous
<1>1. IInv => Contiguous
  BY StreamCount DEF Contiguous
<1> QED
  BY <1>1, Invariant, PTL

\* No write reports a byte that was not sent, nor leaves one out that was, while
\* the receiver's socket is open and was not reset.
THEOREM WritesHonest == Spec => []HonestWrites
<1>1. ASSUME IInv, NEW e \in Ends, socket[e], ended[e] # "rst"
      PROVE  Len(Stream(e)) = reported[Other(e)] + Sending(Other(e))
  <2>1. Len(received[e]) + Len(arrived[e]) + Len(wire[e])
          = reported[Other(e)] + Sending(Other(e))
    BY <1>1 DEF IInv, Carried
  <2>2. Len(Stream(e)) = Len(received[e]) + (Len(arrived[e]) + Len(wire[e]))
    BY <1>1, StreamCount
  <2>3. Len(received[e]) \in Nat /\ Len(arrived[e]) \in Nat /\ Len(wire[e]) \in Nat
    BY <1>1 DEF IInv, Typed
  <2>4. Len(Stream(e)) = Len(received[e]) + Len(arrived[e]) + Len(wire[e])
    BY <2>2, <2>3, SumsAssociate
  <2> QED
    BY <2>1, <2>4
<1>2. IInv => HonestWrites
  BY <1>1 DEF HonestWrites, Sending
<1> QED
  BY <1>2, Invariant, PTL

\* An end that available or connected reported is one, and behind an orderly end
\* all that the other end's writes reported has been read.
THEOREM EndsTrue == Spec => []EndedMeansEnd
<1>1. ASSUME IInv, NEW e \in Ends, answer[e] = "ended", ~misled[e], socket[e]
      PROVE  /\ ended[e] # "none" /\ arrived[e] = <<>>
             /\ ended[e] = "fin" => Len(received[e]) = reported[Other(e)]
  <2>1. ended[e] # "none" /\ arrived[e] = <<>>
    BY <1>1 DEF IInv, Answers
  <2>2. ASSUME ended[e] = "fin" PROVE Len(received[e]) = reported[Other(e)]
    <3>1. Other(e) \in Ends /\ ~socket[Other(e)]
      BY <1>1, <2>1, TwoEnds DEF IInv, Closing
    <3>2. wire[e] = <<>> /\ Sending(Other(e)) = 0
      BY <1>1, <2>1, <3>1 DEF IInv, NothingBehind, Closing, Sending
    <3>3. Len(received[e]) \in Nat /\ reported[Other(e)] \in Nat /\ Len(<<>>) = 0
      BY <1>1, <3>1 DEF IInv, Typed
    <3>4. Len(received[e]) + Len(arrived[e]) + Len(wire[e])
            = reported[Other(e)] + Sending(Other(e))
      BY <1>1, <2>2 DEF IInv, Carried
    <3>5. Len(received[e]) + 0 + 0 = reported[Other(e)] + 0
      BY <2>1, <3>2, <3>3, <3>4
    <3> QED
      BY <3>3, <3>5
  <2> QED
    BY <2>1, <2>2
<1>2. IInv => EndedMeansEnd
  BY <1>1 DEF EndedMeansEnd
<1> QED
  BY <1>2, Invariant, PTL

-----------------------------------------------------------------------------
(* The probe.                                                              *)

\* No step takes away what a probe was told of: a byte that is there, or an end.
LEMMA ReadableStays ==
  ASSUME IInv, NEW x \in Ends, call[x] = "peek", Readable(x), [Next]_vars
  PROVE  call'[x] = "peek" => Readable(x)'
<1>1. call \in [Ends -> Calls] /\ arrived \in [Ends -> Seq(Nat)]
      /\ ended \in [Ends -> {"none", "fin", "rst"}]
  BY DEF IInv, Typed
<1>2. ASSUME UNCHANGED <<arrived, ended>> PROVE Readable(x)'
  BY <1>2 DEF Readable
<1>3. ASSUME NEW e \in Ends, Deliver(e) PROVE Readable(x)'
  <2>1. ended' = ended /\ (arrived' = arrived \/ arrived' = [arrived EXCEPT ![e] = Append(@, Head(wire[e]))])
    BY <1>3 DEF Deliver
  <2>2. Append(arrived[e], Head(wire[e])) # <<>>
    <3>1. Head(wire[e]) \in Nat /\ arrived[e] \in Seq(Nat)
      <4>1. wire[e] \in Seq(Nat) /\ wire[e] # <<>>
        BY <1>3 DEF IInv, Typed, Deliver
      <4> QED
        BY <1>1, <4>1
    <3> QED
      BY <3>1
  <2>3. arrived'[x] = arrived[x] \/ arrived'[x] = Append(arrived[e], Head(wire[e]))
    BY <1>1, <2>1
  <2> QED
    BY <2>1, <2>2, <2>3 DEF Readable
<1>4. ASSUME NEW e \in Ends, DeliverFin(e) \/ DeliverReset(e) PROVE Readable(x)'
  <2>1. PICK last \in {"fin", "rst"} : ended' = [ended EXCEPT ![e] = last] /\ arrived' = arrived
    BY <1>4 DEF DeliverFin, DeliverReset
  <2> QED
    BY <1>1, <2>1 DEF Readable
<1>5. ASSUME NEW e \in Ends, DiscardArrived(e) PROVE Readable(x)'
  BY <1>1, <1>5 DEF DiscardArrived, Readable
<1>6. ASSUME NEW e \in Ends, e # x, KernelClose(e), ended' = ended PROVE Readable(x)'
  BY <1>1, <1>6 DEF KernelClose, Readable
<1>7. ASSUME NEW e \in Ends, Stop(e) PROVE Readable(x)'
  <2>1. call[e] = "none" /\ KernelClose(e) /\ ended' = ended
    BY <1>7 DEF Stop, Idle
  <2> QED
    BY <1>6, <2>1
<1>8. ASSUME NEW e \in Ends, SigPipe(e) PROVE Readable(x)'
  <2>1. call[e] = "send" /\ KernelClose(e) /\ ended' = ended
    BY <1>8 DEF SigPipe
  <2> QED
    BY <1>6, <2>1
<1>9. ASSUME NEW e \in Ends, Recv(e) PROVE Readable(x)'
  <2>1. e # x /\ ended' = ended
        /\ \E rest : arrived' = [arrived EXCEPT ![e] = rest]
    BY <1>9 DEF Recv, Receiving
  <2> QED
    BY <1>1, <2>1 DEF Readable
<1>10. ASSUME NEW e \in Ends,
              \/ \E on \in BOOLEAN : SetTimeout(e, on)
              \/ Available(e) \/ Connected(e)
              \/ QueryPendingBytes(e) \/ Select(e) \/ ProbeByte(e)
              \/ \E size \in 1..MaxSize : Read(e, size) \/ ReadAsVector(e, size) \/ Write(e, size)
              \/ RecvNothing(e) \/ RecvInterrupted(e) \/ RecvWouldBlock(e)
              \/ \E n \in 1..MaxSize : Send(e, n)
              \/ SendFails(e) \/ SendInterrupted(e) \/ SendWouldBlock(e)
       PROVE  Readable(x)'
  <2>1. UNCHANGED <<arrived, ended>>
    BY <1>10 DEF SetTimeout, Available, Connected, QueryPendingBytes, Select, ProbeByte,
                 Read, ReadAsVector, Write, Begin, RecvNothing, RecvInterrupted, RecvWouldBlock,
                 ReturnsNothing, Send, SendFails, SendInterrupted, SendWouldBlock, Answered, Goes,
                 kernel
  <2> QED
    BY <1>2, <2>1
<1>11. CASE UNCHANGED vars
  BY <1>2, <1>11 DEF vars, kernel
<1> QED
  BY <1>3, <1>4, <1>5, <1>7, <1>8, <1>9, <1>10, <1>11 DEF Next

\* Only a select that finds something is followed by a probe.
LEMMA ProbeBegins ==
  ASSUME IInv, NEW x \in Ends, call[x] # "peek", call'[x] = "peek", [Next]_vars
  PROVE  Readable(x)'
<1>1. call \in [Ends -> Calls]
  BY DEF IInv, Typed
<1>2. ASSUME NEW e \in Ends, Select(e) PROVE Readable(x)'
  <2>1. PICK next \in Calls : call' = [call EXCEPT ![e] = next]
    BY <1>2 DEF Select, Goes, Answered, Calls
  <2>2. e = x
    BY <1>1, <2>1
  <2>3. CASE Readable(e) /\ Goes(e, "peek")
    BY <2>2, <2>3 DEF Goes, Readable, kernel
  <2>4. CASE \E a : \E m : Answered(e, a, m)
    BY <1>1, <2>2, <2>4 DEF Answered
  <2> QED
    BY <1>2, <2>3, <2>4 DEF Select
<1>3. ASSUME NEW e \in Ends, NEW next \in Calls \ {"peek"}, call' = [call EXCEPT ![e] = next]
      PROVE  FALSE
  BY <1>1, <1>3
<1>4. ASSUME NEW e \in Ends,
             \/ Available(e) \/ Connected(e) \/ QueryPendingBytes(e) \/ ProbeByte(e)
             \/ \E size \in 1..MaxSize : Read(e, size) \/ ReadAsVector(e, size) \/ Write(e, size)
             \/ RecvNothing(e) \/ RecvInterrupted(e) \/ RecvWouldBlock(e)
             \/ SendFails(e) \/ SendInterrupted(e) \/ SendWouldBlock(e) \/ SigPipe(e)
      PROVE  Readable(x)'
  <2>1. \E next \in Calls \ {"peek"} : call' = [call EXCEPT ![e] = next]
    BY <1>4 DEF Available, Connected, QueryPendingBytes, ProbeByte, Read, ReadAsVector, Write,
                Begin, RecvNothing, RecvInterrupted, RecvWouldBlock, ReturnsNothing, Returns,
                SendFails, SendInterrupted, SendWouldBlock, Reports, SigPipe, Answered, Goes, Calls
  <2> QED
    BY <1>3, <2>1
<1>5. ASSUME NEW e \in Ends, Recv(e) \/ \E n \in 1..MaxSize : Send(e, n)
      PROVE  Readable(x)'
  <2>1. call' = call \/ call' = [call EXCEPT ![e] = "none"]
    BY <1>5 DEF Recv, Send, Reports, Returns
  <2> QED
    BY <1>3, <2>1 DEF Calls
<1>6. ASSUME NEW e \in Ends,
             \/ Deliver(e) \/ DeliverFin(e) \/ DeliverReset(e) \/ DiscardArrived(e) \/ Stop(e)
             \/ \E on \in BOOLEAN : SetTimeout(e, on)
      PROVE  Readable(x)'
  BY <1>6 DEF Deliver, DeliverFin, DeliverReset, DiscardArrived, Stop, SetTimeout
<1>7. CASE UNCHANGED vars
  BY <1>7 DEF vars
<1> QED
  BY <1>2, <1>4, <1>5, <1>6, <1>7 DEF Next

\* The recv with which connected probes a blocking socket finds a byte or an end,
\* whatever arrived, was reset or discarded between its select and the recv.
THEOREM ProbeFindsSomething == Spec => []ProbeDoesNotBlock
<1>1. Init => ProbeDoesNotBlock
  BY DEF Init, ProbeDoesNotBlock
<1>2. ASSUME IInv, ProbeDoesNotBlock, [Next]_vars PROVE ProbeDoesNotBlock'
  <2>1. ASSUME NEW x \in Ends, call'[x] = "peek" PROVE Readable(x)'
    <3>1. CASE call[x] = "peek"
      BY <1>2, <2>1, <3>1, ReadableStays DEF ProbeDoesNotBlock
    <3>2. CASE call[x] # "peek"
      BY <1>2, <2>1, <3>2, ProbeBegins
    <3> QED
      BY <3>1, <3>2
  <2> QED
    BY <2>1 DEF ProbeDoesNotBlock
<1> QED
  BY <1>1, <1>2, Invariant, PTL DEF Spec

-----------------------------------------------------------------------------
(* The types: every byte is one of those that the other end may write.     *)

\* A write in progress goes no further than the budget, with what it has sent
\* and with what it was given.
WithinBudget ==
  \A e \in Ends :
    /\ reported[e] <= Budget[e]
    /\ call[e] = "send" => totalSent[e] <= want[e] /\ reported[e] + want[e] <= Budget[e]

BytesOfBudget ==
  \A e \in Ends : /\ wire[e] \in Seq(1..Budget[Other(e)])
                  /\ arrived[e] \in Seq(1..Budget[Other(e)])
                  /\ received[e] \in Seq(1..Budget[Other(e)])

\* What is neither a write nor reports one leaves the budget alone.
LEMMA QuietKeepsBudget ==
  ASSUME WithinBudget, NEW e \in Ends, UNCHANGED reported,
         \A x \in Ends : \/ call'[x] # "send"
                         \/ UNCHANGED <<call[x], totalSent[x], want[x]>>
  PROVE  WithinBudget'
  BY DEF WithinBudget

\* A step of an end leaves the other's locals alone.
LEMMA BudgetKeeps ==
  ASSUME IInv, WithinBudget, [Next]_vars
  PROVE  WithinBudget'
<1>1. /\ call \in [Ends -> Calls] /\ want \in [Ends -> Nat] /\ totalSent \in [Ends -> Nat]
      /\ reported \in [Ends -> Nat] /\ Budget \in [Ends -> Nat]
  BY BudgetAssumption DEF IInv, Typed
<1>2. ASSUME NEW e \in Ends, UNCHANGED <<reported, totalSent, want>>,
             NEW next \in Calls \ {"send"}, call' = call \/ call' = [call EXCEPT ![e] = next]
      PROVE  WithinBudget'
  <2>1. \A x \in Ends : call'[x] # "send" \/ call'[x] = call[x]
    BY <1>1, <1>2
  <2> QED
    BY <1>2, <2>1, QuietKeepsBudget
<1>3. ASSUME NEW e \in Ends,
             \/ Deliver(e) \/ DeliverFin(e) \/ DeliverReset(e) \/ DiscardArrived(e) \/ Stop(e)
             \/ \E on \in BOOLEAN : SetTimeout(e, on)
             \/ Available(e) \/ Connected(e) \/ QueryPendingBytes(e) \/ Select(e) \/ ProbeByte(e)
             \/ SigPipe(e)
      PROVE  WithinBudget'
  <2>1. /\ UNCHANGED <<reported, totalSent, want>>
        /\ \E next \in Calls \ {"send"} : call' = call \/ call' = [call EXCEPT ![e] = next]
    BY <1>3 DEF Deliver, DeliverFin, DeliverReset, DiscardArrived, Stop, SetTimeout, Available,
                Connected, QueryPendingBytes, Select, ProbeByte, SigPipe, Answered, Goes, Calls,
                history
  <2> QED
    BY <1>2, <2>1
<1>4. ASSUME NEW e \in Ends, UNCHANGED <<reported, totalSent>>, call'[e] # "send",
             NEW rest, want' = [want EXCEPT ![e] = rest],
             NEW next, call' = [call EXCEPT ![e] = next]
      PROVE  WithinBudget'
  <2>1. \A x \in Ends : \/ call'[x] # "send"
                        \/ UNCHANGED <<call[x], totalSent[x], want[x]>>
    BY <1>1, <1>4
  <2> QED
    BY <1>4, <2>1, QuietKeepsBudget
<1>5. ASSUME NEW e \in Ends, RecvNothing(e) \/ RecvInterrupted(e) \/ RecvWouldBlock(e)
      PROVE  WithinBudget'
  <2>1. /\ UNCHANGED <<reported, totalSent>>
        /\ want' = [want EXCEPT ![e] = 0] /\ call' = [call EXCEPT ![e] = "none"]
    BY <1>5 DEF RecvNothing, RecvInterrupted, RecvWouldBlock, ReturnsNothing, Returns, history
  <2> QED
    BY <1>1, <1>4, <2>1
<1>6. ASSUME NEW e \in Ends, Recv(e) PROVE WithinBudget'
  <2>1. /\ UNCHANGED <<reported, totalSent>> /\ call[e] \in {"recv", "recvAll"}
        /\ \E rest : want' = [want EXCEPT ![e] = rest]
        /\ call' = call \/ call' = [call EXCEPT ![e] = "none"]
    BY <1>6 DEF Recv, Receiving, Returns
  <2>2. \E next : call' = [call EXCEPT ![e] = next]
    <3>1. call = [call EXCEPT ![e] = call[e]]
      BY <1>1
    <3> QED
      BY <2>1, <3>1
  <2>3. call'[e] # "send"
    BY <1>1, <2>1
  <2> QED
    BY <1>4, <2>1, <2>2, <2>3
<1>7. ASSUME NEW e \in Ends, NEW size \in 1..MaxSize,
             Read(e, size) \/ ReadAsVector(e, size)
      PROVE  WithinBudget'
  <2>1. PICK next \in {"recv", "recvAll"} : Begin(e, next, size)
    BY <1>7 DEF Read, ReadAsVector
  <2>2. \A x \in Ends : \/ call'[x] # "send"
                        \/ UNCHANGED <<call[x], totalSent[x], want[x]>>
    BY <1>1, <2>1 DEF Begin
  <2> QED
    BY <2>1, <2>2, QuietKeepsBudget DEF Begin, history
<1>8. ASSUME NEW e \in Ends, NEW size \in 1..MaxSize, Write(e, size) PROVE WithinBudget'
  <2>1. /\ reported[e] + size <= Budget[e] /\ UNCHANGED reported
        /\ call' = [call EXCEPT ![e] = "send"] /\ want' = [want EXCEPT ![e] = size]
        /\ totalSent' = [totalSent EXCEPT ![e] = 0]
    BY <1>8 DEF Write, Begin, history
  <2>2. size \in Nat /\ 0 <= size
    BY BoundsAssumption
  <2>3. /\ want'[e] = size /\ totalSent'[e] = 0
        /\ \A x \in Ends \ {e} : call'[x] = call[x] /\ want'[x] = want[x] /\ totalSent'[x] = totalSent[x]
    BY <1>1, <2>1
  <2> QED
    BY <2>1, <2>2, <2>3 DEF WithinBudget
<1>9. ASSUME NEW e \in Ends, NEW n \in 1..MaxSize, Send(e, n) PROVE WithinBudget'
  <2>1. /\ call[e] = "send" /\ totalSent[e] + n <= want[e]
        /\ \/ /\ reported' = [reported EXCEPT ![e] = @ + want[e]]
              /\ call' = [call EXCEPT ![e] = "none"]
              /\ totalSent' = [totalSent EXCEPT ![e] = 0] /\ want' = [want EXCEPT ![e] = 0]
           \/ totalSent' = [totalSent EXCEPT ![e] = @ + n] /\ UNCHANGED <<call, want, reported>>
    BY <1>9 DEF Send, Reports, Returns
  <2>2. totalSent[e] <= want[e] /\ reported[e] + want[e] <= Budget[e] /\ reported[e] <= Budget[e]
    BY <2>1 DEF WithinBudget
  <2>3. CASE /\ reported' = [reported EXCEPT ![e] = @ + want[e]]
             /\ call' = [call EXCEPT ![e] = "none"]
             /\ totalSent' = [totalSent EXCEPT ![e] = 0] /\ want' = [want EXCEPT ![e] = 0]
    <3>1. reported'[e] = reported[e] + want[e] /\ call'[e] = "none"
      BY <1>1, <2>3
    <3>2. \A x \in Ends \ {e} : /\ reported'[x] = reported[x] /\ call'[x] = call[x]
                                /\ want'[x] = want[x] /\ totalSent'[x] = totalSent[x]
      BY <1>1, <2>3
    <3> QED
      BY <2>2, <3>1, <3>2 DEF WithinBudget
  <2>4. CASE totalSent' = [totalSent EXCEPT ![e] = @ + n] /\ UNCHANGED <<call, want, reported>>
    <3>1. totalSent'[e] = totalSent[e] + n
          /\ \A x \in Ends \ {e} : totalSent'[x] = totalSent[x]
      BY <1>1, <2>4
    <3> QED
      BY <2>1, <2>4, <3>1 DEF WithinBudget
  <2> QED
    BY <2>1, <2>3, <2>4
<1>10. ASSUME NEW e \in Ends, SendFails(e) \/ SendInterrupted(e) \/ SendWouldBlock(e)
       PROVE  WithinBudget'
  <2>1. /\ call[e] = "send"
        /\ reported' = [reported EXCEPT ![e] = @ + totalSent[e]]
        /\ call' = [call EXCEPT ![e] = "none"]
        /\ totalSent' = [totalSent EXCEPT ![e] = 0] /\ want' = [want EXCEPT ![e] = 0]
    BY <1>10 DEF SendFails, SendInterrupted, SendWouldBlock, Reports, Returns
  <2>2. totalSent[e] <= want[e] /\ reported[e] + want[e] <= Budget[e]
    BY <2>1 DEF WithinBudget
  <2>3. reported'[e] = reported[e] + totalSent[e] /\ call'[e] = "none"
    BY <1>1, <2>1
  <2>4. reported'[e] <= Budget[e]
    BY <1>1, <2>2, <2>3
  <2>5. \A x \in Ends \ {e} : /\ reported'[x] = reported[x] /\ call'[x] = call[x]
                              /\ want'[x] = want[x] /\ totalSent'[x] = totalSent[x]
    BY <1>1, <2>1
  <2> QED
    BY <2>3, <2>4, <2>5 DEF WithinBudget
<1>11. CASE UNCHANGED vars
  BY <1>11 DEF vars, history, WithinBudget
<1> QED
  BY <1>3, <1>5, <1>6, <1>7, <1>8, <1>9, <1>10, <1>11 DEF Next

\* The bytes that a send takes are some of those that the write was given.
LEMMA TakenOfBudget ==
  ASSUME IInv, WithinBudget, NEW e \in Ends, call[e] = "send",
         NEW n \in Nat, totalSent[e] + n <= want[e]
  PROVE  Taken(e, n) \in Seq(1..Budget[e])
<1>1. /\ reported[e] \in Nat /\ totalSent[e] \in Nat /\ want[e] \in Nat /\ Budget[e] \in Nat
      /\ reported[e] + want[e] <= Budget[e]
  BY BudgetAssumption DEF IInv, Typed, WithinBudget
<1>2. \A i \in 1..n : reported[e] + totalSent[e] + i \in 1..Budget[e]
  BY <1>1
<1> DEFINE S == 1..Budget[e]
           more == Taken(e, n)
<1>3. more \in [1..n -> S]
  BY <1>2 DEF Taken
<1> HIDE DEF S, more
<1>4. more \in Seq(S)
  BY <1>3
<1> QED
  BY <1>4 DEF S, more

\* Every step moves bytes between the sequences of one end, drops some, or puts
\* those that a send takes on the way.
LEMMA BytesKeep ==
  ASSUME IInv, WithinBudget, BytesOfBudget, [Next]_vars
  PROVE  BytesOfBudget'
<1>1. /\ wire \in [Ends -> Seq(Nat)] /\ arrived \in [Ends -> Seq(Nat)]
      /\ received \in [Ends -> Seq(Nat)]
  BY DEF IInv, Typed
<1>2. ASSUME UNCHANGED <<wire, arrived, received>> PROVE BytesOfBudget'
  BY <1>2 DEF BytesOfBudget
<1>3. ASSUME NEW e \in Ends, UNCHANGED <<wire, received>>, arrived' = [arrived EXCEPT ![e] = <<>>]
      PROVE  BytesOfBudget'
  <2>1. \A x \in Ends : <<>> \in Seq(1..Budget[Other(x)])
    OBVIOUS
  <2>2. \A x \in Ends : arrived'[x] = arrived[x] \/ arrived'[x] = <<>>
    BY <1>1, <1>3
  <2> QED
    BY <1>3, <2>1, <2>2 DEF BytesOfBudget
<1>4. ASSUME NEW e \in Ends, Deliver(e) PROVE BytesOfBudget'
  <2> DEFINE S == 1..Budget[Other(e)]
  <2>1. wire[e] \in Seq(S) /\ wire[e] # <<>> /\ arrived[e] \in Seq(S)
    BY <1>4 DEF BytesOfBudget, Deliver
  <2> HIDE DEF S
  <2>2. Tail(wire[e]) \in Seq(S) /\ Append(arrived[e], Head(wire[e])) \in Seq(S)
    <3>1. Head(wire[e]) \in S /\ Tail(wire[e]) \in Seq(S)
      BY <2>1, HeadTailProperties, Zenon
    <3> QED
      BY <2>1, <3>1
  <2>3. /\ wire' = [wire EXCEPT ![e] = Tail(wire[e])] /\ received' = received
        /\ \/ arrived' = arrived
           \/ arrived' = [arrived EXCEPT ![e] = Append(arrived[e], Head(wire[e]))]
    BY <1>4 DEF Deliver, history
  <2>4. wire'[e] \in Seq(S) /\ arrived'[e] \in Seq(S)
    BY <1>1, <2>1, <2>2, <2>3
  <2>5. \A x \in Ends \ {e} : wire'[x] = wire[x] /\ arrived'[x] = arrived[x]
    BY <1>1, <2>3
  <2> QED
    BY <2>3, <2>4, <2>5 DEF BytesOfBudget, S
<1>5. ASSUME NEW e \in Ends, DeliverReset(e) PROVE BytesOfBudget'
  BY <1>5 DEF DeliverReset, history, BytesOfBudget
<1>6. ASSUME NEW e \in Ends, DiscardArrived(e) \/ Stop(e) \/ SigPipe(e) PROVE BytesOfBudget'
  BY <1>3, <1>6 DEF DiscardArrived, Stop, SigPipe, KernelClose, history
<1>7. ASSUME NEW e \in Ends, Recv(e) PROVE BytesOfBudget'
  <2> DEFINE S == 1..Budget[Other(e)]
  <2>1. PICK n \in 0..Len(arrived[e]) :
          /\ received' = [received EXCEPT ![e] = received[e] \o SubSeq(arrived[e], 1, n)]
          /\ arrived' = [arrived EXCEPT ![e] = SubSeq(arrived[e], n + 1, Len(arrived[e]))]
    <3> DEFINE asked == IF call[e] = "recvAll" /\ Chunk < want[e] THEN Chunk ELSE want[e]
               m == IF asked < Len(arrived[e]) THEN asked ELSE Len(arrived[e])
    <3>1. asked \in Nat /\ Len(arrived[e]) \in Nat
      BY <1>1, BoundsAssumption DEF IInv, Typed
    <3>2. m \in 0..Len(arrived[e])
      BY <3>1
    <3>3. /\ received' = [received EXCEPT ![e] = received[e] \o SubSeq(arrived[e], 1, m)]
          /\ arrived' = [arrived EXCEPT ![e] = SubSeq(arrived[e], m + 1, Len(arrived[e]))]
      BY <1>7 DEF Recv
    <3> HIDE DEF m
    <3> QED
      BY <3>2, <3>3
  <2>2. received[e] \in Seq(S) /\ arrived[e] \in Seq(S)
    BY DEF BytesOfBudget
  <2> HIDE DEF S
  <2>3. /\ SubSeq(arrived[e], 1, n) \in Seq(S)
        /\ SubSeq(arrived[e], n + 1, Len(arrived[e])) \in Seq(S)
    BY <2>2
  <2>4. received[e] \o SubSeq(arrived[e], 1, n) \in Seq(S)
    BY <2>2, <2>3
  <2>5. received'[e] \in Seq(S) /\ arrived'[e] \in Seq(S) /\ wire' = wire
    BY <1>1, <1>7, <2>1, <2>3, <2>4 DEF Recv
  <2>6. \A x \in Ends \ {e} : received'[x] = received[x] /\ arrived'[x] = arrived[x]
    BY <1>1, <2>1
  <2> QED
    BY <2>5, <2>6 DEF BytesOfBudget, S
<1>8. ASSUME NEW e \in Ends, NEW n \in 1..MaxSize, Send(e, n) PROVE BytesOfBudget'
  <2> DEFINE o == Other(e)
             S == 1..Budget[e]
  <2>1. o \in Ends /\ Other(o) = e
    BY TwoEnds
  <2>2. n \in Nat /\ call[e] = "send" /\ totalSent[e] + n <= want[e]
    BY <1>8, BoundsAssumption DEF Send
  <2>3. Taken(e, n) \in Seq(S)
    BY <2>2, TakenOfBudget
  <2>4. wire' = [wire EXCEPT ![o] = wire[o] \o Taken(e, n)] /\ UNCHANGED <<arrived, received>>
    BY <1>8 DEF Send
  <2>5. wire[o] \in Seq(S)
    BY <2>1 DEF BytesOfBudget
  <2> HIDE DEF o, S
  <2>6. wire'[o] \in Seq(S)
    BY <1>1, <2>1, <2>3, <2>4, <2>5
  <2>7. \A x \in Ends \ {o} : wire'[x] = wire[x]
    BY <1>1, <2>4
  <2> QED
    BY <2>1, <2>4, <2>6, <2>7 DEF BytesOfBudget, S
<1>9. ASSUME NEW e \in Ends,
              \/ \E on \in BOOLEAN : SetTimeout(e, on)
              \/ DeliverFin(e)
              \/ Available(e) \/ Connected(e)
              \/ QueryPendingBytes(e) \/ Select(e) \/ ProbeByte(e)
              \/ \E size \in 1..MaxSize : Read(e, size) \/ ReadAsVector(e, size) \/ Write(e, size)
              \/ RecvNothing(e) \/ RecvInterrupted(e) \/ RecvWouldBlock(e)
              \/ SendFails(e) \/ SendInterrupted(e) \/ SendWouldBlock(e)
       PROVE  BytesOfBudget'
  <2>1. UNCHANGED <<wire, arrived, received>>
    BY <1>9 DEF SetTimeout, DeliverFin, Available, Connected, QueryPendingBytes, Select, ProbeByte,
                Read, ReadAsVector, Write, Begin, RecvNothing, RecvInterrupted, RecvWouldBlock,
                ReturnsNothing, SendFails, SendInterrupted, SendWouldBlock, Answered, Goes,
                kernel, history
  <2> QED
    BY <1>2, <2>1
<1>10. CASE UNCHANGED vars
  BY <1>2, <1>10 DEF vars, kernel, history
<1> QED
  BY <1>4, <1>5, <1>6, <1>7, <1>8, <1>9, <1>10 DEF Next

\* No end ever holds a byte that the other could not write, and every local and
\* answer stays of its type.
THEOREM TypeCorrect == Spec => []TypeOK
<1>1. Init => WithinBudget /\ BytesOfBudget
  BY BudgetAssumption DEF Init, WithinBudget, BytesOfBudget
<1>2. IInv /\ WithinBudget /\ BytesOfBudget /\ [Next]_vars => WithinBudget' /\ BytesOfBudget'
  BY BudgetKeeps, BytesKeep
<1>3. IInv /\ WithinBudget /\ BytesOfBudget => TypeOK
  BY DEF IInv, Typed, BytesOfBudget, TypeOK
<1> QED
  BY <1>1, <1>2, <1>3, Invariant, PTL DEF Spec
=============================================================================
