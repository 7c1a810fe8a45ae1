----------------------------- MODULE LivePumpProofs -----------------------------
(***************************************************************************)
(* Theorems of LivePump, for every length of a frame, every size of the    *)
(* pipe and every sequence of requests.                                    *)
(***************************************************************************)
EXTENDS LivePump, Integers, SequenceTheorems, TLAPS

-----------------------------------------------------------------------------
(* The inductive invariant: which byte of which frame is where.            *)

\* Bytes of a frame.
L == HeaderLen + BodyLen

\* Bytes of n frames.
Bytes(n) == n * L

\* Byte number k of the requests, or of their answers.
Byte(k) == <<(k - 1) \div L + 1, ((k - 1) % L) + 1>>

\* The bytes of s are the k + 1st and those that follow it.
From(k, s) == \A j \in 1 .. Len(s) : s[j] = Byte(k + j)

\* What the pump has taken off the pipe, and what it has put on it or was read.
Taken == sent - Len(up)
Given == Len(received) + Len(down)

\* Both directions carry the bytes in their order, each once.
WireInv ==
  /\ Len(up) <= sent /\ From(Taken, up)
  /\ From(0, received) /\ From(Len(received), down)

\* n requests are answered in full, but for k bytes; who is gone may have less.
AnsweredUpTo(n, k) ==
  /\ k \in 0 .. Bytes(n)
  /\ Given <= Bytes(n) - k
  /\ client # "gone" => Given = Bytes(n) - k

BeforeInv ==
  pc \in {"start", "connect"} => Taken = 0 /\ Given = 0 /\ got = <<>> /\ ~stop

\* Between frames, or in a header: the n requests before it are answered.
HeadInv ==
  pc = "head" =>
    \E n \in 0 .. Len(plan) :
      /\ Taken = Bytes(n) + Len(got) /\ From(Bytes(n), got) /\ Len(got) <= HeaderLen
      /\ AnsweredUpTo(n, 0) /\ ~stop

\* In a body.
BodyInv ==
  pc = "body" =>
    \E n \in 0 .. Len(plan) - 1 :
      /\ Taken = Bytes(n) + HeaderLen + Len(got) /\ From(Bytes(n) + HeaderLen, got)
      /\ Len(got) <= BodyLen
      /\ AnsweredUpTo(n, 0) /\ ~stop

\* Request n is being answered.
WriteInv ==
  pc = "write" =>
    \E n \in DOMAIN plan :
      /\ Taken = Bytes(n) /\ From(Bytes(n) - Len(put), put)
      /\ AnsweredUpTo(n, Len(put)) /\ got = <<>>
      /\ stop <=> plan[n] = "stop"

\* A serve loop that was stopped has put the whole answer on the pipe.
StopInv ==
  /\ pc \notin {"flush", "done"} => why = "none"
  /\ pc = "done" => down = <<>>
  /\ pc \in {"flush", "done"} /\ why = "stop" =>
       \E n \in DOMAIN plan : plan[n] = "stop" /\ AnsweredUpTo(n, 0)

PumpInv ==
  /\ Given <= Bytes(Len(plan))
  /\ WireInv /\ BeforeInv /\ HeadInv /\ BodyInv /\ WriteInv /\ StopInv

-----------------------------------------------------------------------------
(* Bytes.                                                                  *)

LEMMA FrameLength == L \in Nat \ {0} /\ HeaderLen < L /\ HeaderLen >= 1 /\ BodyLen >= 1 /\ L - HeaderLen = BodyLen
BY PumpAssumption DEF L

LEMMA BytesGrow ==
  ASSUME NEW n \in Nat
  PROVE  Bytes(n) \in Nat /\ Bytes(n + 1) = Bytes(n) + L /\ Bytes(0) = 0
<1> DEFINE l == L
<1>1. l \in Nat
  BY FrameLength
<1> HIDE DEF l
<1>2. n * l \in Nat /\ (n + 1) * l = n * l + l /\ 0 * l = 0
  BY <1>1
<1> QED BY <1>2 DEF Bytes, l

LEMMA BytesOrder ==
  ASSUME NEW n \in Nat, NEW m \in Nat, n <= m
  PROVE  Bytes(n) <= Bytes(m)
<1> DEFINE l == L
<1>1. l \in Nat
  BY FrameLength
<1> HIDE DEF l
<1>2. n * l <= m * l
  BY <1>1
<1> QED BY <1>2 DEF Bytes, l

\* Byte k of frame n + 1 is byte number n * L + k of the stream.
LEMMA ByteOfFrame ==
  ASSUME NEW n \in Nat, NEW k \in 1 .. L
  PROVE  Byte(Bytes(n) + k) = <<n + 1, k>>
<1> DEFINE l == L
           a == n * l + k - 1
<1>1. l \in Nat \ {0} /\ k \in 1 .. l
  BY FrameLength
<1> HIDE DEF l
<1>2. n * l \in Nat
  BY <1>1
<1>3. a \in Nat /\ a = n * l + (k - 1) /\ k - 1 \in 0 .. l - 1
  BY <1>1, <1>2
<1>4. a \div l = n /\ a % l = k - 1
  BY <1>1, <1>2, <1>3
<1>5. Byte(Bytes(n) + k) = <<n + 1, k>>
  BY <1>1, <1>3, <1>4 DEF Byte, Bytes, l
<1> QED BY <1>5

LEMMA ByteType ==
  ASSUME NEW k \in Nat \ {0}
  PROVE  Byte(k) \in Nat \X Nat
<1> DEFINE l == L
<1>1. l \in Nat \ {0}
  BY FrameLength
<1> HIDE DEF l
<1>2. (k - 1) \div l \in Nat /\ (k - 1) % l \in Nat
  BY <1>1
<1> QED BY <1>2 DEF Byte, l

LEMMA FromTail ==
  ASSUME NEW S, NEW k \in Nat, NEW s \in Seq(S), From(k, s), s # <<>>
  PROVE  s[1] = Byte(k + 1) /\ From(k + 1, Tail(s))
<1>1. /\ Len(Tail(s)) = Len(s) - 1 /\ 1 \in 1 .. Len(s)
      /\ \A j \in 1 .. Len(s) - 1 : Tail(s)[j] = s[j + 1]
  OBVIOUS
<1>2. \A j \in 1 .. Len(s) - 1 : j + 1 \in 1 .. Len(s) /\ (k + 1) + j = k + (j + 1)
  OBVIOUS
<1> QED BY <1>1, <1>2 DEF From

LEMMA FromAppend ==
  ASSUME NEW S, NEW k \in Nat, NEW s \in Seq(S), From(k, s), NEW b \in S,
         b = Byte(k + Len(s) + 1)
  PROVE  From(k, Append(s, b))
<1>1. /\ Len(Append(s, b)) = Len(s) + 1 /\ Append(s, b)[Len(s) + 1] = b
      /\ \A j \in 1 .. Len(s) : Append(s, b)[j] = s[j]
  BY AppendProperties
<1> SUFFICES ASSUME NEW j \in 1 .. Len(s) + 1 PROVE Append(s, b)[j] = Byte(k + j)
  BY <1>1 DEF From
<1>2. CASE j = Len(s) + 1
  <2>1. k + j = k + Len(s) + 1
    BY <1>2
  <2> QED BY <1>1, <1>2, <2>1
<1>3. CASE j \in 1 .. Len(s)
  BY <1>1, <1>3 DEF From
<1> QED BY <1>2, <1>3

\* Bytes are read off the front of s, behind those in g.
LEMMA FromRead ==
  ASSUME NEW S, NEW k \in Nat, NEW g \in Seq(S), NEW s \in Seq(S),
         From(k, g), From(k + Len(g), s), NEW n \in 1 .. Len(s)
  PROVE  /\ g \o SubSeq(s, 1, n) \in Seq(S)
         /\ Len(g \o SubSeq(s, 1, n)) = Len(g) + n
         /\ From(k, g \o SubSeq(s, 1, n))
         /\ SubSeq(s, n + 1, Len(s)) \in Seq(S)
         /\ Len(SubSeq(s, n + 1, Len(s))) = Len(s) - n
         /\ From(k + Len(g) + n, SubSeq(s, n + 1, Len(s)))
<1> DEFINE a == SubSeq(s, 1, n)
           r == SubSeq(s, n + 1, Len(s))
<1>1. a \in Seq(S) /\ Len(a) = n /\ \A j \in 1 .. n : a[j] = s[j]
  <2>1. 1 \in Int /\ n \in Int /\ n - 1 + 1 = n /\ \A j \in 1 .. n : s[j] \in S /\ 1 + j - 1 = j
    BY ElementOfSeq
  <2> QED BY <2>1, SubSeqProperties
<1>2. /\ r \in Seq(S) /\ Len(r) = Len(s) - n
      /\ \A j \in 1 .. Len(s) - n : r[j] = s[n + j]
  <2>1. n + 1 \in Int /\ Len(s) \in Int /\ Len(s) - (n + 1) + 1 = Len(s) - n
    OBVIOUS
  <2>2. /\ \A j \in n + 1 .. Len(s) : s[j] \in S
        /\ \A j \in 1 .. Len(s) - n : n + 1 + j - 1 = n + j
    BY ElementOfSeq
  <2>3. /\ r \in Seq(S) /\ Len(r) = IF n + 1 <= Len(s) THEN Len(s) - (n + 1) + 1 ELSE 0
        /\ \A j \in 1 .. Len(s) - (n + 1) + 1 : r[j] = s[n + 1 + j - 1]
    BY <2>1, <2>2, SubSeqProperties
  <2> HIDE DEF r
  <2>4. Len(r) = Len(s) - n
    BY <2>3
  <2> QED BY <2>1, <2>2, <2>3, <2>4
<1> HIDE DEF a, r
<1>3. /\ g \o a \in Seq(S) /\ Len(g \o a) = Len(g) + n
      /\ \A j \in 1 .. Len(g) + n : (g \o a)[j] = IF j <= Len(g) THEN g[j] ELSE a[j - Len(g)]
  BY <1>1, ConcatProperties
<1>4. From(k, g \o a)
  <2> SUFFICES ASSUME NEW j \in 1 .. Len(g) + n PROVE (g \o a)[j] = Byte(k + j)
    BY <1>3 DEF From
  <2>1. CASE j <= Len(g)
    BY <1>3, <2>1 DEF From
  <2>2. CASE j > Len(g)
    <3> DEFINE i == j - Len(g)
    <3>1. i \in 1 .. n /\ i \in 1 .. Len(s) /\ k + Len(g) + i = k + j
      BY <2>2
    <3>2. (g \o a)[j] = a[i] /\ a[i] = s[i]
      BY <1>1, <1>3, <2>2, <3>1
    <3>3. s[i] = Byte(k + Len(g) + i)
      BY <3>1 DEF From
    <3> QED BY <3>1, <3>2, <3>3
  <2>3. j <= Len(g) \/ j > Len(g)
    OBVIOUS
  <2> QED BY <2>1, <2>2, <2>3
<1>5. From(k + Len(g) + n, r)
  <2>1. \A j \in 1 .. Len(s) - n : n + j \in 1 .. Len(s)
                                    /\ k + Len(g) + (n + j) = k + Len(g) + n + j
    OBVIOUS
  <2> QED BY <1>2, <2>1 DEF From
<1> QED BY <1>1, <1>2, <1>3, <1>4, <1>5 DEF a, r

-----------------------------------------------------------------------------
(* Frames.                                                                 *)

\* Frame n is the nth frame of the stream.
LEMMA FrameBytes ==
  ASSUME NEW n \in Nat \ {0}
  PROVE  /\ Frame(n) \in Seq(Nat \X Nat) /\ Len(Frame(n)) = L
         /\ \A k \in 1 .. L : Frame(n)[k] = <<n, k>> /\ <<n, k>> = Byte(Bytes(n) - L + k)
<1>1. Frame(n) \in Seq(Nat \X Nat) /\ Len(Frame(n)) = L /\ \A k \in 1 .. L : Frame(n)[k] = <<n, k>>
  BY FrameLength DEF Frame, L
<1>2. n - 1 \in Nat /\ Bytes(n - 1) = Bytes(n) - L
  <2>1. n - 1 \in Nat /\ n - 1 + 1 = n
    OBVIOUS
  <2> QED BY <2>1, BytesGrow, FrameLength
<1>3. \A k \in 1 .. L : Byte(Bytes(n - 1) + k) = <<n - 1 + 1, k>>
  BY <1>2, ByteOfFrame
<1> QED BY <1>1, <1>2, <1>3

\* A header or body that begins with the right byte of frame n is not of another.
LEMMA FrameNumber ==
  ASSUME NEW n \in Nat \ {0}, NEW i \in Nat \ {0}, NEW a \in 1 .. L, NEW b \in a .. L,
         NEW s, s[1] = <<n, a>>, s = SubSeq(Frame(i), a, b)
  PROVE  i = n
<1>1. SubSeq(Frame(i), a, b)[1] = Frame(i)[a]
  BY FrameBytes, FrameLength
<1>2. Frame(i)[a] = <<i, a>>
  BY FrameBytes
<1> QED BY <1>1, <1>2

\* Bytes a to b of frame n are what SubSeq takes out of it.
LEMMA FramePart ==
  ASSUME NEW n \in Nat \ {0}, NEW a \in 1 .. L, NEW b \in a .. L, NEW s \in Seq(Nat \X Nat),
         Len(s) = b - a + 1, From(Bytes(n) - L + a - 1, s)
  PROVE  s = SubSeq(Frame(n), a, b) /\ s[1] = <<n, a>>
<1> DEFINE t == SubSeq(Frame(n), a, b)
<1>1. /\ t \in Seq(Nat \X Nat) /\ Len(t) = b - a + 1
      /\ \A j \in 1 .. b - a + 1 : t[j] = Frame(n)[a + j - 1]
  <2>1. Frame(n) \in Seq(Nat \X Nat) /\ Len(Frame(n)) = L /\ L \in Nat
    BY FrameBytes, FrameLength
  <2>2. a \in Int /\ b \in Int /\ a <= b /\ \A j \in a .. b : j \in 1 .. L
    BY <2>1
  <2>3. \A j \in a .. b : Frame(n)[j] \in Nat \X Nat
    BY <2>1, <2>2, ElementOfSeq
  <2>4. /\ t \in Seq(Nat \X Nat) /\ Len(t) = IF a <= b THEN b - a + 1 ELSE 0
        /\ \A j \in 1 .. b - a + 1 : t[j] = Frame(n)[a + j - 1]
    <3> DEFINE f == Frame(n)
               S == Nat \X Nat
    <3>1. a \in Int /\ b \in Int /\ \A j \in a .. b : f[j] \in S
      BY <2>2, <2>3
    <3> HIDE DEF f, S
    <3> QED BY <3>1, SubSeqProperties DEF f, S
  <2> HIDE DEF t
  <2> QED BY <2>2, <2>4
<1> HIDE DEF t
<1>2. ASSUME NEW j \in 1 .. b - a + 1 PROVE s[j] = <<n, a + j - 1>> /\ t[j] = <<n, a + j - 1>>
  <2>1. a + j - 1 \in 1 .. L /\ j \in 1 .. Len(s)
    BY FrameLength
  <2>2. Bytes(n) \in Nat
    BY BytesGrow
  <2>3. Bytes(n) - L + (a + j - 1) = Bytes(n) - L + a - 1 + j
    BY <2>2, FrameLength
  <2> QED BY <1>1, <2>1, <2>3, FrameBytes DEF From
<1>3. s = t
  BY <1>1, <1>2, SeqEqual
<1>4. s[1] = <<n, a>>
  <2>1. 1 \in 1 .. b - a + 1 /\ a + 1 - 1 = a
    BY FrameLength
  <2> QED BY <1>2, <2>1
<1> QED BY <1>3, <1>4 DEF t

-----------------------------------------------------------------------------
(* Type correctness.                                                       *)

\* What is sent are the bytes of the frames.
LEMMA SentByte ==
  ASSUME TypeOK, sent < Len(plan) * (HeaderLen + BodyLen)
  PROVE  /\ Stream(Len(plan))[sent + 1] = Byte(sent + 1)
         /\ Byte(sent + 1) \in Nat \X Nat
<1>1. plan \in Seq(Ops) /\ sent \in Nat /\ Len(plan) * (HeaderLen + BodyLen) \in Nat
  BY PumpAssumption DEF TypeOK
<1>2. sent + 1 \in 1 .. Len(plan) * (HeaderLen + BodyLen) /\ sent + 1 \in Nat \ {0}
  BY <1>1
<1>3. Stream(Len(plan))[sent + 1] = Byte(sent + 1)
  BY <1>2 DEF Stream, Byte, L
<1> QED BY <1>2, <1>3, ByteType

LEMMA FrameType ==
  ASSUME NEW n \in Nat
  PROVE  Frame(n) \in Seq(Nat \X Nat)
<1>1. \A k \in 1 .. HeaderLen + BodyLen : <<n, k>> \in Nat \X Nat
  BY PumpAssumption
<1> QED BY <1>1, PumpAssumption DEF Frame

LEMMA RequestType == plan \in Seq(Ops) => Request(got) \in Nat
BY DEF Request

LEMMA TypeInit == Init => TypeOK
<1> SUFFICES ASSUME Init PROVE TypeOK
  OBVIOUS
<1>1. plan \in Seq(Ops) /\ Len(plan) * (HeaderLen + BodyLen) \in Nat
  BY PumpAssumption DEF Init
<1>2. 0 \in 0 .. Len(plan) * (HeaderLen + BodyLen) /\ << >> \in Seq(Nat \X Nat) /\ 0 <= Cap
  BY <1>1, PumpAssumption
<1> QED BY <1>2 DEF Init, TypeOK

LEMMA TypeStep == TypeOK /\ [Next]_vars => TypeOK'
<1> SUFFICES ASSUME TypeOK, [Next]_vars PROVE TypeOK'
  OBVIOUS
<1> USE DEF clientVars, wire, pump
<1>1. plan \in Seq(Ops) /\ Len(plan) * (HeaderLen + BodyLen) \in Nat /\ Cap \in Nat \ {0}
  BY PumpAssumption DEF TypeOK
<1>2. CASE Send
  <2>1. sent + 1 \in 0 .. Len(plan) * (HeaderLen + BodyLen)
    BY <1>1, <1>2 DEF Send, TypeOK
  <2>2. up' \in Seq(Nat \X Nat) /\ Len(up') = Len(up) + 1 /\ Len(up) < Cap
    BY <1>2, SentByte, AppendProperties DEF Send, TypeOK
  <2>3. Len(up') <= Cap
    BY <1>1, <2>2 DEF TypeOK
  <2> QED BY <1>2, <2>1, <2>2, <2>3 DEF Send, TypeOK
<1>3. CASE Receive
  <2>1. down[1] \in Nat \X Nat /\ Tail(down) \in Seq(Nat \X Nat) /\ Len(Tail(down)) = Len(down) - 1
    BY <1>3, ElementOfSeq DEF Receive, TypeOK
  <2>2. received' \in Seq(Nat \X Nat)
    BY <1>3, <2>1 DEF Receive, TypeOK
  <2>3. Len(down') <= Cap
    BY <1>1, <1>3, <2>1 DEF Receive, TypeOK
  <2> QED BY <1>3, <2>1, <2>2, <2>3 DEF Receive, TypeOK
<1>4. CASE Connect
  BY <1>4 DEF Connect, TypeOK
<1> DEFINE Emptied(s) == s \in Seq(Nat \X Nat) /\ Len(s) <= Cap
<1>5. Emptied(<< >>)
  BY <1>1
<1>6. CASE CloseClient
  <2>1. Emptied(down')
    BY <1>5, <1>6 DEF CloseClient
  <2> QED BY <1>6, <2>1 DEF CloseClient, TypeOK
<1>7. CASE ReadSome
  <2>1. PICK n \in 1 .. Len(up) : got' = got \o SubSeq(up, 1, n) /\ up' = SubSeq(up, n + 1, Len(up))
    BY <1>7 DEF ReadSome
  <2>2. got' \in Seq(Nat \X Nat) /\ up' \in Seq(Nat \X Nat) /\ Len(up') <= Len(up)
    <3>1. 1 \in Int /\ n \in Int /\ n + 1 \in Int /\ Len(up) \in Int
          /\ \A j \in 1 .. Len(up) : up[j] \in Nat \X Nat
      BY ElementOfSeq DEF TypeOK
    <3>2. SubSeq(up, 1, n) \in Seq(Nat \X Nat)
      BY <3>1, SubSeqProperties
    <3>3. /\ SubSeq(up, n + 1, Len(up)) \in Seq(Nat \X Nat)
          /\ Len(SubSeq(up, n + 1, Len(up))) = IF n + 1 <= Len(up) THEN Len(up) - (n + 1) + 1 ELSE 0
      BY <3>1, SubSeqProperties
    <3>4. got \o SubSeq(up, 1, n) \in Seq(Nat \X Nat)
      BY <3>2, ConcatProperties DEF TypeOK
    <3> QED BY <2>1, <3>1, <3>3, <3>4
  <2>3. Len(up') <= Cap
    BY <1>1, <2>2 DEF TypeOK
  <2> QED BY <1>7, <2>2, <2>3 DEF ReadSome, TypeOK
<1>8. CASE WriteSome
  <2>1. /\ put[1] \in Nat \X Nat /\ Tail(put) \in Seq(Nat \X Nat)
        /\ down' = Append(down, put[1]) /\ Len(down) < Cap
    BY <1>8, ElementOfSeq DEF WriteSome, TypeOK
  <2>2. down' \in Seq(Nat \X Nat) /\ Len(down') <= Cap
    BY <1>1, <2>1, AppendProperties DEF TypeOK
  <2> QED BY <1>8, <2>1, <2>2 DEF WriteSome, TypeOK
<1>9. CASE Dispatch
  <2>1. Frame(Request(got)) \in Seq(Nat \X Nat) /\ << >> \in Seq(Nat \X Nat)
    BY <1>1, RequestType, FrameType
  <2> QED BY <1>9, <2>1 DEF Dispatch, TypeOK
<1>10. CASE Create
  BY <1>10 DEF Create, TypeOK
<1>11. CASE Connected
  BY <1>11 DEF Connected, TypeOK
<1>12. CASE ReadFails
  BY <1>12 DEF ReadFails, Leave, TypeOK
<1>13. CASE WriteFails
  BY <1>13 DEF WriteFails, Leave, TypeOK
<1>14. CASE Answered
  BY <1>14 DEF Answered, Leave, TypeOK
<1>15. CASE HeaderRead
  <2>1. got' \in Seq(Nat \X Nat)
    BY <1>5, <1>15 DEF HeaderRead
  <2> QED BY <1>15, <2>1 DEF HeaderRead, Leave, TypeOK
<1>16. CASE NotConnected \/ Teardown
  <2>1. Emptied(down')
    BY <1>16, <1>5 DEF NotConnected, Teardown
  <2> QED BY <1>16, <2>1 DEF NotConnected, Teardown, TypeOK
<1>17. CASE UNCHANGED vars
  BY <1>17 DEF vars, TypeOK
<1> QED BY <1>2, <1>3, <1>4, <1>6, <1>7, <1>8, <1>9, <1>10, <1>11, <1>12, <1>13, <1>14,
           <1>15, <1>16, <1>17 DEF Next, Pump

\* Every variable keeps its type, neither direction of the pipe holds more than it
\* can, and gPumpServing is set exactly while the loop serves.
THEOREM TypeCorrect == Spec => []TypeOK
BY TypeInit, TypeStep, PTL DEF Spec

-----------------------------------------------------------------------------
(* The invariant, step by step.                                            *)

\* What arithmetic needs of the types.
LEMMA Sizes ==
  ASSUME TypeOK
  PROVE  /\ plan \in Seq(Ops) /\ Len(plan) \in Nat /\ DOMAIN plan = 1 .. Len(plan)
         /\ sent \in Nat /\ Len(up) \in Nat /\ Len(down) \in Nat /\ Len(received) \in Nat
         /\ Len(got) \in Nat /\ Len(put) \in Nat /\ Given \in Nat
         /\ got \in Seq(Nat \X Nat) /\ put \in Seq(Nat \X Nat) /\ up \in Seq(Nat \X Nat)
         /\ down \in Seq(Nat \X Nat) /\ received \in Seq(Nat \X Nat)
         /\ WireInv => Taken \in Nat
BY PumpAssumption DEF TypeOK, Given, WireInv, Taken

LEMMA InvInit == Init => PumpInv
<1> SUFFICES ASSUME Init PROVE PumpInv
  OBVIOUS
<1>1. plan \in Seq(Ops) /\ Len(plan) \in Nat
  BY PumpAssumption DEF Init
<1>2. Given = 0 /\ Taken = 0 /\ Len(<< >>) = 0
  <2>1. Len(<< >>) = 0
    OBVIOUS
  <2>2. sent = 0 /\ up = << >> /\ received = << >> /\ down = << >>
    BY DEF Init
  <2>3. Len(up) = 0 /\ Len(received) = 0 /\ Len(down) = 0
    BY <2>1, <2>2
  <2>4. Given = 0
    BY <2>3 DEF Given
  <2>5. Taken = 0
    <3>1. sent \in Int /\ Len(up) = sent
      BY <2>2, <2>3
    <3> HIDE DEF Init
    <3> QED BY <3>1 DEF Taken
  <2> QED BY <2>1, <2>4, <2>5
<1>3. Given <= Bytes(Len(plan))
  BY <1>1, <1>2, BytesGrow
<1>4. WireInv
  BY <1>2 DEF Init, WireInv, From
<1> QED BY <1>2, <1>3, <1>4 DEF Init, PumpInv, BeforeInv, HeadInv, BodyInv, WriteInv, StopInv

\* The client's steps leave the pump where it is.  What the client loses by going is
\* no longer owed.
LEMMA PumpStays ==
  ASSUME TypeOK, TypeOK', PumpInv, UNCHANGED <<plan, pump>>, Taken' = Taken, WireInv',
         \/ Given' = Given /\ (client = "gone" => client' = "gone")
         \/ Given' <= Given /\ client' = "gone",
         pc = "done" => down' = <<>>
  PROVE  PumpInv'
<1> USE DEF pump
<1>1. Given \in Nat /\ Given' \in Nat /\ Given' <= Given /\ Len(plan) \in Nat /\ Len(put) \in Nat
  <2>1. Given' \in Nat
    BY DEF TypeOK, Given
  <2> QED BY <2>1, Sizes
<1>2. plan' = plan /\ pc' = pc /\ got' = got /\ put' = put /\ stop' = stop /\ why' = why
  OBVIOUS
<1>3. Bytes(Len(plan)) \in Nat /\ \A n \in 0 .. Len(plan) : Bytes(n) \in Nat
  BY <1>1, BytesGrow
<1>4. ASSUME NEW n \in 0 .. Len(plan), NEW k, AnsweredUpTo(n, k)
      PROVE  /\ k \in 0 .. Bytes(n) /\ Given' <= Bytes(n) - k
             /\ client' # "gone" => Given' = Bytes(n) - k
  <2>1. k \in Nat /\ Bytes(n) \in Nat /\ k \in 0 .. Bytes(n) /\ Given <= Bytes(n) - k
        /\ (client # "gone" => Given = Bytes(n) - k)
    BY <1>3, <1>4 DEF AnsweredUpTo
  <2> QED BY <1>1, <2>1
<1>5. Given' <= Bytes(Len(plan))
  BY <1>1, <1>3 DEF PumpInv
<1>6. BeforeInv'
  BY <1>1, <1>2 DEF PumpInv, BeforeInv
<1>7. HeadInv'
  BY <1>2, <1>4 DEF PumpInv, HeadInv, AnsweredUpTo
<1>8. BodyInv'
  <2>1. \A n \in 0 .. Len(plan) - 1 : n \in 0 .. Len(plan)
    BY <1>1
  <2> QED BY <1>2, <1>4, <2>1 DEF PumpInv, BodyInv, AnsweredUpTo
<1>9. WriteInv'
  <2>1. \A n \in DOMAIN plan : n \in 0 .. Len(plan)
    BY Sizes
  <2> QED BY <1>2, <1>4, <2>1 DEF PumpInv, WriteInv, AnsweredUpTo
<1>10. StopInv'
  <2>1. \A n \in DOMAIN plan : n \in 0 .. Len(plan)
    BY Sizes
  <2> QED BY <1>2, <1>4, <2>1 DEF PumpInv, StopInv, AnsweredUpTo
<1> QED BY <1>2, <1>5, <1>6, <1>7, <1>8, <1>9, <1>10 DEF PumpInv

LEMMA ClientKeeps ==
  ASSUME TypeOK, TypeOK', PumpInv, Connect \/ Send \/ Receive \/ CloseClient
  PROVE  PumpInv'
<1> USE DEF wire
<1>1. WireInv /\ Taken \in Nat
  BY Sizes DEF PumpInv
<1>2. CASE Connect
  <2>1. /\ UNCHANGED <<plan, pump, sent, received, up, down>> /\ client' = "open" /\ client = "away"
    BY <1>2 DEF Connect
  <2>2. Taken' = Taken /\ Given' = Given /\ WireInv'
    BY <1>1, <2>1 DEF Taken, Given, WireInv, From
  <2>3. pc = "done" => down' = <<>>
    BY <2>1 DEF PumpInv, StopInv
  <2> QED BY <2>1, <2>2, <2>3, PumpStays
<1>3. CASE Send
  <2>1. /\ UNCHANGED <<plan, pump, client, received, down>> /\ sent' = sent + 1
        /\ up' = Append(up, Stream(Len(plan))[sent + 1])
        /\ sent < Len(plan) * (HeaderLen + BodyLen)
    BY <1>3 DEF Send
  <2>2. Stream(Len(plan))[sent + 1] = Byte(sent + 1) /\ Byte(sent + 1) \in Nat \X Nat
    BY <2>1, SentByte
  <2>3. Len(up') = Len(up) + 1
    BY <2>1, <2>2, Sizes, AppendProperties
  <2>4. Taken' = Taken /\ Taken + Len(up) + 1 = sent + 1
    <3>1. sent \in Nat /\ Len(up) \in Nat
      BY Sizes
    <3> QED BY <2>1, <2>3, <3>1 DEF Taken
  <2>5. From(Taken, up')
    BY <1>1, <2>1, <2>2, <2>4, Sizes, FromAppend DEF WireInv
  <2>6. WireInv'
    BY <1>1, <2>1, <2>3, <2>4, <2>5, Sizes DEF WireInv, From
  <2>7. Given' = Given /\ (pc = "done" => down' = <<>>)
    BY <2>1 DEF Given, PumpInv, StopInv
  <2> QED BY <2>1, <2>4, <2>6, <2>7, PumpStays
<1>4. CASE Receive
  <2>1. /\ UNCHANGED <<plan, pump, client, sent, up>> /\ down # <<>>
        /\ received' = Append(received, down[1]) /\ down' = Tail(down)
    BY <1>4 DEF Receive
  <2>2. down[1] \in Nat \X Nat /\ Len(received') = Len(received) + 1 /\ Len(down') = Len(down) - 1
    <3>1. 1 \in 1 .. Len(down)
      BY <2>1, Sizes
    <3>2. down[1] \in Nat \X Nat
      BY <3>1, Sizes, ElementOfSeq
    <3>3. Len(Append(received, down[1])) = Len(received) + 1
      BY <3>2, Sizes, AppendProperties
    <3>4. Len(Tail(down)) = Len(down) - 1
      BY <2>1, Sizes, HeadTailProperties
    <3> QED BY <2>1, <3>2, <3>3, <3>4
  <2>3. down[1] = Byte(Len(received) + 1) /\ From(Len(received) + 1, Tail(down))
    BY <1>1, <2>1, Sizes, FromTail DEF WireInv
  <2>4. From(0, received')
    <3>1. Len(received) + 1 = 0 + Len(received) + 1 /\ 0 \in Nat
      BY Sizes
    <3> QED BY <1>1, <2>1, <2>2, <2>3, <3>1, Sizes, FromAppend DEF WireInv
  <2>5. Taken' = Taken
    BY <2>1 DEF Taken
  <2>6. WireInv'
    BY <1>1, <2>1, <2>2, <2>3, <2>4, <2>5 DEF WireInv, From
  <2>7. Given' = Given /\ pc # "done"
    BY <2>1, <2>2, Sizes DEF Given, PumpInv, StopInv
  <2> QED BY <2>1, <2>5, <2>6, <2>7, PumpStays
<1>5. CASE CloseClient
  <2>1. /\ UNCHANGED <<plan, pump, sent, received, up>> /\ client' = "gone" /\ down' = <<>>
    BY <1>5 DEF CloseClient
  <2>2. Taken' = Taken /\ Len(down') = 0 /\ Given' <= Given
    BY <2>1, Sizes DEF Taken, Given
  <2>3. WireInv'
    BY <1>1, <2>1, <2>2 DEF WireInv, From
  <2> QED BY <2>1, <2>2, <2>3, PumpStays
<1> QED BY <1>2, <1>3, <1>4, <1>5

\* What is on the wire and read.
LEMMA WireStays ==
  ASSUME WireInv, UNCHANGED <<sent, received, up, down, plan, client>>
  PROVE  /\ WireInv' /\ Given' = Given /\ Taken' = Taken
         /\ \A n, k : AnsweredUpTo(n, k)' <=> AnsweredUpTo(n, k)
         /\ Given <= Bytes(Len(plan)) => (Given <= Bytes(Len(plan)))'
BY DEF WireInv, From, Given, Taken, AnsweredUpTo

\* The pipe is made, a client connects, or none does in time.
LEMMA BeginKeeps ==
  ASSUME TypeOK, PumpInv, Create \/ Connected \/ NotConnected
  PROVE  PumpInv'
<1> USE DEF clientVars, wire
<1>1. BeforeInv /\ WireInv /\ Given <= Bytes(Len(plan)) /\ StopInv
  BY DEF PumpInv
<1>2. Given = 0 /\ Taken = 0 /\ got = <<>> /\ ~stop /\ why = "none" /\ down = <<>> /\ Len(plan) \in Nat
  <2>1. Given = 0 /\ Taken = 0 /\ got = <<>> /\ ~stop /\ why = "none"
    BY <1>1 DEF Create, Connected, NotConnected, BeforeInv, StopInv
  <2>2. Len(down) = 0
    BY <2>1, Sizes DEF Given
  <2> QED BY <2>1, <2>2, Sizes
<1>3. UNCHANGED <<sent, received, up, down, plan, client, got, put, stop, why>>
  BY <1>2 DEF Create, Connected, NotConnected
<1>4. /\ WireInv' /\ Given' = 0 /\ Taken' = 0 /\ (Given <= Bytes(Len(plan)))'
      /\ down' = <<>> /\ why' = "none" /\ got' = <<>> /\ ~stop'
  BY <1>1, <1>2, <1>3, WireStays
<1>5. CASE pc' \in {"connect", "done"}
  BY <1>4, <1>5 DEF PumpInv, BeforeInv, HeadInv, BodyInv, WriteInv, StopInv
<1>6. CASE pc' = "head"
  <2>1. /\ 0 \in 0 .. Len(plan) /\ Bytes(0) = 0 /\ Len(<<>>) = 0 /\ 0 <= HeaderLen /\ From(Bytes(0), <<>>)
    BY <1>2, BytesGrow, FrameLength, PumpAssumption DEF From
  <2>2. AnsweredUpTo(0, 0)'
    BY <1>4, <2>1 DEF AnsweredUpTo
  <2>3. HeadInv'
    <3>1. Taken' = Bytes(0) + Len(got')
      BY <1>4, <2>1
    <3> QED BY <1>3, <1>4, <2>1, <2>2, <3>1 DEF HeadInv
  <2> QED BY <1>4, <1>6, <2>3 DEF PumpInv, BeforeInv, BodyInv, WriteInv, StopInv
<1> QED BY <1>5, <1>6 DEF Create, Connected, NotConnected

\* Bytes are read off the pipe into the header or body in hand.
LEMMA ReadKeeps ==
  ASSUME TypeOK, PumpInv, ReadSome
  PROVE  PumpInv'
<1> USE DEF clientVars
<1>1. /\ UNCHANGED <<sent, received, down, plan, client, pc, stop, why>> /\ pc \in {"head", "body"}
  BY DEF ReadSome
<1>2. PICK n \in 1 .. Len(up) : /\ n <= Need - Len(got) /\ got' = got \o SubSeq(up, 1, n)
                                /\ up' = SubSeq(up, n + 1, Len(up))
  BY DEF ReadSome
<1>3. /\ Given' = Given /\ (Given <= Bytes(Len(plan)))' /\ StopInv'
      /\ \A m, k : AnsweredUpTo(m, k)' <=> AnsweredUpTo(m, k)
  BY <1>1 DEF PumpInv, StopInv, Given, AnsweredUpTo
<1>4. ASSUME NEW k \in Nat, Taken = k + Len(got), From(k, got)
      PROVE  /\ WireInv' /\ Taken' = k + Len(got') /\ From(k, got') /\ Len(got') = Len(got) + n
  <2>1. /\ Len(got') = Len(got) + n /\ From(k, got') /\ Len(up') = Len(up) - n
        /\ From(k + Len(got) + n, up')
    BY <1>2, <1>4, Sizes, FromRead DEF PumpInv, WireInv
  <2>2. Taken' = k + Len(got) + n
    <3>1. sent \in Nat /\ Len(up) \in Nat /\ Len(got) \in Nat /\ sent - Len(up) = k + Len(got)
      BY <1>4, Sizes DEF Taken
    <3>2. sent' - Len(up') = k + Len(got) + n
      BY <1>1, <2>1, <3>1
    <3> QED BY <3>2 DEF Taken
  <2>3. Len(up') <= sent'
    BY <1>1, <2>1, Sizes DEF PumpInv, WireInv
  <2>4. k + Len(got') = k + Len(got) + n
    BY <2>1, Sizes
  <2> QED BY <1>1, <2>1, <2>2, <2>3, <2>4 DEF PumpInv, WireInv, From
<1>5. CASE pc = "head"
  <2>1. PICK m \in 0 .. Len(plan) :
          /\ Taken = Bytes(m) + Len(got) /\ From(Bytes(m), got) /\ Len(got) <= HeaderLen
          /\ AnsweredUpTo(m, 0) /\ ~stop
    BY <1>5 DEF PumpInv, HeadInv
  <2>2. Bytes(m) \in Nat
    BY <2>1, BytesGrow
  <2>3. Len(got) + n <= HeaderLen
    BY <1>2, <1>5, Sizes, PumpAssumption DEF Need
  <2>4. WireInv' /\ HeadInv'
    BY <1>1, <1>3, <1>4, <2>1, <2>2, <2>3 DEF HeadInv
  <2> QED BY <1>1, <1>3, <1>5, <2>4 DEF PumpInv, BeforeInv, BodyInv, WriteInv
<1>6. CASE pc = "body"
  <2>1. PICK m \in 0 .. Len(plan) - 1 :
          /\ Taken = Bytes(m) + HeaderLen + Len(got) /\ From(Bytes(m) + HeaderLen, got)
          /\ Len(got) <= BodyLen
          /\ AnsweredUpTo(m, 0) /\ ~stop
    BY <1>6 DEF PumpInv, BodyInv
  <2>2. Bytes(m) + HeaderLen \in Nat
    <3>1. m \in Nat /\ HeaderLen \in Nat
      BY Sizes, PumpAssumption
    <3>2. Bytes(m) \in Nat
      BY <3>1, BytesGrow
    <3> QED BY <3>1, <3>2
  <2>3. Len(got) + n <= BodyLen
    BY <1>2, <1>6, Sizes, PumpAssumption DEF Need
  <2>4. WireInv' /\ BodyInv'
    BY <1>1, <1>3, <1>4, <2>1, <2>2, <2>3 DEF BodyInv
  <2> QED BY <1>1, <1>3, <1>6, <2>4 DEF PumpInv, BeforeInv, HeadInv, WriteInv
<1> QED BY <1>1, <1>5, <1>6

\* The serve loop is left for another reason than live.stop.
LEMMA BrokenKeeps ==
  ASSUME TypeOK, PumpInv, UNCHANGED <<sent, received, up, down, plan, client>>, Leave("broken")
  PROVE  PumpInv'
BY WireStays DEF PumpInv, Leave, BeforeInv, HeadInv, BodyInv, WriteInv, StopInv

\* A header of the stream belongs to the frame that is next.
LEMMA HeaderKeeps ==
  ASSUME TypeOK, PumpInv, HeaderRead
  PROVE  PumpInv'
<1> USE DEF clientVars, wire
<1>1. CASE ~IsHeader(got)
  BY <1>1, BrokenKeeps DEF HeaderRead
<1>2. CASE IsHeader(got)
  <2>1. /\ pc = "head" /\ Len(got) = HeaderLen /\ got' = <<>> /\ pc' = "body"
        /\ UNCHANGED <<sent, received, up, down, plan, client, stop, why>>
    BY <1>2 DEF HeaderRead, ReadExact, Need
  <2>2. PICK n \in 0 .. Len(plan) :
          /\ Taken = Bytes(n) + Len(got) /\ From(Bytes(n), got)
          /\ AnsweredUpTo(n, 0) /\ ~stop
    BY <2>1 DEF PumpInv, HeadInv
  <2>3. PICK i \in DOMAIN plan : got = SubSeq(Frame(i), 1, HeaderLen)
    BY <1>2 DEF IsHeader
  <2>4. i = n + 1
    <3>1. n \in Nat /\ n + 1 \in Nat \ {0} /\ i \in Nat \ {0} /\ 1 \in 1 .. L /\ HeaderLen \in 1 .. L
      BY Sizes, FrameLength, PumpAssumption
    <3>2. got[1] = Byte(Bytes(n) + 1)
      BY <2>1, <2>2, <3>1 DEF From
    <3>3. got[1] = <<n + 1, 1>>
      BY <3>1, <3>2, ByteOfFrame
    <3> QED BY <2>3, <3>1, <3>3, FrameNumber
  <2>5. n \in 0 .. Len(plan) - 1
    BY <2>4, Sizes
  <2>6. Taken = Bytes(n) + HeaderLen + Len(<<>>) /\ From(Bytes(n) + HeaderLen, <<>>)
        /\ Len(<<>>) <= BodyLen
    <3>1. Len(<<>>) = 0 /\ 0 <= BodyLen /\ Bytes(n) \in Nat /\ HeaderLen \in Nat
      BY <2>2, BytesGrow, PumpAssumption
    <3> QED BY <2>1, <2>2, <3>1 DEF From
  <2>7. BodyInv'
    BY <2>1, <2>2, <2>5, <2>6, WireStays DEF PumpInv, BodyInv
  <2> QED BY <2>1, <2>7, WireStays DEF PumpInv, BeforeInv, HeadInv, WriteInv, StopInv
<1> QED BY <1>1, <1>2

\* A body of the stream is that of the next frame, and the answer is that frame's.
LEMMA DispatchKeeps ==
  ASSUME TypeOK, PumpInv, Dispatch
  PROVE  PumpInv'
<1> USE DEF clientVars, wire
<1>1. /\ pc = "body" /\ Len(got) = BodyLen /\ got' = <<>> /\ pc' = "write"
      /\ put' = Frame(Request(got))
      /\ stop' = (Request(got) # 0 /\ plan[Request(got)] = "stop")
      /\ UNCHANGED <<sent, received, up, down, plan, client, why>>
  BY DEF Dispatch, ReadExact, Need
<1>2. PICK n \in 0 .. Len(plan) - 1 :
        /\ Taken = Bytes(n) + HeaderLen + Len(got) /\ From(Bytes(n) + HeaderLen, got)
        /\ AnsweredUpTo(n, 0)
  BY <1>1 DEF PumpInv, BodyInv
<1> DEFINE i == n + 1
<1>3. /\ i \in DOMAIN plan /\ i \in Nat \ {0} /\ n \in Nat /\ Bytes(n) \in Nat
      /\ Bytes(i) = Bytes(n) + L /\ Bytes(i) \in Nat
  <2>1. n \in Nat /\ i \in 1 .. Len(plan) /\ i \in Nat \ {0}
    BY Sizes
  <2> QED BY <2>1, Sizes, BytesGrow
<1>4. /\ HeaderLen + 1 \in 1 .. L /\ L \in HeaderLen + 1 .. L /\ L = HeaderLen + BodyLen
      /\ L \in Nat /\ HeaderLen \in Nat /\ BodyLen \in Nat
  BY FrameLength, PumpAssumption
<1> HIDE DEF i
<1>5. got = SubSeq(Frame(i), HeaderLen + 1, L) /\ got[1] = <<i, HeaderLen + 1>>
  <2>1. Len(got) = L - (HeaderLen + 1) + 1 /\ Bytes(i) - L + (HeaderLen + 1) - 1 = Bytes(n) + HeaderLen
    BY <1>1, <1>3, <1>4
  <2>2. From(Bytes(i) - L + (HeaderLen + 1) - 1, got)
    BY <1>2, <2>1
  <2> DEFINE a == HeaderLen + 1
  <2>3. /\ a \in 1 .. L /\ L \in a .. L /\ Len(got) = L - a + 1 /\ From(Bytes(i) - L + a - 1, got)
        /\ got \in Seq(Nat \X Nat) /\ i \in Nat \ {0}
    BY <1>3, <1>4, <2>1, <2>2, Sizes
  <2> HIDE DEF a
  <2>4. got = SubSeq(Frame(i), a, L) /\ got[1] = <<i, a>>
    BY <2>3, FramePart
  <2> QED BY <2>4 DEF a
<1>6. Request(got) = i
  <2>1. \A j \in DOMAIN plan : got = SubSeq(Frame(j), HeaderLen + 1, L) => j = i
    <3>1. \A j \in DOMAIN plan : j \in Nat \ {0}
      BY Sizes
    <3> QED BY <1>3, <1>4, <1>5, <3>1, FrameNumber
  <2> QED BY <1>3, <1>4, <1>5, <2>1 DEF Request
<1>7. put' = Frame(i) /\ Len(put') = L /\ stop' = (plan[i] = "stop")
  BY <1>1, <1>3, <1>6, FrameBytes
<1>8. Taken' = Bytes(i)
  <2>1. Taken = Bytes(i)
    BY <1>1, <1>2, <1>3, <1>4
  <2> QED BY <1>1, <2>1, WireStays DEF PumpInv
<1>9. From(Bytes(i) - Len(put'), put')
  BY <1>3, <1>7, FrameBytes DEF From
<1>10. AnsweredUpTo(i, Len(put))'
  <2>1. AnsweredUpTo(i, L)
    <3>1. Bytes(i) - L = Bytes(n) - 0 /\ L \in 0 .. Bytes(i)
      BY <1>3, <1>4
    <3> QED BY <1>2, <3>1 DEF AnsweredUpTo
  <2>2. AnsweredUpTo(i, L)'
    BY <1>1, <2>1, WireStays DEF PumpInv
  <2> QED BY <1>7, <2>2 DEF AnsweredUpTo
<1>11. WriteInv'
  BY <1>1, <1>3, <1>7, <1>8, <1>9, <1>10 DEF WriteInv
<1> QED BY <1>1, <1>11, WireStays DEF PumpInv, BeforeInv, HeadInv, BodyInv, StopInv

\* A byte of the answer is put on the pipe.
LEMMA WriteKeeps ==
  ASSUME TypeOK, PumpInv, WriteSome
  PROVE  PumpInv'
<1> USE DEF clientVars
<1>1. /\ pc = "write" /\ put # <<>> /\ client = "open"
      /\ down' = Append(down, put[1]) /\ put' = Tail(put)
      /\ UNCHANGED <<sent, received, up, plan, client, pc, got, stop, why>>
  BY DEF WriteSome
<1>2. PICK n \in DOMAIN plan :
        /\ Taken = Bytes(n) /\ From(Bytes(n) - Len(put), put)
        /\ AnsweredUpTo(n, Len(put)) /\ got = <<>>
        /\ stop <=> plan[n] = "stop"
  BY <1>1 DEF PumpInv, WriteInv
<1>3. n \in Nat /\ n <= Len(plan) /\ Bytes(n) \in Nat /\ Bytes(n) <= Bytes(Len(plan)) /\ Bytes(Len(plan)) \in Nat
  <2>1. n \in Nat /\ n <= Len(plan) /\ Len(plan) \in Nat
    BY Sizes
  <2> QED BY <2>1, BytesGrow, BytesOrder
<1>4. /\ Len(put) \in 1 .. Bytes(n) /\ Given = Bytes(n) - Len(put)
      /\ Len(received) + Len(down) = Given
  BY <1>1, <1>2, Sizes DEF AnsweredUpTo, Given
<1>5. put[1] \in Nat \X Nat /\ Len(put') = Len(put) - 1 /\ Len(down') = Len(down) + 1
  <2>1. 1 \in 1 .. Len(put)
    BY <1>4
  <2>2. put[1] \in Nat \X Nat
    BY <2>1, Sizes, ElementOfSeq
  <2>3. Len(Append(down, put[1])) = Len(down) + 1
    BY <2>2, Sizes, AppendProperties
  <2>4. Len(Tail(put)) = Len(put) - 1
    BY <1>1, Sizes, HeadTailProperties
  <2> QED BY <1>1, <2>2, <2>3, <2>4
<1>6. put[1] = Byte(Given + 1) /\ From(Given + 1, put')
  BY <1>1, <1>2, <1>4, Sizes, FromTail
<1>7. Given' = Given + 1 /\ Taken' = Taken
  <2>1. Len(received') + Len(down') = Given + 1
    BY <1>1, <1>4, <1>5, Sizes
  <2> QED BY <1>1, <2>1 DEF Given, Taken
<1>8. WireInv'
  <2>1. From(Len(received), down')
    BY <1>1, <1>4, <1>5, <1>6, Sizes, FromAppend DEF PumpInv, WireInv
  <2> QED BY <1>1, <1>7, <2>1 DEF PumpInv, WireInv, From
<1>9. Given + 1 = Bytes(n) - Len(put') /\ Len(put') \in 0 .. Bytes(n) /\ Given + 1 <= Bytes(Len(plan))
  <2> DEFINE g == Given
             p == Len(put')
             b == Bytes(n)
             t == Bytes(Len(plan))
  <2>1. Len(put) \in Nat /\ Len(put) >= 1 /\ Len(put) <= b /\ p = Len(put) - 1
    BY <1>4, <1>5, Sizes
  <2>2. b \in Nat /\ t \in Nat /\ b <= t /\ g = b - Len(put)
    BY <1>3, <1>4
  <2> HIDE DEF g, p, b, t
  <2>3. g + 1 = b - p /\ p \in 0 .. b /\ g + 1 <= t
    BY <2>1, <2>2
  <2> QED BY <2>3 DEF g, p, b, t
<1>10. AnsweredUpTo(n, Len(put))'
  <2>1. Given' = Bytes(n) - Len(put') /\ Given' <= Bytes(n) - Len(put')
    BY <1>3, <1>7, <1>9
  <2> QED BY <1>9, <2>1 DEF AnsweredUpTo
<1>11. WriteInv'
  BY <1>1, <1>2, <1>6, <1>7, <1>9, <1>10 DEF WriteInv
<1>12. (Given <= Bytes(Len(plan)))'
  BY <1>1, <1>7, <1>9
<1> QED BY <1>1, <1>8, <1>11, <1>12 DEF PumpInv, BeforeInv, HeadInv, BodyInv, StopInv

\* The answer is on the pipe: the next header, or the end that was asked for.
LEMMA AnsweredKeeps ==
  ASSUME TypeOK, PumpInv, Answered
  PROVE  PumpInv'
<1> USE DEF clientVars, wire
<1>1. /\ pc = "write" /\ Len(put) = 0
      /\ IF stop THEN Leave("stop") ELSE pc' = "head" /\ UNCHANGED <<serving, why>>
      /\ UNCHANGED <<sent, received, up, down, plan, client, got, put, stop>>
  BY DEF Answered
<1>2. PICK n \in DOMAIN plan :
        /\ Taken = Bytes(n)
        /\ AnsweredUpTo(n, 0) /\ got = <<>>
        /\ stop <=> plan[n] = "stop"
  BY <1>1 DEF PumpInv, WriteInv
<1>3. /\ WireInv' /\ Taken' = Taken /\ (Given <= Bytes(Len(plan)))' /\ AnsweredUpTo(n, 0)'
  BY <1>1, <1>2, WireStays DEF PumpInv
<1>4. n \in 0 .. Len(plan) /\ n \in Nat
  BY Sizes
<1>5. CASE stop
  <2>1. pc' = "flush" /\ why' = "stop" /\ plan[n] = "stop"
    BY <1>1, <1>2, <1>5 DEF Leave
  <2>2. StopInv'
    BY <1>1, <1>3, <2>1 DEF StopInv
  <2> QED BY <1>3, <2>1, <2>2 DEF PumpInv, BeforeInv, HeadInv, BodyInv, WriteInv
<1>6. CASE ~stop
  <2>1. pc' = "head" /\ got' = <<>> /\ ~stop' /\ why' = why /\ why = "none"
    BY <1>1, <1>2, <1>6 DEF PumpInv, StopInv
  <2>2. Len(got') = 0 /\ 0 <= HeaderLen
    BY <2>1, PumpAssumption
  <2>3. Taken' = Bytes(n) + Len(got')
    <3>1. Bytes(n) \in Nat
      BY <1>4, BytesGrow
    <3> QED BY <1>2, <1>3, <2>2, <3>1
  <2>4. From(Bytes(n), got')
    BY <2>2 DEF From
  <2>5. HeadInv'
    BY <1>1, <1>3, <1>4, <2>1, <2>2, <2>3, <2>4 DEF HeadInv
  <2> QED BY <1>3, <2>1, <2>5 DEF PumpInv, BeforeInv, BodyInv, WriteInv, StopInv
<1> QED BY <1>5, <1>6

\* What was written has been read when the pipe is taken down, or the client is gone.
LEMMA TeardownKeeps ==
  ASSUME TypeOK, PumpInv, Teardown
  PROVE  PumpInv'
<1> USE DEF clientVars
<1>1. /\ pc = "flush" /\ (client = "gone" \/ down = <<>>) /\ pc' = "done" /\ down' = <<>>
      /\ UNCHANGED <<sent, received, up, plan, client, got, put, stop, why>>
  BY DEF Teardown, Flushed
<1>2. /\ Given \in Nat /\ Given' \in Nat /\ Given' <= Given /\ Taken' = Taken
      /\ client # "gone" => Given' = Given
  <2>1. Len(down') = 0
    BY <1>1
  <2>2. Given' = Len(received)
    <3>1. Len(received') + Len(down') = Len(received)
      BY <1>1, <2>1, Sizes
    <3> QED BY <3>1 DEF Given
  <2>3. client # "gone" => Given = Len(received)
    BY <1>1, Sizes DEF Given
  <2>4. Taken' = Taken
    BY <1>1 DEF Taken
  <2>5. Len(received) \in Nat /\ Len(received) <= Given /\ Given \in Nat
    <3>1. Len(received) \in Nat /\ Len(down) \in Nat
      BY Sizes
    <3> QED BY <3>1 DEF Given
  <2> QED BY <2>2, <2>3, <2>4, <2>5
<1>3. WireInv'
  <2>1. Len(down') = 0
    BY <1>1
  <2> QED BY <1>1, <1>2, <2>1 DEF PumpInv, WireInv, From
<1>4. (Given <= Bytes(Len(plan)))'
  <2>1. Len(plan) \in Nat /\ Bytes(Len(plan)) \in Nat /\ Given <= Bytes(Len(plan))
    BY Sizes, BytesGrow DEF PumpInv
  <2>2. Given' <= Bytes(Len(plan))
    BY <1>2, <2>1
  <2> QED BY <1>1, <2>2
<1>5. ASSUME NEW n \in DOMAIN plan, AnsweredUpTo(n, 0) PROVE AnsweredUpTo(n, 0)'
  <2>1. n \in Nat /\ Bytes(n) \in Nat
    <3>1. n \in Nat
      BY Sizes
    <3> QED BY <3>1, BytesGrow
  <2>2. Given' <= Bytes(n) - 0 /\ (client' # "gone" => Given' = Bytes(n) - 0)
    BY <1>1, <1>2, <1>5, <2>1 DEF AnsweredUpTo
  <2> QED BY <1>5, <2>2 DEF AnsweredUpTo
<1>6. StopInv'
  BY <1>1, <1>5 DEF PumpInv, StopInv
<1> QED BY <1>1, <1>3, <1>4, <1>6 DEF PumpInv, BeforeInv, HeadInv, BodyInv, WriteInv

LEMMA InvStep == TypeOK /\ PumpInv /\ [Next]_vars => PumpInv'
<1> SUFFICES ASSUME TypeOK, PumpInv, [Next]_vars PROVE PumpInv'
  OBVIOUS
<1>1. TypeOK'
  BY TypeStep
<1>2. CASE Connect \/ Send \/ Receive \/ CloseClient
  BY <1>1, <1>2, ClientKeeps
<1>3. CASE Create \/ Connected \/ NotConnected
  BY <1>3, BeginKeeps
<1>4. CASE ReadSome
  BY <1>4, ReadKeeps
<1>5. CASE ReadFails
  BY <1>5, BrokenKeeps DEF ReadFails, clientVars, wire
<1>6. CASE HeaderRead
  BY <1>6, HeaderKeeps
<1>7. CASE Dispatch
  BY <1>7, DispatchKeeps
<1>8. CASE WriteSome
  BY <1>8, WriteKeeps
<1>9. CASE WriteFails
  BY <1>9, BrokenKeeps DEF WriteFails, clientVars, wire
<1>10. CASE Answered
  BY <1>10, AnsweredKeeps
<1>11. CASE Teardown
  BY <1>11, TeardownKeeps
<1>12. CASE UNCHANGED vars
  BY <1>12, WireStays DEF vars, clientVars, wire, pump, PumpInv, BeforeInv, HeadInv, BodyInv,
                          WriteInv, StopInv
<1> QED BY <1>2, <1>3, <1>4, <1>5, <1>6, <1>7, <1>8, <1>9, <1>10, <1>11, <1>12 DEF Next, Pump

\* Wherever the pump and its client are, every byte of every frame is at one place, in
\* its order, and the pump knows which request it is at.
THEOREM Inductive == Spec => [](TypeOK /\ PumpInv)
<1>1. Init => TypeOK /\ PumpInv
  BY TypeInit, InvInit
<1>2. TypeOK /\ PumpInv /\ [Next]_vars => (TypeOK /\ PumpInv)'
  BY TypeStep, InvStep
<1> QED BY <1>1, <1>2, PTL DEF Spec

-----------------------------------------------------------------------------
(* What the client is promised.                                            *)

\* The first bytes of a stream of n frames.
LEMMA StreamBytes ==
  ASSUME NEW n \in Nat, NEW s \in Seq(Nat \X Nat), From(0, s), Len(s) <= Bytes(n)
  PROVE  s = SubSeq(Stream(n), 1, Len(s)) /\ (Len(s) = Bytes(n) => s = Stream(n))
<1> DEFINE m == Len(s)
           S == Stream(n)
<1>1. m \in Nat /\ Bytes(n) \in Nat /\ Bytes(n) = n * (HeaderLen + BodyLen)
  BY BytesGrow DEF Bytes, L
<1>2. /\ DOMAIN S = 1 .. Bytes(n) /\ S = [k \in 1 .. Bytes(n) |-> S[k]]
      /\ \A k \in 1 .. Bytes(n) : S[k] = Byte(k) /\ S[k] \in Nat \X Nat
  <2>1. \A k \in 1 .. Bytes(n) : k \in Nat \ {0}
    BY <1>1
  <2>2. \A k \in 1 .. Bytes(n) : S[k] = Byte(k)
    BY <1>1 DEF Stream, Byte, L
  <2> QED BY <1>1, <2>1, <2>2, ByteType DEF Stream
<1> HIDE DEF S
<1>3. S \in Seq(Nat \X Nat) /\ Len(S) = Bytes(n)
  <2>1. S \in [1 .. Bytes(n) -> Nat \X Nat]
    BY <1>2
  <2> QED BY <1>1, <2>1
<1>4. \A j \in 1 .. m : s[j] = Byte(j) /\ j \in 1 .. Bytes(n)
  <2>1. \A j \in 1 .. m : 0 + j = j /\ j \in 1 .. Bytes(n)
    BY <1>1
  <2> QED BY <2>1 DEF From
<1>5. s = SubSeq(S, 1, m)
  <2>1. /\ SubSeq(S, 1, m) \in Seq(Nat \X Nat) /\ Len(SubSeq(S, 1, m)) = m
        /\ \A j \in 1 .. m : SubSeq(S, 1, m)[j] = S[j]
    <3>1. 1 \in Int /\ m \in Int /\ m - 1 + 1 = m /\ (1 <= m \/ m = 0) /\ \A j \in 1 .. m : 1 + j - 1 = j
      BY <1>1
    <3>2. \A j \in 1 .. m : S[j] \in Nat \X Nat
      BY <1>2, <1>4
    <3> QED BY <3>1, <3>2, SubSeqProperties
  <2> QED BY <1>2, <1>4, <2>1, SeqEqual
<1>6. ASSUME m = Bytes(n) PROVE s = S
  BY <1>2, <1>3, <1>4, <1>6, SeqEqual
<1> QED BY <1>5, <1>6 DEF S

\* However the bytes were cut and whenever either side gave up, what the client has read
\* are the answers to its requests, in their order and without a gap.
THEOREM AnswersInStep == Spec => []InStep
<1>1. TypeOK /\ PumpInv => InStep
  <2> SUFFICES ASSUME TypeOK, PumpInv PROVE InStep
    OBVIOUS
  <2>1. Len(plan) \in Nat /\ Bytes(Len(plan)) \in Nat /\ Len(plan) \in 0 .. Len(plan)
    BY Sizes, BytesGrow
  <2>2. Len(received) <= Bytes(Len(plan)) /\ From(0, received)
    BY <2>1, Sizes DEF PumpInv, WireInv, Given
  <2>3. received = SubSeq(Stream(Len(plan)), 1, Len(received))
    BY <2>1, <2>2, Sizes, StreamBytes
  <2> QED BY <2>1, <2>2, <2>3 DEF InStep, Bytes, L
<1> QED BY <1>1, Inductive, PTL

\* A client that asked the pump to stop, and stays, has read the whole answer by the time
\* the pipe is taken down.
THEOREM StopIsAnswered == Spec => []StopAnswered
<1>1. TypeOK /\ PumpInv => StopAnswered
  <2> SUFFICES ASSUME TypeOK, PumpInv, pc = "done", why = "stop", client = "open"
               PROVE  \E i \in DOMAIN plan : plan[i] = "stop" /\ received = Stream(i)
    BY DEF StopAnswered
  <2>1. PICK i \in DOMAIN plan : plan[i] = "stop" /\ AnsweredUpTo(i, 0)
    BY DEF PumpInv, StopInv
  <2>2. i \in Nat /\ Bytes(i) \in Nat
    <3>1. i \in Nat
      BY Sizes
    <3> QED BY <3>1, BytesGrow
  <2>3. Len(received) = Bytes(i) /\ From(0, received)
    <3>1. down = <<>> /\ Len(down) = 0
      BY DEF PumpInv, StopInv
    <3>2. Len(received) + 0 = Bytes(i) - 0
      BY <2>1, <3>1 DEF AnsweredUpTo, Given
    <3> QED BY <2>2, <3>2, Sizes DEF PumpInv, WireInv
  <2>4. received = Stream(i)
    BY <2>2, <2>3, Sizes, StreamBytes
  <2> QED BY <2>1, <2>4
<1> QED BY <1>1, Inductive, PTL

-----------------------------------------------------------------------------
(* The pump comes to an end: what can be said of it without fairness.      *)

Phase ==
  CASE pc = "start" -> 5
    [] pc = "connect" -> 4
    [] pc = "write" -> 3
    [] pc \in {"head", "body"} -> 2
    [] pc = "flush" -> 1
    [] OTHER -> 0

\* What a byte that is not read yet may still cost, and one that is.
ByteCost == L + 3
Bound == (Bytes(Len(plan)) - Taken) * (ByteCost + 1) + Len(got) * ByteCost + Len(put) + Phase

LEMMA CostIsNat ==
  ASSUME NEW w \in Nat, NEW t \in Nat, NEW g \in Nat
  PROVE  t * (w + 1) \in Nat /\ g * w \in Nat
OBVIOUS

LEMMA CostOfBytes ==
  ASSUME NEW w \in Nat, NEW t \in Nat, NEW g \in Nat, NEW n \in Nat \ {0}, n <= t,
         NEW p \in Nat, NEW q \in Nat
  PROVE  (t - n) * (w + 1) + (g + n) * w + p + q < t * (w + 1) + g * w + p + q
<1>1. t * (w + 1) \in Nat /\ g * w \in Nat
  OBVIOUS
<1>2. (t - n) * (w + 1) + (g + n) * w = t * (w + 1) + g * w - n
  OBVIOUS
<1> DEFINE a == t * (w + 1) + g * w
           b == (t - n) * (w + 1) + (g + n) * w
<1>3. a \in Nat /\ b = a - n
  BY <1>1, <1>2
<1> HIDE DEF a, b
<1>4. b + p + q < a + p + q
  BY <1>3
<1> QED BY <1>4 DEF a, b

LEMMA CostInHand ==
  ASSUME NEW t \in Nat, NEW c \in Nat, NEW g \in Nat, NEW x \in Nat, NEW h, NEW y \in Nat,
         \/ h = g /\ y < x
         \/ h = 0 /\ g >= 1 /\ y < x + c
  PROVE  t * (c + 1) + h * c + y < t * (c + 1) + g * c + x
<1>1. t * (c + 1) \in Nat /\ g * c \in Nat
  OBVIOUS
<1>2. CASE h = g /\ y < x
  BY <1>1, <1>2
<1>3. CASE h = 0 /\ g >= 1 /\ y < x + c
  <2>1. g * c >= c /\ h * c = 0
    BY <1>3
  <2> QED BY <1>1, <1>3, <2>1
<1> QED BY <1>2, <1>3

LEMMA BoundType ==
  ASSUME TypeOK, PumpInv
  PROVE  /\ Bound \in Nat /\ ByteCost \in Nat /\ ByteCost > L + 2 /\ L \in Nat \ {0}
         /\ Bytes(Len(plan)) - Taken \in Nat /\ Len(up) <= Bytes(Len(plan)) - Taken
         /\ Phase \in Nat /\ Len(got) \in Nat /\ Len(put) \in Nat
<1>1. ByteCost \in Nat /\ ByteCost > L + 2 /\ L \in Nat \ {0}
  BY FrameLength DEF ByteCost
<1>2. Bytes(Len(plan)) - Taken \in Nat /\ Len(up) <= Bytes(Len(plan)) - Taken
  <2>1. Len(plan) \in Nat /\ sent \in Nat /\ Len(up) \in Nat /\ Len(up) <= sent
    BY Sizes DEF PumpInv, WireInv
  <2>2. Bytes(Len(plan)) \in Nat /\ sent <= Bytes(Len(plan))
    BY <2>1, BytesGrow DEF TypeOK, Bytes, L
  <2>3. Taken \in Nat /\ Taken + Len(up) = sent
    BY <2>1 DEF Taken
  <2> QED BY <2>1, <2>2, <2>3
<1>3. Len(got) \in Nat /\ Len(put) \in Nat /\ Phase \in Nat
  BY Sizes DEF Phase
<1>4. (Bytes(Len(plan)) - Taken) * (ByteCost + 1) \in Nat /\ Len(got) * ByteCost \in Nat
  BY <1>1, <1>2, <1>3, CostIsNat
<1> QED BY <1>1, <1>2, <1>3, <1>4 DEF Bound

\* A step that reads nothing: what becomes of the bytes in hand and of the answer.
LEMMA BoundFalls ==
  ASSUME TypeOK, PumpInv, TypeOK', UNCHANGED <<plan, sent, up>>,
         \/ got' = got /\ Len(put') + Phase' < Len(put) + Phase
         \/ got' = <<>> /\ Len(got) >= 1 /\ Len(put') + Phase' < Len(put) + Phase + ByteCost
  PROVE  Bound' < Bound
<1>1. /\ Bytes(Len(plan)) - Taken \in Nat /\ ByteCost \in Nat /\ Len(got) \in Nat
      /\ Len(put) \in Nat /\ Phase \in Nat
  BY BoundType
<1>2. Len(put') \in Nat /\ Phase' \in Nat
  <2>1. put' \in Seq(Nat \X Nat)
    BY DEF TypeOK
  <2>2. Phase' \in Nat
    BY DEF Phase
  <2> QED BY <2>1, <2>2
<1>3. Bytes(Len(plan))' - Taken' = Bytes(Len(plan)) - Taken /\ ByteCost' = ByteCost
  BY DEF Taken, ByteCost, L, Bytes
<1> DEFINE t == Bytes(Len(plan)) - Taken
           c == ByteCost
           g == Len(got)
           h == Len(got')
           x == Len(put) + Phase
           y == Len(put') + Phase'
<1>4. /\ t \in Nat /\ c \in Nat /\ g \in Nat /\ x \in Nat /\ y \in Nat
      /\ \/ h = g /\ y < x
         \/ h = 0 /\ g >= 1 /\ y < x + c
  BY <1>1, <1>2
<1>5. Bound = t * (c + 1) + g * c + x
  <2>1. t * (c + 1) + g * c \in Nat
    BY <1>1
  <2> QED BY <1>1, <2>1 DEF Bound
<1>6. Bound' = t * (c + 1) + h * c + y
  <2>1. t * (c + 1) + h * c \in Nat
    BY <1>4
  <2> QED BY <1>2, <1>3, <2>1 DEF Bound
<1> HIDE DEF t, c, g, h, x, y
<1>7. t * (c + 1) + h * c + y < t * (c + 1) + g * c + x
  BY <1>4, CostInHand
<1> QED BY <1>5, <1>6, <1>7

\* The pump's steps are numbered, whatever its client does: each takes from Bound, which
\* nothing but a step of the pump changes and which is a natural number.  So the pump
\* comes to rest; EndsOrHeld says besides where: at its end, or in a teardown that waits
\* for its client.
THEOREM PumpRunsDown ==
  Spec => [](Bound \in Nat) /\ [][IF Pump THEN Bound' < Bound ELSE Bound' = Bound]_vars
<1>1. ASSUME TypeOK, PumpInv, TypeOK', PumpInv', Pump PROVE Bound' < Bound
  <2> USE DEF clientVars, wire
  <2>1. Len(put) \in Nat /\ Phase \in Nat /\ Len(got) \in Nat
    BY <1>1, BoundType
  <2>2. CASE Create \/ Connected \/ NotConnected \/ ReadFails \/ WriteFails \/ Answered \/ Teardown
    <3>1. UNCHANGED <<plan, sent, up, got, put>> /\ Phase' < Phase
      BY <2>2 DEF Create, Connected, NotConnected, ReadFails, WriteFails, Answered, Teardown,
                  Leave, Phase
    <3>2. Phase' \in Nat
      BY DEF Phase
    <3>3. Len(put') + Phase' < Len(put) + Phase
      BY <2>1, <3>1, <3>2
    <3> QED BY <1>1, <3>1, <3>3, BoundFalls
  <2>3. CASE HeaderRead
    <3>1. /\ UNCHANGED <<plan, sent, up, put>> /\ got' = <<>> /\ Len(got) >= 1
          /\ Phase = 2 /\ Phase' <= 2 /\ Phase' \in Nat
      BY <2>3, PumpAssumption DEF HeaderRead, ReadExact, Need, Leave, Phase
    <3>2. ByteCost \in Nat /\ ByteCost > 0
      BY <1>1, BoundType
    <3>3. Len(put') + Phase' < Len(put) + Phase + ByteCost
      BY <2>1, <3>1, <3>2
    <3> QED BY <1>1, <3>1, <3>3, BoundFalls
  <2>4. CASE Dispatch
    <3>1. /\ UNCHANGED <<plan, sent, up>> /\ got' = <<>> /\ Len(got) >= 1
          /\ put' = Frame(Request(got)) /\ Phase = 2 /\ Phase' = 3
      BY <2>4, PumpAssumption DEF Dispatch, ReadExact, Need, Phase
    <3>2. Len(put') = L
      BY <3>1, FrameLength DEF Frame, L
    <3>3. L \in Nat /\ ByteCost \in Nat /\ ByteCost > L + 2
      BY <1>1, BoundType
    <3>4. Len(put') + Phase' < Len(put) + Phase + ByteCost
      BY <2>1, <3>1, <3>2, <3>3
    <3> QED BY <1>1, <3>1, <3>4, BoundFalls
  <2>5. CASE WriteSome
    <3>1. /\ UNCHANGED <<plan, sent, up, got, pc>> /\ put # <<>> /\ put' = Tail(put) /\ Phase' = Phase
      BY <2>5 DEF WriteSome, Phase
    <3>2. Len(put') = Len(put) - 1
      BY <1>1, <3>1, Sizes, HeadTailProperties
    <3>3. Len(put') + Phase' < Len(put) + Phase
      BY <2>1, <3>1, <3>2
    <3> QED BY <1>1, <3>1, <3>3, BoundFalls
  <2>6. CASE ReadSome
    <3>1. /\ UNCHANGED <<plan, sent, pc, put>> /\ Phase' = Phase
      BY <2>6 DEF ReadSome, Phase
    <3>2. PICK n \in 1 .. Len(up) : /\ got' = got \o SubSeq(up, 1, n)
                                    /\ up' = SubSeq(up, n + 1, Len(up))
      BY <2>6 DEF ReadSome
    <3>3. Len(got') = Len(got) + n /\ Len(up') = Len(up) - n /\ n \in Nat \ {0} /\ n <= Len(up)
      <4>1. /\ up \in Seq(Nat \X Nat) /\ got \in Seq(Nat \X Nat) /\ Len(up) \in Nat
        BY <1>1, Sizes
      <4>2. /\ SubSeq(up, 1, n) \in Seq(Nat \X Nat) /\ Len(SubSeq(up, 1, n)) = n
        <5>1. 1 \in Int /\ n \in Int /\ n - 1 + 1 = n /\ \A j \in 1 .. n : up[j] \in Nat \X Nat
          BY <4>1, ElementOfSeq
        <5> QED BY <5>1, SubSeqProperties
      <4>3. Len(got') = Len(got) + n
        BY <3>2, <4>1, <4>2, ConcatProperties
      <4>4. Len(up') = Len(up) - n
        <5>1. n + 1 \in Int /\ Len(up) \in Int /\ \A j \in n + 1 .. Len(up) : up[j] \in Nat \X Nat
          BY <4>1, ElementOfSeq
        <5>2. Len(up') = IF n + 1 <= Len(up) THEN Len(up) - (n + 1) + 1 ELSE 0
          BY <3>2, <5>1, SubSeqProperties
        <5> QED BY <4>1, <5>2
      <4> QED BY <4>1, <4>3, <4>4
    <3> DEFINE t == Bytes(Len(plan)) - Taken
               c == ByteCost
               g == Len(got)
    <3>4. t \in Nat /\ n <= t /\ c \in Nat /\ g \in Nat /\ c' = c
      <4>1. c' = c
        BY DEF ByteCost, L
      <4> QED BY <1>1, <3>3, <4>1, BoundType, Sizes
    <3>5. t' = t - n
      <4>1. Taken' = Taken + n
        <5>1. sent \in Nat /\ Len(up) \in Nat
          BY <1>1, Sizes
        <5>2. sent' - Len(up') = sent - Len(up) + n
          BY <3>1, <3>3, <5>1
        <5> QED BY <5>2 DEF Taken
      <4>2. Taken \in Nat /\ Bytes(Len(plan)) \in Nat /\ Bytes(Len(plan))' = Bytes(Len(plan))
        <5>1. Taken \in Nat /\ Len(plan) \in Nat
          BY <1>1, Sizes DEF PumpInv
        <5> QED BY <3>1, <5>1, BytesGrow DEF Bytes, L
      <4> QED BY <3>3, <4>1, <4>2
    <3>6. g' = g + n
      BY <3>3
    <3>7. Bound = t * (c + 1) + g * c + Len(put) + Phase
      BY DEF Bound
    <3>8. Bound' = (t - n) * (c + 1) + (g + n) * c + Len(put) + Phase
      BY <3>1, <3>4, <3>5, <3>6 DEF Bound
    <3> HIDE DEF t, c, g
    <3>9. (t - n) * (c + 1) + (g + n) * c + Len(put) + Phase < t * (c + 1) + g * c + Len(put) + Phase
      BY <2>1, <3>3, <3>4, CostOfBytes
    <3> QED BY <3>7, <3>8, <3>9
  <2> QED BY <1>1, <2>2, <2>3, <2>4, <2>5, <2>6 DEF Pump
<1>2. ASSUME TypeOK, PumpInv, Next, ~Pump PROVE Bound' = Bound
  <2>1. UNCHANGED <<plan, got, put, pc>>
    BY <1>2 DEF Next, Connect, Send, Receive, CloseClient, pump
  <2>2. Taken' = Taken
    <3>1. CASE Send
      <4>1. sent' = sent + 1 /\ Len(up') = Len(up) + 1
        <5>1. /\ sent' = sent + 1 /\ sent < Len(plan) * (HeaderLen + BodyLen)
              /\ up' = Append(up, Stream(Len(plan))[sent + 1])
          BY <3>1 DEF Send
        <5>2. Stream(Len(plan))[sent + 1] \in Nat \X Nat
          BY <1>2, <5>1, SentByte
        <5> QED BY <1>2, <5>1, <5>2, Sizes, AppendProperties
      <4>2. sent \in Nat /\ Len(up) \in Nat
        BY <1>2, Sizes
      <4>3. sent' - Len(up') = sent - Len(up)
        BY <4>1, <4>2
      <4> QED BY <4>3 DEF Taken
    <3>2. CASE ~Send
      <4>1. UNCHANGED <<sent, up>>
        BY <1>2, <3>2 DEF Next, Connect, Receive, CloseClient, wire
      <4> QED BY <4>1 DEF Taken
    <3> QED BY <3>1, <3>2
  <2> QED BY <2>1, <2>2 DEF Bound, Phase, Bytes, ByteCost, L
<1>3. ASSUME UNCHANGED vars PROVE Bound' = Bound
  BY <1>3 DEF vars, clientVars, wire, pump, Bound, Phase, Bytes, ByteCost, L, Taken
<1>4. TypeOK /\ PumpInv => Bound \in Nat
  BY BoundType
<1>5. TypeOK /\ PumpInv /\ TypeOK' /\ PumpInv' /\ [Next]_vars
        => [IF Pump THEN Bound' < Bound ELSE Bound' = Bound]_vars
  BY <1>1, <1>2
<1> QED BY <1>4, <1>5, Inductive, PTL DEF Spec
=============================================================================
