-------------------------- MODULE NightRunnerProofs --------------------------
(* Theorems about NightRunner, for any queue, any number of workers and     *)
(* runs, any limit of the breaker, and runs killed at any point.            *)
EXTENDS NightRunner, FiniteSetTheorems, SequenceTheorems, TLAPS

NoReceipt(u) == \A i \in DOMAIN log : ~ReceiptOf(u, i)

IsResult(r) == r.kind \in {"ok", "fail"}

\* A unit in the pool has been given to a worker, and a result in hand is one.
AnswerInv ==
  /\ \A u \in active : answer[u] # "none"
  /\ \A u \in batch : answer[u] # "running"
  /\ pc \in {"down", "loop"} => batch = {}

\* A unit that waits or runs has no receipt, and waits or runs only once.
HandInv ==
  /\ \A i, j \in DOMAIN todo : i # j => todo[i] # todo[j]
  /\ \A i \in DOMAIN todo : todo[i] \notin active /\ NoReceipt(todo[i])
  /\ \A u \in active : NoReceipt(u)

\* Of what is still to be written, one record at most is a receipt, of a unit that has
\* none, and its claim is written or goes before it.
OutInv ==
  /\ \A i \in DOMAIN out : IsResult(out[i]) =>
       /\ out[i].unit \in Units \ active /\ NoReceipt(out[i].unit)
       /\ \A k \in DOMAIN todo : todo[k] # out[i].unit
  /\ \A i, j \in DOMAIN out : IsResult(out[i]) /\ IsResult(out[j]) => i = j
  /\ \A i \in DOMAIN out : out[i].kind = "claim" =>
       i = 1 /\ Len(out) >= 2 /\ out[2].kind = "ok" /\ out[2].unit = out[1].unit
  /\ \A i \in DOMAIN out : out[i].kind = "ok" =>
       claims[out[i].unit] = "whole" \/ out[1].kind = "claim"

\* The main thread writes only what it has in hand, and a process that is down has nothing.
PcInv ==
  /\ out # << >> => pc \in {"results", "end"}
  /\ pc = "down" => state = "none" /\ told = << >> /\ begun = {} /\ failures = 0 /\ active = {}

TornInv == torn => ~Parses(log[Len(log)])

ChainInv ==
  pc # "down" /\ log # << >> /\ Parses(log[Len(log)]) => lastHash = Hash(log[Len(log)])

\* A receipt is of a unit of the queue.
UnitInv == \A i \in DOMAIN log : IsReceipt(log[i]) => log[i][1].unit \in Units

FileInv == UnitInv /\ AnswerInv /\ HandInv /\ OutInv /\ PcInv /\ TornInv /\ ChainInv

\* Every unit of a run is accounted for.
AccountInv ==
  /\ \A u \in begun : u \in active \/ Pieced(u) \/ \E i \in DOMAIN out : IsResult(out[i]) /\ out[i].unit = u
  /\ pc # "down" => \A u \in Units : Pieced(u) \/ u \in begun \/ \E i \in DOMAIN todo : todo[i] = u

EndInv ==
  /\ pc = "loop" => state # "breaker"
  /\ pc = "drop" => state = "breaker"
  /\ pc = "end" =>
       /\ \A i \in DOMAIN out : ~IsResult(out[i])
       /\ state # "breaker" => active = {}
       /\ state = "exhausted" => todo = << >>

\* failures counts the failures at the end of what was told.
TellInv ==
  /\ failures <= Len(told)
  /\ \A k \in 1 .. Len(told) : k > Len(told) - failures => told[k] = "fail"
  /\ failures < Len(told) => told[Len(told) - failures] = "ok"

StateInv == AccountInv /\ EndInv /\ TellInv /\ BreakerExact

-----------------------------------------------------------------------------
(* Sequences: the head and the rest of what is to be written, and the file  *)
(* with a piece more.                                                       *)

LEMMA OutTail ==
  ASSUME TypeOK, out # << >>
  PROVE  /\ Head(out) \in Outs /\ Head(out) = out[1] /\ 1 \in DOMAIN out
         /\ Tail(out) \in Seq(Outs)
         /\ \A i \in DOMAIN Tail(out) : i + 1 \in DOMAIN out /\ Tail(out)[i] = out[i + 1] /\ i \in Nat \ {0}
<1>1. out \in Seq(Outs)
  BY DEF TypeOK
<1>2. /\ Head(out) \in Outs /\ Tail(out) \in Seq(Outs) /\ Len(Tail(out)) = Len(out) - 1
      /\ \A i \in 1 .. Len(Tail(out)) : Tail(out)[i] = out[i + 1]
  BY <1>1, HeadTailProperties
<1>3. Len(out) \in Nat \ {0} /\ DOMAIN out = 1 .. Len(out) /\ DOMAIN Tail(out) = 1 .. Len(Tail(out))
  BY <1>1, <1>2, EmptySeq, LenProperties
<1>4. Head(out) = out[1]
  BY <1>1
<1> QED BY <1>2, <1>3, <1>4

LEMMA PieceTyped ==
  ASSUME TypeOK, out # << >>, Head(out).kind \in Kinds, NEW whole \in BOOLEAN
  PROVE  Piece(Head(out), whole) \in Pieces
<1>1. Head(out) \in [kind : Kinds, unit : 0 .. N, state : States]
  BY OutTail DEF Outs, Kinds
<1> QED BY <1>1 DEF Piece, Pieces, TypeOK

LEMMA AppendedNew ==
  ASSUME TypeOK, NEW x \in Pieces, ~torn
  PROVE  /\ Appended(x) \in Seq(Seq(Pieces))
         /\ DOMAIN log = 1 .. Len(log) /\ Len(log) \in Nat
         /\ Len(Appended(x)) = Len(log) + 1 /\ DOMAIN Appended(x) = 1 .. Len(log) + 1
         /\ Appended(x)[Len(log) + 1] = <<x>>
         /\ \A i \in 1 .. Len(log) : Appended(x)[i] = log[i]
         /\ \A i \in DOMAIN Appended(x) : Appended(x)[i] # << >>
<1>1. log \in Seq(Seq(Pieces)) /\ Len(log) \in Nat /\ DOMAIN log = 1 .. Len(log)
  BY LenProperties DEF TypeOK
<1>2. \A i \in 1 .. Len(log) : log[i] # << >>
  BY <1>1 DEF TypeOK
<1> DEFINE line == <<x>>
<1>3. line \in Seq(Pieces) /\ line # << >>
  OBVIOUS
<1>4. Appended(x) = Append(log, line)
  BY DEF Appended
<1> HIDE DEF line
<1>5. /\ Appended(x) \in Seq(Seq(Pieces)) /\ Len(Appended(x)) = Len(log) + 1
      /\ Appended(x)[Len(log) + 1] = line
      /\ \A i \in 1 .. Len(log) : Appended(x)[i] = log[i]
  BY <1>1, <1>3, <1>4, AppendProperties
<1>6. DOMAIN Appended(x) = 1 .. Len(log) + 1
  BY <1>5, LenProperties
<1>7. ASSUME NEW i \in DOMAIN Appended(x) PROVE Appended(x)[i] # << >>
  <2>1. CASE i = Len(log) + 1
    BY <1>3, <1>5, <2>1
  <2>2. CASE i # Len(log) + 1
    <3>1. i \in 1 .. Len(log)
      BY <1>1, <1>6, <1>7, <2>2
    <3> QED BY <1>2, <1>5, <3>1
  <2> QED BY <2>1, <2>2
<1> QED BY <1>1, <1>5, <1>6, <1>7 DEF line

LEMMA AppendedTorn ==
  ASSUME TypeOK, NEW x \in Pieces, torn
  PROVE  /\ Appended(x) \in Seq(Seq(Pieces))
         /\ DOMAIN log = 1 .. Len(log) /\ Len(log) \in Nat \ {0}
         /\ Len(Appended(x)) = Len(log) /\ DOMAIN Appended(x) = 1 .. Len(log)
         /\ log[Len(log)] \in Seq(Pieces)
         /\ Appended(x)[Len(log)] = Append(log[Len(log)], x)
         /\ ~Parses(Appended(x)[Len(log)])
         /\ \A i \in 1 .. Len(log) - 1 : Appended(x)[i] = log[i]
         /\ \A i \in DOMAIN Appended(x) : Appended(x)[i] # << >>
<1>1. log \in Seq(Seq(Pieces)) /\ Len(log) \in Nat /\ DOMAIN log = 1 .. Len(log) /\ log # << >>
  BY LenProperties DEF TypeOK
<1>2. Len(log) \in Nat \ {0} /\ Len(log) \in 1 .. Len(log)
  BY <1>1, EmptySeq
<1>3. \A i \in 1 .. Len(log) : log[i] # << >>
  BY <1>1 DEF TypeOK
<1>4. log[Len(log)] \in Seq(Pieces) /\ log[Len(log)] # << >>
  BY <1>1, <1>2, <1>3, ElementOfSeq
<1> DEFINE line == Append(log[Len(log)], x)
<1>5. line \in Seq(Pieces) /\ Len(line) = Len(log[Len(log)]) + 1
  BY <1>4, AppendProperties
<1>6. Len(log[Len(log)]) \in Nat /\ Len(log[Len(log)]) > 0
  BY <1>4, EmptySeq, LenProperties
<1>7. Len(line) # 1 /\ line # << >>
  BY <1>5, <1>6, EmptySeq
<1>8. Appended(x) = [log EXCEPT ![Len(log)] = line]
  BY DEF Appended
<1> HIDE DEF line
<1>9. /\ Appended(x) \in Seq(Seq(Pieces)) /\ Len(Appended(x)) = Len(log)
      /\ \A j \in 1 .. Len(log) : Appended(x)[j] = IF j = Len(log) THEN line ELSE log[j]
  BY <1>1, <1>2, <1>5, <1>8, ExceptSeq
<1>10. DOMAIN Appended(x) = 1 .. Len(log)
  BY <1>9, LenProperties
<1>11. Appended(x)[Len(log)] = line /\ \A i \in 1 .. Len(log) - 1 : Appended(x)[i] = log[i]
  BY <1>2, <1>9
<1>12. \A i \in DOMAIN Appended(x) : Appended(x)[i] # << >>
  BY <1>3, <1>7, <1>9, <1>10
<1>13. ~Parses(Appended(x)[Len(log)])
  BY <1>7, <1>11 DEF Parses
<1> QED BY <1>1, <1>2, <1>4, <1>9, <1>10, <1>11, <1>12, <1>13 DEF line

\* A piece more makes one receipt more at most: the piece, if it is a whole record and
\* stands on a line of its own.
LEMMA NewReceipt ==
  ASSUME TypeOK, TornInv, NEW x \in Pieces, log' = Appended(x),
         NEW u, NEW i \in DOMAIN log', ReceiptOf(u, i)'
  PROVE  \/ i \in DOMAIN log /\ ReceiptOf(u, i) /\ log'[i] = log[i]
         \/ i = Len(log) + 1 /\ x.whole /\ IsResult(x) /\ x.unit = u /\ log'[i] = <<x>>
<1>1. CASE ~torn
  <2>0. DOMAIN log = 1 .. Len(log) /\ Len(log) \in Nat /\ DOMAIN log' = 1 .. Len(log) + 1
    BY <1>1, AppendedNew
  <2>1. CASE i = Len(log) + 1
    <3>1. log'[i] = <<x>>
      BY <1>1, <2>1, AppendedNew
    <3>2. log'[i][1] = x
      BY <3>1
    <3> QED BY <2>1, <3>1, <3>2 DEF ReceiptOf, IsReceipt, Parses, IsResult
  <2>2. CASE i \in 1 .. Len(log)
    <3>1. log'[i] = log[i] /\ i \in DOMAIN log
      BY <1>1, <2>0, <2>2, AppendedNew
    <3> QED BY <3>1 DEF ReceiptOf, IsReceipt, Parses
  <2> QED BY <2>0, <2>1, <2>2
<1>2. CASE torn
  <2>0. /\ DOMAIN log = 1 .. Len(log) /\ Len(log) \in Nat \ {0} /\ DOMAIN log' = 1 .. Len(log)
        /\ ~Parses(log'[Len(log)])
    BY <1>2, AppendedTorn
  <2>1. i # Len(log)
    BY <2>0 DEF ReceiptOf, IsReceipt
  <2>2. i \in 1 .. Len(log) - 1
    BY <2>0, <2>1
  <2>3. log'[i] = log[i] /\ i \in DOMAIN log
    BY <1>2, <2>0, <2>2, AppendedTorn
  <2> QED BY <2>3 DEF ReceiptOf, IsReceipt, Parses
<1> QED BY <1>1, <1>2

\* What was written stays written, on whatever line.
LEMMA PiecesStay ==
  ASSUME TypeOK, NEW x \in Pieces, log' = Appended(x)
  PROVE  /\ \A u : Pieced(u) => Pieced(u)'
         /\ x.whole /\ IsResult(x) => Pieced(x.unit)'
<1>1. CASE ~torn
  <2>1. /\ DOMAIN log = 1 .. Len(log) /\ Len(log) \in Nat /\ DOMAIN log' = 1 .. Len(log) + 1
        /\ log'[Len(log) + 1] = <<x>> /\ \A i \in 1 .. Len(log) : log'[i] = log[i]
    BY <1>1, AppendedNew
  <2>2. ASSUME NEW u, Pieced(u) PROVE Pieced(u)'
    <3>1. \A i \in DOMAIN log : i \in DOMAIN log' /\ log'[i] = log[i]
      BY <2>1
    <3> QED BY <2>2, <3>1 DEF Pieced
  <2>3. Len(log) + 1 \in DOMAIN log' /\ 1 \in DOMAIN log'[Len(log) + 1] /\ log'[Len(log) + 1][1] = x
    BY <2>1
  <2>4. ASSUME x.whole, IsResult(x) PROVE Pieced(x.unit)'
    BY <2>3, <2>4 DEF Pieced, IsResult
  <2> QED BY <2>2, <2>4
<1>2. CASE torn
  <2> DEFINE n == Len(log)
  <2>1. /\ DOMAIN log = 1 .. n /\ n \in Nat \ {0} /\ DOMAIN log' = 1 .. n
        /\ log[n] \in Seq(Pieces) /\ log'[n] = Append(log[n], x)
        /\ \A i \in 1 .. n - 1 : log'[i] = log[i]
    BY <1>2, AppendedTorn
  <2>2. /\ DOMAIN log[n] = 1 .. Len(log[n]) /\ Len(log[n]) \in Nat
        /\ DOMAIN log'[n] = 1 .. Len(log[n]) + 1 /\ log'[n][Len(log[n]) + 1] = x
        /\ \A k \in 1 .. Len(log[n]) : log'[n][k] = log[n][k]
    BY <2>1, AppendProperties, LenProperties
  <2>3. ASSUME NEW i \in DOMAIN log, NEW k \in DOMAIN log[i]
        PROVE  i \in DOMAIN log' /\ k \in DOMAIN log'[i] /\ log'[i][k] = log[i][k]
    <3>1. CASE i = n
      BY <2>1, <2>2, <2>3, <3>1
    <3>2. CASE i # n
      BY <2>1, <2>3, <3>2
    <3> QED BY <3>1, <3>2
  <2>4. ASSUME NEW u, Pieced(u) PROVE Pieced(u)'
    BY <2>3, <2>4 DEF Pieced
  <2>5. n \in DOMAIN log' /\ Len(log[n]) + 1 \in DOMAIN log'[n]
    BY <2>1, <2>2
  <2>6. ASSUME x.whole, IsResult(x) PROVE Pieced(x.unit)'
    BY <2>2, <2>5, <2>6 DEF Pieced, IsResult
  <2> QED BY <2>4, <2>6
<1> QED BY <1>1, <1>2

\* The writes for a result, one by one.
LEMMA WritesHas ==
  ASSUME TypeOK, NEW u \in Units
  PROVE  /\ WritesFor(u) \in Seq(Outs)
         /\ DOMAIN WritesFor(u) \subseteq 1 .. 3 /\ 1 \in DOMAIN WritesFor(u)
         /\ answer[u] = "ok" =>
              /\ Len(WritesFor(u)) >= 2 /\ 2 \in DOMAIN WritesFor(u)
              /\ WritesFor(u)[1] = [kind |-> "claim", unit |-> u]
              /\ WritesFor(u)[2] = Record("ok", u, "none")
              /\ 3 \in DOMAIN WritesFor(u) => WritesFor(u)[3] = Record("heartbeat", 0, "none")
         /\ answer[u] # "ok" =>
              /\ DOMAIN WritesFor(u) \subseteq 1 .. 2
              /\ WritesFor(u)[1] = Record("fail", u, "none")
              /\ 2 \in DOMAIN WritesFor(u) => WritesFor(u)[2] = Record("heartbeat", 0, "none")
<1> DEFINE claim == [kind |-> "claim", unit |-> u]
           ok == Record("ok", u, "none")
           fail == Record("fail", u, "none")
           beat == Record("heartbeat", 0, "none")
<1>1. claim \in Outs /\ ok \in Outs /\ fail \in Outs /\ beat \in Outs
  BY NightAssumption DEF Outs, Record, Kinds, States, Units
<1>2. WritesFor(u) = LET result == IF answer[u] = "ok" THEN <<claim, ok>> ELSE <<fail>>
                     IN IF HeartbeatDue THEN Append(result, beat) ELSE result
  BY DEF WritesFor, ClaimThenReceipt
<1> HIDE DEF claim, ok, fail, beat
<1>3. CASE answer[u] = "ok"
  <2> DEFINE two == <<claim, ok>>
  <2>1. two \in Seq(Outs) /\ Len(two) = 2 /\ two[1] = claim /\ two[2] = ok /\ DOMAIN two = 1 .. 2
    BY <1>1
  <2>2. WritesFor(u) = IF HeartbeatDue THEN Append(two, beat) ELSE two
    BY <1>2, <1>3
  <2> HIDE DEF two
  <2>3. CASE HeartbeatDue
    <3>1. WritesFor(u) = Append(two, beat)
      BY <2>2, <2>3
    <3>2. /\ WritesFor(u) \in Seq(Outs) /\ Len(WritesFor(u)) = 3 /\ DOMAIN WritesFor(u) = 1 .. 3
          /\ WritesFor(u)[1] = claim /\ WritesFor(u)[2] = ok /\ WritesFor(u)[3] = beat
      BY <1>1, <2>1, <3>1, AppendProperties
    <3> QED BY <1>3, <3>2 DEF claim, ok, beat
  <2>4. CASE ~HeartbeatDue
    <3>1. WritesFor(u) = two
      BY <2>2, <2>4
    <3> QED BY <1>3, <2>1, <3>1 DEF claim, ok
  <2> QED BY <2>3, <2>4
<1>4. CASE answer[u] # "ok"
  <2> DEFINE one == <<fail>>
  <2>1. one \in Seq(Outs) /\ Len(one) = 1 /\ one[1] = fail /\ DOMAIN one = 1 .. 1
    BY <1>1
  <2>2. WritesFor(u) = IF HeartbeatDue THEN Append(one, beat) ELSE one
    BY <1>2, <1>4
  <2> HIDE DEF one
  <2>3. CASE HeartbeatDue
    <3>1. WritesFor(u) = Append(one, beat)
      BY <2>2, <2>3
    <3>2. one \in Seq(Outs) /\ beat \in Outs
      BY <1>1, <2>1
    <3>3. /\ WritesFor(u) \in Seq(Outs) /\ Len(WritesFor(u)) = Len(one) + 1
          /\ WritesFor(u)[Len(one) + 1] = beat
          /\ \A i \in 1 .. Len(one) : WritesFor(u)[i] = one[i]
      BY <3>1, <3>2, AppendProperties
    <3>4. /\ Len(WritesFor(u)) = 2 /\ WritesFor(u)[2] = beat /\ WritesFor(u)[1] = fail
      BY <2>1, <3>3
    <3>5. DOMAIN WritesFor(u) = 1 .. 2
      BY <3>3, <3>4, LenProperties
    <3> QED BY <1>4, <3>3, <3>4, <3>5 DEF fail, beat
  <2>4. CASE ~HeartbeatDue
    <3>1. WritesFor(u) = one
      BY <2>2, <2>4
    <3> QED BY <1>4, <2>1, <3>1 DEF fail
  <2> QED BY <2>3, <2>4
<1> QED BY <1>3, <1>4
-----------------------------------------------------------------------------
(* The type invariant, with what the pool must be for it.                   *)

LEMMA InitType == Init => TypeOK /\ FileInv /\ StateInv
<1> SUFFICES ASSUME Init PROVE TypeOK /\ FileInv /\ StateInv
  OBVIOUS
<1>1. MaxRuns \in Nat /\ MaxCrashes \in Nat /\ MaxFailures \in Nat \ {0}
  BY NightAssumption
<1>2. TypeOK
  <2>1. << >> \in Seq(Seq(Pieces)) /\ << >> \in Seq(Units) /\ << >> \in Seq(Outs)
        /\ << >> \in Seq({"ok", "fail"}) /\ << >> \in Hashes
    BY EmptySeq DEF Hashes
  <2>2. 0 \in 0 .. MaxRuns /\ 0 \in 0 .. MaxCrashes
    BY <1>1
  <2>3. Init => \A i \in DOMAIN log : log[i] # << >>
    BY DEF Init
  <2>4. claims \in [Units -> {"none", "torn", "whole"}]
        /\ answer \in [Units -> {"none", "running", "ok", "fail", "raise"}]
        /\ \A u \in Units : answer[u] # "running"
    BY DEF Init
  <2>5. /\ log = << >> /\ torn = FALSE /\ tripped = FALSE /\ pc = "down" /\ runs = 0 /\ crashes = 0
        /\ writes = 0 /\ lastHash = << >> /\ todo = << >> /\ active = {} /\ batch = {}
        /\ out = << >> /\ failures = 0 /\ processed = 0 /\ late = FALSE /\ state = "none"
        /\ begun = {} /\ told = << >>
    BY DEF Init
  <2> HIDE <2>5
  <2> QED BY <2>1, <2>2, <2>3, <2>4, <2>5 DEF TypeOK, States
<1>3. FileInv
  BY DEF Init, FileInv, UnitInv, AnswerInv, HandInv, OutInv, PcInv, TornInv, ChainInv
<1>4. StateInv
  BY <1>1 DEF Init, StateInv, AccountInv, EndInv, TellInv, BreakerExact
<1> QED BY <1>2, <1>3, <1>4

LEMMA PendingTyped ==
  ASSUME NEW s \in Pending
  PROVE  /\ s \in Seq(Units)
         /\ \A i, j \in DOMAIN s : i # j => s[i] # s[j]
         /\ \A i \in DOMAIN s : NoReceipt(s[i])
         /\ \A u \in Units : u \in Completed \/ \E i \in DOMAIN s : s[i] = u
<1> DEFINE left == Units \ Completed
           n == Cardinality(left)
<1>1. n \in Nat
  <2>1. IsFiniteSet(Units)
    BY NightAssumption, FS_Interval DEF Units
  <2>2. IsFiniteSet(left)
    BY <2>1, FS_Subset
  <2> QED BY <2>2, FS_CardinalityType
<1>2. /\ s \in [1 .. n -> left]
      /\ \A i, j \in DOMAIN s : i < j => s[i] < s[j]
      /\ \A u \in left : \E i \in DOMAIN s : s[i] = u
  BY DEF Pending
<1> HIDE DEF n
<1>3. s \in Seq(Units)
  BY <1>1, <1>2, SeqDef
<1>4. ASSUME NEW i \in DOMAIN s, NEW j \in DOMAIN s, i # j PROVE s[i] # s[j]
  <2>1. i \in Nat /\ j \in Nat /\ s[i] \in Nat /\ s[j] \in Nat
    BY <1>1, <1>2 DEF Units
  <2>2. i < j \/ j < i
    BY <1>4, <2>1
  <2>3. s[i] < s[j] \/ s[j] < s[i]
    BY <1>2, <2>2
  <2> QED BY <2>1, <2>3
<1>5. \A i \in DOMAIN s : NoReceipt(s[i])
  BY <1>2 DEF NoReceipt, Completed
<1> QED BY <1>2, <1>3, <1>4, <1>5

LEMMA TodoHead ==
  ASSUME TypeOK, todo # << >>
  PROVE  /\ Head(todo) \in Units /\ Head(todo) = todo[1] /\ 1 \in DOMAIN todo
         /\ Tail(todo) \in Seq(Units)
         /\ \A i \in DOMAIN Tail(todo) : /\ i + 1 \in DOMAIN todo /\ Tail(todo)[i] = todo[i + 1]
                                         /\ i \in Nat \ {0}
         /\ \A i \in DOMAIN todo : i # 1 => i - 1 \in DOMAIN Tail(todo) /\ Tail(todo)[i - 1] = todo[i]
<1>1. todo \in Seq(Units)
  BY DEF TypeOK
<1>2. /\ Head(todo) \in Units /\ Tail(todo) \in Seq(Units) /\ Len(Tail(todo)) = Len(todo) - 1
      /\ \A i \in 1 .. Len(Tail(todo)) : Tail(todo)[i] = todo[i + 1]
  BY <1>1, HeadTailProperties
<1>3. /\ Len(todo) \in Nat \ {0} /\ DOMAIN todo = 1 .. Len(todo)
      /\ DOMAIN Tail(todo) = 1 .. Len(todo) - 1
  BY <1>1, <1>2, EmptySeq, LenProperties
<1>4. Head(todo) = todo[1]
  BY <1>1
<1>5. ASSUME NEW i \in DOMAIN todo, i # 1
      PROVE  i - 1 \in DOMAIN Tail(todo) /\ Tail(todo)[i - 1] = todo[i]
  <2>1. i - 1 \in 1 .. Len(todo) - 1 /\ (i - 1) + 1 = i
    BY <1>3, <1>5
  <2> QED BY <1>2, <1>3, <2>1
<1> QED BY <1>2, <1>3, <1>4, <1>5

LEMMA ForgetType ==
  ASSUME TypeOK, Forget, log' \in Seq(Seq(Pieces)), \A i \in DOMAIN log' : log'[i] # << >>,
         torn' \in BOOLEAN, torn' => log' # << >>,
         claims' \in [Units -> {"none", "torn", "whole"}], UNCHANGED tripped,
         UNCHANGED runs, crashes' \in 0 .. MaxCrashes, writes' \in Nat
  PROVE  TypeOK'
<1>1. << >> \in Seq(Units) /\ << >> \in Seq(Outs) /\ << >> \in Seq({"ok", "fail"}) /\ << >> \in Hashes
  BY EmptySeq DEF Hashes
<1> QED BY <1>1 DEF Forget, TypeOK, States

LEMMA NextType ==
  ASSUME TypeOK, AnswerInv, [Next]_vars
  PROVE  TypeOK'
<1> USE DEF files, memory
<1>1. CASE Open
  <2>1. todo' \in Seq(Units)
    BY <1>1, PendingTyped DEF Open
  <2>2. runs' \in 0 .. MaxRuns
    BY <1>1, NightAssumption DEF Open, TypeOK
  <2>3. lastHash' \in Hashes
    <3>1. CASE log = << >>
      BY <1>1, <3>1 DEF Open, Seed, Hashes
    <3>2. CASE log # << >>
      <4> DEFINE line == log[Len(log)]
      <4>1. log \in Seq(Seq(Pieces)) /\ Len(log) \in 1 .. Len(log)
        BY <3>2, EmptySeq, LenProperties DEF TypeOK
      <4>2. line \in Seq(Pieces)
        BY <4>1, ElementOfSeq
      <4>3. Hash(line) = [i \in DOMAIN line |-> <<line[i].id, line[i].whole>>]
        BY DEF Hash
      <4> HIDE DEF line
      <4>4. \A i \in DOMAIN line : <<line[i].id, line[i].whole>> \in (Nat \ {0}) \X BOOLEAN
        <5>1. \A i \in DOMAIN line : line[i] \in Pieces
          BY <4>2, ElementOfSeq, LenProperties
        <5> QED BY <5>1 DEF Pieces
      <4>5. Len(line) \in Nat /\ DOMAIN line = 1 .. Len(line)
        BY <4>2, LenProperties
      <4>6. Hash(line) \in [1 .. Len(line) -> (Nat \ {0}) \X BOOLEAN]
        BY <4>3, <4>4, <4>5
      <4>7. Hash(line) \in Hashes
        BY <4>5, <4>6, SeqDef DEF Hashes
      <4> QED BY <1>1, <3>2, <4>7 DEF Open, Seed, line
    <3> QED BY <3>1, <3>2
  <2> QED BY <1>1, <2>1, <2>2, <2>3 DEF Open, TypeOK
<1>2. CASE Submit
  <2>1. todo # << >>
    BY <1>2 DEF Submit, MaySubmit
  <2>2. Head(todo) \in Units /\ Tail(todo) \in Seq(Units)
    BY <2>1, TodoHead
  <2>3. answer' \in [Units -> {"none", "running", "ok", "fail", "raise"}]
    BY <1>2, <2>2 DEF Submit, TypeOK
  <2>4. \A u \in Units : answer'[u] = "running" => u \in active'
    BY <1>2, <2>2 DEF Submit, TypeOK
  <2> QED BY <1>2, <2>2, <2>3, <2>4 DEF Submit, TypeOK
<1>3. CASE WaitTimesOut
  BY <1>3 DEF WaitTimesOut, TypeOK, States
<1>4. CASE Wait
  BY <1>4 DEF Wait, Ready, TypeOK
<1>5. ASSUME NEW u \in Units, Result(u) PROVE TypeOK'
  <2>1. answer[u] \in {"ok", "fail"}
    BY <1>5 DEF Result, AnswerInv, TypeOK
  <2>2. told' \in Seq({"ok", "fail"})
    BY <1>5, <2>1, AppendProperties DEF Result, TypeOK
  <2>3. out' \in Seq(Outs)
    BY <1>5, WritesHas DEF Result
  <2>4. failures' \in Nat /\ processed' \in Nat
    BY <1>5 DEF Result, TypeOK
  <2>5. state' \in States
    BY <1>5 DEF Result, Breaker, TypeOK, States
  <2>6. \A v \in Units : answer'[v] = "running" => v \in active'
    BY <1>5, <2>1 DEF Result, TypeOK
  <2>7. active' \subseteq Units /\ batch' \subseteq active'
    BY <1>5 DEF Result, TypeOK
  <2> QED BY <1>5, <2>2, <2>3, <2>4, <2>5, <2>6, <2>7 DEF Result, TypeOK
<1>6. ASSUME NEW u \in Units, ResultRaises(u) PROVE TypeOK'
  BY <1>6 DEF ResultRaises, TypeOK
<1>7. CASE WriteRecord
  <2> DEFINE x == Piece(Head(out), TRUE)
  <2>1. x \in Pieces
    BY <1>7, PieceTyped DEF WriteRecord
  <2>2. log' \in Seq(Seq(Pieces)) /\ \A i \in DOMAIN log' : log'[i] # << >>
    BY <1>7, <2>1, AppendedNew, AppendedTorn DEF WriteRecord, TypeOK
  <2>3. x.id = writes + 1 /\ x.whole = TRUE
    BY DEF Piece
  <2>4. lastHash' = [i \in DOMAIN <<x>> |-> << <<x>>[i].id, <<x>>[i].whole>>]
    BY <1>7 DEF WriteRecord, Chained, Hash
  <2> HIDE DEF x
  <2>5. lastHash' \in [1 .. 1 -> (Nat \ {0}) \X BOOLEAN]
    BY <2>1, <2>4 DEF Pieces
  <2>6. lastHash' \in Hashes
    BY <2>5, SeqDef DEF Hashes
  <2>7. out' \in Seq(Outs)
    BY <1>7, OutTail DEF WriteRecord
  <2>8. writes' \in Nat /\ torn' = FALSE
    BY <1>7 DEF WriteRecord, TypeOK
  <2>9. UNCHANGED <<claims, tripped, pc, runs, crashes, answer, todo, active, batch, failures,
                    processed, late, state, begun, told>>
    BY <1>7 DEF WriteRecord
  <2> QED BY <2>2, <2>6, <2>7, <2>8, <2>9 DEF TypeOK
<1>8. CASE WriteFile
  <2>1. Head(out) \in Outs /\ out' \in Seq(Outs)
    BY <1>8, OutTail DEF WriteFile
  <2>2. claims' \in [Units -> {"none", "torn", "whole"}]
    BY <1>8 DEF WriteFile, TypeOK
  <2>3. tripped' \in BOOLEAN
    BY <1>8 DEF WriteFile, TypeOK
  <2> QED BY <1>8, <2>1, <2>2, <2>3 DEF WriteFile, TypeOK
<1>9. CASE BatchDone
  BY <1>9 DEF BatchDone, TypeOK
<1>10. ASSUME NEW st \in {"exhausted", "breaker", "deadline"}, Over(st)
       PROVE  out' \in Seq(Outs) /\ state' \in States /\ pc' = "end"
  <2> DEFINE head == IF st = "breaker" THEN <<[kind |-> "breaker", unit |-> 0]>> ELSE << >>
             last == Record("terminal", 0, st)
  <2>1. [kind |-> "breaker", unit |-> 0] \in Outs /\ last \in Outs
    BY NightAssumption DEF Outs, Record, Kinds, States
  <2>4. head \in Seq(Outs)
    BY <2>1
  <2>2. out' = Append(head, last)
    BY <1>10 DEF Over
  <2> HIDE DEF head, last
  <2>3. out' \in Seq(Outs)
    BY <2>1, <2>2, <2>4, AppendProperties
  <2> QED BY <1>10, <2>3 DEF Over, States
<1>11. CASE Drop
  BY <1>10, <1>11 DEF Drop, TypeOK
<1>12. CASE LoopEnds
  BY <1>10, <1>12 DEF LoopEnds, TypeOK
<1>13. CASE Finish
  BY <1>13, ForgetType DEF Finish, TypeOK
<1>14. CASE DeadlinePasses
  BY <1>14 DEF DeadlinePasses, TypeOK
<1>15. CASE Crash
  <2>1. crashes' \in 0 .. MaxCrashes /\ Forget /\ UNCHANGED <<runs, tripped>>
    <3>1. crashes \in 0 .. MaxCrashes /\ MaxCrashes \in Nat
      BY NightAssumption DEF TypeOK
    <3>2. /\ crashes < MaxCrashes /\ crashes' = crashes + 1 /\ Forget
          /\ UNCHANGED runs /\ UNCHANGED tripped
      BY <1>15 DEF Crash
    <3> QED BY <3>1, <3>2
  <2>2. CASE UNCHANGED files
    BY <2>1, <2>2, ForgetType DEF TypeOK
  <2>3. CASE /\ out # << >> /\ Head(out).kind \in Kinds
             /\ log' = Appended(Piece(Head(out), FALSE))
             /\ torn' = TRUE /\ writes' = writes + 1 /\ UNCHANGED <<claims, tripped>>
    <3> DEFINE x == Piece(Head(out), FALSE)
    <3>1. x \in Pieces
      BY <2>3, PieceTyped
    <3> HIDE DEF x
    <3>2. log' = Appended(x)
      BY <2>3 DEF x
    <3>3. log' \in Seq(Seq(Pieces)) /\ (\A i \in DOMAIN log' : log'[i] # << >>) /\ log' # << >>
      <4>1. CASE torn
        BY <3>1, <3>2, <4>1, AppendedTorn, EmptySeq
      <4>2. CASE ~torn
        BY <3>1, <3>2, <4>2, AppendedNew, EmptySeq
      <4> QED BY <4>1, <4>2
    <3>4. writes' \in Nat /\ torn' \in BOOLEAN /\ claims' \in [Units -> {"none", "torn", "whole"}]
      BY <2>3 DEF TypeOK
    <3> QED BY <2>1, <3>3, <3>4, ForgetType
  <2>4. CASE /\ out # << >> /\ Head(out).kind = "claim"
             /\ claims' = [claims EXCEPT ![Head(out).unit] = "torn"]
             /\ UNCHANGED <<log, torn, writes, tripped>>
    <3>1. claims' \in [Units -> {"none", "torn", "whole"}]
      BY <2>4 DEF TypeOK
    <3> QED BY <2>1, <2>4, <3>1, ForgetType DEF TypeOK
  <2> QED BY <1>15, <2>2, <2>3, <2>4 DEF Crash
<1>16. ASSUME NEW u \in Units, WorkerEnds(u) PROVE TypeOK'
  BY <1>16 DEF WorkerEnds, TypeOK
<1>17. CASE UNCHANGED vars
  BY <1>17 DEF vars, TypeOK
<1> QED BY <1>1, <1>2, <1>3, <1>4, <1>5, <1>6, <1>7, <1>8, <1>9, <1>11, <1>12, <1>13, <1>14,
           <1>15, <1>16, <1>17 DEF Next, Runner

-----------------------------------------------------------------------------
(* One lemma for each part of the invariant.                                *)

LEMMA AnswerNext ==
  ASSUME TypeOK, AnswerInv, HandInv, [Next]_vars
  PROVE  AnswerInv'
<1> USE DEF files, memory
<1>1. CASE Open \/ DeadlinePasses \/ WaitTimesOut \/ (\E u \in Units : ResultRaises(u))
           \/ WriteRecord \/ WriteFile \/ BatchDone \/ Drop \/ LoopEnds \/ UNCHANGED vars
  BY <1>1 DEF Open, DeadlinePasses, WaitTimesOut, ResultRaises, WriteRecord, WriteFile,
              BatchDone, Drop, LoopEnds, Over, vars, AnswerInv, TypeOK
<1>2. CASE Submit
  <2>1. Head(todo) \in Units
    BY <1>2, TodoHead DEF Submit, MaySubmit
  <2> QED BY <1>2, <2>1 DEF Submit, AnswerInv, TypeOK
<1>3. CASE Wait
  BY <1>3 DEF Wait, Ready, AnswerInv
<1>4. CASE \E u \in Units : Result(u)
  BY <1>4 DEF Result, AnswerInv
<1>5. CASE \E u \in Units : WorkerEnds(u)
  BY <1>5 DEF WorkerEnds, AnswerInv, TypeOK
<1>6. CASE Finish \/ Crash
  BY <1>6 DEF Finish, Crash, Forget, AnswerInv
<1> QED BY <1>1, <1>2, <1>3, <1>4, <1>5, <1>6 DEF Next, Runner

\* What the write of a record adds to the file.
LEMMA WriteAdds ==
  ASSUME TypeOK, TornInv, WriteRecord, NEW u, NEW i \in DOMAIN log', ReceiptOf(u, i)'
  PROVE  \/ i \in DOMAIN log /\ ReceiptOf(u, i) /\ log'[i] = log[i]
         \/ /\ i = Len(log) + 1 /\ IsResult(out[1]) /\ out[1].unit = u
            /\ log'[i][1].kind = out[1].kind
<1> DEFINE x == Piece(Head(out), TRUE)
<1>1. x \in Pieces /\ log' = Appended(x)
  BY PieceTyped DEF WriteRecord
<1>2. x.kind = out[1].kind /\ x.unit = out[1].unit
  BY OutTail DEF WriteRecord, Piece
<1> HIDE DEF x
<1>3. \/ i \in DOMAIN log /\ ReceiptOf(u, i) /\ log'[i] = log[i]
      \/ i = Len(log) + 1 /\ x.whole /\ IsResult(x) /\ x.unit = u /\ log'[i] = <<x>>
  BY <1>1, NewReceipt
<1>4. CASE i = Len(log) + 1 /\ IsResult(x) /\ x.unit = u /\ log'[i] = <<x>>
  <2>1. log'[i][1] = x
    BY <1>4
  <2> QED BY <1>2, <1>4, <2>1 DEF IsResult
<1> QED BY <1>3, <1>4

LEMMA HandNext ==
  ASSUME TypeOK, TornInv, HandInv, OutInv, PcInv, [Next]_vars
  PROVE  HandInv'
<1> USE DEF files, memory
<1>1. CASE Open
  <2>1. log' = log /\ active' = {} /\ todo' \in Pending
    BY <1>1 DEF Open, PcInv
  <2>2. /\ \A i, j \in DOMAIN todo' : i # j => todo'[i] # todo'[j]
        /\ \A i \in DOMAIN todo' : NoReceipt(todo'[i])
    BY <2>1, PendingTyped
  <2> QED BY <2>1, <2>2 DEF HandInv, NoReceipt, ReceiptOf
<1>2. CASE Submit
  <2>1. /\ Head(todo) = todo[1] /\ 1 \in DOMAIN todo /\ todo' = Tail(todo)
        /\ \A i \in DOMAIN Tail(todo) : /\ i + 1 \in DOMAIN todo /\ Tail(todo)[i] = todo[i + 1]
                                        /\ i \in Nat \ {0}
    BY <1>2, TodoHead DEF Submit, MaySubmit
  <2>2. log' = log /\ active' = active \cup {todo[1]}
    BY <1>2, <2>1 DEF Submit
  <2>3. ASSUME NEW i \in DOMAIN todo', NEW j \in DOMAIN todo', i # j PROVE todo'[i] # todo'[j]
    <3>1. i + 1 \in DOMAIN todo /\ j + 1 \in DOMAIN todo /\ i + 1 # j + 1
      BY <2>1, <2>3
    <3> QED BY <2>1, <3>1 DEF HandInv
  <2>4. ASSUME NEW i \in DOMAIN todo' PROVE todo'[i] \notin active' /\ NoReceipt(todo'[i])
    <3>1. i + 1 \in DOMAIN todo /\ todo'[i] = todo[i + 1] /\ i + 1 # 1
      BY <2>1
    <3> QED BY <2>1, <2>2, <3>1 DEF HandInv
  <2>5. \A u \in active' : NoReceipt(u)
    BY <2>1, <2>2 DEF HandInv
  <2> QED BY <2>2, <2>3, <2>4, <2>5 DEF HandInv, NoReceipt, ReceiptOf
<1>3. CASE \E u \in Units : Result(u)
  BY <1>3 DEF Result, HandInv, NoReceipt, ReceiptOf
<1>4. CASE WriteRecord
  <2>1. /\ 1 \in DOMAIN out
        /\ IsResult(out[1]) => /\ out[1].unit \notin active
                               /\ \A k \in DOMAIN todo : todo[k] # out[1].unit
    BY <1>4, OutTail DEF WriteRecord, OutInv
  <2>2. ASSUME NEW u, NoReceipt(u), ~(IsResult(out[1]) /\ out[1].unit = u)
        PROVE  NoReceipt(u)'
    BY <1>4, <2>2, WriteAdds DEF NoReceipt
  <2>3. todo' = todo /\ active' = active
    BY <1>4 DEF WriteRecord
  <2>4. \A i \in DOMAIN todo : NoReceipt(todo[i])'
    BY <2>1, <2>2, <2>3 DEF HandInv
  <2>5. \A u \in active : NoReceipt(u)'
    BY <2>1, <2>2 DEF HandInv
  <2> QED BY <2>3, <2>4, <2>5 DEF HandInv, NoReceipt, ReceiptOf
<1>5. CASE Finish \/ Crash
  <2>1. todo' = << >> /\ active' = {}
    BY <1>5 DEF Finish, Crash, Forget
  <2> QED BY <2>1 DEF HandInv
<1>6. CASE DeadlinePasses \/ WaitTimesOut \/ Wait \/ (\E u \in Units : ResultRaises(u) \/ WorkerEnds(u))
           \/ WriteFile \/ BatchDone \/ Drop \/ LoopEnds \/ UNCHANGED vars
  <2>1. UNCHANGED <<log, todo, active>>
    BY <1>6 DEF DeadlinePasses, WaitTimesOut, Wait, ResultRaises, WorkerEnds, WriteFile,
                BatchDone, Drop, LoopEnds, vars
  <2> QED BY <2>1 DEF HandInv, NoReceipt, ReceiptOf
<1> QED BY <1>1, <1>2, <1>3, <1>4, <1>5, <1>6 DEF Next, Runner

\* The writes at the end of a run: no receipt, no claim.
LEMMA OverWrites ==
  ASSUME NEW st, Over(st), NEW i \in DOMAIN out'
  PROVE  out'[i].kind \in {"breaker", "terminal"}
<1> DEFINE last == Record("terminal", 0, st)
           file == [kind |-> "breaker", unit |-> 0]
<1>1. last.kind = "terminal" /\ file.kind = "breaker"
  BY DEF Record
<1>2. out' = Append(IF st = "breaker" THEN <<file>> ELSE << >>, last)
  BY DEF Over
<1> HIDE DEF last, file
<1>3. CASE st = "breaker"
  <2>1. out' = Append(<<file>>, last)
    BY <1>2, <1>3
  <2> QED BY <1>1, <2>1
<1>4. CASE st # "breaker"
  <2>1. out' = Append(<< >>, last)
    BY <1>2, <1>4
  <2> QED BY <1>1, <2>1
<1> QED BY <1>3, <1>4

LEMMA OutNext ==
  ASSUME TypeOK, TornInv, HandInv, OutInv, PcInv, [Next]_vars
  PROVE  OutInv'
<1> USE DEF files, memory
<1>1. CASE Open \/ Submit
  <2>1. out' = << >>
    BY <1>1 DEF Open, Submit, PcInv
  <2> QED BY <2>1 DEF OutInv
<1>2. ASSUME NEW u \in Units, Result(u) PROVE OutInv'
  <2>1. /\ u \in active /\ out' = WritesFor(u) /\ active' = active \ {u}
        /\ UNCHANGED <<log, claims, todo>>
    BY <1>2 DEF Result, TypeOK
  <2>2. NoReceipt(u)' /\ u \notin active' /\ \A k \in DOMAIN todo : todo[k] # u
    BY <2>1 DEF HandInv, NoReceipt, ReceiptOf
  <2>3. CASE answer[u] = "ok"
    <3>1. /\ DOMAIN out' \subseteq 1 .. 3 /\ Len(out') >= 2
          /\ out'[1] = [kind |-> "claim", unit |-> u] /\ out'[2] = Record("ok", u, "none")
          /\ 3 \in DOMAIN out' => out'[3] = Record("heartbeat", 0, "none")
      BY <2>1, <2>3, WritesHas
    <3>2. /\ out'[1].kind = "claim" /\ out'[1].unit = u
          /\ out'[2].kind = "ok" /\ out'[2].unit = u
          /\ 3 \in DOMAIN out' => out'[3].kind = "heartbeat"
      BY <3>1 DEF Record
    <3> QED BY <1>2, <2>1, <2>2, <3>1, <3>2 DEF OutInv, IsResult
  <2>4. CASE answer[u] # "ok"
    <3>1. /\ DOMAIN out' \subseteq 1 .. 2 /\ out'[1] = Record("fail", u, "none")
          /\ 2 \in DOMAIN out' => out'[2] = Record("heartbeat", 0, "none")
      BY <2>1, <2>4, WritesHas
    <3>2. /\ out'[1].kind = "fail" /\ out'[1].unit = u
          /\ 2 \in DOMAIN out' => out'[2].kind = "heartbeat"
      BY <3>1 DEF Record
    <3> QED BY <1>2, <2>1, <2>2, <3>1, <3>2 DEF OutInv, IsResult
  <2> QED BY <2>3, <2>4
<1>3. CASE WriteRecord \/ WriteFile
  <2>1. /\ out' = Tail(out) /\ Head(out) = out[1] /\ 1 \in DOMAIN out
        /\ UNCHANGED <<todo, active>>
        /\ \A i \in DOMAIN out' : i + 1 \in DOMAIN out /\ out'[i] = out[i + 1] /\ i \in Nat \ {0}
    BY <1>3, OutTail DEF WriteRecord, WriteFile
  <2>2. ASSUME NEW i \in DOMAIN out', IsResult(out'[i])
        PROVE  /\ out'[i].unit \in Units \ active /\ \A k \in DOMAIN todo : todo[k] # out'[i].unit
               /\ NoReceipt(out[i].unit)'
    <3>1. IsResult(out[i + 1]) /\ i + 1 \in DOMAIN out /\ i + 1 # 1 /\ out'[i] = out[i + 1]
      BY <2>1, <2>2
    <3>2. PICK u : u = out[i + 1].unit
      OBVIOUS
    <3>3. NoReceipt(u) /\ u \in Units \ active /\ \A k \in DOMAIN todo : todo[k] # u
      BY <3>1, <3>2 DEF OutInv
    <3>4. ~IsResult(out[1])
      BY <2>1, <3>1 DEF OutInv
    <3>5. NoReceipt(u)'
      <4>1. CASE WriteRecord
        BY <3>3, <3>4, <4>1, WriteAdds DEF NoReceipt
      <4>2. CASE WriteFile
        BY <3>3, <4>2 DEF WriteFile, NoReceipt, ReceiptOf
      <4> QED BY <1>3, <4>1, <4>2
    <3> QED BY <3>1, <3>2, <3>3, <3>5
  <2>3. ASSUME NEW i \in DOMAIN out', NEW j \in DOMAIN out', IsResult(out'[i]), IsResult(out'[j])
        PROVE  i = j
    <3>1. i + 1 = j + 1
      BY <2>1, <2>3 DEF OutInv
    <3> QED BY <2>1, <3>1
  <2>4. ASSUME NEW i \in DOMAIN out' PROVE out'[i].kind # "claim"
    <3>1. i + 1 \in DOMAIN out /\ i + 1 # 1 /\ out'[i] = out[i + 1]
      BY <2>1
    <3> QED BY <3>1 DEF OutInv
  <2>5. ASSUME NEW i \in DOMAIN out', out'[i].kind = "ok" PROVE claims'[out'[i].unit] = "whole"
    <3>1. i + 1 \in DOMAIN out /\ i + 1 # 1 /\ out'[i] = out[i + 1] /\ IsResult(out[i + 1])
      BY <2>1, <2>5 DEF IsResult
    <3>2. claims[out[i + 1].unit] = "whole" \/ out[1].kind = "claim"
      BY <2>5, <3>1 DEF OutInv
    <3>3. CASE WriteRecord
      BY <2>1, <3>1, <3>2, <3>3 DEF WriteRecord, Kinds
    <3>4. CASE WriteFile
      <4>1. CASE out[1].kind = "claim"
        <5>1. /\ Len(out) >= 2 /\ out[2].kind = "ok" /\ out[2].unit = out[1].unit
          BY <2>1, <4>1 DEF OutInv
        <5>2. 2 \in DOMAIN out /\ IsResult(out[2])
          BY <5>1, LenProperties DEF TypeOK, IsResult
        <5>3. i + 1 = 2
          BY <3>1, <5>2 DEF OutInv
        <5>4. claims' = [claims EXCEPT ![out[1].unit] = "whole"]
          BY <2>1, <3>4, <4>1 DEF WriteFile
        <5>5. out[1].unit \in Units
          BY <5>1, <5>2 DEF OutInv
        <5> QED BY <3>1, <5>1, <5>3, <5>4, <5>5 DEF TypeOK
      <4>2. CASE out[1].kind # "claim"
        BY <2>1, <3>1, <3>2, <3>4, <4>2 DEF WriteFile
      <4> QED BY <4>1, <4>2
    <3> QED BY <1>3, <3>3, <3>4
  <2> QED BY <2>1, <2>2, <2>3, <2>4, <2>5 DEF OutInv
<1>4. CASE Drop \/ LoopEnds
  <2>1. \A i \in DOMAIN out' : out'[i].kind \in {"breaker", "terminal"}
    BY <1>4, OverWrites DEF Drop, LoopEnds
  <2> QED BY <2>1 DEF OutInv, IsResult
<1>5. CASE Finish \/ Crash
  <2>1. out' = << >>
    BY <1>5 DEF Finish, Crash, Forget
  <2> QED BY <2>1 DEF OutInv
<1>6. CASE DeadlinePasses \/ WaitTimesOut \/ Wait \/ (\E u \in Units : ResultRaises(u) \/ WorkerEnds(u))
           \/ BatchDone \/ UNCHANGED vars
  <2>1. UNCHANGED <<log, claims, todo, active, out>>
    BY <1>6 DEF DeadlinePasses, WaitTimesOut, Wait, ResultRaises, WorkerEnds, BatchDone, vars
  <2> QED BY <2>1 DEF OutInv, NoReceipt, ReceiptOf
<1> QED BY <1>1, <1>2, <1>3, <1>4, <1>5, <1>6 DEF Next, Runner

LEMMA PcNext ==
  ASSUME TypeOK, PcInv, [Next]_vars
  PROVE  PcInv'
<1> USE DEF files, memory
<1>1. CASE Finish \/ Crash
  BY <1>1 DEF Finish, Crash, Forget, PcInv
<1>2. CASE WriteRecord \/ WriteFile
  BY <1>2 DEF WriteRecord, WriteFile, PcInv
<1>3. CASE Drop \/ LoopEnds
  BY <1>3 DEF Drop, LoopEnds, Over, PcInv
<1>4. CASE Open \/ Submit \/ (\E u \in Units : Result(u) \/ ResultRaises(u) \/ WorkerEnds(u))
           \/ DeadlinePasses \/ WaitTimesOut \/ Wait \/ BatchDone \/ UNCHANGED vars
  BY <1>4 DEF Open, Submit, Result, ResultRaises, WorkerEnds, DeadlinePasses, WaitTimesOut,
              Wait, BatchDone, vars, PcInv
<1> QED BY <1>1, <1>2, <1>3, <1>4 DEF Next, Runner

\* The write of a record that a kill cuts short.
TornWrite ==
  out # << >> /\ Head(out).kind \in Kinds /\ log' = Appended(Piece(Head(out), FALSE))

\* What a step does to the file, where nothing is known of the writer.
LEMMA FileSteps ==
  ASSUME [Next]_vars
  PROVE  \/ UNCHANGED <<log, torn>>
         \/ WriteRecord
         \/ TornWrite /\ torn' /\ pc' = "down" /\ UNCHANGED claims
BY DEF TornWrite, Next, Runner, Open, DeadlinePasses, WorkerEnds, Submit, WaitTimesOut, Wait, Result,
       ResultRaises, WriteFile, BatchDone, Drop, LoopEnds, Finish, Crash, Forget, vars, files

\* A torn piece is no line, and leaves none.
LEMMA TornAdds ==
  ASSUME TypeOK, TornWrite
  PROVE  /\ \A i \in DOMAIN log' : ~Parses(log'[i]) \/ (i \in DOMAIN log /\ log'[i] = log[i])
         /\ log' # << >> /\ ~Parses(log'[Len(log')])
         /\ Len(log') \in Nat /\ Len(log') >= Len(log)
         /\ \A i \in 1 .. Len(log') - 1 : i \in DOMAIN log /\ log'[i] = log[i]
<1> DEFINE x == Piece(Head(out), FALSE)
<1>1. x \in Pieces /\ x.whole = FALSE
  BY PieceTyped DEF TornWrite, Piece
<1>2. log' = Appended(x)
  BY DEF TornWrite
<1> HIDE DEF x
<1>3. PICK n : n = Len(log)
  OBVIOUS
<1>4. CASE torn
  <2>1. /\ DOMAIN log = 1 .. n /\ n \in Nat \ {0} /\ DOMAIN log' = 1 .. n /\ Len(log') = n
        /\ ~Parses(log'[n]) /\ \A i \in 1 .. n - 1 : log'[i] = log[i]
    BY <1>1, <1>2, <1>3, <1>4, AppendedTorn
  <2>2. ~Parses(log'[Len(log')]) /\ log' # << >>
    BY <2>1
  <2>3. ASSUME NEW i \in DOMAIN log', i # n PROVE i \in DOMAIN log /\ log'[i] = log[i]
    BY <2>1, <2>3
  <2>4. \A i \in 1 .. Len(log') - 1 : i \in DOMAIN log'  /\ i # n
    BY <2>1
  <2>5. \A i \in 1 .. Len(log') - 1 : i \in DOMAIN log /\ log'[i] = log[i]
    BY <2>3, <2>4
  <2>6. ASSUME NEW i \in DOMAIN log'
        PROVE  ~Parses(log'[i]) \/ (i \in DOMAIN log /\ log'[i] = log[i])
    <3>1. CASE i = n
      BY <2>1, <3>1
    <3>2. CASE i # n
      BY <2>3, <3>2
    <3> QED BY <3>1, <3>2
  <2>7. Len(log') \in Nat /\ Len(log') >= Len(log)
    BY <1>3, <2>1
  <2> QED BY <2>2, <2>5, <2>6, <2>7
<1>5. CASE ~torn
  <2>1. /\ DOMAIN log = 1 .. n /\ n \in Nat /\ DOMAIN log' = 1 .. n + 1 /\ Len(log') = n + 1
        /\ log'[n + 1] = <<x>> /\ \A i \in 1 .. n : log'[i] = log[i]
    BY <1>1, <1>2, <1>3, <1>5, AppendedNew
  <2>2. ~Parses(log'[n + 1])
    BY <1>1, <2>1 DEF Parses
  <2>3. ~Parses(log'[Len(log')]) /\ log' # << >>
    BY <2>1, <2>2
  <2>4. ASSUME NEW i \in DOMAIN log', i # n + 1 PROVE i \in DOMAIN log /\ log'[i] = log[i]
    BY <2>1, <2>4
  <2>5. \A i \in 1 .. Len(log') - 1 : i \in DOMAIN log'  /\ i # n + 1
    BY <2>1
  <2>6. \A i \in 1 .. Len(log') - 1 : i \in DOMAIN log /\ log'[i] = log[i]
    BY <2>4, <2>5
  <2>7. ASSUME NEW i \in DOMAIN log'
        PROVE  ~Parses(log'[i]) \/ (i \in DOMAIN log /\ log'[i] = log[i])
    <3>1. CASE i = n + 1
      BY <2>2, <3>1
    <3>2. CASE i # n + 1
      BY <2>4, <3>2
    <3> QED BY <3>1, <3>2
  <2>8. Len(log') \in Nat /\ Len(log') >= Len(log)
    BY <1>3, <2>1
  <2> QED BY <2>3, <2>6, <2>7, <2>8
<1> QED BY <1>4, <1>5

\* A record that is written stands alone on the last line, or that line does not parse.
LEMMA WriteLast ==
  ASSUME TypeOK, WriteRecord
  PROVE  /\ Len(log') \in Nat \ {0} /\ DOMAIN log' = 1 .. Len(log')
         /\ \A i \in 1 .. Len(log') - 1 : i \in DOMAIN log /\ log'[i] = log[i]
         /\ Parses(log'[Len(log')]) =>
              /\ Len(log') = Len(log) + 1 /\ log'[Len(log')][1].prev = lastHash
              /\ lastHash' = Hash(log'[Len(log')])
<1> DEFINE x == Piece(Head(out), TRUE)
<1>1. x \in Pieces /\ x.prev = lastHash /\ log' = Appended(x) /\ lastHash' = Hash(<<x>>)
  BY PieceTyped DEF WriteRecord, Piece, Chained
<1> HIDE DEF x
<1>2. PICK n : n = Len(log)
  OBVIOUS
<1>3. CASE torn
  <2>1. /\ DOMAIN log = 1 .. n /\ n \in Nat \ {0} /\ DOMAIN log' = 1 .. n /\ Len(log') = n
        /\ ~Parses(log'[n]) /\ \A i \in 1 .. n - 1 : log'[i] = log[i]
    BY <1>1, <1>2, <1>3, AppendedTorn
  <2>2. ~Parses(log'[Len(log')])
    BY <2>1
  <2>3. ASSUME NEW i \in 1 .. Len(log') - 1 PROVE i \in DOMAIN log /\ log'[i] = log[i]
    BY <2>1
  <2> QED BY <2>1, <2>2, <2>3
<1>4. CASE ~torn
  <2>1. /\ DOMAIN log = 1 .. n /\ n \in Nat /\ DOMAIN log' = 1 .. n + 1 /\ Len(log') = n + 1
        /\ log'[n + 1] = <<x>> /\ \A i \in 1 .. n : log'[i] = log[i]
    BY <1>1, <1>2, <1>4, AppendedNew
  <2>2. log'[Len(log')] = <<x>>
    BY <2>1
  <2>3. log'[Len(log')][1].prev = lastHash /\ lastHash' = Hash(log'[Len(log')])
    BY <1>1, <2>2
  <2>4. ASSUME NEW i \in 1 .. Len(log') - 1 PROVE i \in DOMAIN log /\ log'[i] = log[i]
    BY <2>1
  <2> QED BY <1>2, <2>1, <2>3, <2>4
<1> QED BY <1>3, <1>4

LEMMA TornNext ==
  ASSUME TypeOK, TornInv, [Next]_vars
  PROVE  TornInv'
<1>1. CASE UNCHANGED <<log, torn>>
  BY <1>1 DEF TornInv
<1>2. CASE WriteRecord
  BY <1>2 DEF WriteRecord, TornInv
<1>3. CASE TornWrite
  BY <1>3, TornAdds DEF TornInv
<1> QED BY <1>1, <1>2, <1>3, FileSteps

LEMMA ChainNext ==
  ASSUME TypeOK, ChainInv, [Next]_vars
  PROVE  ChainInv'
<1> USE DEF files, memory
<1>1. CASE Open
  BY <1>1 DEF Open, Seed, ChainInv
<1>2. CASE WriteRecord
  BY <1>2, WriteLast DEF ChainInv
<1>3. CASE Finish \/ Crash
  BY <1>3 DEF Finish, Crash, Forget, ChainInv
<1>4. CASE Submit \/ (\E u \in Units : Result(u) \/ ResultRaises(u) \/ WorkerEnds(u))
           \/ DeadlinePasses \/ WaitTimesOut \/ Wait \/ BatchDone \/ WriteFile \/ Drop \/ LoopEnds
           \/ UNCHANGED vars
  <2>1. UNCHANGED <<log, lastHash>> /\ (pc' # "down" => pc # "down")
    BY <1>4 DEF Submit, Result, ResultRaises, WorkerEnds, DeadlinePasses, WaitTimesOut, Wait,
                BatchDone, WriteFile, Drop, LoopEnds, vars
  <2> QED BY <2>1 DEF ChainInv
<1> QED BY <1>1, <1>2, <1>3, <1>4 DEF Next, Runner

\* What a step does to the claims.
LEMMA ClaimSteps ==
  ASSUME [Next]_vars
  PROVE  \/ UNCHANGED claims
         \/ WriteFile
         \/ /\ out # << >> /\ Head(out).kind = "claim" /\ UNCHANGED log
            /\ claims' = [claims EXCEPT ![Head(out).unit] = "torn"]
BY DEF Next, Runner, Open, DeadlinePasses, WorkerEnds, Submit, WaitTimesOut, Wait, Result,
       ResultRaises, WriteRecord, BatchDone, Drop, LoopEnds, Finish, Crash, Forget, vars, files

LEMMA UnitNext ==
  ASSUME TypeOK, TornInv, OutInv, UnitInv, [Next]_vars
  PROVE  UnitInv'
<1>1. CASE WriteRecord
  <2>1. IsResult(out[1]) => out[1].unit \in Units
    BY <1>1, OutTail DEF WriteRecord, OutInv
  <2>2. ASSUME NEW i \in DOMAIN log', IsReceipt(log'[i]) PROVE log'[i][1].unit \in Units
    <3>1. PICK u : u = log'[i][1].unit
      OBVIOUS
    <3>2. ReceiptOf(u, i)'
      BY <2>2, <3>1 DEF ReceiptOf
    <3>3. CASE i \in DOMAIN log /\ log'[i] = log[i]
      BY <2>2, <3>3 DEF UnitInv
    <3>4. CASE IsResult(out[1]) /\ out[1].unit = u
      BY <2>1, <3>1, <3>4
    <3> QED BY <1>1, <3>2, <3>3, <3>4, WriteAdds
  <2> QED BY <2>2 DEF UnitInv
<1>2. CASE UNCHANGED <<log, torn>>
  BY <1>2 DEF UnitInv
<1>3. CASE TornWrite
  BY <1>3, TornAdds DEF UnitInv, IsReceipt
<1> QED BY <1>1, <1>2, <1>3, FileSteps

LEMMA OkNext ==
  ASSUME TypeOK, UnitInv, TornInv, OutInv, OkHasClaim, [Next]_vars
  PROVE  OkHasClaim'
<1>1. CASE WriteRecord
  <2>1. claims' = claims /\ 1 \in DOMAIN out /\ out[1].kind # "claim"
    BY <1>1, OutTail DEF WriteRecord, Kinds
  <2>2. ASSUME NEW i \in DOMAIN log', IsReceipt(log'[i]), log'[i][1].kind = "ok"
        PROVE  claims[log'[i][1].unit] = "whole"
    <3>0. PICK u : u = log'[i][1].unit
      OBVIOUS
    <3>1. ReceiptOf(u, i)'
      BY <2>2, <3>0 DEF ReceiptOf
    <3>2. CASE i \in DOMAIN log /\ log'[i] = log[i]
      BY <2>2, <3>2 DEF OkHasClaim
    <3>3. CASE out[1].unit = u /\ log'[i][1].kind = out[1].kind
      BY <2>1, <2>2, <3>0, <3>3 DEF OutInv
    <3> QED BY <1>1, <3>1, <3>2, <3>3, WriteAdds
  <2> QED BY <2>1, <2>2 DEF OkHasClaim
<1>2. CASE WriteFile
  <2>1. log' = log /\ (Head(out).kind # "claim" => claims' = claims)
    BY <1>2 DEF WriteFile
  <2>2. Head(out).kind = "claim" => claims' = [claims EXCEPT ![Head(out).unit] = "whole"]
    BY <1>2 DEF WriteFile
  <2>3. ASSUME NEW u \in Units, claims[u] = "whole" PROVE claims'[u] = "whole"
    BY <2>1, <2>2, <2>3 DEF TypeOK
  <2> QED BY <2>1, <2>3 DEF OkHasClaim, UnitInv
<1>3. CASE /\ out # << >> /\ Head(out).kind = "claim" /\ UNCHANGED log
           /\ claims' = [claims EXCEPT ![Head(out).unit] = "torn"]
  <2>1. 1 \in DOMAIN out /\ Head(out) = out[1]
    BY <1>3, OutTail
  <2>2. Len(out) >= 2 /\ out[2].kind = "ok" /\ out[2].unit = out[1].unit
    BY <1>3, <2>1 DEF OutInv
  <2>3. 2 \in DOMAIN out
    BY <2>2, LenProperties DEF TypeOK
  <2>4. NoReceipt(out[1].unit)
    BY <2>2, <2>3 DEF OutInv, IsResult
  <2>5. ASSUME NEW i \in DOMAIN log, IsReceipt(log[i]), log[i][1].kind = "ok"
        PROVE  claims'[log[i][1].unit] = "whole"
    <3>1. claims[log[i][1].unit] = "whole" /\ log[i][1].unit # out[1].unit
      BY <2>4, <2>5 DEF OkHasClaim, NoReceipt, ReceiptOf
    <3> QED BY <1>3, <2>1, <3>1
  <2> QED BY <1>3, <2>5 DEF OkHasClaim
<1>4. CASE UNCHANGED claims /\ UNCHANGED <<log, torn>>
  BY <1>4 DEF OkHasClaim
<1>5. CASE TornWrite /\ UNCHANGED claims
  BY <1>5, TornAdds DEF OkHasClaim, IsReceipt
<1> QED BY <1>1, <1>2, <1>3, <1>4, <1>5, FileSteps, ClaimSteps DEF WriteRecord

LEMMA OnceNext ==
  ASSUME TypeOK, TornInv, OutInv, ReceiptedOnce, [Next]_vars
  PROVE  ReceiptedOnce'
<1>1. CASE WriteRecord
  <2>1. IsResult(out[1]) => NoReceipt(out[1].unit)
    BY <1>1, OutTail DEF WriteRecord, OutInv
  <2>2. ASSUME NEW i \in DOMAIN log', NEW j \in DOMAIN log', NEW u \in Units,
               ReceiptOf(u, i)', ReceiptOf(u, j)'
        PROVE  i = j
    <3>1. \/ i \in DOMAIN log /\ ReceiptOf(u, i)
          \/ i = Len(log) + 1 /\ IsResult(out[1]) /\ out[1].unit = u
      BY <1>1, <2>2, WriteAdds
    <3>2. \/ j \in DOMAIN log /\ ReceiptOf(u, j)
          \/ j = Len(log) + 1 /\ IsResult(out[1]) /\ out[1].unit = u
      BY <1>1, <2>2, WriteAdds
    <3> QED BY <2>1, <3>1, <3>2 DEF ReceiptedOnce, NoReceipt
  <2> QED BY <2>2 DEF ReceiptedOnce
<1>2. CASE UNCHANGED <<log, torn>>
  BY <1>2 DEF ReceiptedOnce, ReceiptOf
<1>3. CASE TornWrite
  <2>1. \A i \in DOMAIN log', u \in Units : ReceiptOf(u, i)' => i \in DOMAIN log /\ ReceiptOf(u, i)
    BY <1>3, TornAdds DEF ReceiptOf, IsReceipt
  <2> QED BY <2>1 DEF ReceiptedOnce
<1> QED BY <1>1, <1>2, <1>3, FileSteps

LEMMA VerifiesNext ==
  ASSUME TypeOK, PcInv, ChainInv, ChainVerifies, [Next]_vars
  PROVE  ChainVerifies'
<1>0. DOMAIN log = 1 .. Len(log) /\ Len(log) \in Nat
  BY LenProperties DEF TypeOK
<1>1. CASE WriteRecord
  <2>1. pc # "down"
    BY <1>1 DEF WriteRecord, PcInv
  <2>2. ASSUME NEW i \in 2 .. Len(log'), Parses(log'[i - 1]), Parses(log'[i])
        PROVE  log'[i][1].prev = Hash(log'[i - 1])
    <3>0. Len(log') \in Nat
      BY <1>1, WriteLast
    <3>1. i - 1 \in 1 .. Len(log') - 1
      BY <3>0
    <3>2. i - 1 \in DOMAIN log /\ log'[i - 1] = log[i - 1]
      BY <1>1, <3>1, WriteLast
    <3>3. CASE i = Len(log')
      <4>1. Len(log') = Len(log) + 1 /\ log'[i][1].prev = lastHash
        BY <1>1, <2>2, <3>3, WriteLast
      <4>2. i - 1 = Len(log) /\ log # << >>
        BY <1>0, <3>2, <3>3, <4>1
      <4> QED BY <2>1, <2>2, <3>2, <4>1, <4>2 DEF ChainInv
    <3>4. CASE i # Len(log')
      <4>1. i \in 1 .. Len(log') - 1
        BY <3>0, <3>4
      <4>2. log'[i] = log[i] /\ i \in DOMAIN log
        BY <1>1, <4>1, WriteLast
      <4>3. i \in 2 .. Len(log)
        BY <1>0, <4>2
      <4> QED BY <2>2, <3>2, <4>2, <4>3 DEF ChainVerifies
    <3> QED BY <3>3, <3>4
  <2> QED BY <2>2 DEF ChainVerifies
<1>2. CASE UNCHANGED <<log, torn>>
  BY <1>2 DEF ChainVerifies
<1>3. CASE TornWrite
  <2>1. ASSUME NEW i \in 2 .. Len(log'), Parses(log'[i - 1]), Parses(log'[i])
        PROVE  log'[i][1].prev = Hash(log'[i - 1])
    <3>1. i # Len(log') /\ Len(log') \in Nat
      BY <1>3, <2>1, TornAdds
    <3>2. i \in 1 .. Len(log') - 1 /\ i - 1 \in 1 .. Len(log') - 1
      BY <3>1
    <3>3. i \in DOMAIN log /\ log'[i] = log[i] /\ log'[i - 1] = log[i - 1]
      BY <1>3, <3>2, TornAdds
    <3>4. i \in 2 .. Len(log)
      BY <1>0, <3>3
    <3> QED BY <2>1, <3>3, <3>4 DEF ChainVerifies
  <2> QED BY <2>1 DEF ChainVerifies
<1> QED BY <1>1, <1>2, <1>3, FileSteps

-----------------------------------------------------------------------------
(* What a run is made of: its units, its state and its results.             *)

LEMMA OutDrop ==
  ASSUME TypeOK, out # << >>, NEW i \in DOMAIN out, i # 1
  PROVE  i - 1 \in DOMAIN Tail(out) /\ Tail(out)[i - 1] = out[i]
<1>1. out \in Seq(Outs)
  BY DEF TypeOK
<1>2. /\ Tail(out) \in Seq(Outs) /\ Len(Tail(out)) = Len(out) - 1
      /\ \A k \in 1 .. Len(Tail(out)) : Tail(out)[k] = out[k + 1]
  BY <1>1, HeadTailProperties
<1>3. /\ Len(out) \in Nat \ {0} /\ DOMAIN out = 1 .. Len(out)
      /\ DOMAIN Tail(out) = 1 .. Len(out) - 1
  BY <1>1, <1>2, EmptySeq, LenProperties
<1>4. i - 1 \in 1 .. Len(out) - 1 /\ (i - 1) + 1 = i
  BY <1>3
<1> QED BY <1>2, <1>3, <1>4

\* Nothing of unit u is forgotten by a write.
LEMMA WriteKeeps ==
  ASSUME TypeOK, WriteRecord \/ WriteFile, NEW u,
         Pieced(u) \/ \E i \in DOMAIN out : IsResult(out[i]) /\ out[i].unit = u
  PROVE  Pieced(u)' \/ \E i \in DOMAIN out' : IsResult(out'[i]) /\ out'[i].unit = u
<1>1. out # << >> /\ out' = Tail(out) /\ Head(out) = out[1]
  BY OutTail DEF WriteRecord, WriteFile
<1>2. CASE WriteRecord
  <2> DEFINE x == Piece(Head(out), TRUE)
  <2>1. /\ x \in Pieces /\ log' = Appended(x) /\ x.whole = TRUE
        /\ x.kind = out[1].kind /\ x.unit = out[1].unit
    BY <1>1, <1>2, PieceTyped DEF WriteRecord, Piece
  <2> HIDE DEF x
  <2>2. CASE Pieced(u)
    BY <2>1, <2>2, PiecesStay
  <2>3. CASE \E i \in DOMAIN out : IsResult(out[i]) /\ out[i].unit = u
    <3>1. PICK i \in DOMAIN out : IsResult(out[i]) /\ out[i].unit = u
      BY <2>3
    <3>2. CASE i = 1
      <4>1. x.unit = u /\ IsResult(x)
        BY <2>1, <3>1, <3>2 DEF IsResult
      <4>2. \A v : v = x.unit => Pieced(v)'
        BY <2>1, <4>1, PiecesStay
      <4> QED BY <4>1, <4>2
    <3>3. CASE i # 1
      BY <1>1, <3>1, <3>3, OutDrop
    <3> QED BY <3>2, <3>3
  <2> QED BY <2>2, <2>3
<1>3. CASE WriteFile
  <2>1. CASE Pieced(u)
    BY <1>3, <2>1 DEF WriteFile, Pieced
  <2>2. CASE \E i \in DOMAIN out : IsResult(out[i]) /\ out[i].unit = u
    <3>1. PICK i \in DOMAIN out : IsResult(out[i]) /\ out[i].unit = u
      BY <2>2
    <3>2. i # 1
      BY <1>1, <1>3, <3>1 DEF WriteFile, IsResult
    <3> QED BY <1>1, <3>1, <3>2, OutDrop
  <2> QED BY <2>1, <2>2
<1> QED BY <1>2, <1>3

LEMMA AccountNext ==
  ASSUME TypeOK, PcInv, AccountInv, [Next]_vars
  PROVE  AccountInv'
<1> USE DEF files, memory
<1>1. CASE Open
  <2>1. /\ begun' = {} /\ log' = log /\ todo' \in Pending
    BY <1>1 DEF Open, PcInv
  <2>2. \A u \in Units : u \in Completed \/ \E i \in DOMAIN todo' : todo'[i] = u
    BY <2>1, PendingTyped
  <2>3. \A u \in Completed : Pieced(u)
    <3>1. ASSUME NEW u \in Completed PROVE Pieced(u)
      <4>1. PICK i \in DOMAIN log : ReceiptOf(u, i)
        BY DEF Completed
      <4>2. log[i] \in Seq(Pieces) /\ Len(log[i]) = 1
        BY <4>1, ElementOfSeq, LenProperties DEF TypeOK, ReceiptOf, IsReceipt, Parses
      <4>3. 1 \in DOMAIN log[i]
        BY <4>2, LenProperties
      <4> QED BY <4>1, <4>3 DEF ReceiptOf, IsReceipt, Parses, Pieced
    <3> QED BY <3>1
  <2>4. \A u : Pieced(u) => Pieced(u)'
    BY <2>1 DEF Pieced
  <2> QED BY <2>1, <2>2, <2>3, <2>4 DEF AccountInv
<1>2. CASE Submit
  <2>1. todo # << >> /\ todo' = Tail(todo) /\ begun' = begun \cup {todo[1]}
        /\ active' = active \cup {todo[1]} /\ UNCHANGED <<log, out, pc>>
    BY <1>2, TodoHead DEF Submit, MaySubmit
  <2>2. \A u : Pieced(u) => Pieced(u)'
    BY <2>1 DEF Pieced
  <2>3. ASSUME NEW u \in begun'
        PROVE  u \in active' \/ Pieced(u)' \/ \E i \in DOMAIN out : IsResult(out[i]) /\ out[i].unit = u
    BY <2>1, <2>2 DEF AccountInv
  <2>4. ASSUME pc # "down", NEW u \in Units
        PROVE  Pieced(u)' \/ u \in begun' \/ \E i \in DOMAIN todo' : todo'[i] = u
    <3>1. CASE \E i \in DOMAIN todo : todo[i] = u
      <4>1. PICK i \in DOMAIN todo : todo[i] = u
        BY <3>1
      <4>2. CASE i = 1
        BY <2>1, <4>1, <4>2
      <4>3. CASE i # 1
        BY <2>1, <4>1, <4>3, TodoHead
      <4> QED BY <4>2, <4>3
    <3>2. CASE Pieced(u) \/ u \in begun
      BY <2>1, <2>2, <3>2
    <3> QED BY <2>4, <3>1, <3>2 DEF AccountInv
  <2> QED BY <2>1, <2>3, <2>4 DEF AccountInv
<1>3. ASSUME NEW v \in Units, Result(v) PROVE AccountInv'
  <2>1. /\ out = << >> /\ active' = active \ {v} /\ out' = WritesFor(v)
        /\ UNCHANGED <<log, todo, begun, pc>>
    BY <1>3 DEF Result
  <2>2. \A u : Pieced(u) => Pieced(u)'
    BY <2>1 DEF Pieced
  <2>3. \E i \in DOMAIN out' : IsResult(out'[i]) /\ out'[i].unit = v
    <3>1. CASE answer[v] = "ok"
      <4>1. 2 \in DOMAIN out' /\ out'[2] = Record("ok", v, "none")
        BY <2>1, <3>1, WritesHas
      <4> QED BY <4>1 DEF Record, IsResult
    <3>2. CASE answer[v] # "ok"
      <4>1. 1 \in DOMAIN out' /\ out'[1] = Record("fail", v, "none")
        BY <2>1, <3>2, WritesHas
      <4> QED BY <4>1 DEF Record, IsResult
    <3> QED BY <3>1, <3>2
  <2>4. ASSUME NEW u \in begun'
        PROVE  u \in active' \/ Pieced(u)' \/ \E i \in DOMAIN out' : IsResult(out'[i]) /\ out'[i].unit = u
    <3>1. u \in active \/ Pieced(u)
      BY <2>1, <2>4 DEF AccountInv
    <3> QED BY <2>1, <2>2, <2>3, <3>1
  <2>5. ASSUME pc' # "down", NEW u \in Units
        PROVE  Pieced(u)' \/ u \in begun' \/ \E i \in DOMAIN todo' : todo'[i] = u
    BY <2>1, <2>2, <2>5 DEF AccountInv
  <2> QED BY <2>4, <2>5 DEF AccountInv
<1>4. CASE WriteRecord \/ WriteFile
  <2>1. UNCHANGED <<todo, begun, pc, active>>
    BY <1>4 DEF WriteRecord, WriteFile
  <2>2. ASSUME NEW u, Pieced(u) PROVE Pieced(u)'
    <3>1. CASE WriteRecord
      <4>1. Piece(Head(out), TRUE) \in Pieces
        BY <3>1, PieceTyped DEF WriteRecord
      <4> QED BY <2>2, <3>1, <4>1, PiecesStay DEF WriteRecord
    <3>2. CASE WriteFile
      BY <2>2, <3>2 DEF WriteFile, Pieced
    <3> QED BY <1>4, <3>1, <3>2
  <2>3. ASSUME NEW u \in begun'
        PROVE  u \in active' \/ Pieced(u)' \/ \E i \in DOMAIN out' : IsResult(out'[i]) /\ out'[i].unit = u
    BY <1>4, <2>1, <2>3, WriteKeeps DEF AccountInv
  <2>4. ASSUME pc' # "down", NEW u \in Units
        PROVE  Pieced(u)' \/ u \in begun' \/ \E i \in DOMAIN todo' : todo'[i] = u
    BY <2>1, <2>2, <2>4 DEF AccountInv
  <2> QED BY <2>3, <2>4 DEF AccountInv
<1>5. CASE Drop \/ LoopEnds
  <2>1. out = << >> /\ pc # "down" /\ UNCHANGED <<log, todo, begun, active>>
    BY <1>5 DEF Drop, LoopEnds, PcInv
  <2> QED BY <2>1 DEF AccountInv, Pieced
<1>6. CASE Finish \/ Crash
  BY <1>6 DEF Finish, Crash, Forget, AccountInv
<1>7. CASE (\E u \in Units : ResultRaises(u) \/ WorkerEnds(u)) \/ DeadlinePasses \/ WaitTimesOut
           \/ Wait \/ BatchDone \/ UNCHANGED vars
  <2>1. UNCHANGED <<log, todo, begun, active, out>> /\ (pc' # "down" => pc # "down")
    BY <1>7 DEF ResultRaises, WorkerEnds, DeadlinePasses, WaitTimesOut, Wait, BatchDone, vars
  <2> QED BY <2>1 DEF AccountInv, Pieced
<1> QED BY <1>1, <1>2, <1>3, <1>4, <1>5, <1>6, <1>7 DEF Next, Runner

LEMMA EndNext ==
  ASSUME TypeOK, PcInv, EndInv, [Next]_vars
  PROVE  EndInv'
<1> USE DEF files, memory
<1>1. CASE Open
  BY <1>1 DEF Open, PcInv, EndInv
<1>2. CASE Submit \/ Wait \/ (\E u \in Units : Result(u) \/ ResultRaises(u)) \/ BatchDone
  BY <1>2 DEF Submit, Wait, Result, ResultRaises, BatchDone, EndInv
<1>3. CASE WaitTimesOut
  BY <1>3 DEF WaitTimesOut, EndInv
<1>4. CASE WriteRecord \/ WriteFile
  <2>1. /\ out' = Tail(out) /\ UNCHANGED <<pc, state, active, todo>>
        /\ \A i \in DOMAIN out' : i + 1 \in DOMAIN out /\ out'[i] = out[i + 1]
    BY <1>4, OutTail DEF WriteRecord, WriteFile
  <2>2. (pc = "end" /\ \A i \in DOMAIN out : ~IsResult(out[i])) => \A i \in DOMAIN out' : ~IsResult(out'[i])
    BY <2>1
  <2> QED BY <2>1, <2>2 DEF EndInv
<1>5. CASE Drop \/ LoopEnds
  <2>1. \A i \in DOMAIN out' : ~IsResult(out'[i])
    <3>1. \A i \in DOMAIN out' : out'[i].kind \in {"breaker", "terminal"}
      BY <1>5, OverWrites DEF Drop, LoopEnds
    <3> QED BY <3>1 DEF IsResult
  <2> QED BY <1>5, <2>1 DEF Drop, LoopEnds, Over, NoneActive, EndInv
<1>6. CASE Finish \/ Crash
  BY <1>6 DEF Finish, Crash, Forget, EndInv
<1>7. CASE (\E u \in Units : WorkerEnds(u)) \/ DeadlinePasses \/ UNCHANGED vars
  BY <1>7 DEF WorkerEnds, DeadlinePasses, vars, EndInv
<1> QED BY <1>1, <1>2, <1>3, <1>4, <1>5, <1>6, <1>7 DEF Next, Runner

\* What a step does to the results of the run and to their count.
LEMMA TellSteps ==
  ASSUME PcInv, [Next]_vars
  PROVE  \/ UNCHANGED <<told, failures>>
         \/ told' = << >> /\ failures' = 0 /\ state' = "none"
         \/ \E u \in Units : Result(u)
BY DEF Next, Runner, Open, DeadlinePasses, WorkerEnds, Submit, WaitTimesOut, Wait, ResultRaises,
       WriteRecord, WriteFile, BatchDone, Drop, LoopEnds, Finish, Crash, Forget, vars, memory

\* A result is appended to what was told.
LEMMA ResultTells ==
  ASSUME TypeOK, AnswerInv, NEW u \in Units, Result(u), NEW n, n = Len(told)
  PROVE  /\ answer[u] \in {"ok", "fail"} /\ n \in Nat
         /\ DOMAIN told = 1 .. n /\ Len(told') = n + 1 /\ DOMAIN told' = 1 .. n + 1
         /\ told'[n + 1] = answer[u] /\ \A k \in 1 .. n : told'[k] = told[k]
<1>1. answer[u] \in {"ok", "fail"}
  BY DEF Result, AnswerInv, TypeOK
<1>2. told \in Seq({"ok", "fail"}) /\ told' = Append(told, answer[u])
  BY DEF Result, TypeOK
<1>3. /\ told' \in Seq({"ok", "fail"}) /\ Len(told') = n + 1 /\ told'[n + 1] = answer[u]
      /\ \A k \in 1 .. n : told'[k] = told[k]
  BY <1>1, <1>2, AppendProperties
<1>4. n \in Nat /\ DOMAIN told = 1 .. n
  BY <1>2, LenProperties
<1>5. DOMAIN told' = 1 .. n + 1
  BY <1>3, LenProperties
<1> QED BY <1>1, <1>3, <1>4, <1>5

LEMMA TellNext ==
  ASSUME TypeOK, AnswerInv, PcInv, TellInv, [Next]_vars
  PROVE  TellInv'
<1>1. CASE UNCHANGED <<told, failures>>
  BY <1>1 DEF TellInv
<1>2. CASE told' = << >> /\ failures' = 0
  <2>1. Len(told') = 0
    BY <1>2
  <2> QED BY <1>2, <2>1 DEF TellInv
<1>3. ASSUME NEW u \in Units, Result(u) PROVE TellInv'
  <2>1. PICK n : n = Len(told)
    OBVIOUS
  <2>2. PICK f : f = failures
    OBVIOUS
  <2>3. /\ answer[u] \in {"ok", "fail"} /\ n \in Nat
        /\ DOMAIN told = 1 .. n /\ Len(told') = n + 1 /\ DOMAIN told' = 1 .. n + 1
        /\ told'[n + 1] = answer[u] /\ \A k \in 1 .. n : told'[k] = told[k]
    BY <1>3, <2>1, ResultTells
  <2>4. f \in Nat /\ f <= n
    BY <2>1, <2>2 DEF TypeOK, TellInv
  <2>5. CASE answer[u] = "ok"
    <3>1. failures' = 0
      BY <1>3, <2>5 DEF Result
    <3>2. told'[Len(told') - failures'] = "ok"
      BY <2>3, <2>5, <3>1
    <3>3. \A k \in 1 .. Len(told') : ~(k > Len(told') - failures')
      BY <2>3, <3>1
    <3> QED BY <2>3, <3>1, <3>2, <3>3 DEF TellInv
  <2>6. CASE answer[u] = "fail"
    <3>1. failures' = f + 1 /\ Len(told') - failures' = n - f
      BY <1>3, <2>2, <2>3, <2>4, <2>6 DEF Result
    <3>2. ASSUME NEW k \in 1 .. Len(told'), k > Len(told') - failures' PROVE told'[k] = "fail"
      <4>1. CASE k = n + 1
        BY <2>3, <2>6, <4>1
      <4>2. CASE k # n + 1
        <5>1. k \in 1 .. n /\ k > n - f
          BY <2>3, <2>4, <3>1, <3>2, <4>2
        <5> QED BY <2>1, <2>2, <2>3, <5>1 DEF TellInv
      <4> QED BY <4>1, <4>2
    <3>3. ASSUME failures' < Len(told') PROVE told'[Len(told') - failures'] = "ok"
      <4>1. f < n /\ n - f \in 1 .. n
        BY <2>3, <2>4, <3>1, <3>3
      <4>2. told[n - f] = "ok"
        BY <2>1, <2>2, <4>1 DEF TellInv
      <4> QED BY <2>3, <3>1, <4>1, <4>2
    <3>4. failures' <= Len(told')
      BY <2>3, <2>4, <3>1
    <3> QED BY <3>2, <3>3, <3>4 DEF TellInv
  <2> QED BY <2>3, <2>5, <2>6
<1> QED BY <1>1, <1>2, <1>3, TellSteps

\* The breaker after a result, if it was exact before.
LEMMA ResultBreaks ==
  ASSUME TypeOK, AnswerInv, TellInv, TellInv', BreakerExact, NEW u \in Units, Result(u)
  PROVE  BreakerExact'
<1>1. PICK n : n = Len(told)
  OBVIOUS
<1>2. PICK f : f = failures'
  OBVIOUS
<1>3. /\ n \in Nat /\ DOMAIN told = 1 .. n /\ Len(told') = n + 1 /\ DOMAIN told' = 1 .. n + 1
      /\ \A k \in 1 .. n : told'[k] = told[k]
  BY <1>1, ResultTells
<1>4. MaxFailures \in Nat \ {0}
  BY NightAssumption
<1>5. f \in Nat /\ f <= n + 1 /\ state' = IF f >= MaxFailures THEN "breaker" ELSE state
  <2>1. failures \in Nat
    BY DEF TypeOK
  <2>2. f \in Nat
    BY <1>2, <2>1 DEF Result
  <2> QED BY <1>2, <1>3, <2>2 DEF Result, Breaker, TellInv
<1>6. ASSUME NEW k \in 1 .. n + 1, k > n + 1 - f PROVE told'[k] = "fail"
  <2>1. k \in 1 .. Len(told')
    BY <1>3
  <2>2. Len(told') - failures' = n + 1 - f
    BY <1>2, <1>3, <1>5
  <2>3. k > Len(told') - failures'
    BY <1>6, <2>2
  <2> QED BY <2>1, <2>3 DEF TellInv
<1>7. ASSUME f < n + 1 PROVE told'[n + 1 - f] = "ok"
  <2>1. failures' < Len(told') /\ Len(told') - failures' = n + 1 - f
    BY <1>2, <1>3, <1>5, <1>7
  <2> QED BY <2>1 DEF TellInv
<1>8. ASSUME state' = "breaker"
      PROVE  \E i \in DOMAIN told' : /\ i + MaxFailures - 1 <= Len(told')
                                     /\ \A k \in i .. i + MaxFailures - 1 : told'[k] = "fail"
  <2>1. CASE f >= MaxFailures
    <3> DEFINE i == n + 2 - MaxFailures
    <3>1. i \in 1 .. n + 1 /\ i + MaxFailures - 1 = n + 1
      BY <1>3, <1>4, <1>5, <2>1
    <3>2. \A k \in i .. n + 1 : k \in 1 .. n + 1 /\ k > n + 1 - f
      BY <1>3, <1>4, <1>5, <2>1
    <3> QED BY <1>3, <1>6, <3>1, <3>2
  <2>2. CASE ~(f >= MaxFailures)
    <3>1. state = "breaker"
      BY <1>5, <1>8, <2>2
    <3>2. PICK i \in DOMAIN told : /\ i + MaxFailures - 1 <= Len(told)
                                   /\ \A k \in i .. i + MaxFailures - 1 : told[k] = "fail"
      BY <3>1 DEF BreakerExact
    <3>3. i \in 1 .. n + 1 /\ i + MaxFailures - 1 <= n + 1
      BY <1>1, <1>3, <1>4, <3>2
    <3>4. \A k \in i .. i + MaxFailures - 1 : k \in 1 .. n
      BY <1>1, <1>3, <1>4, <3>2
    <3> QED BY <1>3, <3>2, <3>3, <3>4
  <2> QED BY <2>1, <2>2
<1>9. ASSUME NEW i \in DOMAIN told', i + MaxFailures - 1 <= Len(told'),
             \A k \in i .. i + MaxFailures - 1 : told'[k] = "fail"
      PROVE  state' = "breaker"
  <2>1. CASE i + MaxFailures - 1 <= n
    <3>1. i \in DOMAIN told /\ i + MaxFailures - 1 <= Len(told)
      BY <1>1, <1>3, <1>4, <1>9, <2>1
    <3>2. \A k \in i .. i + MaxFailures - 1 : k \in 1 .. n
      BY <1>3, <1>4, <2>1, <3>1
    <3>3. \A k \in i .. i + MaxFailures - 1 : told[k] = "fail"
      BY <1>3, <1>9, <3>2
    <3>4. state = "breaker"
      BY <3>1, <3>3 DEF BreakerExact
    <3> QED BY <1>5, <3>4
  <2>2. CASE ~(i + MaxFailures - 1 <= n)
    <3>1. i \in Nat /\ i >= 1 /\ i + MaxFailures - 1 = n + 1
      BY <1>3, <1>4, <1>9, <2>2
    <3>2. CASE f < MaxFailures
      <4>1. f < n + 1
        BY <1>3, <1>4, <1>5, <3>1, <3>2
      <4>2. n + 1 - f \in i .. i + MaxFailures - 1
        BY <1>3, <1>4, <1>5, <3>1, <3>2
      <4> QED BY <1>7, <1>9, <4>1, <4>2
    <3>3. CASE ~(f < MaxFailures)
      BY <1>4, <1>5, <3>3
    <3> QED BY <3>2, <3>3
  <2> QED BY <2>1, <2>2
<1> QED BY <1>8, <1>9 DEF BreakerExact

LEMMA BreakerNext ==
  ASSUME TypeOK, AnswerInv, PcInv, EndInv, TellInv, BreakerExact, [Next]_vars
  PROVE  BreakerExact'
<1> USE DEF files, memory
<1>1. CASE \E u \in Units : Result(u)
  <2>1. PICK u \in Units : Result(u)
    BY <1>1
  <2>2. TellInv'
    BY TellNext
  <2> QED BY <2>1, <2>2, ResultBreaks
<1>2. CASE Finish \/ Crash
  <2>1. told' = << >> /\ state' = "none"
    BY <1>2 DEF Finish, Crash, Forget
  <2>2. DOMAIN told' = {}
    BY <2>1
  <2> QED BY <2>1, <2>2 DEF BreakerExact
<1>3. CASE Open \/ Submit \/ (\E u \in Units : ResultRaises(u) \/ WorkerEnds(u)) \/ DeadlinePasses
           \/ WaitTimesOut \/ Wait \/ WriteRecord \/ WriteFile \/ BatchDone \/ Drop \/ LoopEnds
           \/ UNCHANGED vars
  <2>1. told' = told /\ (state' = "breaker" <=> state = "breaker")
    BY <1>3 DEF Open, Submit, ResultRaises, WorkerEnds, DeadlinePasses, WaitTimesOut, Wait,
                WriteRecord, WriteFile, BatchDone, Drop, LoopEnds, Over, vars, EndInv
  <2> QED BY <2>1 DEF BreakerExact
<1> QED BY <1>1, <1>2, <1>3 DEF Next, Runner

-----------------------------------------------------------------------------
\* All of the invariant, a part at a time.
IInv == TypeOK /\ FileInv /\ StateInv

LEMMA IInvNext == IInv /\ [Next]_vars => IInv'
<1> SUFFICES ASSUME IInv, [Next]_vars PROVE IInv'
  OBVIOUS
<1> USE DEF IInv, FileInv, StateInv
<1>1. TypeOK'
  BY NextType
<1>2. FileInv'
  BY UnitNext, AnswerNext, HandNext, OutNext, PcNext, TornNext, ChainNext
<1>3. StateInv'
  BY AccountNext, EndNext, TellNext, BreakerNext
<1> QED BY <1>1, <1>2, <1>3

THEOREM Inductive == Spec => []IInv
<1>1. Init => IInv
  BY InitType DEF IInv
<1> QED BY <1>1, IInvNext, PTL DEF Spec

(* Every variable of the runner keeps its type, and no line of the file is  *)
(* empty (ornith_night_runner.py, run_queue).                               *)
THEOREM TypeCorrect == Spec => []TypeOK
<1>1. IInv => TypeOK
  BY DEF IInv
<1> QED BY <1>1, Inductive, PTL

(* A receipt that says ok has its claim, whole, beside it: append_claim     *)
(* goes before the receipt, and a unit with a receipt is never run again.   *)
THEOREM OkClaimed == Spec => []OkHasClaim
<1>1. Init => OkHasClaim
  BY DEF Init, OkHasClaim
<1>2. IInv /\ OkHasClaim /\ [Next]_vars => OkHasClaim'
  BY OkNext DEF IInv, FileInv
<1> QED BY <1>1, <1>2, Inductive, PTL DEF Spec

(* No unit has two receipts, however many runs were killed and begun anew   *)
(* (read_completed_unit_ids, filter_pending_units).                         *)
THEOREM OneReceipt == Spec => []ReceiptedOnce
<1>1. Init => ReceiptedOnce
  BY DEF Init, ReceiptedOnce
<1>2. IInv /\ ReceiptedOnce /\ [Next]_vars => ReceiptedOnce'
  BY OnceNext DEF IInv, FileInv
<1> QED BY <1>1, <1>2, Inductive, PTL DEF Spec

(* The chain of hashes verifies across runs and torn lines                  *)
(* (JsonlChainWriter, _seed_hash).                                          *)
THEOREM ChainHolds == Spec => []ChainVerifies
<1>1. Init => ChainVerifies
  BY DEF Init, ChainVerifies
<1>2. IInv /\ ChainVerifies /\ [Next]_vars => ChainVerifies'
  BY VerifiesNext DEF IInv, FileInv
<1> QED BY <1>1, <1>2, Inductive, PTL DEF Spec

(* The state in the last record of a run is true: who was accounted for,    *)
(* and whether so many failures in a row were handled (run_queue).          *)
THEOREM StateTrue == Spec => []StateIsTrue
<1>1. IInv => StateIsTrue
  <2> SUFFICES ASSUME IInv, pc = "end" PROVE RunAccounts /\ BreakerExact
    BY DEF StateIsTrue
  <2>1. AccountInv /\ EndInv /\ BreakerExact
    BY DEF IInv, StateInv
  <2>2. ASSUME state # "breaker" PROVE \A u \in begun : Pieced(u)
    BY <2>1, <2>2 DEF AccountInv, EndInv
  <2>3. ASSUME state = "exhausted" PROVE \A u \in Units : Pieced(u)
    <3>1. \A u \in begun : Pieced(u)
      BY <2>2, <2>3
    <3>2. todo = << >>
      BY <2>1, <2>3 DEF EndInv
    <3> QED BY <2>1, <3>1, <3>2 DEF AccountInv
  <2> QED BY <2>1, <2>2, <2>3 DEF RunAccounts
<1> QED BY <1>1, Inductive, PTL
-----------------------------------------------------------------------------
(* A run runs down: its steps are numbered, whatever its workers do.        *)

Running == {u \in Units : answer[u] = "running"}

Phase ==
  IF pc = "results" THEN (IF batch = {} THEN 5 ELSE 3) ELSE IF pc \in {"loop", "drop"} THEN 4 ELSE 1

\* A bound on the steps a run has before it: the units to submit, those in the pool, those
\* at work, what is still to be written, the turn of the loop and the deadline.
StepsLeft ==
  IF pc = "down" THEN 0
  ELSE 8 * Len(todo) + 6 * Cardinality(active) + Cardinality(Running) + Len(out) + Phase
         + (IF late THEN 0 ELSE 1)

LEMMA StepsCounted ==
  ASSUME TypeOK
  PROVE  /\ IsFiniteSet(active) /\ IsFiniteSet(Running)
         /\ Len(todo) \in Nat /\ Len(out) \in Nat /\ Phase \in 1 .. 5
         /\ Cardinality(active) \in Nat /\ Cardinality(Running) \in Nat
<1>1. IsFiniteSet(Units)
  BY NightAssumption, FS_Interval DEF Units
<1>2. active \in SUBSET Units /\ Running \in SUBSET Units
  BY DEF TypeOK, Running
<1>3. IsFiniteSet(active) /\ IsFiniteSet(Running)
  BY <1>1, <1>2, FS_Subset
<1>4. Len(todo) \in Nat /\ Len(out) \in Nat
  BY LenProperties DEF TypeOK
<1> QED BY <1>3, <1>4, FS_CardinalityType DEF Phase

LEMMA StepsNat == TypeOK => StepsLeft \in Nat /\ (pc # "down" => StepsLeft > 0)
<1> SUFFICES ASSUME TypeOK PROVE StepsLeft \in Nat /\ (pc # "down" => StepsLeft > 0)
  OBVIOUS
<1> DEFINE t == Len(todo)
           a == Cardinality(active)
           r == Cardinality(Running)
           o == Len(out)
           p == Phase
<1>1. t \in Nat /\ a \in Nat /\ r \in Nat /\ o \in Nat /\ p \in 1 .. 5
  BY StepsCounted
<1>2. StepsLeft = IF pc = "down" THEN 0
                  ELSE 8 * t + 6 * a + r + o + p + (IF late THEN 0 ELSE 1)
  BY DEF StepsLeft
<1> HIDE DEF t, a, r, o, p
<1> QED BY <1>1, <1>2

\* A unit goes from the queue to a worker.
LEMMA SubmitTakes ==
  ASSUME TypeOK, HandInv, Submit
  PROVE  /\ Len(todo') = Len(todo) - 1
         /\ Cardinality(active') = Cardinality(active) + 1
         /\ Cardinality(Running') = Cardinality(Running) + 1
<1> DEFINE u == Head(todo)
<1>1. todo # << >> /\ active' = active \cup {u} /\ todo' = Tail(todo)
      /\ answer' = [answer EXCEPT ![u] = "running"]
  BY DEF Submit, MaySubmit
<1>2. u \in Units /\ u = todo[1] /\ 1 \in DOMAIN todo
  BY <1>1, TodoHead
<1>3. u \notin active
  BY <1>2 DEF HandInv
<1> HIDE DEF u
<1>4. Len(todo') = Len(todo) - 1
  BY <1>1, HeadTailProperties DEF TypeOK
<1>5. u \notin Running
  BY <1>3 DEF Running, TypeOK
<1>6. Running' = Running \cup {u}
  BY <1>1, <1>2 DEF Running, TypeOK
<1> QED BY <1>1, <1>3, <1>4, <1>5, <1>6, StepsCounted, FS_AddElement

LEMMA WritesLength ==
  ASSUME TypeOK, NEW u \in Units
  PROVE  Len(WritesFor(u)) \in 0 .. 3
<1>1. WritesFor(u) \in Seq(Outs) /\ DOMAIN WritesFor(u) \subseteq 1 .. 3
  BY WritesHas
<1>2. Len(WritesFor(u)) \in Nat /\ DOMAIN WritesFor(u) = 1 .. Len(WritesFor(u))
  BY <1>1, LenProperties
<1>3. Len(WritesFor(u)) > 0 => Len(WritesFor(u)) \in DOMAIN WritesFor(u)
  BY <1>2
<1> QED BY <1>1, <1>2, <1>3

LEMMA OverLength == ASSUME NEW st, Over(st) PROVE Len(out') \in 1 .. 2
<1> DEFINE last == Record("terminal", 0, st)
           file == [kind |-> "breaker", unit |-> 0]
<1>1. out' = Append(IF st = "breaker" THEN <<file>> ELSE << >>, last)
  BY DEF Over
<1> HIDE DEF last, file
<1>2. CASE st = "breaker"
  <2>1. out' = Append(<<file>>, last)
    BY <1>1, <1>2
  <2>2. <<file>> \in Seq({file, last}) /\ Len(<<file>>) = 1
    OBVIOUS
  <2>3. Len(out') = 2
    BY <2>1, <2>2, AppendProperties
  <2> QED BY <2>3
<1>3. CASE st # "breaker"
  <2>1. out' = Append(<< >>, last)
    BY <1>1, <1>3
  <2>2. out' = <<last>>
    BY <2>1
  <2> QED BY <2>2
<1> QED BY <1>2, <1>3

\* Every step of a run takes from the steps it has left, the wait for a worker apart.
LEMMA StepsFall ==
  ASSUME IInv, IInv', [Next]_vars, pc # "down"
  PROVE  StepsLeft' < StepsLeft \/ (StepsLeft' = StepsLeft /\ (WaitTimesOut \/ UNCHANGED vars))
<1>1. TypeOK /\ HandInv /\ AnswerInv /\ PcInv /\ TypeOK'
  BY DEF IInv, FileInv
<1> DEFINE t == Len(todo)
           a == Cardinality(active)
           r == Cardinality(Running)
           o == Len(out)
           p == Phase
           l == IF late THEN 0 ELSE 1
<1>2. t \in Nat /\ a \in Nat /\ r \in Nat /\ o \in Nat /\ p \in 1 .. 5 /\ l \in 0 .. 1
  BY <1>1, StepsCounted
<1>3. StepsLeft = 8 * t + 6 * a + r + o + p + l
  BY DEF StepsLeft
<1>4. StepsLeft \in Nat /\ StepsLeft > 0
  BY <1>1, StepsNat
<1>5. pc' # "down" => StepsLeft' = 8 * t' + 6 * a' + r' + o' + p' + l'
  BY DEF StepsLeft
<1>6. pc' = "down" => StepsLeft' = 0
  BY DEF StepsLeft
<1>7. ASSUME UNCHANGED answer PROVE r' = r
  BY <1>7 DEF Running
<1>8. /\ t' \in Nat /\ a' \in Nat /\ r' \in Nat /\ o' \in Nat
  <2>1. t' \in Nat /\ o' \in Nat
    BY <1>1, LenProperties DEF TypeOK
  <2>2. active' \in SUBSET Units /\ Running' \in SUBSET Units
    BY <1>1 DEF TypeOK, Running
  <2>3. IsFiniteSet(Units)
    BY NightAssumption, FS_Interval DEF Units
  <2>4. IsFiniteSet(active') /\ IsFiniteSet(Running')
    BY <2>2, <2>3, FS_Subset
  <2> QED BY <2>1, <2>4, FS_CardinalityType
<1>9. CASE Submit
  <2>1. t' = t - 1 /\ a' = a + 1 /\ r' = r + 1
    BY <1>1, <1>9, SubmitTakes
  <2>2. o' = o /\ p' = p /\ l' = l /\ pc' # "down"
    BY <1>9 DEF Submit, Phase
  <2> HIDE DEF t, a, r, o, p, l
  <2> QED BY <1>2, <1>3, <1>5, <2>1, <2>2
<1>10. CASE WaitTimesOut
  <2>1. t' = t /\ a' = a /\ o' = o /\ p' = p /\ l' = l /\ pc' # "down" /\ UNCHANGED answer
    BY <1>10 DEF WaitTimesOut, Phase
  <2>2. r' = r
    BY <1>7, <2>1
  <2> HIDE DEF t, a, r, o, p, l
  <2> QED BY <1>2, <1>3, <1>5, <1>10, <2>1, <2>2
<1>11. CASE Wait
  <2>1. t' = t /\ a' = a /\ o' = o /\ l' = l /\ pc' # "down" /\ UNCHANGED answer
    BY <1>11 DEF Wait
  <2>2. p = 4 /\ p' = 3
    BY <1>11 DEF Wait, Phase
  <2>3. r' = r
    BY <1>7, <2>1
  <2> HIDE DEF t, a, r, o, p, l
  <2> QED BY <1>2, <1>3, <1>5, <2>1, <2>2, <2>3
<1>12. ASSUME NEW u \in Units, Result(u) PROVE StepsLeft' < StepsLeft
  <2>1. t' = t /\ l' = l /\ pc' # "down" /\ UNCHANGED answer /\ o = 0
    BY <1>12 DEF Result
  <2>2. a' = a - 1
    <3>1. u \in active /\ active' = active \ {u}
      BY <1>1, <1>12 DEF Result, TypeOK
    <3> QED BY <1>1, <3>1, StepsCounted, FS_RemoveElement
  <2>3. p = 3 /\ p' \in {3, 5}
    BY <1>12 DEF Result, Phase
  <2>4. o' <= 3
    <3>1. out' = WritesFor(u)
      BY <1>12 DEF Result
    <3>2. Len(WritesFor(u)) <= 3
      BY <1>1, WritesLength
    <3> QED BY <3>1, <3>2
  <2>5. r' = r
    BY <1>7, <2>1
  <2> HIDE DEF t, a, r, o, p, l
  <2>6. PICK n \in Nat : n = o'
    BY <1>8
  <2>7. PICK q \in {3, 5} : q = p'
    BY <2>3
  <2>8. n <= 3
    BY <2>4, <2>6
  <2>9. StepsLeft' = 8 * t + 6 * (a - 1) + r + n + q + l
    BY <1>5, <2>1, <2>2, <2>5, <2>6, <2>7
  <2>10. o = 0 /\ p = 3
    BY <2>1, <2>3
  <2> QED BY <1>2, <1>3, <2>8, <2>9, <2>10
<1>13. ASSUME NEW u \in Units, ResultRaises(u) PROVE StepsLeft' < StepsLeft
  <2>1. t' = t /\ a' = a /\ o' = o /\ l' = l /\ pc' # "down" /\ UNCHANGED answer
    BY <1>13 DEF ResultRaises, memory
  <2>2. p = 3 /\ p' = 1
    BY <1>13 DEF ResultRaises, Phase
  <2>3. r' = r
    BY <1>7, <2>1
  <2> HIDE DEF t, a, r, o, p, l
  <2> QED BY <1>2, <1>3, <1>5, <2>1, <2>2, <2>3
<1>14. CASE WriteRecord \/ WriteFile
  <2>1. t' = t /\ a' = a /\ l' = l /\ pc' = pc /\ answer' = answer /\ batch' = batch
    <3>1. CASE WriteRecord
      BY <3>1 DEF WriteRecord
    <3>2. CASE WriteFile
      BY <3>2 DEF WriteFile
    <3> QED BY <1>14, <3>1, <3>2
  <2>2. o' = o - 1
    <3>1. out \in Seq(Outs) /\ out # << >> /\ out' = Tail(out)
      BY <1>1, <1>14 DEF WriteRecord, WriteFile, TypeOK
    <3> QED BY <3>1, HeadTailProperties
  <2>3. p' = p
    BY <2>1 DEF Phase
  <2>4. r' = r
    BY <1>7, <2>1
  <2> HIDE DEF t, a, r, o, p, l
  <2> QED BY <1>2, <1>3, <1>5, <2>1, <2>2, <2>3, <2>4
<1>15. CASE BatchDone
  <2>1. t' = t /\ a' = a /\ o' = o /\ l' = l /\ pc' # "down" /\ UNCHANGED answer
    BY <1>15 DEF BatchDone, memory
  <2>2. p = 5 /\ p' = 4
    BY <1>15 DEF BatchDone, Phase
  <2>3. r' = r
    BY <1>7, <2>1
  <2> HIDE DEF t, a, r, o, p, l
  <2> QED BY <1>2, <1>3, <1>5, <2>1, <2>2, <2>3
<1>16. CASE Drop \/ LoopEnds
  <2>1. t' = t /\ a' = a /\ l' = l /\ UNCHANGED answer
    BY <1>16 DEF Drop, LoopEnds
  <2>2. PICK st : Over(st)
    BY <1>16 DEF Drop, LoopEnds
  <2>3. o' <= 2
    BY <2>2, OverLength
  <2>4. pc \in {"drop", "loop"}
    BY <1>16 DEF Drop, LoopEnds
  <2>5. p = 4 /\ p' = 1 /\ pc' # "down"
    BY <2>2, <2>4 DEF Over, Phase
  <2>6. o = 0
    BY <1>1, <2>4 DEF PcInv
  <2>7. r' = r
    BY <1>7, <2>1
  <2> HIDE DEF t, a, r, o, p, l
  <2>8. PICK n \in Nat : n = o'
    BY <1>8
  <2>9. n <= 2
    BY <2>3, <2>8
  <2>10. StepsLeft' = 8 * t + 6 * a + r + n + 1 + l
    BY <1>5, <2>1, <2>5, <2>7, <2>8
  <2> QED BY <1>2, <1>3, <2>5, <2>6, <2>9, <2>10
<1>17. CASE Finish \/ Crash
  <2>1. pc' = "down"
    BY <1>17 DEF Finish, Crash, Forget
  <2> QED BY <1>4, <1>6, <2>1
<1>18. CASE DeadlinePasses
  <2>1. t' = t /\ a' = a /\ o' = o /\ p' = p /\ pc' # "down" /\ l = 1 /\ l' = 0
        /\ UNCHANGED answer
    BY <1>18 DEF DeadlinePasses, Phase
  <2>2. r' = r
    BY <1>7, <2>1
  <2> HIDE DEF t, a, r, o, p, l
  <2> QED BY <1>2, <1>3, <1>5, <2>1, <2>2
<1>19. ASSUME NEW u \in Units, WorkerEnds(u) PROVE StepsLeft' < StepsLeft
  <2>1. t' = t /\ a' = a /\ o' = o /\ p' = p /\ l' = l /\ pc' # "down"
    BY <1>19 DEF WorkerEnds, memory, Phase
  <2>2. r' = r - 1
    <3>1. u \in Running /\ Running' = Running \ {u}
      BY <1>1, <1>19 DEF WorkerEnds, Running, TypeOK
    <3> QED BY <1>1, <3>1, StepsCounted, FS_RemoveElement
  <2> HIDE DEF t, a, r, o, p, l
  <2> QED BY <1>2, <1>3, <1>5, <2>1, <2>2
<1>20. CASE UNCHANGED vars
  <2>1. StepsLeft' = StepsLeft
    BY <1>20 DEF vars, memory, StepsLeft, Running, Phase
  <2> QED BY <1>20, <2>1
<1>21. ~Open
  BY DEF Open
<1> QED BY <1>9, <1>10, <1>11, <1>12, <1>13, <1>14, <1>15, <1>16, <1>17, <1>18, <1>19, <1>20,
           <1>21 DEF Next, Runner

(* A run runs down: each of its steps, a worker's end and the deadline      *)
(* among them, takes from a natural number, and only the wait of a second   *)
(* for a worker, which a worker's timeout ends, takes nothing.  So RunEnds  *)
(* asks of the main thread and of the workers no more than that they go on  *)
(* (run_queue).                                                             *)
THEOREM RunRunsDown ==
  Spec => /\ [](StepsLeft \in Nat /\ (StepsLeft = 0 <=> pc = "down"))
          /\ [][pc # "down" =>
                  StepsLeft' < StepsLeft \/ (StepsLeft' = StepsLeft /\ WaitTimesOut)]_vars
<1>1. IInv => StepsLeft \in Nat /\ (StepsLeft = 0 <=> pc = "down")
  <2> SUFFICES ASSUME IInv PROVE StepsLeft \in Nat /\ (StepsLeft = 0 <=> pc = "down")
    OBVIOUS
  <2>1. StepsLeft \in Nat /\ (pc # "down" => StepsLeft > 0)
    BY StepsNat DEF IInv
  <2>2. pc = "down" => StepsLeft = 0
    BY DEF StepsLeft
  <2> QED BY <2>1, <2>2
<1>2. IInv /\ IInv' /\ [Next]_vars =>
        [pc # "down" => StepsLeft' < StepsLeft \/ (StepsLeft' = StepsLeft /\ WaitTimesOut)]_vars
  BY StepsFall
<1> QED BY <1>1, <1>2, Inductive, PTL DEF Spec
=============================================================================
