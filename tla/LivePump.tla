-------------------------------- MODULE LivePump --------------------------------
(***************************************************************************)
(* CADAGENT_PUMP of the native module (AriadneNativeJob.cpp): a command of *)
(* AutoCAD that serves one client on a named pipe, frame by frame, with a  *)
(* timeout on the connection and on every read and write.                  *)
(*                                                                         *)
(* A frame is a header and a body.  Both directions of the pipe are byte   *)
(* streams: reads and writes are done in pieces, and a writer waits when   *)
(* the buffer is full.  FlushFileBuffers returns when the client has read  *)
(* everything or is gone; DisconnectNamedPipe throws away what is unread.  *)
(***************************************************************************)
EXTENDS Naturals, Sequences

CONSTANTS
  HeaderLen, \* bytes of a header (4 in the code)
  BodyLen,   \* bytes of a body
  Cap,       \* bytes a direction of the pipe holds (65536 in the code)
  Plans      \* sequences of requests: what a client may come to send

Ops == {"read", "stop", "bad"}  \* bad: a length of zero or above 1 MiB

ASSUME PumpAssumption ==
  /\ HeaderLen \in Nat \ {0} /\ BodyLen \in Nat \ {0} /\ Cap \in Nat \ {0}
  /\ Plans \subseteq Seq(Ops)

VARIABLES
  plan,     \* the requests of this behaviour
  client,   \* not there yet, connected or gone
  sent,     \* bytes the client has sent
  received, \* bytes the client has read
  up,       \* the pipe: bytes to the pump
  down,     \* the pipe: bytes to the client
  pipe,     \* the server end
  pc,       \* the pump
  got,      \* bytes read of the header or body in hand
  put,      \* bytes left to write of the answer in hand
  stop,     \* live.stop has been dispatched
  serving,  \* gPumpServing
  why       \* history: how the serve loop ended

clientVars == <<plan, client, sent, received>>
wire == <<up, down>>
pump == <<pipe, pc, got, put, stop, serving, why>>
vars == <<clientVars, wire, pump>>

\* Frame number i, as bytes.
Frame(i) == [k \in 1 .. HeaderLen + BodyLen |-> <<i, k>>]

\* The first n frames, one after the other.
Stream(n) ==
  [k \in 1 .. n * (HeaderLen + BodyLen) |->
     <<(k - 1) \div (HeaderLen + BodyLen) + 1, ((k - 1) % (HeaderLen + BodyLen)) + 1>>]

IsHeader(bytes) ==
  \E i \in DOMAIN plan : plan[i] # "bad" /\ bytes = SubSeq(Frame(i), 1, HeaderLen)

\* The request whose body this is; 0 if it is none.
Request(bytes) ==
  IF \E i \in DOMAIN plan : bytes = SubSeq(Frame(i), HeaderLen + 1, HeaderLen + BodyLen)
  THEN CHOOSE i \in DOMAIN plan : bytes = SubSeq(Frame(i), HeaderLen + 1, HeaderLen + BodyLen)
  ELSE 0

Init ==
  /\ plan \in Plans
  /\ client = "away" /\ sent = 0 /\ received = <<>>
  /\ up = <<>> /\ down = <<>>
  /\ pipe = "none" /\ pc = "start" /\ got = <<>> /\ put = <<>>
  /\ stop = FALSE /\ serving = FALSE /\ why = "none"

-----------------------------------------------------------------------------
(* The client.                                                             *)

Connect ==
  /\ client = "away" /\ pipe = "open"
  /\ client' = "open"
  /\ UNCHANGED <<plan, sent, received, wire, pump>>

\* It need not wait for an answer before the next request.
Send ==
  /\ client = "open" /\ pipe = "open"
  /\ sent < Len(plan) * (HeaderLen + BodyLen) /\ Len(up) < Cap
  /\ up' = Append(up, Stream(Len(plan))[sent + 1]) /\ sent' = sent + 1
  /\ UNCHANGED <<plan, client, received, down, pump>>

Receive ==
  /\ client = "open" /\ down # <<>>
  /\ received' = Append(received, down[1]) /\ down' = Tail(down)
  /\ UNCHANGED <<plan, client, sent, up, pump>>

\* What it has sent can still be read.
CloseClient ==
  /\ client = "open"
  /\ client' = "gone" /\ down' = <<>>
  /\ UNCHANGED <<plan, sent, received, up, pump>>

-----------------------------------------------------------------------------
(* The pump.                                                               *)

\* CreateNamedPipe; there is room for one instance.
Create ==
  /\ pc = "start"
  /\ \/ pc' = "connect" /\ pipe' = "open"
     \/ pc' = "done" /\ UNCHANGED pipe
  /\ UNCHANGED <<clientVars, wire, got, put, stop, serving, why>>

Connected ==
  /\ pc = "connect" /\ client = "open"
  /\ pc' = "head" /\ serving' = TRUE
  /\ UNCHANGED <<clientVars, wire, pipe, got, put, stop, why>>

\* The timeout, or a client that is gone again.
NotConnected ==
  /\ pc = "connect"
  /\ pc' = "done" /\ pipe' = "closed" /\ down' = <<>>
  /\ UNCHANGED <<clientVars, up, got, put, stop, serving, why>>

Need == IF pc = "head" THEN HeaderLen ELSE BodyLen

\* Variant: one ReadFile is taken for the whole.
OneRead == got # <<>>

\* pumpReadExact reads until it has all.
ReadExact == Len(got) = Need

ReadSome ==
  /\ pc \in {"head", "body"} /\ ~ReadExact /\ up # <<>>
  /\ \E n \in 1 .. Len(up) :
       /\ n <= Need - Len(got)
       /\ got' = got \o SubSeq(up, 1, n)
       /\ up' = SubSeq(up, n + 1, Len(up))
  /\ UNCHANGED <<clientVars, down, pipe, pc, put, stop, serving, why>>

\* Variant: the flag is cleared with the pipe only.
LeaveServing(reason) ==
  /\ pc' = "flush" /\ serving' = serving /\ why' = reason

\* The loop is left.
Leave(reason) ==
  /\ pc' = "flush" /\ serving' = FALSE /\ why' = reason

\* Variant: ReadFile has no timeout.
ReadBroken == client = "gone"

\* The client is gone, or has sent nothing for the length of the timeout.
ReadGivenUp == TRUE

ReadFails ==
  /\ pc \in {"head", "body"} /\ ~ReadExact /\ up = <<>>
  /\ ReadGivenUp
  /\ Leave("broken")
  /\ UNCHANGED <<clientVars, wire, pipe, got, put, stop>>

HeaderRead ==
  /\ pc = "head" /\ ReadExact
  /\ got' = <<>>
  /\ IF IsHeader(got) THEN pc' = "body" /\ UNCHANGED <<serving, why>> ELSE Leave("broken")
  /\ UNCHANGED <<clientVars, wire, pipe, put, stop>>

\* pumpDispatch: no operation writes to the drawing; live.stop sets the flag.
Dispatch ==
  /\ pc = "body" /\ ReadExact
  /\ put' = Frame(Request(got)) /\ got' = <<>>
  /\ stop' = (Request(got) # 0 /\ plan[Request(got)] = "stop")
  /\ pc' = "write"
  /\ UNCHANGED <<clientVars, wire, pipe, serving, why>>

WriteSome ==
  /\ pc = "write" /\ put # <<>> /\ client = "open" /\ Len(down) < Cap
  /\ down' = Append(down, put[1]) /\ put' = Tail(put)
  /\ UNCHANGED <<clientVars, up, pipe, pc, got, stop, serving, why>>

\* The client is gone, or has not made room for the length of the timeout.
WriteFails ==
  /\ pc = "write" /\ put # <<>>
  /\ client = "gone" \/ Len(down) = Cap
  /\ Leave("broken")
  /\ UNCHANGED <<clientVars, wire, pipe, got, put, stop>>

Answered ==
  /\ pc = "write" /\ put = <<>>
  /\ IF stop THEN Leave("stop") ELSE pc' = "head" /\ UNCHANGED <<serving, why>>
  /\ UNCHANGED <<clientVars, wire, pipe, got, put, stop>>

\* Variant: the pipe is disconnected at once.
NotFlushed == TRUE

\* FlushFileBuffers has no timeout.
Flushed == client = "gone" \/ down = <<>>

\* FlushFileBuffers, DisconnectNamedPipe, CloseHandle.
Teardown ==
  /\ pc = "flush" /\ Flushed
  /\ pc' = "done" /\ pipe' = "closed" /\ down' = <<>>
  /\ UNCHANGED <<clientVars, up, got, put, stop, serving, why>>

Pump ==
  \/ Create \/ Connected \/ NotConnected \/ ReadSome \/ ReadFails \/ HeaderRead
  \/ Dispatch \/ WriteSome \/ WriteFails \/ Answered \/ Teardown

Next == Connect \/ Send \/ Receive \/ CloseClient \/ Pump

Spec == Init /\ [][Next]_vars

\* The pump runs on the command thread, and its reads and writes have a timeout.  Nothing
\* is assumed of the client, which is another program.
FairSpec == Spec /\ WF_vars(Pump)

-----------------------------------------------------------------------------
\* The type of every variable, and that neither direction holds more than it can.
TypeOK ==
  /\ plan \in Plans /\ client \in {"away", "open", "gone"}
  /\ sent \in 0 .. Len(plan) * (HeaderLen + BodyLen)
  /\ received \in Seq(Nat \X Nat) /\ up \in Seq(Nat \X Nat) /\ down \in Seq(Nat \X Nat)
  /\ Len(up) <= Cap /\ Len(down) <= Cap
  /\ pipe \in {"none", "open", "closed"}
  /\ pc \in {"start", "connect", "head", "body", "write", "flush", "done"}
  /\ got \in Seq(Nat \X Nat) /\ put \in Seq(Nat \X Nat)
  /\ stop \in BOOLEAN /\ serving \in BOOLEAN /\ why \in {"none", "stop", "broken"}
  /\ serving <=> pc \in {"head", "body", "write"}

\* What the client reads are the answers to its requests, in their order and without a
\* gap, however the bytes were cut (a 4-byte length and a body, in both directions).
InStep ==
  \E n \in 0 .. Len(plan) :
    /\ Len(received) <= n * (HeaderLen + BodyLen)
    /\ received = SubSeq(Stream(n), 1, Len(received))

\* A client that asked the pump to stop and stayed has the whole answer when the pump has
\* stopped (live.stop; FlushFileBuffers before DisconnectNamedPipe).
StopAnswered ==
  pc = "done" /\ why = "stop" /\ client = "open"
    => \E i \in DOMAIN plan : plan[i] = "stop" /\ received = Stream(i)

\* What the source says: the pump is self-terminating and can never hang a headless
\* session.  Of a client that stays and does not read this is not so.
PumpEnds == pc = "connect" ~> pc = "done"

\* The teardown waits for a client that stays and has not read what was written to it.
HeldByClient == pc = "flush" /\ client = "open" /\ down # <<>>

\* That is all that can hold the pump: with any client, one that is silent, stops in the
\* middle of a frame, does not read or goes, the serve loop ends (every connect, read and
\* write has a timeout), and then the pump is done for good or its client leaves an answer
\* unread for good.  A plan ends; a client that asked for ever would be served for ever.
EndsOrHeld == pc = "connect" ~> [](pc = "done" \/ HeldByClient)
=============================================================================
