------------------------- MODULE LiveStream_proofs --------------------------
(***************************************************************************)
(* Proofs about LiveStream, for every client, every body and all limits.   *)
(***************************************************************************)
EXTENDS LiveStream, SequenceTheorems, TLAPS

LEMMA NumbersType ==
  ASSUME NEW tokens \in Seq(Token)
  PROVE  Numbers(tokens) \in Seq(Nat) /\ Len(Numbers(tokens)) = Len(tokens)
<1>1. ASSUME NEW i \in 1..Len(tokens) PROVE tokens[i].n \in Nat
  <2>1. tokens[i] \in Token
    OBVIOUS
  <2> QED
    BY <2>1 DEF Token
<1>2. Numbers(tokens) = [i \in 1..Len(tokens) |-> tokens[i].n]
  BY DEF Numbers
<1> QED
  BY <1>1, <1>2, IsASeq

LEMMA FloorIsBelow ==
  ASSUME NEW a \in Nat, NEW b \in Nat \ {0}
  PROVE  (a \div b) * b \in 0..a
<1>1. PICK q \in Nat, r \in 0..b - 1 : q = a \div b /\ a = b * q + r
  OBVIOUS
<1>2. b * q = q * b /\ b * q \in Nat
  OBVIOUS
<1>3. q * b <= a
  BY <1>1, <1>2
<1> QED
  BY <1>1, <1>2, <1>3

LEMMA PieceType ==
  ASSUME NEW S, NEW s \in Seq(S), NEW m \in 0..Len(s), NEW n \in m..Len(s)
  PROVE  SubSeq(s, m + 1, n) \in Seq(S) /\ Len(SubSeq(s, m + 1, n)) = n - m
  BY SubSeqProperties

LEMMA LimitTypes ==
  MaxBody \in Nat /\ Idle \in Nat /\ Total \in Nat /\ SendTimeout \in Nat
  BY LimitsAssumption

----------------------------------------------------------------------------
(* The invariant: types, where a waiting thread resumes, and the sink.     *)

ResumeInv ==
  /\ pc = "poll" => after \in {"line", "trailer", "chunk"}
  /\ pc = "delta" => after \in {"read", "finish"}
  /\ pc = "release" => after \in {"report", "done"}
  /\ pc = "chunk" \/ (pc = "poll" /\ after = "chunk") => parsed >= 2

SinkInv ==
  /\ SinkFollowsLock
  /\ pc \in {"load", "release"} => sink = "nobody"

LiveInv == TypeOK /\ ResumeInv /\ SinkInv

LEMMA InitEstablishes ==
  ASSUME Init
  PROVE  LiveInv
<1>1. TypeOK
  BY SizesAssumption, LimitTypes, BodiesAssumption, FormatsAssumption
     DEF Init, TypeOK, Pcs, SendWait, Unbounded, Token
<1>2. ResumeInv /\ SinkInv
  BY DEF Init, ResumeInv, SinkInv, SinkFollowsLock, Holding, Running, Reading
<1> QED
  BY <1>1, <1>2 DEF LiveInv

----------------------------------------------------------------------------
(* Every step keeps it.                                                    *)

\* What a step of the stream buffer that ends in Goto or Throw leaves alone.
LEMMA GotoTypes ==
  ASSUME TypeOK, NEW label \in Pcs, Goto(label)
  PROVE  /\ pc' = label /\ wait' \in Int /\ now' = now /\ after' = after
  BY LimitTypes DEF Goto, SendWait, Unbounded

LEMMA EmitTypes ==
  ASSUME TypeOK, NEW next \in Pcs, NEW emitted \in Emits, Emit(emitted, next)
  PROVE  /\ \/ pc' \in {next, "unwind"} /\ after' = after
            \/ pc' = "delta" /\ after' = next
         /\ wait' \in Int
         /\ now' = now
<1>1. CASE emitted = "nothing"
  BY <1>1, GotoTypes DEF Emit
<1>2. CASE emitted = "exception"
  BY <1>2, GotoTypes DEF Emit, Throw, Pcs
<1>3. CASE emitted = "event"
  BY <1>3, LimitTypes DEF Emit, SendWait, Unbounded
<1> QED
  BY <1>1, <1>2, <1>3 DEF Emits

LEMMA NeedMoreTypes ==
  ASSUME TypeOK, NEW back \in Pcs, NeedMore(back)
  PROVE  /\ \/ pc' = "unwind" /\ after' = after
            \/ pc' = "poll" /\ after' = back
         /\ wait' \in Int
         /\ now' = now
<1>1. CASE Expired
  BY <1>1, GotoTypes DEF NeedMore, Throw, Pcs
<1>2. CASE ~Expired
  BY <1>2, LimitTypes DEF NeedMore, PollWait, Unbounded, Least, TypeOK
<1> QED
  BY <1>1, <1>2

LEMMA PublishTypes ==
  ASSUME TypeOK, NEW data \in Seq(Token), NEW done \in 0..Len(data),
         Publish(data, done)
  PROVE  /\ pc' \in {"read", "unwind"} /\ after' = after
         /\ published' \in done..Len(data)
         /\ Expired => published' = done
         /\ wait' \in Int
         /\ now' = now
<1>1. CASE Expired
  BY <1>1, GotoTypes DEF Publish, Throw, Pcs
<1>2. CASE ~Expired
  BY <1>2, GotoTypes, SizesAssumption DEF Publish, Pcs, Least
<1> QED
  BY <1>1, <1>2

LEMMA SendTypes ==
  ASSUME TypeOK, NEW message \in Messages, NEW next \in Pcs, NEW otherwise \in Pcs,
         Send(message, next, otherwise)
  PROVE  /\ pc' \in {next, otherwise} /\ after' = after
         /\ wait' \in Int
         /\ now' = now
         /\ reply' \in Seq(Messages)
         /\ UNCHANGED <<network, buffer, audio, model, format>>
<1>1. \A m \in Messages : Append(reply, m) \in Seq(Messages)
  BY DEF TypeOK
<1>2. "torn" \in Messages
  BY DEF Messages
<1>3. CASE SendOk(message) /\ Goto(next)
  BY <1>1, <1>3, GotoTypes DEF SendOk, Send
<1>4. CASE SendFails /\ Goto(otherwise)
  BY <1>1, <1>2, <1>4, GotoTypes DEF SendFails, Send, TypeOK
<1> QED
  BY <1>3, <1>4 DEF Send

\* The line read ends within what has been received.
LEMMA LineTypes ==
  ASSUME TypeOK, NEW end \in LineEnds
  PROVE  end \in parsed + 1..received
  BY DEF LineEnds

LEMMA BodyType ==
  ASSUME TypeOK
  PROVE  body \in Seq(Token)
  BY BodiesAssumption DEF TypeOK

LEMMA StepKeeps ==
  ASSUME LiveInv, [Next]_vars
  PROVE  LiveInv'
<1> USE DEF LiveInv, TypeOK, ResumeInv, SinkInv, SinkFollowsLock, Holding,
            Running, Reading, Pcs, vars, network, clock, buffer, audio, model
<1> USE LimitTypes
<1>1. ASSUME Arrive PROVE LiveInv'
  BY <1>1 DEF Arrive
<1>2. ASSUME Shut PROVE LiveInv'
  BY <1>2 DEF Shut
<1>3. ASSUME Lose PROVE LiveInv'
  BY <1>3 DEF Lose
<1>4. ASSUME OtherRuns PROVE LiveInv'
  BY <1>4 DEF OtherRuns
<1>5. ASSUME Tick PROVE LiveInv'
  BY <1>5 DEF Tick, Least
<1>6. ASSUME Underflow PROVE LiveInv'
  BY <1>6, GotoTypes, PublishTypes DEF Underflow, Throw
<1>7. ASSUME ReadSize PROVE LiveInv'
  <2>1. CASE LineEnds = {}
    BY <2>1, <1>7, NeedMoreTypes DEF ReadSize
  <2>2. CASE LineEnds # {}
    <3>1. PICK end \in LineEnds :
            /\ parsed' = end
            /\ \E label \in {"unwind", "trailer", "chunk"} :
                 /\ Goto(label)
                 /\ label = "chunk" => IsSize(parsed + 1, end)
      BY <2>2, <1>7 DEF ReadSize
    <3>2. end \in parsed + 1..received
      BY LineTypes
    <3>3. PICK label \in {"unwind", "trailer", "chunk"} :
            Goto(label) /\ (label = "chunk" => IsSize(parsed + 1, end))
      BY <3>1
    <3>4. pc' = label /\ wait' \in Int /\ now' = now /\ after' = after
      BY <3>3, GotoTypes
    <3>5. parsed' \in 0..received /\ (label = "chunk" => parsed' >= 2)
      BY <3>1, <3>2, <3>3 DEF IsSize
    <3>6. UNCHANGED <<network, received, chunk, published, taken, audio, model, format, reply>>
      BY <1>7 DEF ReadSize
    <3>7. pc = "line"
      BY <1>7 DEF ReadSize
    <3>8. TypeOK'
      BY <3>3, <3>4, <3>5, <3>6
    <3> QED
      BY <3>3, <3>4, <3>5, <3>6, <3>7, <3>8
  <2> QED
    BY <2>1, <2>2
<1>8. ASSUME ReadTrailer PROVE LiveInv'
  <2>1. CASE LineEnds = {}
    BY <2>1, <1>8, NeedMoreTypes DEF ReadTrailer
  <2>2. CASE LineEnds # {}
    <3>1. PICK end \in LineEnds :
            /\ parsed' = end
            /\ \E label \in {"deliver", "trailer"} : Goto(label)
      BY <2>2, <1>8 DEF ReadTrailer
    <3>2. end \in parsed + 1..received
      BY LineTypes
    <3>3. /\ pc' \in {"deliver", "trailer"}
          /\ wait' \in Int /\ now' = now /\ after' = after
      BY <3>1, GotoTypes
    <3> QED
      BY <3>1, <3>2, <3>3, <1>8 DEF ReadTrailer
  <2> QED
    BY <2>1, <2>2
<1>9. ASSUME ReadChunk PROVE LiveInv'
  <2>1. ChunkSize \in Nat
    <3>1. parsed - 1 \in 1..Len(body)
      BY <1>9, BodyType DEF ReadChunk
    <3>2. body[parsed - 1] \in Token
      BY <3>1, BodyType
    <3> QED
      BY <3>2 DEF ChunkSize, Token
  <2>2. CASE received - parsed < ChunkSize + 1
    BY <2>2, <1>9, NeedMoreTypes DEF ReadChunk
  <2>3. CASE received - parsed >= ChunkSize + 1 /\ ~Is(parsed + ChunkSize + 1, "eol")
    <3>1. /\ Goto("unwind")
          /\ UNCHANGED <<network, received, parsed, chunk, published, taken, audio, model,
                         format, reply>>
      BY <2>1, <2>3, <1>9 DEF ReadChunk, Throw
    <3>2. pc' = "unwind" /\ wait' \in Int /\ now' = now /\ after' = after
      BY <3>1, GotoTypes
    <3> QED
      BY <3>1, <3>2, <1>9 DEF ReadChunk
  <2>4. CASE received - parsed >= ChunkSize + 1 /\ Is(parsed + ChunkSize + 1, "eol")
    <3>1. chunk' = SubSeq(body, parsed + 1, parsed + ChunkSize)
      BY <2>1, <2>4, <1>9 DEF ReadChunk
    <3>2. chunk' \in Seq(Token)
      BY <2>1, <2>4, <3>1, PieceType, BodyType
    <3>3. Publish(chunk', 0)
      BY <2>1, <2>4, <1>9 DEF ReadChunk
    <3>4. /\ pc' \in {"read", "unwind"} /\ after' = after
          /\ published' \in 0..Len(chunk')
          /\ wait' \in Int
          /\ now' = now
      BY <3>2, <3>3, PublishTypes
    <3>5. parsed' = parsed + ChunkSize + 1 /\ taken' = 0
      BY <2>1, <2>4, <1>9 DEF ReadChunk
    <3> QED
      BY <2>1, <2>4, <3>2, <3>4, <3>5, <1>9 DEF ReadChunk
  <2> QED
    BY <2>1, <2>2, <2>3, <2>4
<1>10. ASSUME TakeBytes PROVE LiveInv'
  <2> DEFINE count == Least(published - taken, ReadBytes - Len(bytes))
             piece == SubSeq(chunk, taken + 1, taken + count)
  <2>1. /\ count \in 1..published - taken
        /\ count <= ReadBytes - Len(bytes)
    BY <1>10, SizesAssumption DEF TakeBytes, Least
  <2>2. /\ taken \in 0..Len(chunk) /\ taken + count \in taken..Len(chunk)
        /\ chunk \in Seq(Token)
    BY <2>1
  <2>3. bytes' = bytes \o Numbers(piece) /\ taken' = taken + count
    BY <1>10 DEF TakeBytes
  <2>4. count \in Nat /\ count = (taken + count) - taken
    BY <2>1, <2>2
  <2> HIDE DEF count
  <2>5. bytes' \in Seq(Nat) /\ Len(bytes') = Len(bytes) + count
    <3>1. piece \in Seq(Token) /\ Len(piece) = count
      BY <2>2, <2>4, PieceType
    <3> HIDE DEF piece
    <3>2. Numbers(piece) \in Seq(Nat) /\ Len(Numbers(piece)) = count
      BY <3>1, NumbersType
    <3>3. bytes \in Seq(Nat)
      OBVIOUS
    <3> HIDE DEF TypeOK, LiveInv, ResumeInv, SinkInv, SinkFollowsLock
    <3>4. /\ bytes \o Numbers(piece) \in Seq(Nat)
          /\ Len(bytes \o Numbers(piece)) = Len(bytes) + Len(Numbers(piece))
      BY <3>2, <3>3, ConcatProperties
    <3> QED
      BY <3>2, <3>4, <2>3
  <2>6. /\ pc' \in {"deliver", "read"}
        /\ wait' \in Int /\ now' = now /\ after' = after
    <3>1. \E label \in {"deliver", "read"} : Goto(label)
      BY <1>10 DEF TakeBytes
    <3> QED
      BY <3>1, GotoTypes
  <2>7. taken' \in 0..published /\ Len(bytes') <= ReadBytes
    BY <2>1, <2>3, <2>5, SizesAssumption
  <2>8. /\ UNCHANGED <<network, received, parsed, chunk, published, input, fed, model, format,
                   reply>>
        /\ pc = "read"
    BY <1>10 DEF TakeBytes
  <2>9. TypeOK'
    BY <2>5, <2>6, <2>7, <2>8
  <2> QED
    BY <2>6, <2>8, <2>9
<1>11. ASSUME Receive PROVE LiveInv'
  <2>1. CASE Expired
    <3>1. /\ UNCHANGED <<network, buffer, audio, model, format, reply>>
          /\ Goto("unwind") /\ pc = "poll"
      BY <2>1, <1>11 DEF Receive, Throw
    <3>2. pc' = "unwind" /\ wait' \in Int /\ now' = now /\ after' = after
      BY <3>1, GotoTypes
    <3> QED
      BY <3>1, <3>2
  <2>2. CASE ~Expired
    <3>1. received' \in received..arrived
      BY <2>2, <1>11, SizesAssumption DEF Receive, Least
    <3>2. /\ pc' \in {"unwind", after}
          /\ wait' \in Int /\ now' = now /\ after' = after
      <4>1. \E label \in {"unwind", after} : Goto(label)
        BY <2>2, <1>11 DEF Receive
      <4> QED
        BY <4>1, GotoTypes
    <3> QED
      BY <3>1, <3>2, <1>11 DEF Receive
  <2> QED
    BY <2>1, <2>2
<1>12. ASSUME PollTimesOut PROVE LiveInv'
  BY <1>12, GotoTypes DEF PollTimesOut, Throw
<1>13. ASSUME ClosedTooEarly PROVE LiveInv'
  BY <1>13, GotoTypes DEF ClosedTooEarly, Throw
<1>14. ASSUME Deliver PROVE LiveInv'
  <2>1. Usable \in 0..Len(bytes)
    <3>1. Len(bytes) \in Nat /\ FrameBytes \in Nat \ {0}
      BY SizesAssumption
    <3> QED
      BY <3>1, FloorIsBelow DEF Usable
  <2>2. SubSeq(bytes, 1, Usable) \in Seq(Nat)
    BY <2>1
  <2>3. fed' \in Seq(Nat)
    BY <2>2, <1>14, ConcatProperties DEF Deliver
  <2>4. PICK emitted \in Emits, next \in {"read", "finish"} : Emit(emitted, next)
    BY <1>14 DEF Deliver, Emits
  <2>5. /\ \/ pc' \in {next, "unwind"} /\ after' = after
           \/ pc' = "delta" /\ after' = next
        /\ wait' \in Int
        /\ now' = now
    BY <2>4, EmitTypes
  <2>6. /\ UNCHANGED <<network, buffer, input, model, format, reply>>
        /\ pc = "deliver" /\ bytes' = <<>>
    BY <1>14 DEF Deliver
  <2>7. TypeOK'
    BY <2>3, <2>5, <2>6, SizesAssumption
  <2> QED
    BY <2>5, <2>6, <2>7
<1>15. ASSUME LoadFails PROVE LiveInv'
  BY <1>15 DEF LoadFails, ReleaseThen
<1>16. ASSUME StartStream PROVE LiveInv'
  BY <1>16, EmitTypes DEF StartStream
<1>17. ASSUME FinishStream PROVE LiveInv'
  BY <1>17 DEF FinishStream, ReleaseThen
<1>18. ASSUME Unwind PROVE LiveInv'
  BY <1>18 DEF Unwind, ReleaseThen
<1>19. ASSUME Release PROVE LiveInv'
  BY <1>19, GotoTypes DEF Release
<1>20. ASSUME PullEvent PROVE LiveInv'
  BY <1>20, EmitTypes DEF PullEvent, Emits
<1>21. ASSUME Acquire PROVE LiveInv'
  BY <1>21, GotoTypes DEF Acquire
<1>22. ASSUME Busy PROVE LiveInv'
  BY <1>22, GotoTypes DEF Busy
<1>23. ASSUME SendHeaders PROVE LiveInv'
  <2>1. /\ pc' \in {"lock", "fail500"} /\ after' = after
        /\ wait' \in Int
        /\ now' = now
        /\ reply' \in Seq(Messages)
        /\ UNCHANGED <<network, buffer, audio, model, format>>
    <3>1. "headers" \in Messages
      BY DEF Messages
    <3> QED
      BY <3>1, <1>23, SendTypes DEF SendHeaders
  <2> QED
    BY <2>1, <1>23 DEF SendHeaders
<1>24. ASSUME SendDelta PROVE LiveInv'
  <2>1. /\ pc' \in {after, "unwind"} /\ after' = after
        /\ wait' \in Int
        /\ now' = now
        /\ reply' \in Seq(Messages)
        /\ UNCHANGED <<network, buffer, audio, model, format>>
    <3>1. "delta" \in Messages
      BY DEF Messages
    <3> QED
      BY <3>1, <1>24, SendTypes DEF SendDelta
  <2> QED
    BY <2>1, <1>24 DEF SendDelta
<1>25. ASSUME SendDone PROVE LiveInv'
  <2>1. /\ pc' \in {"last", "report"} /\ after' = after
        /\ wait' \in Int
        /\ now' = now
        /\ reply' \in Seq(Messages)
        /\ UNCHANGED <<network, buffer, audio, model, format>>
    <3>1. "done" \in Messages
      BY DEF Messages
    <3> QED
      BY <3>1, <1>25, SendTypes DEF SendDone
  <2> QED
    BY <2>1, <1>25 DEF SendDone
<1>26. ASSUME AudioDone PROVE LiveInv'
  BY <1>26, GotoTypes DEF AudioDone
<1>27. ASSUME ResultMissing PROVE LiveInv'
  BY <1>27, GotoTypes DEF ResultMissing
<1>28. ASSUME SendError PROVE LiveInv'
  <2>1. /\ pc' \in {"last", "fail500"} /\ after' = after
        /\ wait' \in Int
        /\ now' = now
        /\ reply' \in Seq(Messages)
        /\ UNCHANGED <<network, buffer, audio, model, format>>
    <3>1. "error" \in Messages
      BY DEF Messages
    <3> QED
      BY <3>1, <1>28, SendTypes DEF SendError
  <2> QED
    BY <2>1, <1>28 DEF SendError
<1>29. ASSUME LogError PROVE LiveInv'
  BY <1>29, GotoTypes DEF LogError
<1>30. ASSUME SendLast PROVE LiveInv'
  <2>1. /\ pc' \in {"closed", "fail500"} /\ after' = after
        /\ wait' \in Int
        /\ now' = now
        /\ reply' \in Seq(Messages)
        /\ UNCHANGED <<network, buffer, audio, model, format>>
    <3>1. "last" \in Messages
      BY DEF Messages
    <3> QED
      BY <3>1, <1>30, SendTypes DEF SendLast
  <2> QED
    BY <2>1, <1>30 DEF SendLast
<1>31. ASSUME SendFail500 PROVE LiveInv'
  <2>1. /\ pc' \in {"closed", "closed"} /\ after' = after
        /\ wait' \in Int
        /\ now' = now
        /\ reply' \in Seq(Messages)
        /\ UNCHANGED <<network, buffer, audio, model, format>>
    <3>1. "http500" \in Messages
      BY DEF Messages
    <3> QED
      BY <3>1, <1>31, SendTypes DEF SendFail500
  <2> QED
    BY <2>1, <1>31 DEF SendFail500
<1>32. ASSUME UNCHANGED vars PROVE LiveInv'
  BY <1>32
<1> QED
  BY <1>1, <1>2, <1>3, <1>4, <1>5, <1>6, <1>7, <1>8, <1>9, <1>10, <1>11,
     <1>12, <1>13, <1>14, <1>15, <1>16, <1>17, <1>18, <1>19, <1>20, <1>21,
     <1>22, <1>23, <1>24, <1>25, <1>26, <1>27, <1>28, <1>29, <1>30, <1>31,
     <1>32
  DEF Next, Environment, ReadBody, Poll, Run, Reply

----------------------------------------------------------------------------
(* What is written, and when.                                              *)

Quiet == {"last", "fail500", "closed"}

OneVerdict == (Says("done") /\ ~Says("error")) \/ (Says("error") /\ ~Says("done"))

ReplyInv ==
  /\ pc \notin Quiet => ~Says("done") /\ ~Says("error")
  /\ pc = "last" /\ format = "sse" => OneVerdict
  /\ Says("last") => pc = "closed" /\ (format = "sse" => OneVerdict)

LEMMA SaysAppended ==
  ASSUME TypeOK, NEW message, reply' = Append(reply, message), NEW event
  PROVE  Says(event)' <=> Says(event) \/ message = event
<1>1. /\ DOMAIN reply = 1..Len(reply) /\ Len(reply) \in Nat
      /\ DOMAIN reply' = 1..Len(reply) + 1
      /\ reply'[Len(reply) + 1] = message
      /\ \A i \in 1..Len(reply) : reply'[i] = reply[i]
  BY AppendProperties DEF TypeOK
<1> QED
  BY <1>1 DEF Says

LEMMA SaysUnchanged ==
  ASSUME reply' = reply, NEW event
  PROVE  Says(event)' <=> Says(event)
  BY DEF Says

LEMMA SendSays ==
  ASSUME TypeOK, NEW message \in Messages \ {"torn"}, NEW next, NEW otherwise,
         Send(message, next, otherwise)
  PROVE  /\ format' = format
         /\ \/ /\ pc' = next
               /\ \A event \in Messages : Says(event)' <=> Says(event) \/ message = event
            \/ /\ pc' = otherwise
               /\ \A event \in Messages \ {"torn"} : Says(event)' <=> Says(event)
<1>1. CASE SendOk(message) /\ Goto(next)
  BY <1>1, SaysAppended DEF SendOk, Goto, Send
<1>2. CASE SendFails /\ Goto(otherwise)
  BY <1>2, SaysAppended, SaysUnchanged DEF SendFails, Goto, Send
<1> QED
  BY <1>1, <1>2 DEF Send

\* Steps of the request that write nothing leave the reply unfinished.
LEMMA SilentSteps ==
  ASSUME LiveInv, Tick \/ Environment \/ ReadBody \/ Poll \/ Run \/ PullEvent
                  \/ Acquire \/ Busy \/ ResultMissing
  PROVE  /\ reply' = reply /\ format' = format
         /\ pc' = pc \/ (pc \notin Quiet /\ pc' \notin Quiet)
<1> USE DEF LiveInv, ResumeInv
<1>1. CASE Tick \/ Environment
  BY <1>1 DEF Tick, Environment, Arrive, Shut, Lose, OtherRuns
<1>2. CASE ReadBody
  BY <1>2 DEF ReadBody, Underflow, ReadSize, ReadTrailer, ReadChunk, TakeBytes,
              NeedMore, Publish, Throw, Goto, Quiet
<1>3. CASE Poll
  BY <1>3 DEF Poll, Receive, PollTimesOut, ClosedTooEarly, Throw, Goto, Quiet
<1>4. CASE Run
  BY <1>4 DEF Run, Deliver, LoadFails, StartStream, FinishStream, Unwind, Release,
              ReleaseThen, Emit, Emits, Throw, Goto, Quiet
<1>5. CASE PullEvent \/ Acquire \/ Busy \/ ResultMissing
  BY <1>5 DEF PullEvent, Acquire, Busy, ResultMissing, Emit, Emits, Throw, Goto, Quiet
<1> QED
  BY <1>1, <1>2, <1>3, <1>4, <1>5

LEMMA ReplyKept ==
  ASSUME LiveInv, ReplyInv, [Next]_vars
  PROVE  ReplyInv'
<1> USE DEF ReplyInv, OneVerdict, Quiet
<1>1. CASE Tick \/ Environment \/ ReadBody \/ Poll \/ Run \/ PullEvent
           \/ Acquire \/ Busy \/ ResultMissing \/ UNCHANGED vars
  <2>1. /\ reply' = reply /\ format' = format
        /\ pc' = pc \/ (pc \notin Quiet /\ pc' \notin Quiet)
    BY <1>1, SilentSteps DEF vars
  <2> QED
    BY <2>1, SaysUnchanged
<1>2. CASE AudioDone \/ LogError
  <2>1. /\ reply' = reply /\ format' = format /\ format = "audio"
        /\ pc \notin Quiet /\ pc' = "last"
    BY <1>2 DEF AudioDone, LogError, Goto
  <2> QED
    BY <2>1, SaysUnchanged
<1> USE SendSays DEF LiveInv, ResumeInv, Messages
<1>3. CASE SendHeaders
  BY <1>3 DEF SendHeaders
<1>4. CASE SendDelta
  BY <1>4 DEF SendDelta
<1>5. CASE SendDone
  BY <1>5 DEF SendDone
<1>6. CASE SendError
  BY <1>6 DEF SendError
<1>7. CASE SendLast
  BY <1>7 DEF SendLast
<1>8. CASE SendFail500
  BY <1>8 DEF SendFail500
<1> QED
  BY <1>1, <1>2, <1>3, <1>4, <1>5, <1>6, <1>7, <1>8 DEF Next, Reply

\* Nothing is received and nothing made readable once the deadline is over.
LEMMA DeadlineStep ==
  ASSUME LiveInv, [Next]_vars, Expired
  PROVE  received' = received /\ published' \in {0, published}
<1> USE DEF LiveInv, TypeOK
<1>1. CASE Underflow
  BY <1>1, PublishTypes DEF Underflow
<1>2. CASE ReadChunk
  BY <1>2 DEF ReadChunk, Publish
<1>3. CASE Receive
  BY <1>3 DEF Receive
<1>4. CASE Tick \/ Environment \/ PullEvent \/ Acquire \/ Busy \/ UNCHANGED vars
  BY <1>4 DEF Tick, Environment, Arrive, Shut, Lose, OtherRuns, PullEvent, Acquire,
              Busy, vars, buffer
<1>5. CASE ReadSize \/ ReadTrailer \/ TakeBytes
  BY <1>5 DEF ReadSize, ReadTrailer, TakeBytes
<1>6. CASE PollTimesOut \/ ClosedTooEarly \/ Run \/ Reply
  BY <1>6 DEF PollTimesOut, ClosedTooEarly, Run, Reply, Deliver, LoadFails, StartStream,
              FinishStream, Unwind, Release, SendHeaders, SendDelta, SendDone, AudioDone,
              ResultMissing, SendError, LogError, SendLast, SendFail500, Send, buffer
<1> QED
  BY <1>1, <1>2, <1>3, <1>4, <1>5, <1>6 DEF Next, ReadBody, Poll

----------------------------------------------------------------------------
(* The theorems.                                                           *)

\* The cursors of socket, chunk and reader stay in order, and the sink goes with
\* the model, for any body, limits and schedule.
THEOREM LiveInvariant == Spec => []LiveInv
<1>1. Init => LiveInv
  BY InitEstablishes
<1>2. LiveInv /\ [Next]_vars => LiveInv'
  BY StepKeeps
<1> QED
  BY <1>1, <1>2, PTL DEF Spec

\* The cursors of the body stay in order, however it arrives and breaks off:
\* nothing is read that has not been received, de-framed and published.
THEOREM LiveTypes == Spec => []TypeOK
<1>1. LiveInv => TypeOK
  BY DEF LiveInv
<1> QED
  BY <1>1, LiveInvariant, PTL

\* Whatever throws, in whatever place, the session has no sink of a request
\* that does not hold its model.
THEOREM SinkNeverOutlives == Spec => []SinkFollowsLock
<1>1. LiveInv => SinkFollowsLock
  BY DEF LiveInv, SinkInv
<1> QED
  BY <1>1, LiveInvariant, PTL

\* Every SSE reply that is finished says "done" or "error", and not both.
THEOREM RepliesSayHow == Spec => []ReplySaysHow
<1>1. Init => ReplyInv
  BY DEF Init, ReplyInv, Says, Quiet
<1>2. LiveInv /\ ReplyInv /\ [Next]_vars => ReplyInv'
  BY ReplyKept
<1>3. ReplyInv => ReplySaysHow
  BY DEF ReplyInv, ReplySaysHow, OneVerdict
<1> QED
  BY <1>1, <1>2, <1>3, LiveInvariant, PTL DEF Spec

\* No byte is taken from the socket, and none made readable, after the
\* deadline, whatever was pending when it passed.
THEOREM DeadlineIsKept == Spec => DeadlineHolds
<1>1. LiveInv /\ [Next]_vars
        => [Expired => received' = received /\ published' \in {0, published}]_vars
  BY DeadlineStep
<1> QED
  BY <1>1, LiveInvariant, PTL DEF Spec, DeadlineHolds
=============================================================================
