------------------------- MODULE LiveIntake_proofs --------------------------
(***************************************************************************)
(* Proof that a live request keeps what AudioIntake promises, for every    *)
(* client that frames its audio (Framed) and every read that is a whole    *)
(* number of frames (WholeReads).  LivePcm shows the second is needed.     *)
(***************************************************************************)
EXTENDS LiveStream_proofs, FiniteSetTheorems

----------------------------------------------------------------------------
(* Counting the audio of a body.                                           *)

LEMMA CountType ==
  ASSUME NEW tokens \in Seq(Token), NEW n \in Nat
  PROVE  /\ IsFiniteSet({i \in 1..n : tokens[i].kind = "pcm"})
         /\ Captured(tokens, n) \in Nat
<1>1. IsFiniteSet(1..n)
  BY FS_Interval
<1>2. IsFiniteSet({i \in 1..n : tokens[i].kind = "pcm"})
  BY <1>1, FS_Subset
<1> QED
  BY <1>2, FS_CardinalityType DEF Captured

LEMMA DisjointUnion ==
  ASSUME NEW S, NEW T, IsFiniteSet(S), IsFiniteSet(T), S \cap T = {}
  PROVE  Cardinality(S \cup T) = Cardinality(S) + Cardinality(T)
<1>1. Cardinality(S \cap T) = 0
  BY FS_EmptySet
<1>2. Cardinality(S) \in Nat /\ Cardinality(T) \in Nat
  BY FS_CardinalityType
<1>3. Cardinality(S \cup T) = Cardinality(S) + Cardinality(T) - Cardinality(S \cap T)
  BY FS_Union
<1> QED
  BY <1>1, <1>2, <1>3

AudioBetween(tokens, m, n) == {i \in m + 1..n : tokens[i].kind = "pcm"}

\* What lies between two places of a body is counted once.
LEMMA CountSplits ==
  ASSUME NEW tokens \in Seq(Token), NEW m \in Nat, NEW n \in Nat, m <= n
  PROVE  /\ Cardinality(AudioBetween(tokens, m, n)) \in Nat
         /\ Captured(tokens, n) = Captured(tokens, m) + Cardinality(AudioBetween(tokens, m, n))
<1> DEFINE low == {i \in 1..m : tokens[i].kind = "pcm"}
           between == AudioBetween(tokens, m, n)
<1>1. IsFiniteSet(low)
  BY CountType
<1>2. IsFiniteSet(between)
  <2>1. IsFiniteSet(m + 1..n)
    BY FS_Interval
  <2> QED
    BY <2>1, FS_Subset DEF AudioBetween
<1>3. low \cap between = {}
  BY DEF AudioBetween
<1>4. {i \in 1..n : tokens[i].kind = "pcm"} = low \cup between
  BY DEF AudioBetween
<1> HIDE DEF low, between
<1>5. Cardinality(low \cup between) = Cardinality(low) + Cardinality(between)
  BY <1>1, <1>2, <1>3, DisjointUnion
<1>6. Cardinality(between) \in Nat
  BY <1>2, FS_CardinalityType
<1> QED
  BY <1>4, <1>5, <1>6 DEF Captured, low, between

LEMMA CountGrows ==
  ASSUME NEW tokens \in Seq(Token), NEW m \in Nat, NEW n \in Nat, m <= n
  PROVE  Captured(tokens, m) <= Captured(tokens, n)
<1>1. Captured(tokens, m) \in Nat
  BY CountType
<1> QED
  BY <1>1, CountSplits

LEMMA CountSame ==
  ASSUME NEW tokens \in Seq(Token), NEW m \in Nat, NEW n \in Nat, m <= n,
         \A i \in m + 1..n : tokens[i].kind # "pcm"
  PROVE  Captured(tokens, n) = Captured(tokens, m)
<1>1. AudioBetween(tokens, m, n) = {}
  BY DEF AudioBetween
<1>2. Cardinality(AudioBetween(tokens, m, n)) = 0
  BY <1>1, FS_EmptySet
<1>3. Captured(tokens, m) \in Nat
  BY CountType
<1> QED
  BY <1>2, <1>3, CountSplits

LEMMA CountAll ==
  ASSUME NEW tokens \in Seq(Token), NEW m \in Nat, NEW n \in Nat, m <= n,
         \A i \in m + 1..n : tokens[i].kind = "pcm"
  PROVE  Captured(tokens, n) = Captured(tokens, m) + (n - m)
<1>1. AudioBetween(tokens, m, n) = m + 1..n
  BY DEF AudioBetween
<1>2. Cardinality(m + 1..n) = n - m
  <2>1. m + 1 \in Int /\ n \in Int
    OBVIOUS
  <2>2. Cardinality(m + 1..n) = IF m + 1 > n THEN 0 ELSE n - (m + 1) + 1
    BY <2>1, FS_Interval
  <2> QED
    BY <2>2
<1>3. Captured(tokens, m) \in Nat
  BY CountType
<1> QED
  BY <1>1, <1>2, <1>3, CountSplits

LEMMA CountNone ==
  ASSUME NEW tokens
  PROVE  Captured(tokens, 0) = 0
<1>1. {i \in 1..0 : tokens[i].kind = "pcm"} = {}
  OBVIOUS
<1> QED
  BY <1>1, FS_EmptySet DEF Captured

----------------------------------------------------------------------------
(* Rounding down to whole frames.                                          *)

WholeFrames(n) == Intake!WholeFrames(n)
FrameCount(n) == \E k \in Nat : n = k * FrameBytes

LEMMA RoundedDown ==
  ASSUME NEW n \in Nat
  PROVE  /\ WholeFrames(n) \in 0..n
         /\ n < WholeFrames(n) + FrameBytes
         /\ FrameCount(WholeFrames(n))
<1>1. FrameBytes \in Nat \ {0}
  BY SizesAssumption
<1>2. PICK q \in Nat, r \in 0..FrameBytes - 1 :
        q = n \div FrameBytes /\ n = FrameBytes * q + r
  BY <1>1
<1>3. FrameBytes * q = q * FrameBytes /\ q * FrameBytes \in Nat
  BY <1>1
<1>4. WholeFrames(n) = q * FrameBytes
  BY <1>2 DEF WholeFrames, Intake!WholeFrames
<1> QED
  BY <1>1, <1>2, <1>3, <1>4 DEF FrameCount

\* A number of whole frames is the only one within a frame below a number.
LEMMA RoundedOnce ==
  ASSUME NEW n \in Nat, NEW m \in Nat, FrameCount(m), m <= n, n < m + FrameBytes
  PROVE  WholeFrames(n) = m
<1>1. FrameBytes \in Nat \ {0}
  BY SizesAssumption
<1>2. PICK k \in Nat : m = k * FrameBytes
  BY DEF FrameCount
<1>3. PICK q \in Nat : WholeFrames(n) = q * FrameBytes
  BY RoundedDown DEF FrameCount
<1>4. q * FrameBytes <= n /\ n < q * FrameBytes + FrameBytes
  BY <1>3, RoundedDown
<1>5. ASSUME NEW a \in Nat, NEW b \in Nat, a < b
      PROVE  a * FrameBytes + FrameBytes <= b * FrameBytes
  <2>1. PICK d \in Nat : b = a + 1 + d
    <3>1. b - a - 1 \in Nat /\ b = a + 1 + (b - a - 1)
      BY <1>5
    <3> QED
      BY <3>1
  <2>2. b * FrameBytes = a * FrameBytes + FrameBytes + d * FrameBytes
    BY <2>1, <1>1
  <2>3. d * FrameBytes \in Nat /\ a * FrameBytes \in Nat
    BY <1>1
  <2> QED
    BY <2>2, <2>3, <1>1
<1>6. q * FrameBytes \in Nat /\ k * FrameBytes \in Nat
  BY <1>1
<1>7. ~(q < k)
  BY <1>1, <1>2, <1>4, <1>5, <1>6
<1>8. ~(k < q)
  BY <1>1, <1>2, <1>4, <1>5, <1>6
<1>9. k = q
  BY <1>7, <1>8
<1> QED
  BY <1>2, <1>3, <1>9

LEMMA FramesAdd ==
  ASSUME NEW m \in Nat, NEW n \in Nat, FrameCount(m), FrameCount(n)
  PROVE  FrameCount(m + n)
<1>1. PICK k \in Nat, l \in Nat : m = k * FrameBytes /\ n = l * FrameBytes
  BY DEF FrameCount
<1>2. m + n = (k + l) * FrameBytes
  BY <1>1, SizesAssumption
<1>3. k + l \in Nat
  OBVIOUS
<1> QED
  BY <1>2, <1>3 DEF FrameCount

LEMMA FramesDivide ==
  ASSUME NEW n \in Nat
  PROVE  FrameCount(n) <=> n % FrameBytes = 0
<1>1. FrameBytes \in Nat \ {0}
  BY SizesAssumption
<1>2. PICK q \in Nat, r \in 0..FrameBytes - 1 :
        q = n \div FrameBytes /\ r = n % FrameBytes /\ n = FrameBytes * q + r
  BY <1>1
<1>3. FrameBytes * q = q * FrameBytes /\ q * FrameBytes \in Nat
  BY <1>1
<1>4. WholeFrames(n) = q * FrameBytes
  BY <1>2 DEF WholeFrames, Intake!WholeFrames
<1>5. ASSUME FrameCount(n) PROVE r = 0
  <2>1. WholeFrames(n) = n
    BY <1>1, <1>5, RoundedOnce
  <2> QED
    BY <1>2, <1>3, <1>4, <2>1
<1>6. ASSUME r = 0 PROVE FrameCount(n)
  BY <1>2, <1>3, <1>6 DEF FrameCount
<1> QED
  BY <1>2, <1>5, <1>6

----------------------------------------------------------------------------
(* The invariant: what has been given, what the present read has and what  *)
(* is left of the chunk follow each other without a gap.                   *)

\* Only a session fed by audio gets here.
Feeding ==
  \/ pc \in {"read", "line", "trailer", "chunk", "poll", "deliver"}
  \/ pc = "delta" /\ after = "read"

InputInv == Feeding => input = "AudioChunks"

\* The session still waits for audio; what a read got is not lost.
Taking ==
  \/ pc \in {"headers", "lock", "load", "read", "line", "trailer", "chunk", "poll", "deliver"}
  \/ pc = "delta" /\ after = "read"

\* A chunk is only looked for when the last one is used up.
Drained == pc \in {"line", "trailer", "chunk", "poll"}

At(label) == pc = label \/ (pc = "poll" /\ after = label)

\* The last read has been given to the session.
Finished ==
  \/ pc \in {"finish", "done"}
  \/ pc = "delta" /\ after = "finish"
  \/ pc = "release" /\ after = "done"

FedInv ==
  /\ \A i \in 1..Len(fed) : fed[i] = i
  /\ FrameCount(Len(fed))
  /\ Len(fed) <= Captured(body, Len(body))

BytesInv ==
  Taking =>
    /\ \A i \in 1..Len(bytes) : bytes[i] = Len(fed) + i
    /\ \A i \in taken + 1..Len(chunk) : chunk[i].n = Len(fed) + Len(bytes) + i - taken
    /\ Captured(body, parsed) = Len(fed) + Len(bytes) + Len(chunk) - taken

FrameInv ==
  /\ Drained => taken = Len(chunk) /\ Len(bytes) < ReadBytes
  /\ At("chunk") => Is(parsed - 1, "hex")
  /\ At("trailer") => Captured(body, Len(body)) = Captured(body, parsed)

EndInv ==
  /\ pc = "deliver" /\ Len(bytes) # ReadBytes
       => Captured(body, Len(body)) = Len(fed) + Len(bytes)
  /\ Finished /\ input = "AudioChunks" => Len(fed) = WholeFrames(Captured(body, Len(body)))

IntakeInv == FedInv /\ BytesInv /\ FrameInv /\ EndInv

\* The parts of the type invariant the steps need.
LEMMA Cursors ==
  ASSUME LiveInv
  PROVE  /\ Len(body) \in Nat
         /\ received \in 0..Len(body) /\ parsed \in 0..received
         /\ Len(chunk) \in Nat
         /\ published \in 0..Len(chunk) /\ taken \in 0..published
         /\ Len(bytes) \in 0..ReadBytes
         /\ Len(fed) \in Nat
         /\ ReadBytes \in Nat \ {0} /\ FrameBytes \in Nat \ {0}
<1>1. TypeOK
  BY DEF LiveInv
<1>2. body \in Seq(Token) /\ chunk \in Seq(Token) /\ bytes \in Seq(Nat) /\ fed \in Seq(Nat)
  BY <1>1, BodyType DEF TypeOK
<1>3. Len(body) \in Nat /\ Len(chunk) \in Nat /\ Len(bytes) \in Nat /\ Len(fed) \in Nat
  BY <1>2
<1>4. received \in 0..Len(body) /\ parsed \in 0..received
  BY <1>1, <1>3 DEF TypeOK
<1>5. Len(bytes) \in 0..ReadBytes
  BY <1>1, <1>3, SizesAssumption DEF TypeOK
<1> QED
  BY <1>1, <1>3, <1>4, <1>5, SizesAssumption DEF TypeOK

LEMMA Shape ==
  ASSUME LiveInv
  PROVE  /\ body \in Bodies /\ body \in Seq(Token)
         /\ chunk \in Seq(Token)
         /\ bytes \in Seq(Nat)
         /\ fed \in Seq(Nat)
         /\ \A n \in Nat : Captured(body, n) \in Nat
<1>1. TypeOK
  BY DEF LiveInv
<1>2. body \in Seq(Token)
  BY <1>1, BodyType
<1>3. \A n \in Nat : Captured(body, n) \in Nat
  BY <1>2, CountType
<1> QED
  BY <1>1, <1>2, <1>3 DEF TypeOK

LEMMA IntakeBegins ==
  ASSUME Init
  PROVE  IntakeInv
<1>1. body \in Seq(Token) /\ Len(body) \in Nat
  BY BodiesAssumption DEF Init
<1>2. Captured(body, Len(body)) \in Nat /\ Captured(body, 0) = 0
  BY <1>1, CountType, CountNone
<1>3. FrameCount(0)
  BY SizesAssumption DEF FrameCount
<1> QED
  BY <1>2, <1>3 DEF Init, IntakeInv, FedInv, BytesInv, FrameInv, EndInv, Drained, At, Finished

----------------------------------------------------------------------------
(* Every step keeps it.  Most leave the audio alone.                       *)

LEMMA AudioAlone ==
  ASSUME IntakeInv, UNCHANGED <<body, input, fed, bytes, parsed, chunk, taken>>,
         Taking' => Taking,
         Drained' => Drained \/ (taken = Len(chunk) /\ Len(bytes) < ReadBytes),
         At("chunk")' => At("chunk"),
         At("trailer")' => At("trailer"),
         pc' = "deliver" => pc = "deliver",
         Finished' /\ input = "AudioChunks" => Finished
  PROVE  IntakeInv'
  BY DEF IntakeInv, FedInv, BytesInv, FrameInv, EndInv, Is

LEMMA EmitGoes ==
  ASSUME NEW next, NEW emitted \in Emits, Emit(emitted, next)
  PROVE  \/ pc' \in {next, "unwind"} /\ after' = after
         \/ pc' = "delta" /\ after' = next
  BY DEF Emit, Emits, Throw, Goto

LEMMA SendGoes ==
  ASSUME NEW message, NEW next, NEW otherwise, Send(message, next, otherwise)
  PROVE  /\ pc' \in {next, otherwise} /\ after' = after
         /\ UNCHANGED <<network, buffer, audio>>
  BY DEF Send, Goto

\* The steps that neither read, take nor give audio.
LEMMA IdleKeeps ==
  ASSUME LiveInv, IntakeInv,
         Environment \/ Tick \/ Underflow \/ Poll \/ LoadFails \/ StartStream
         \/ FinishStream \/ Unwind \/ Release \/ PullEvent \/ Acquire \/ Busy
         \/ Reply \/ UNCHANGED vars
  PROVE  IntakeInv'
<1> DEFINE Same == UNCHANGED <<body, input, fed, bytes, parsed, chunk, taken>>
<1> USE DEF network, buffer, audio, Taking, Drained, At, Finished
<1>1. CASE Environment \/ Tick \/ UNCHANGED vars
  <2>1. Same /\ pc' = pc /\ after' = after
    BY <1>1 DEF Environment, Arrive, Shut, Lose, OtherRuns, Tick, vars, clock
  <2> QED
    BY <2>1, AudioAlone
<1>2. CASE Underflow
  <2>1. Same /\ pc = "read"
    BY <1>2 DEF Underflow
  <2>2. pc' \in {"unwind", "read", "line"}
        /\ (pc' = "line" => taken = Len(chunk) /\ Len(bytes) < ReadBytes)
    BY <1>2, Cursors DEF Underflow, Publish, Throw, Goto
  <2> QED
    BY <2>1, <2>2, AudioAlone
<1>3. CASE Poll
  <2>1. Same /\ pc = "poll" /\ pc' \in {"unwind", after} /\ after' = after
    BY <1>3 DEF Poll, Receive, PollTimesOut, ClosedTooEarly, Throw, Goto
  <2>2. after \in {"line", "trailer", "chunk"}
    BY <2>1 DEF LiveInv, ResumeInv
  <2> QED
    BY <2>1, <2>2, AudioAlone
<1>4. CASE LoadFails \/ Acquire \/ Busy
  <2>1. Same /\ pc \in {"load", "lock"}
    BY <1>4 DEF LoadFails, Acquire, Busy
  <2>2. \/ pc' \in {"load", "report"}
        \/ pc' = "release" /\ after' = "report"
    BY <1>4 DEF LoadFails, Acquire, Busy, ReleaseThen, Goto
  <2> QED
    BY <2>1, <2>2, AudioAlone
<1>5. CASE StartStream
  <2>1. Same /\ pc = "load"
    BY <1>5 DEF StartStream
  <2>2. \/ pc' \in {"read", "unwind"} \/ (pc' = "delta" /\ after' = "read")
        \/ input # "AudioChunks" /\ pc' \in {"finish", "delta"}
           /\ (pc' = "delta" => after' = "finish")
    BY <1>5, EmitGoes DEF StartStream
  <2> QED
    BY <2>1, <2>2, AudioAlone
<1>6. CASE PullEvent
  <2>1. Same /\ pc = "finish"
    BY <1>6 DEF PullEvent
  <2>2. pc' \in {"finish", "unwind"} \/ (pc' = "delta" /\ after' = "finish")
    BY <1>6, EmitGoes DEF PullEvent, Emits
  <2> QED
    BY <2>1, <2>2, AudioAlone
<1>7. CASE FinishStream \/ Unwind
  <2>1. Same /\ pc \in {"finish", "unwind"} /\ pc' = "release"
        /\ (after' = "report" \/ (after' = "done" /\ pc = "finish"))
    BY <1>7 DEF FinishStream, Unwind, ReleaseThen
  <2> QED
    BY <2>1, AudioAlone
<1>8. CASE Release
  <2>1. Same /\ pc = "release" /\ pc' = after /\ after \in {"report", "done"}
    BY <1>8 DEF Release, Goto, LiveInv, ResumeInv
  <2> QED
    BY <2>1, AudioAlone
<1>9. CASE SendHeaders
  <2>1. Same /\ pc = "headers" /\ pc' \in {"lock", "fail500"}
    BY <1>9, SendGoes DEF SendHeaders
  <2> QED
    BY <2>1, AudioAlone
<1>10. CASE SendDelta
  <2>1. Same /\ pc = "delta" /\ pc' \in {after, "unwind"} /\ after' = after
        /\ after \in {"read", "finish"}
    BY <1>10, SendGoes DEF SendDelta, LiveInv, ResumeInv
  <2> QED
    BY <2>1, AudioAlone
<1>11. CASE SendDone \/ AudioDone \/ ResultMissing \/ SendError \/ LogError
            \/ SendLast \/ SendFail500
  <2>1. Same /\ pc' \in {"last", "report", "fail500", "closed"}
    BY <1>11, SendGoes DEF SendDone, AudioDone, ResultMissing, SendError, LogError,
                           SendLast, SendFail500, Goto
  <2> QED
    BY <2>1, AudioAlone
<1> QED
  BY <1>1, <1>2, <1>3, <1>4, <1>5, <1>6, <1>7, <1>8, <1>9, <1>10, <1>11 DEF Reply

\* The reader found that it needs more bytes, or that something is wrong.
LEMMA NeedMoreKeeps ==
  ASSUME IntakeInv, NEW back \in {"line", "trailer", "chunk"}, pc = back, NeedMore(back),
         UNCHANGED <<body, input, fed, bytes, parsed, chunk, taken>>
  PROVE  IntakeInv'
<1>1. pc' = "unwind" \/ (pc' = "poll" /\ after' = back)
  BY DEF NeedMore, Throw, Goto
<1> QED
  BY <1>1, AudioAlone DEF Taking, Drained, At, Finished

\* A size line holds no audio; the one of 0 bytes comes after all of it.
LEMMA ReadSizeKeeps ==
  ASSUME LiveInv, IntakeInv, Framed, ReadSize
  PROVE  IntakeInv'
<1> USE DEF network, buffer, audio
<1>0. body \in Seq(Token) /\ body \in Bodies
  BY Shape
<1> USE Cursors
<1>1. CASE LineEnds = {}
  BY <1>1, NeedMoreKeeps DEF ReadSize
<1>2. CASE LineEnds # {}
  <2>1. PICK end \in LineEnds :
          /\ parsed' = end
          /\ \/ pc' = "unwind"
             \/ IsSize(parsed + 1, end) /\ body[parsed + 1].n = 0 /\ pc' = "trailer"
             \/ IsSize(parsed + 1, end) /\ pc' = "chunk"
    BY <1>2 DEF ReadSize, Goto
  <2>2. /\ pc = "line"
        /\ UNCHANGED <<body, fed, bytes, chunk, taken>>
    BY <1>2 DEF ReadSize
  <2>3. end \in parsed + 1..received /\ body[end].kind = "eol"
    BY DEF LineEnds, Is
  <2>4. CASE pc' = "unwind"
    BY <2>2, <2>4 DEF IntakeInv, FedInv, BytesInv, FrameInv, EndInv,
                      Taking, Drained, At, Finished
  <2>5. CASE IsSize(parsed + 1, end) /\ pc' \in {"trailer", "chunk"}
    <3>1. /\ end = parsed + 2 /\ body[parsed + 1].kind = "hex"
          /\ parsed + 1 \in 1..Len(body) /\ parsed + 2 \in 1..Len(body)
      BY <2>3, <2>5 DEF IsSize, Is
    <3> parsed \in Nat /\ end \in Nat /\ parsed <= end /\ end <= Len(body) /\ Len(body) \in Nat
      BY <2>3
    <3> HIDE Cursors
    <3>2. Captured(body, end) = Captured(body, parsed)
      <4>1. \A i \in parsed + 1..end : body[i].kind # "pcm"
        BY <2>3, <3>1
      <4> QED
        BY <1>0, <4>1, CountSame
    <3>3. pc' = "trailer" => Captured(body, Len(body)) = Captured(body, end)
      <4> SUFFICES ASSUME pc' = "trailer"
                   PROVE  Captured(body, Len(body)) = Captured(body, end)
        OBVIOUS
      <4>1. body[parsed + 1].n = 0
        BY <2>1
      <4>2. \A j \in (parsed + 1) + 1..Len(body) : body[j].kind # "pcm"
        <5>1. parsed + 1 \in DOMAIN body
          BY <1>0, <3>1
        <5> QED
          BY <1>0, <5>1, <4>1, <3>1 DEF Framed
      <4>3. \A j \in end + 1..Len(body) : body[j].kind # "pcm"
        BY <4>2, <3>1
      <4> QED
        BY <1>0, <4>3, CountSame
    <3>4. body'[parsed' - 1].kind = "hex"
      <4>1. parsed' - 1 = parsed + 1
        BY <2>1, <3>1
      <4> QED
        BY <2>2, <3>1, <4>1
    <3> QED
      BY <2>1, <2>2, <2>5, <3>2, <3>3, <3>4, Cursors
      DEF IntakeInv, FedInv, BytesInv, FrameInv, EndInv, Taking, Drained, At, Finished, Is
  <2> QED
    BY <2>1, <2>4, <2>5
<1> QED
  BY <1>1, <1>2

\* The trailer holds no audio either, so at its end all audio has been read.
LEMMA ReadTrailerKeeps ==
  ASSUME LiveInv, IntakeInv, ReadTrailer
  PROVE  IntakeInv'
<1> USE DEF network, buffer, audio
<1>0. body \in Seq(Token) /\ body \in Bodies
  BY Shape
<1> USE Cursors
<1>1. CASE LineEnds = {}
  BY <1>1, NeedMoreKeeps DEF ReadTrailer
<1>2. CASE LineEnds # {}
  <2>1. PICK end \in LineEnds : parsed' = end /\ pc' \in {"deliver", "trailer"}
    BY <1>2 DEF ReadTrailer, Goto
  <2>2. /\ pc = "trailer"
        /\ UNCHANGED <<body, fed, bytes, chunk, taken>>
    BY <1>2 DEF ReadTrailer
  <2>3. end \in parsed + 1..received
    BY DEF LineEnds
  <2>4. Captured(body, Len(body)) = Captured(body, parsed)
    BY <2>2 DEF IntakeInv, FrameInv, At
  <2>5. Captured(body, end) = Captured(body, parsed)
    <3> parsed \in Nat /\ end \in Nat /\ parsed <= end /\ end <= Len(body) /\ Len(body) \in Nat
      BY <2>3
    <3>0. Captured(body, parsed) \in Nat /\ Captured(body, end) \in Nat
      BY <1>0, CountType
    <3> HIDE Cursors
    <3>1. Captured(body, parsed) <= Captured(body, end)
      BY <1>0, CountGrows
    <3>2. Captured(body, end) <= Captured(body, Len(body))
      BY <1>0, CountGrows
    <3> QED
      BY <2>4, <3>0, <3>1, <3>2
  <2>6. taken = Len(chunk)
    BY <2>2 DEF IntakeInv, FrameInv, Drained
  <2> QED
    BY <2>1, <2>2, <2>4, <2>5, <2>6
    DEF IntakeInv, FedInv, BytesInv, FrameInv, EndInv, Taking, Drained, At, Finished
<1> QED
  BY <1>1, <1>2

LEMMA PieceOf ==
  ASSUME NEW s \in Seq(Token), NEW m \in Nat, NEW k \in Nat, m + k <= Len(s)
  PROVE  LET piece == SubSeq(s, m + 1, m + k) IN
           /\ piece \in Seq(Token) /\ Len(piece) = k
           /\ \A i \in 1..k : piece[i] = s[m + i]
<1>1. Len(s) \in Nat
  OBVIOUS
<1>2. \A i \in m + 1..m + k : s[i] \in Token
  BY <1>1
<1>3. SubSeq(s, m + 1, m + k) = [i \in 1..k |-> s[m + i]]
  <2>1. (m + k) - (m + 1) + 1 = k
    OBVIOUS
  <2>2. SubSeq(s, m + 1, m + k) = [i \in 1..(m + k) - (m + 1) + 1 |-> s[i + (m + 1) - 1]]
    BY <1>1
  <2>3. \A i \in 1..k : i + (m + 1) - 1 = m + i
    OBVIOUS
  <2> QED
    BY <2>1, <2>2, <2>3
<1>4. \A i \in 1..k : s[m + i] \in Token
  BY <1>2
<1> QED
  BY <1>3, <1>4, IsASeq

\* A chunk that is served holds the audio that follows what has been read.
LEMMA ServedChunk ==
  ASSUME LiveInv, IntakeInv, Framed, pc = "chunk", received - parsed >= ChunkSize + 1
  PROVE  /\ ChunkSize \in Nat
         /\ parsed + ChunkSize \in parsed..Len(body)
         /\ \A i \in 1..ChunkSize : /\ body[parsed + i].kind = "pcm"
                                    /\ body[parsed + i].n = Captured(body, parsed) + i
         /\ Captured(body, parsed + ChunkSize) = Captured(body, parsed) + ChunkSize
<1>1. body \in Seq(Token) /\ body \in Bodies
  BY Shape
<1>2. parsed - 1 \in DOMAIN body /\ parsed \in Nat /\ Len(body) \in Nat
      /\ received \in Nat /\ received <= Len(body)
  <2>1. parsed >= 2
    BY DEF LiveInv, ResumeInv
  <2> QED
    BY <1>1, <2>1, Cursors
<1>3. body[parsed - 1].kind = "hex"
  BY DEF IntakeInv, FrameInv, At, Is
<1>4. ChunkSize \in Nat
  <2>1. body[parsed - 1] \in Token
    BY <1>1, <1>2
  <2> QED
    BY <2>1 DEF ChunkSize, Token
<1>5. parsed + ChunkSize \in parsed..Len(body)
  BY <1>2, <1>4
<1>6. ASSUME NEW j \in parsed + 1..parsed + ChunkSize
      PROVE  j \in DOMAIN body /\ body[j].kind = "pcm"
  <2>1. j \in DOMAIN body
    BY <1>1, <1>2, <1>4, <1>5
  <2>2. j \in ((parsed - 1) + 2)..((parsed - 1) + 1 + ChunkSize)
    BY <1>2, <1>4
  <2> QED
    BY <1>1, <1>2, <1>3, <2>1, <2>2 DEF Framed, ChunkSize
<1>7. ASSUME NEW i \in 0..ChunkSize
      PROVE  Captured(body, parsed + i) = Captured(body, parsed) + i
  <2>1. parsed + i \in Nat /\ parsed <= parsed + i /\ (parsed + i) - parsed = i
    BY <1>2, <1>4
  <2>2. \A j \in parsed + 1..parsed + i : body[j].kind = "pcm"
    BY <1>2, <1>4, <1>6
  <2> QED
    BY <1>1, <1>2, <2>1, <2>2, CountAll
<1>8. ASSUME NEW i \in 1..ChunkSize
      PROVE  /\ body[parsed + i].kind = "pcm"
             /\ body[parsed + i].n = Captured(body, parsed) + i
  <2>1. parsed + i \in parsed + 1..parsed + ChunkSize /\ i \in 0..ChunkSize
    BY <1>2, <1>4
  <2>2. parsed + i \in DOMAIN body /\ body[parsed + i].kind = "pcm"
    BY <1>6, <2>1
  <2>3. body[parsed + i].n = Captured(body, parsed + i)
    BY <1>1, <2>2, BodiesAssumption
  <2> QED
    BY <1>7, <2>1, <2>2, <2>3
<1> QED
  BY <1>4, <1>5, <1>7, <1>8

LEMMA ReadChunkKeeps ==
  ASSUME LiveInv, IntakeInv, Framed, ReadChunk
  PROVE  IntakeInv'
<1> USE DEF network, buffer, audio
<1>1. CASE received - parsed < ChunkSize + 1
  BY <1>1, NeedMoreKeeps DEF ReadChunk
<1>2. CASE ~(received - parsed < ChunkSize + 1) /\ ~Is(parsed + ChunkSize + 1, "eol")
  <2>1. pc' = "unwind" /\ UNCHANGED <<body, input, fed, bytes, parsed, chunk, taken>>
    BY <1>2 DEF ReadChunk, Throw, Goto
  <2> QED
    BY <2>1, AudioAlone DEF Taking, Drained, At, Finished
<1>3. CASE ~(received - parsed < ChunkSize + 1) /\ Is(parsed + ChunkSize + 1, "eol")
  <2>1. /\ pc = "chunk"
        /\ chunk' = SubSeq(body, parsed + 1, parsed + ChunkSize)
        /\ parsed' = parsed + ChunkSize + 1
        /\ taken' = 0
        /\ pc' \in {"read", "unwind"}
        /\ UNCHANGED <<body, fed, bytes>>
    BY <1>3 DEF ReadChunk, Publish, Throw, Goto
  <2>2. parsed \in Nat /\ received \in Nat /\ Len(body) \in Nat /\ received <= Len(body)
    BY Cursors
  <2>3. ChunkSize \in Nat
    <3>1. parsed >= 2
      BY <2>1 DEF LiveInv, ResumeInv
    <3>2. parsed - 1 \in 1..Len(body)
      BY <3>1, Cursors
    <3>3. body[parsed - 1] \in Token
      BY <3>2, Shape
    <3> QED
      BY <3>3 DEF ChunkSize, Token
  <2>4. received - parsed >= ChunkSize + 1
    BY <1>3, <2>2, <2>3
  <2>5. /\ parsed + ChunkSize \in parsed..Len(body)
        /\ \A i \in 1..ChunkSize : /\ body[parsed + i].kind = "pcm"
                                   /\ body[parsed + i].n = Captured(body, parsed) + i
        /\ Captured(body, parsed + ChunkSize) = Captured(body, parsed) + ChunkSize
    BY <2>1, <2>4, ServedChunk
  <2>6. /\ Len(chunk') = ChunkSize
        /\ \A i \in 1..ChunkSize : chunk'[i] = body[parsed + i]
    <3>1. body \in Seq(Token)
      BY Shape
    <3>2. parsed + ChunkSize <= Len(body)
      BY <2>2, <2>3, <2>5
    <3> HIDE DEF network, buffer, audio
    <3>3. LET piece == SubSeq(body, parsed + 1, parsed + ChunkSize) IN
            /\ Len(piece) = ChunkSize
            /\ \A i \in 1..ChunkSize : piece[i] = body[parsed + i]
      BY <2>2, <2>3, <3>1, <3>2, PieceOf
    <3> QED
      BY <2>1, <3>3
  <2>7. Captured(body, parsed') = Captured(body, parsed) + ChunkSize
    <3>1. /\ parsed + ChunkSize \in Nat /\ parsed' \in Nat
          /\ parsed' = (parsed + ChunkSize) + 1
      BY <2>1, <2>2, <2>3
    <3>2. \A i \in (parsed + ChunkSize) + 1..parsed' : body[i].kind # "pcm"
      BY <1>3, <3>1 DEF Is
    <3>3. Captured(body, parsed') = Captured(body, parsed + ChunkSize)
      <4>1. body \in Seq(Token)
        BY Shape
      <4>2. parsed + ChunkSize <= parsed'
        BY <3>1
      <4> QED
        BY <3>1, <3>2, <4>1, <4>2, CountSame
    <3> QED
      BY <2>5, <3>3
  <2>8. /\ taken = Len(chunk)
        /\ \A i \in 1..Len(bytes) : bytes[i] = Len(fed) + i
        /\ Captured(body, parsed) = Len(fed) + Len(bytes) + Len(chunk) - taken
    BY <2>1 DEF IntakeInv, BytesInv, FrameInv, Taking, Drained
  <2>9. Captured(body, parsed) = Len(fed) + Len(bytes)
    BY <2>8, Cursors
  <2>10. BytesInv'
    <3>1. Len(fed) \in Nat /\ Len(bytes) \in Nat
      BY Cursors
    <3>2. \A i \in taken' + 1..Len(chunk') :
            chunk'[i].n = Len(fed) + Len(bytes) + i - taken'
      <4>1. taken' = 0
        BY <2>1
      <4>2. \A i \in 1..ChunkSize : chunk'[i].n = Len(fed) + Len(bytes) + i
        BY <2>5, <2>6, <2>9
      <4> QED
        BY <2>3, <2>6, <3>1, <4>1, <4>2
    <3>3. Captured(body, parsed') = Len(fed) + Len(bytes) + Len(chunk') - taken'
      <4>1. taken' = 0 /\ Len(chunk') = ChunkSize
        BY <2>1, <2>6
      <4> QED
        BY <2>3, <2>7, <2>9, <3>1, <4>1
    <3> QED
      BY <2>1, <2>8, <3>2, <3>3 DEF BytesInv
  <2> QED
    BY <2>1, <2>10 DEF IntakeInv, FedInv, FrameInv, EndInv, Drained, At, Finished
<1> QED
  BY <1>1, <1>2, <1>3

\* A read takes the audio that is next.
LEMMA TakeBytesKeeps ==
  ASSUME LiveInv, IntakeInv, TakeBytes
  PROVE  IntakeInv'
<1> DEFINE count == Least(published - taken, ReadBytes - Len(bytes))
           piece == SubSeq(chunk, taken + 1, taken + count)
<1>1. /\ pc = "read"
      /\ bytes' = bytes \o Numbers(piece)
      /\ taken' = taken + count
      /\ pc' = (IF Len(bytes') = ReadBytes THEN "deliver" ELSE "read")
      /\ count > 0
      /\ UNCHANGED <<body, fed, parsed, chunk>>
  BY DEF TakeBytes, Goto, network
<1>2. count \in Nat /\ taken \in Nat /\ taken + count <= Len(chunk) /\ Len(chunk) \in Nat
  <2>1. /\ published \in Nat /\ taken \in Nat /\ Len(chunk) \in Nat /\ published <= Len(chunk)
        /\ ReadBytes \in Nat /\ Len(bytes) \in Nat
    BY Cursors
  <2>2. count = published - taken \/ (count = ReadBytes - Len(bytes) /\ count < published - taken)
    BY <2>1 DEF Least
  <2> QED
    BY <1>1, <2>1, <2>2
<1> HIDE DEF count
<1>3. piece \in Seq(Token) /\ Len(piece) = count
      /\ \A i \in 1..count : piece[i] = chunk[taken + i]
  BY <1>2, Shape, PieceOf
<1> HIDE DEF piece
<1>4. /\ Numbers(piece) \in Seq(Nat) /\ Len(Numbers(piece)) = count
      /\ \A i \in 1..count : Numbers(piece)[i] = chunk[taken + i].n
  <2>1. Numbers(piece) \in Seq(Nat) /\ Len(Numbers(piece)) = count
    BY <1>3, NumbersType
  <2>2. DOMAIN piece = 1..count
    BY <1>3
  <2> QED
    BY <1>3, <2>1, <2>2 DEF Numbers
<1>5. /\ Len(bytes') = Len(bytes) + count
      /\ \A i \in 1..Len(bytes) : bytes'[i] = bytes[i]
      /\ \A i \in 1..count : bytes'[Len(bytes) + i] = chunk[taken + i].n
  <2>1. bytes \in Seq(Nat)
    BY Shape
  <2>2. /\ Len(bytes \o Numbers(piece)) = Len(bytes) + count
        /\ \A i \in 1..Len(bytes) + count :
             (bytes \o Numbers(piece))[i] =
               IF i <= Len(bytes) THEN bytes[i] ELSE Numbers(piece)[i - Len(bytes)]
    BY <1>4, <2>1, ConcatProperties
  <2>3. Len(bytes) \in Nat
    BY <2>1
  <2>4. ASSUME NEW i \in 1..count PROVE bytes'[Len(bytes) + i] = chunk[taken + i].n
    <3>1. Len(bytes) + i \in 1..Len(bytes) + count /\ ~(Len(bytes) + i <= Len(bytes))
          /\ (Len(bytes) + i) - Len(bytes) = i
      BY <1>2, <2>3
    <3> QED
      BY <1>1, <1>4, <2>2, <3>1
  <2>5. ASSUME NEW i \in 1..Len(bytes) PROVE bytes'[i] = bytes[i]
    <3>1. i \in 1..Len(bytes) + count /\ i <= Len(bytes)
      BY <1>2, <2>3
    <3> QED
      BY <1>1, <2>2, <3>1
  <2> QED
    BY <1>1, <2>2, <2>4, <2>5
<1>6. /\ \A i \in 1..Len(bytes) : bytes[i] = Len(fed) + i
      /\ \A i \in taken + 1..Len(chunk) : chunk[i].n = Len(fed) + Len(bytes) + i - taken
      /\ Captured(body, parsed) = Len(fed) + Len(bytes) + Len(chunk) - taken
  BY <1>1 DEF IntakeInv, BytesInv, Taking
<1>7. Len(fed) \in Nat /\ Len(bytes) \in Nat
  BY Cursors
<1>8. \A i \in 1..Len(bytes') : bytes'[i] = Len(fed) + i
  <2> SUFFICES ASSUME NEW i \in 1..Len(bytes') PROVE bytes'[i] = Len(fed) + i
    OBVIOUS
  <2>1. CASE i <= Len(bytes)
    BY <2>1, <1>5, <1>6, <1>7
  <2>2. CASE i > Len(bytes)
    <3>1. i - Len(bytes) \in 1..count /\ i = Len(bytes) + (i - Len(bytes))
      BY <2>2, <1>2, <1>5, <1>7
    <3>2. bytes'[i] = chunk[taken + (i - Len(bytes))].n
      BY <3>1, <1>5
    <3>3. taken + (i - Len(bytes)) \in taken + 1..Len(chunk)
      BY <3>1, <1>2
    <3>4. chunk[taken + (i - Len(bytes))].n
            = Len(fed) + Len(bytes) + (taken + (i - Len(bytes))) - taken
      BY <3>3, <1>6
    <3> QED
      BY <3>1, <3>2, <3>4, <1>2, <1>7
  <2> QED
    BY <2>1, <2>2, <1>5, <1>7, <1>2
<1>9. \A i \in taken' + 1..Len(chunk) : chunk[i].n = Len(fed) + Len(bytes') + i - taken'
  <2> SUFFICES ASSUME NEW i \in taken' + 1..Len(chunk)
               PROVE  chunk[i].n = Len(fed) + Len(bytes') + i - taken'
    OBVIOUS
  <2>1. i \in taken + 1..Len(chunk)
    BY <1>1, <1>2
  <2>2. chunk[i].n = Len(fed) + Len(bytes) + i - taken
    BY <2>1, <1>6
  <2> QED
    BY <2>2, <1>1, <1>2, <1>5, <1>7
<1>10. Captured(body, parsed) = Len(fed) + Len(bytes') + Len(chunk) - taken'
  BY <1>1, <1>2, <1>5, <1>6, <1>7
<1> QED
  BY <1>1, <1>8, <1>9, <1>10
  DEF IntakeInv, FedInv, BytesInv, FrameInv, EndInv, Drained, At, Finished

\* What is given is next in order; the rest of the last read alone is dropped.
LEMMA DeliverKeeps ==
  ASSUME LiveInv, IntakeInv, WholeReads, Deliver
  PROVE  /\ IntakeInv'
         /\ Len(fed) <= Len(fed')
<1>1. /\ pc = "deliver"
      /\ fed' = fed \o SubSeq(bytes, 1, Usable)
      /\ bytes' = <<>>
      /\ UNCHANGED <<body, parsed, chunk, taken>>
  BY DEF Deliver, network, buffer
<1>2. \/ pc' \in {IF Len(bytes) = ReadBytes THEN "read" ELSE "finish", "unwind"}
      \/ pc' = "delta" /\ after' = IF Len(bytes) = ReadBytes THEN "read" ELSE "finish"
  <2>1. PICK emitted \in Emits :
          Emit(emitted, IF Len(bytes) = ReadBytes THEN "read" ELSE "finish")
    BY DEF Deliver, Emits
  <2> QED
    BY <2>1, EmitGoes
<1>3. Len(fed) \in Nat /\ Len(bytes) \in Nat /\ FrameBytes \in Nat \ {0} /\ ReadBytes \in Nat
  BY Cursors
<1>4. /\ Usable \in 0..Len(bytes)
      /\ Len(bytes) < Usable + FrameBytes
      /\ FrameCount(Usable)
      /\ Usable = WholeFrames(Len(bytes))
  <2>1. Usable = WholeFrames(Len(bytes))
    BY DEF Usable, WholeFrames, Intake!WholeFrames
  <2> QED
    BY <1>3, <2>1, RoundedDown
<1>5. /\ \A i \in 1..Len(fed) : fed[i] = i
      /\ FrameCount(Len(fed))
      /\ \A i \in 1..Len(bytes) : bytes[i] = Len(fed) + i
      /\ \A i \in taken + 1..Len(chunk) : chunk[i].n = Len(fed) + Len(bytes) + i - taken
      /\ Captured(body, parsed) = Len(fed) + Len(bytes) + Len(chunk) - taken
      /\ Len(bytes) # ReadBytes => Captured(body, Len(body)) = Len(fed) + Len(bytes)
  BY <1>1 DEF IntakeInv, FedInv, BytesInv, EndInv, Taking
<1>6. Len(fed) + Len(bytes) <= Captured(body, Len(body))
  <2>1. body \in Seq(Token) /\ parsed \in Nat /\ Len(body) \in Nat /\ parsed <= Len(body)
    BY Cursors, Shape
  <2>2. Captured(body, parsed) <= Captured(body, Len(body))
    BY <2>1, CountGrows
  <2>3. Captured(body, Len(body)) \in Nat
    BY <2>1, CountType
  <2>4. taken \in Nat /\ Len(chunk) \in Nat /\ taken <= Len(chunk)
    BY Cursors
  <2> QED
    BY <1>3, <1>5, <2>2, <2>3, <2>4
<1>7. Len(fed') = Len(fed) + Usable /\ \A i \in 1..Len(fed') : fed'[i] = i
  <2> DEFINE piece == SubSeq(bytes, 1, Usable)
  <2>1. fed \in Seq(Nat) /\ bytes \in Seq(Nat)
    BY Shape
  <2>2. /\ piece \in Seq(Nat) /\ Len(piece) = Usable
        /\ \A i \in 1..Usable : piece[i] = bytes[i]
    BY <1>3, <1>4, <2>1
  <2> HIDE DEF piece
  <2>3. /\ Len(fed \o piece) = Len(fed) + Usable
        /\ \A i \in 1..Len(fed) + Usable :
             (fed \o piece)[i] = IF i <= Len(fed) THEN fed[i] ELSE piece[i - Len(fed)]
    BY <2>1, <2>2, ConcatProperties
  <2>4. fed' = fed \o piece
    BY <1>1 DEF piece
  <2>5. ASSUME NEW i \in 1..Len(fed) + Usable PROVE fed'[i] = i
    <3>1. CASE i <= Len(fed)
      BY <3>1, <1>3, <1>4, <1>5, <2>3, <2>4
    <3>2. CASE ~(i <= Len(fed))
      <4>1. i - Len(fed) \in 1..Usable /\ i - Len(fed) \in 1..Len(bytes)
        BY <3>2, <1>3, <1>4
      <4>2. bytes[i - Len(fed)] = Len(fed) + (i - Len(fed))
        BY <4>1, <1>5
      <4> QED
        BY <3>2, <4>1, <4>2, <1>3, <2>2, <2>3, <2>4
    <3> QED
      BY <3>1, <3>2
  <2> QED
    BY <2>3, <2>4, <2>5
<1>8. FedInv'
  <2>1. FrameCount(Len(fed'))
    BY <1>3, <1>4, <1>5, <1>7, FramesAdd
  <2>2. Len(fed') <= Captured(body', Len(body'))
    <3>1. Captured(body, Len(body)) \in Nat
      BY Cursors, Shape
    <3> QED
      BY <1>1, <1>3, <1>4, <1>6, <1>7, <3>1
  <2> QED
    BY <1>7, <2>1, <2>2 DEF FedInv, FrameCount
<1>9. CASE Len(bytes) = ReadBytes
  <2>1. Usable = Len(bytes)
    <3>1. FrameCount(Len(bytes))
      BY <1>3, <1>9, FramesDivide DEF WholeReads
    <3> QED
      BY <1>3, <1>4, <3>1, RoundedOnce
  <2>2. Len(fed') = Len(fed) + Len(bytes) /\ Len(bytes') = 0
    BY <1>1, <1>7, <2>1
  <2>3. BytesInv'
    <3>1. \A i \in taken + 1..Len(chunk) : chunk[i].n = Len(fed') + Len(bytes') + i - taken
      BY <1>3, <1>5, <2>2
    <3>2. Captured(body, parsed) = Len(fed') + Len(bytes') + Len(chunk) - taken
      BY <1>3, <1>5, <2>2
    <3> QED
      <4>1. 1..Len(bytes') = {}
        BY <2>2
      <4>2. UNCHANGED <<body, parsed, chunk, taken>>
        BY <1>1
      <4> QED
        BY <3>1, <3>2, <4>1, <4>2 DEF BytesInv
  <2>4. FrameInv' /\ EndInv'
    BY <1>2, <1>9 DEF FrameInv, EndInv, Drained, At, Finished
  <2> QED
    BY <1>3, <1>4, <1>7, <1>8, <2>3, <2>4 DEF IntakeInv
<1>10. CASE Len(bytes) # ReadBytes
  <2>1. Captured(body, Len(body)) = Len(fed) + Len(bytes)
    BY <1>5, <1>10
  <2>2. WholeFrames(Len(fed) + Len(bytes)) = Len(fed) + Usable
    <3>1. FrameCount(Len(fed) + Usable)
      BY <1>3, <1>4, <1>5, FramesAdd
    <3>2. /\ Len(fed) + Usable \in Nat /\ Len(fed) + Len(bytes) \in Nat
          /\ Len(fed) + Usable <= Len(fed) + Len(bytes)
          /\ Len(fed) + Len(bytes) < (Len(fed) + Usable) + FrameBytes
      BY <1>3, <1>4
    <3> QED
      BY <3>1, <3>2, RoundedOnce
  <2>3. BytesInv' /\ FrameInv'
    BY <1>2, <1>10 DEF BytesInv, FrameInv, Taking, Drained, At
  <2>4. EndInv'
    <3>1. pc' # "deliver"
      BY <1>2, <1>10
    <3>2. Len(fed') = WholeFrames(Captured(body', Len(body')))
      BY <1>1, <1>7, <2>1, <2>2
    <3> QED
      BY <3>1, <3>2 DEF EndInv, WholeFrames, Intake!WholeFrames
  <2> QED
    BY <1>3, <1>4, <1>7, <1>8, <2>3, <2>4 DEF IntakeInv
<1> QED
  BY <1>9, <1>10

\* The body is read for a session that asked for it.
LEMMA InputKept ==
  ASSUME LiveInv, InputInv, [Next]_vars
  PROVE  InputInv'
<1> USE DEF InputInv, Feeding
\* A step after which the thread still reads, or one of another thread.
<1>s. ASSUME input' = input, Feeding' => Feeding PROVE InputInv'
  BY <1>s
<1>1. CASE Environment \/ Tick \/ UNCHANGED vars
  <2>1. input' = input /\ pc' = pc /\ after' = after
    BY <1>1 DEF Environment, Arrive, Shut, Lose, OtherRuns, Tick, vars, clock, audio
  <2> QED
    BY <1>s, <2>1
<1>2. CASE ReadBody
  <2>1. input' = input /\ pc \in {"read", "line", "trailer", "chunk"}
    BY <1>2 DEF ReadBody, Underflow, ReadSize, ReadTrailer, ReadChunk, TakeBytes, audio
  <2> QED
    BY <1>s, <2>1
<1>3. CASE Poll \/ Deliver
  <2>1. input' = input /\ pc \in {"poll", "deliver"}
    BY <1>3 DEF Poll, Receive, PollTimesOut, ClosedTooEarly, Deliver, audio
  <2> QED
    BY <1>s, <2>1
<1>4. CASE StartStream
  <2>1. input' = input
    BY <1>4 DEF StartStream, audio
  <2>2. \/ input = "AudioChunks"
        \/ pc' \in {"finish", "unwind"}
        \/ pc' = "delta" /\ after' = "finish"
    BY <1>4, EmitGoes DEF StartStream
  <2> QED
    BY <2>1, <2>2
<1>5. CASE PullEvent
  <2>1. input' = input
    BY <1>5 DEF PullEvent, audio
  <2>2. pc' \in {"finish", "unwind"} \/ (pc' = "delta" /\ after' = "finish")
    BY <1>5, EmitGoes DEF PullEvent, Emits
  <2> QED
    BY <1>s, <2>1, <2>2
<1>6. CASE LoadFails \/ Acquire \/ Busy \/ FinishStream \/ Unwind
  <2>1. input' = input /\ pc' \in {"load", "report", "release"}
    BY <1>6 DEF LoadFails, Acquire, Busy, FinishStream, Unwind, ReleaseThen, Goto, audio
  <2> QED
    BY <1>s, <2>1
<1>7. CASE Release
  <2>1. input' = input /\ pc' \in {"report", "done"}
    BY <1>7 DEF Release, Goto, LiveInv, ResumeInv, audio
  <2> QED
    BY <1>s, <2>1
<1>8. CASE SendDelta
  <2>1. input' = input /\ pc = "delta" /\ pc' \in {after, "unwind"} /\ after' = after
        /\ after \in {"read", "finish"}
    BY <1>8, SendGoes DEF SendDelta, LiveInv, ResumeInv, audio
  <2> QED
    BY <1>s, <2>1
<1>9. CASE Reply /\ ~SendDelta
  <2>1. input' = input /\ pc' \in {"lock", "last", "report", "fail500", "closed"}
    BY <1>9, SendGoes
    DEF Reply, SendHeaders, SendDone, AudioDone, ResultMissing, SendError, LogError,
        SendLast, SendFail500, Goto, audio
  <2> QED
    BY <1>s, <2>1
<1> QED
  BY <1>1, <1>2, <1>3, <1>4, <1>5, <1>6, <1>7, <1>8, <1>9 DEF Next, Run

LEMMA IntakeKept ==
  ASSUME LiveInv, IntakeInv, WholeReads, Framed, [Next]_vars
  PROVE  IntakeInv'
  BY IdleKeeps, ReadSizeKeeps, ReadTrailerKeeps, ReadChunkKeeps, TakeBytesKeeps,
     DeliverKeeps
  DEF Next, ReadBody, Run

----------------------------------------------------------------------------
(* What has been given, as the abstract specification sees it.            *)

\* Numbered audio without a gap is the beginning of all of it.
LEMMA PrefixOfAll ==
  ASSUME NEW f \in Seq(Nat), NEW n \in Nat, Len(f) <= n, \A i \in 1..Len(f) : f[i] = i
  PROVE  LET all == [i \in 1..n |-> i] IN
           /\ all \in Seq(Nat) /\ Len(all) = n
           /\ f = SubSeq(all, 1, Len(f))
<1> DEFINE all == [i \in 1..n |-> i]
<1>1. all \in Seq(Nat) /\ Len(all) = n /\ \A i \in 1..n : all[i] = i
  <2>1. \A i \in 1..n : i \in Nat
    OBVIOUS
  <2>2. all \in Seq(Nat)
    BY <2>1, IsASeq
  <2> QED
    BY <2>2
<1>2. Len(f) \in 0..n /\ f = [i \in 1..Len(f) |-> f[i]]
  OBVIOUS
<1> HIDE DEF all
<1>3. SubSeq(all, 1, Len(f)) = [i \in 1..Len(f) |-> all[i]]
  BY <1>1, <1>2
<1>4. \A i \in 1..Len(f) : all[i] = f[i]
  BY <1>1, <1>2
<1>5. f = SubSeq(all, 1, Len(f))
  BY <1>2, <1>3, <1>4
<1> QED
  BY <1>1, <1>5 DEF all

LEMMA GivenIsSent ==
  ASSUME LiveInv, IntakeInv
  PROVE  /\ Sent \in Seq(Nat) /\ Len(Sent) = Captured(body, Len(body))
         /\ Len(fed) <= Len(Sent)
         /\ fed = SubSeq(Sent, 1, Len(fed))
<1>1. /\ Captured(body, Len(body)) \in Nat /\ fed \in Seq(Nat)
      /\ Len(fed) <= Captured(body, Len(body))
      /\ \A i \in 1..Len(fed) : fed[i] = i
  BY Cursors, Shape DEF IntakeInv, FedInv
<1> QED
  BY <1>1, PrefixOfAll DEF Sent

----------------------------------------------------------------------------
(* The refinement: the session's reads are Give, the closing event of a    *)
(* request is Accept, an error event is Reject, and the rest stutters.     *)

Verdict == IF Says("done") THEN "whole" ELSE IF Says("error") THEN "broken" ELSE "none"

LEMMA IntakeInit ==
  ASSUME Init
  PROVE  Intake!Init
<1>1. LiveInv /\ IntakeInv
  BY InitEstablishes, IntakeBegins
<1>2. Sent \in Seq(Nat)
  BY <1>1, GivenIsSent
<1>3. fed = <<>> /\ Verdict = "none"
  BY DEF Init, Verdict, Says
<1>4. input \in {"AudioChunks", "None"}
  BY DEF Init, StreamingInputKinds
<1> QED
  BY <1>2, <1>3, <1>4 DEF Intake!Init, Verdict

LEMMA GiveStep ==
  ASSUME LiveInv, ReplyInv, InputInv, IntakeInv, WholeReads, Deliver
  PROVE  Intake!Give
<1>1. pc = "deliver" /\ body' = body /\ reply' = reply /\ fed' = fed \o SubSeq(bytes, 1, Usable)
  BY DEF Deliver, network
<1>2. Verdict = "none" /\ Verdict' = "none"
  BY <1>1, SaysUnchanged DEF Verdict, ReplyInv, Quiet
<1>i. input = "AudioChunks" /\ input' = input
  BY DEF Deliver, InputInv, Feeding
<1>3. Sent' = Sent
  BY <1>1 DEF Sent
<1>4. /\ Captured(body, Len(body)) \in Nat /\ Len(fed) \in Nat
      /\ Len(Sent) = Captured(body, Len(body))
  BY GivenIsSent, Shape, Cursors
<1>5. /\ \A i \in 1..Len(fed') : fed'[i] = i
      /\ FrameCount(Len(fed'))
      /\ Len(fed') <= Captured(body, Len(body))
      /\ Len(fed) <= Len(fed')
  BY <1>1, DeliverKeeps DEF IntakeInv, FedInv, FrameCount
<1>6. fed' \in Seq(Nat)
  <2>1. fed \in Seq(Nat) /\ bytes \in Seq(Nat) /\ Len(bytes) \in Nat
    BY Shape, Cursors
  <2>2. Usable \in 0..Len(bytes)
    BY <2>1, SizesAssumption, FloorIsBelow DEF Usable
  <2>3. SubSeq(bytes, 1, Usable) \in Seq(Nat)
    BY <2>1, <2>2
  <2> QED
    BY <1>1, <2>1, <2>3, ConcatProperties
<1>7. fed' = SubSeq(Sent, 1, Len(fed'))
  BY <1>4, <1>5, <1>6, PrefixOfAll DEF Sent
<1>8. Len(fed') \in Len(fed)..Len(Sent) /\ Len(fed') % FrameBytes = 0
  BY <1>4, <1>5, <1>6, FramesDivide
<1> QED
  BY <1>2, <1>i, <1>3, <1>7, <1>8 DEF Intake!Give, Verdict

LEMMA AcceptStep ==
  ASSUME LiveInv, ReplyInv, IntakeInv, SendDone
  PROVE  Intake!Accept \/ UNCHANGED Intake!vars
<1>1. pc = "done" /\ Send("done", "last", "report")
  BY DEF SendDone
<1>2. /\ \/ \A event \in Messages : Says(event)' <=> Says(event) \/ "done" = event
         \/ \A event \in Messages \ {"torn"} : Says(event)' <=> Says(event)
      /\ body' = body /\ fed' = fed /\ input' = input
  BY <1>1, SendSays, SendGoes DEF LiveInv, Messages, network, audio
<1>3. Sent' = Sent
  BY <1>2 DEF Sent
<1>4. ~Says("done") /\ ~Says("error")
  BY <1>1 DEF ReplyInv, Quiet
<1>5. input = "AudioChunks" => Len(fed) = Intake!WholeFrames(Len(Sent))
  <2>1. input = "AudioChunks" => Len(fed) = WholeFrames(Captured(body, Len(body)))
    BY <1>1 DEF IntakeInv, EndInv, Finished
  <2> QED
    BY <2>1, GivenIsSent DEF WholeFrames, Intake!WholeFrames
<1>6. Verdict = "none" /\ Verdict' \in {"none", "whole"}
  BY <1>2, <1>4 DEF Verdict, Messages
<1> QED
  BY <1>2, <1>3, <1>5, <1>6 DEF Intake!Accept, Intake!vars, Verdict

LEMMA RejectStep ==
  ASSUME LiveInv, ReplyInv, SendError
  PROVE  Intake!Reject \/ UNCHANGED Intake!vars
<1>1. pc = "report" /\ Send("error", "last", "fail500")
  BY DEF SendError
<1>2. /\ \/ \A event \in Messages : Says(event)' <=> Says(event) \/ "error" = event
         \/ \A event \in Messages \ {"torn"} : Says(event)' <=> Says(event)
      /\ body' = body /\ fed' = fed /\ input' = input
  BY <1>1, SendSays, SendGoes DEF LiveInv, Messages, network, audio
<1>3. Sent' = Sent
  BY <1>2 DEF Sent
<1>4. ~Says("done") /\ ~Says("error")
  BY <1>1 DEF ReplyInv, Quiet
<1>5. Verdict = "none" /\ Verdict' \in {"none", "broken"}
  BY <1>2, <1>4 DEF Verdict, Messages
<1> QED
  BY <1>2, <1>3, <1>5 DEF Intake!Reject, Intake!vars, Verdict

\* Nothing else gives audio or says how the body ended.
LEMMA OtherStep ==
  ASSUME LiveInv, [Next]_vars, ~Deliver, ~SendDone, ~SendError
  PROVE  UNCHANGED Intake!vars
<1> USE DEF network, audio
<1>1. CASE SendHeaders \/ SendDelta \/ SendLast \/ SendFail500
  <2>1. PICK message \in {"headers", "delta", "last", "http500"} :
          \E next, otherwise : Send(message, next, otherwise)
    BY <1>1 DEF SendHeaders, SendDelta, SendLast, SendFail500
  <2>2. /\ Says("done")' <=> Says("done")
        /\ Says("error")' <=> Says("error")
        /\ body' = body /\ fed' = fed /\ input' = input
    BY <2>1, SendSays, SendGoes DEF LiveInv, Messages
  <2> QED
    BY <2>2 DEF Intake!vars, Sent
<1>2. CASE ~(SendHeaders \/ SendDelta \/ SendLast \/ SendFail500)
  <2>1. UNCHANGED <<body, input, fed, reply>>
    BY <1>2 DEF Next, vars, Environment, Arrive, Shut, Lose, OtherRuns, Tick, ReadBody,
                Underflow, ReadSize, ReadTrailer, ReadChunk, TakeBytes, Poll, Receive,
                PollTimesOut, ClosedTooEarly, Run, LoadFails, StartStream, FinishStream,
                Unwind, Release, PullEvent, Acquire, Busy, Reply, AudioDone,
                ResultMissing, LogError
  <2> QED
    BY <2>1, SaysUnchanged DEF Intake!vars, Sent
<1> QED
  BY <1>1, <1>2

----------------------------------------------------------------------------
(* The theorems.                                                           *)

\* Whatever comes from the socket, what the session has, what the present read
\* has and what the chunk has left make up the audio received, without a gap.
THEOREM IntakeInvariant ==
  ASSUME WholeReads, Framed
  PROVE  Spec => [](LiveInv /\ ReplyInv /\ InputInv /\ IntakeInv)
<1>1. Init => LiveInv /\ ReplyInv /\ InputInv /\ IntakeInv
  BY InitEstablishes, IntakeBegins DEF Init, ReplyInv, Says, Quiet, InputInv, Feeding
<1>2. LiveInv /\ ReplyInv /\ InputInv /\ IntakeInv /\ [Next]_vars
        => LiveInv' /\ ReplyInv' /\ InputInv' /\ IntakeInv'
  BY StepKeeps, ReplyKept, InputKept, IntakeKept
<1> QED
  BY <1>1, <1>2, PTL DEF Spec

\* When a read is a whole number of frames, and the client frames its audio:
\* the session is given the audio sent, in order and without a gap.
THEOREM AudioFedInOrder ==
  ASSUME WholeReads, Framed
  PROVE  Spec => []FedInOrder
<1>1. LiveInv /\ IntakeInv => FedInOrder
  BY GivenIsSent DEF FedInOrder
<1> QED
  BY <1>1, IntakeInvariant, PTL

\* Then a live request does what AudioIntake promises: a session that is fed
\* audio is given it in whole frames, and "done" is only said of a body given to
\* its last frame; a session that is not is given nothing.
THEOREM LiveIsAudioIntake ==
  ASSUME WholeReads, Framed
  PROVE  Spec => IsAudioIntake
<1>1. Init => Intake!Init
  BY IntakeInit
<1>2. LiveInv /\ ReplyInv /\ InputInv /\ IntakeInv /\ [Next]_vars
        => [Intake!Next]_(Intake!vars)
  BY GiveStep, AcceptStep, RejectStep, OtherStep DEF Intake!Next
<1> QED
  BY <1>1, <1>2, IntakeInvariant, PTL DEF Spec, IsAudioIntake, Intake!Spec
=============================================================================
