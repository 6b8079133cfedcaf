----------------------------- MODULE LiveStream -----------------------------
(***************************************************************************)
(* One request to a live route (/v1/audio/transcriptions/live and          *)
(* /v1/audio/speech/live): its chunked body is read from the socket while  *)
(* the model runs on it and while the reply is written to the same socket. *)
(* ChunkedSocketStreambuf and handle_client (app/server/http.cpp), the PCM *)
(* reader and run_stream (app/streaming), and the two handlers and         *)
(* run_streaming_model_impl (app/server/runtime.cpp), composed as they run.*)
(*                                                                         *)
(* The body is an immutable sequence of tokens with three cursors: what    *)
(* has reached the host, what recv has taken, what has been de-framed.     *)
(* "hex" is a chunk size, "eol" a CRLF, "pcm" one byte of audio, numbered  *)
(* in the order the client captured it, "text" anything else.              *)
(***************************************************************************)
EXTENDS Integers, Sequences, FiniteSets

CONSTANTS
  Bodies,       \* what a client may set out to send
  Prefetched,   \* how much of it may come with the request's headers
  FrameBytes,   \* bytes of a sample in all channels
  ReadBytes,    \* bytes of one read: the policy's chunk
  RecvBytes,    \* size of the buffer recv fills
  WindowBytes,  \* kWindowBytes
  MaxChunk, MaxBody, Idle, Total, SendTimeout,  \* LiveIngestLimits; 0: none
  Formats,      \* stream_format: subset of {"sse", "audio"}
  MaxReply      \* bound of the reply up to which a session offers events

ASSUME SizesAssumption ==
  /\ FrameBytes \in Nat \ {0}
  /\ ReadBytes \in Nat \ {0}
  /\ RecvBytes \in Nat \ {0}
  /\ WindowBytes \in Nat \ {0}
ASSUME LimitsAssumption ==
  /\ {MaxBody, Idle, Total, SendTimeout} \subseteq Nat
  /\ MaxChunk \in Nat \ {0}
  /\ Prefetched \subseteq Nat

Token == [kind : {"hex", "eol", "pcm", "text"}, n : Nat]

\* Bytes of audio among the first n tokens: the number of the last of them.
Captured(tokens, n) == Cardinality({i \in 1..n : tokens[i].kind = "pcm"})

ASSUME BodiesAssumption ==
  /\ Bodies \subseteq Seq(Token)
  /\ \A b \in Bodies : \A i \in DOMAIN b :
       b[i].kind = "pcm" => b[i].n = Captured(b, i)
ASSUME FormatsAssumption == Formats \subseteq {"sse", "audio"}

VARIABLES
  body,       \* the tokens the client means to send
  client,     \* "open", "shut" (no more is sent) or "gone" (connection lost)
  arrived,    \* cursor: tokens that have reached the host
  now,        \* time since the stream buffer was made, up to Total
  wait,       \* time left in poll or send; Unbounded: no timeout
  pc,         \* where the request's thread is
  after,      \* where it goes on when the present wait or event is over
  received,   \* cursor: received_bytes_
  parsed,     \* cursor: pending_pos_
  chunk,      \* chunk_
  published,  \* chunk_pos_, the end of the get area
  taken,      \* gptr: the start of what can be read without underflow
  input,      \* StreamingPolicy::input of the session: what it is fed
  bytes,      \* what the present PCM read has got
  fed,        \* the audio the session has been given
  holder,     \* who holds the model: "me", "other" or "nobody"
  sink,       \* whose events sink the session has
  format,     \* stream_format of this request
  reply       \* what has been written to the socket

network == <<body, client, arrived>>
clock == <<now, wait>>
buffer == <<received, parsed, chunk, published, taken>>
audio == <<input, bytes, fed>>
model == <<holder, sink>>
vars == <<network, clock, pc, after, buffer, audio, model, format, reply>>

Pcs == {"headers", "lock", "load", "read", "line", "trailer", "chunk", "poll",
        "deliver", "delta", "finish", "unwind", "release", "done", "report",
        "last", "fail500", "closed"}
Reading == {"read", "line", "trailer", "chunk"}
Sending == {"headers", "delta", "done", "report", "last", "fail500"}
Running == Reading \cup {"poll", "deliver", "delta", "finish", "unwind"}
Messages == {"headers", "delta", "done", "error", "last", "http500", "torn"}

StreamingInputKinds == {"AudioChunks", "None"}

Unbounded == -1
SendWait == IF SendTimeout > 0 THEN SendTimeout ELSE Unbounded

Goto(label) ==
  /\ pc' = label
  /\ wait' = IF label \in Sending THEN SendWait ELSE Unbounded
  /\ UNCHANGED <<now, after>>

Least(a, b) == IF a < b THEN a ELSE b

Is(i, kind) == body[i].kind = kind
Numbers(tokens) == [i \in DOMAIN tokens |-> tokens[i].n]

----------------------------------------------------------------------------
Init ==
  /\ body \in Bodies
  /\ client = "open"
  /\ arrived \in Prefetched \cap 0..Len(body)
  /\ received = arrived
  /\ now = 0
  /\ wait = SendWait
  /\ pc = "headers"
  /\ after = "lock"
  /\ parsed = 0
  /\ chunk = <<>>
  /\ published = 0
  /\ taken = 0
  /\ input \in StreamingInputKinds
  /\ bytes = <<>>
  /\ fed = <<>>
  /\ holder \in {"nobody", "other"}
  /\ sink = holder
  /\ format \in Formats
  /\ reply = <<>>

----------------------------------------------------------------------------
(* The client, the other requests for this model, and time; once the       *)
(* socket is closed, client and clock no longer matter.                    *)

Arrive ==
  /\ pc # "closed"
  /\ client = "open"
  /\ arrived < Len(body)
  /\ arrived' = arrived + 1
  /\ UNCHANGED <<body, client, clock, pc, after, buffer, audio, model,
                 format, reply>>

Shut ==
  /\ pc # "closed"
  /\ client = "open"
  /\ client' = "shut"
  /\ UNCHANGED <<body, arrived, clock, pc, after, buffer, audio, model,
                 format, reply>>

Lose ==
  /\ pc # "closed"
  /\ client # "gone"
  /\ client' = "gone"
  /\ UNCHANGED <<body, arrived, clock, pc, after, buffer, audio, model,
                 format, reply>>

\* Another request runs on the model, with a sink of its own.
OtherRuns ==
  /\ \/ holder = "nobody" /\ holder' = "other"
     \/ holder = "other" /\ holder' = "nobody"
  /\ sink' = holder'
  /\ UNCHANGED <<network, clock, pc, after, buffer, audio, format, reply>>

Tick ==
  /\ pc # "closed"
  /\ now < Total \/ wait > 0
  /\ now' = Least(now + 1, Total)
  /\ wait' = IF wait > 0 THEN wait - 1 ELSE wait
  /\ UNCHANGED <<network, pc, after, buffer, audio, model, format, reply>>

----------------------------------------------------------------------------
(* ChunkedSocketStreambuf: every exception unwinds run_stream.             *)

Expired == Total > 0 /\ now >= Total
OverCap == MaxBody > 0 /\ received > MaxBody

PollWaitForEver == Unbounded
PollWait ==
  IF Total = 0 /\ Idle = 0 THEN Unbounded
  ELSE IF Total = 0 THEN Idle
  ELSE IF Idle = 0 THEN Total - now
  ELSE Least(Idle, Total - now)

Throw == Goto("unwind")

\* receive_more up to poll; the reader at label `back` needs more bytes.
NeedMore(back) ==
  IF Expired THEN Throw
  ELSE /\ pc' = "poll"
       /\ after' = back
       /\ wait' = PollWait
       /\ UNCHANGED now

Receive ==
  /\ pc = "poll"
  /\ arrived > received
  /\ IF Expired
     THEN Throw /\ UNCHANGED received
     ELSE /\ received' = Least(arrived, received + RecvBytes)
          /\ Goto(IF OverCap' THEN "unwind" ELSE after)
  /\ UNCHANGED <<network, parsed, chunk, published, taken, audio, model, format, reply>>

PollTimesOut ==
  /\ pc = "poll"
  /\ wait = 0
  /\ client = "open" /\ arrived = received
  /\ Throw
  /\ UNCHANGED <<network, buffer, audio, model, format, reply>>

\* What recv returns 0 or an error for.
ConnectionEnded == client = "gone" \/ (client = "shut" /\ arrived = received)

\* recv returns 0 or fails: no reader takes that for the end of the body.
ClosedIsEnd ==
  /\ pc = "poll"
  /\ ConnectionEnded
  /\ Goto("deliver")
  /\ UNCHANGED <<network, buffer, audio, model, format, reply>>
ClosedTooEarly ==
  /\ pc = "poll"
  /\ ConnectionEnded
  /\ Throw
  /\ UNCHANGED <<network, buffer, audio, model, format, reply>>

\* publish_window, for a chunk of which `done` bytes have been published.
PublishUnchecked(bytesOfChunk, done) ==
  /\ published' = Least(done + WindowBytes, Len(bytesOfChunk))
  /\ Goto("read")
PublishWhole(bytesOfChunk, done) ==
  IF Expired THEN Throw /\ published' = done
  ELSE /\ published' = done + WindowBytes
       /\ Goto("read")
Publish(bytesOfChunk, done) ==
  IF Expired THEN Throw /\ published' = done
  ELSE /\ published' = Least(done + WindowBytes, Len(bytesOfChunk))
       /\ Goto("read")

\* underflow: the next window of this chunk, or the next chunk.
Underflow ==
  /\ pc = "read"
  /\ taken = published
  /\ Len(bytes) < ReadBytes
  /\ IF OverCap THEN Throw /\ UNCHANGED published
     ELSE IF published < Len(chunk) THEN Publish(chunk, published)
     ELSE IF Expired THEN Throw /\ UNCHANGED published
     ELSE Goto("line") /\ UNCHANGED published
  /\ UNCHANGED <<network, received, parsed, chunk, taken, audio, model, format, reply>>

\* read_line: the first CRLF that is pending.
LineEnds ==
  {i \in parsed + 1..received :
     Is(i, "eol") /\ \A j \in parsed + 1..i - 1 : ~Is(j, "eol")}

IsSize(first, end) == end = first + 1 /\ Is(first, "hex") /\ body[first].n <= MaxChunk

\* next_chunk: the line that holds the chunk's size.
ReadSize ==
  /\ pc = "line"
  /\ IF LineEnds = {} THEN NeedMore("line") /\ UNCHANGED parsed
     ELSE \E end \in LineEnds :
            /\ parsed' = end
            /\ Goto(CASE ~IsSize(parsed + 1, end) -> "unwind"
                      [] IsSize(parsed + 1, end) /\ body[parsed + 1].n = 0 -> "trailer"
                      [] OTHER -> "chunk")
  /\ UNCHANGED <<network, received, chunk, published, taken, audio, model, format, reply>>

\* The lines after the terminating chunk; an empty one ends the body.
ReadTrailer ==
  /\ pc = "trailer"
  /\ IF LineEnds = {} THEN NeedMore("trailer") /\ UNCHANGED parsed
     ELSE \E end \in LineEnds :
            /\ parsed' = end
            /\ Goto(IF end = parsed + 1 THEN "deliver" ELSE "trailer")
  /\ UNCHANGED <<network, received, chunk, published, taken, audio, model, format, reply>>

\* The chunk is served once it is there in full, its CRLF included.
ChunkSize == body[parsed - 1].n

ReadChunk ==
  /\ pc = "chunk"
  /\ IF received - parsed < ChunkSize + 1
     THEN NeedMore("chunk") /\ UNCHANGED <<parsed, chunk, published, taken>>
     ELSE IF ~Is(parsed + ChunkSize + 1, "eol")
     THEN Throw /\ UNCHANGED <<parsed, chunk, published, taken>>
     ELSE /\ chunk' = SubSeq(body, parsed + 1, parsed + ChunkSize)
          /\ parsed' = parsed + ChunkSize + 1
          /\ taken' = 0
          /\ Publish(chunk', 0)
  /\ UNCHANGED <<network, received, audio, model, format, reply>>

----------------------------------------------------------------------------
(* make_pcm_chunk_stream and feed_audio_stream.                            *)

\* istream::read copies from the get area.
TakeBytes ==
  /\ pc = "read"
  /\ LET count == Least(published - taken, ReadBytes - Len(bytes)) IN
       /\ count > 0
       /\ bytes' = bytes \o Numbers(SubSeq(chunk, taken + 1, taken + count))
       /\ taken' = taken + count
       /\ Goto(IF Len(bytes') = ReadBytes THEN "deliver" ELSE "read")
  /\ UNCHANGED <<network, received, parsed, chunk, published, input,
                 fed, model, format, reply>>

Usable == (Len(bytes) \div FrameBytes) * FrameBytes
Emits == {"nothing", "event", "exception"}

\* What the session makes of what it is told is its own business: it may
\* stay silent, emit an event or throw.
Emit(emitted, next) ==
  CASE emitted = "nothing" -> Goto(next)
    [] emitted = "exception" -> Throw
    [] emitted = "event" -> /\ pc' = "delta"
                            /\ after' = next
                            /\ wait' = SendWait
                            /\ UNCHANGED now

\* A read that is full is followed by another; what is not a whole frame is
\* dropped from either.
Deliver ==
  /\ pc = "deliver"
  /\ fed' = fed \o SubSeq(bytes, 1, Usable)
  /\ bytes' = <<>>
  /\ \E emitted \in IF Usable = 0 THEN {"nothing"} ELSE Emits :
       Emit(emitted, IF Len(bytes) = ReadBytes THEN "read" ELSE "finish")
  /\ UNCHANGED <<network, buffer, input, model, format, reply>>

----------------------------------------------------------------------------
(* run_streaming_model_impl and run_stream: the model and the sink.        *)

Acquire ==
  /\ pc = "lock"
  /\ holder = "nobody"
  /\ holder' = "me"
  /\ Goto("load")
  /\ UNCHANGED <<network, buffer, audio, sink, format, reply>>

Busy ==
  /\ pc = "lock"
  /\ holder = "other"
  /\ Goto("report")
  /\ UNCHANGED <<network, buffer, audio, model, format, reply>>

\* ensure_model_loaded_locked and prepare, then the sink and start_stream.
ReleaseThen(label) ==
  /\ pc' = "release"
  /\ after' = label
  /\ UNCHANGED clock

LoadFails ==
  /\ pc = "load"
  /\ ReleaseThen("report")
  /\ UNCHANGED <<network, buffer, audio, model, format, reply>>

\* Only a session whose input is audio is fed the body.  One that speaks what
\* the query holds is on its way to its result: the body stays unread.
StartStream ==
  /\ pc = "load"
  /\ sink' = "me"
  /\ \E emitted \in Emits :
       Emit(emitted, IF input = "AudioChunks" THEN "read" ELSE "finish")
  /\ UNCHANGED <<network, buffer, audio, holder, format, reply>>

\* pull_stream_events and finish_stream, up to its result.
PullEvent ==
  /\ pc = "finish"
  /\ \E emitted \in {"exception"} \cup (IF Len(reply) < MaxReply THEN {"event"} ELSE {}) :
       Emit(emitted, "finish")
  /\ UNCHANGED <<network, buffer, audio, model, format, reply>>

FinishStream ==
  /\ pc = "finish"
  /\ sink' = "nobody"
  /\ ReleaseThen("done")
  /\ UNCHANGED <<network, buffer, audio, holder, format, reply>>

UnwindKeepsSink ==
  /\ pc = "unwind"
  /\ ReleaseThen("report")
  /\ UNCHANGED <<network, buffer, audio, model, format, reply>>
Unwind ==
  /\ pc = "unwind"
  /\ sink' = "nobody"
  /\ ReleaseThen("report")
  /\ UNCHANGED <<network, buffer, audio, holder, format, reply>>

Release ==
  /\ pc = "release"
  /\ holder' = "nobody"
  /\ Goto(after)
  /\ UNCHANGED <<network, buffer, audio, sink, format, reply>>

----------------------------------------------------------------------------
(* handle_client: the reply.                                               *)

\* send_all: the message goes out, or an unknown part of it does.
\* It goes out as far as the client reads it; SO_SNDTIMEO ends the wait.
SendOk(message) ==
  /\ client # "gone"
  /\ reply' = Append(reply, message)
SendGivesUp == client = "gone" \/ wait = 0
SendFails ==
  /\ SendGivesUp
  /\ reply' \in {reply, Append(reply, "torn")}

Send(message, next, otherwise) ==
  /\ \/ SendOk(message) /\ Goto(next)
     \/ SendFails /\ Goto(otherwise)
  /\ UNCHANGED <<network, buffer, audio, model, format>>

SendHeaders == pc = "headers" /\ Send("headers", "lock", "fail500")

SendDelta == pc = "delta" /\ Send("delta", after, "unwind")

\* The handler's closing event; raw audio has none.
SendDone == pc = "done" /\ format = "sse" /\ Send("done", "last", "report")
AudioDone ==
  /\ pc = "done"
  /\ format = "audio"
  /\ Goto("last")
  /\ UNCHANGED <<network, buffer, audio, model, format, reply>>

\* The session made no output that the handler can close with.
ResultMissing ==
  /\ pc = "done"
  /\ Goto("report")
  /\ UNCHANGED <<network, buffer, audio, model, format, reply>>

ErrorUnsent == pc = "report" /\ Goto("last")
               /\ UNCHANGED <<network, buffer, audio, model, format, reply>>
SendError == pc = "report" /\ format = "sse" /\ Send("error", "last", "fail500")
LogError ==
  /\ pc = "report"
  /\ format = "audio"
  /\ Goto("last")
  /\ UNCHANGED <<network, buffer, audio, model, format, reply>>

SendLast == pc = "last" /\ Send("last", "closed", "fail500")
SendFail500 == pc = "fail500" /\ Send("http500", "closed", "closed")

----------------------------------------------------------------------------
Environment == Arrive \/ Shut \/ Lose \/ OtherRuns

ReadBody == Underflow \/ ReadSize \/ ReadTrailer \/ ReadChunk \/ TakeBytes
Poll == Receive \/ PollTimesOut \/ ClosedTooEarly
Run == Deliver \/ LoadFails \/ StartStream \/ FinishStream \/ Unwind \/ Release
Reply == SendHeaders \/ SendDelta \/ SendDone \/ AudioDone \/ ResultMissing
         \/ SendError \/ LogError \/ SendLast \/ SendFail500

Next == Environment \/ Tick \/ ReadBody \/ Poll \/ Run \/ PullEvent
        \/ Acquire \/ Busy \/ Reply

Spec == Init /\ [][Next]_vars

\* The thread goes on when it waits for nobody, the clock runs, and a wait for
\* the model ends one way or the other (BusyGuard).  Nothing is asked of the
\* client: a send need not go out, it is only given up in the end.
Fairness ==
  /\ WF_vars(ReadBody \/ Poll \/ Run \/ (Reply /\ (pc \in Sending => SendGivesUp)))
  /\ WF_vars(Acquire \/ Busy)
  /\ WF_vars(Tick)

FairSpec == Spec /\ Fairness

----------------------------------------------------------------------------
(* Properties.                                                             *)

Holding == Running \cup {"load", "release"}

TypeOK ==
  /\ body \in Bodies
  /\ client \in {"open", "shut", "gone"}
  /\ arrived \in 0..Len(body) /\ received \in 0..arrived /\ parsed \in 0..received
  /\ now \in 0..Total
  /\ wait \in Int
  /\ pc \in Pcs
  /\ after \in Pcs
  /\ chunk \in Seq(Token) /\ published \in 0..Len(chunk) /\ taken \in 0..published
  /\ input \in StreamingInputKinds
  /\ bytes \in Seq(Nat) /\ Len(bytes) <= ReadBytes
  /\ fed \in Seq(Nat)
  /\ holder \in {"me", "other", "nobody"}
  /\ sink \in {"me", "other", "nobody"}
  /\ format \in {"sse", "audio"}
  /\ reply \in Seq(Messages)

\* A session has the sink of a request only while that request holds the
\* model: whatever throws, the next request never writes to the connection of
\* one that is gone (streaming.cpp 122-142).
SinkFollowsLock ==
  /\ holder = "me" <=> pc \in Holding
  /\ sink # "nobody" => sink = holder

\* After the deadline no byte is received and none is made readable: what is
\* left to read is at most the window that was published before (http.cpp
\* 257-262, 306-311).
DeadlineHolds ==
  [][Expired => received' = received /\ published' \in {0, published}]_vars

\* An SSE reply that ends regularly says how the body ended, once: "done" or
\* "error" (server README, live route: each failure "surfaces as an SSE
\* `error` event").
Says(event) == \E i \in DOMAIN reply : reply[i] = event

ReplySaysHow ==
  format = "sse" /\ Says("last") => (Says("done") /\ ~Says("error"))
                                    \/ (Says("error") /\ ~Says("done"))

\* The audio of the body, byte after byte by its number.
Sent == [i \in 1..Captured(body, Len(body)) |-> i]

\* The audio given to the session is the audio sent, in order and without a
\* gap.
FedInOrder ==
  /\ Len(fed) <= Len(Sent)
  /\ fed = SubSeq(Sent, 1, Len(fed))

\* What the order rests on.  A read is a whole number of frames: a policy that
\* counts samples may break this (LivePcm).
WholeReads == ReadBytes % FrameBytes = 0

\* And the client announces no more than the audio that follows, and sends none
\* after it said that the body is over; fewer than follow, no CRLF, anything
\* but a size, or a body that breaks off are the server's to find out.
Framed ==
  \A b \in Bodies : \A i \in DOMAIN b : b[i].kind = "hex" =>
    /\ \A j \in (i + 2)..(i + 1 + b[i].n) : j \in DOMAIN b => b[j].kind = "pcm"
    /\ b[i].n = 0 => \A j \in (i + 1)..Len(b) : b[j].kind # "pcm"

\* The request keeps what a live request promises; in particular, of a session
\* fed by audio, "done" is only said of a body that was read to its end and given
\* in full (README, live transcription route).
Intake == INSTANCE AudioIntake
  WITH sent <- Sent, given <- fed,
       verdict <- IF Says("done") THEN "whole"
                  ELSE IF Says("error") THEN "broken" ELSE "none"
IsAudioIntake == Intake!Spec

\* Whatever the client does, or leaves undone, the request ends and with it
\* its hold on the model.
RequestEnds == <>(pc = "closed")
=============================================================================
