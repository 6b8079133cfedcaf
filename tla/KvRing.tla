------------------------------- MODULE KvRing -------------------------------
(***************************************************************************)
(* The key/value cache of a decoder (framework/runtime/kv_cache.cpp) as    *)
(* the VibeVoice decoder uses it (models/vibevoice_asr/text_decoder.cpp,   *)
(* session.cpp): a cache that grows by export and import when the history  *)
(* is not limited, and a ring with a pinned prompt when it is.             *)
(*                                                                         *)
(* A row of keys and values is the absolute position it was computed for;  *)
(* all layers are alike.  What the program computes is which slot a row    *)
(* goes to, which slots the attention mask shows, and so which positions a *)
(* result depends on.  A decoder is a VibeVoiceDecoderCachedState: the one *)
(* of a stream, or one per beam of a search.                               *)
(***************************************************************************)
EXTENDS Integers, FiniteSets

CONSTANTS
  Decoders,        \* cached states
  Windows,         \* values of max_history_steps; 0 is no window
  Prompts,         \* lengths of a prompt, in steps
  Suffixes,        \* lengths of a chunk of a stream, in steps
  InitialSteps,    \* kCacheInitialGraphSteps
  GrowthStep,      \* kCacheGraphGrowthStep
  StreamSteps,     \* kStreamingDecoderInitialCacheSteps
  ModelSteps,      \* max_position_embeddings
  LastPosition     \* bound on the length of a history

LongestAppend == CHOOSE k \in Suffixes : \A j \in Suffixes : j <= k

ASSUME RingAssumption ==
  /\ InitialSteps \in Nat \ {0}
  /\ GrowthStep \in Nat \ {0}
  /\ StreamSteps \in Nat
  /\ ModelSteps \in Nat \ {0}
  /\ Prompts \subseteq Nat \ {0}
  /\ Suffixes \subseteq Nat \ {0}
  /\ \E k \in Suffixes : \A j \in Suffixes : j <= k
  \* The session refuses a window beyond the model's positions.
  /\ Windows \subseteq 0..ModelSteps

VARIABLES
  window,     \* max_history_steps_ of the session
  streaming,  \* the family of the model
  kind,       \* the request: "idle", "stream" or "single"
  pinned,     \* pinned_prefix_steps_ of the weights runtime
  pending,    \* pending_state_: the rows of the prompt, before they are cached
  cache,      \* cache_ while cache_has_state_ is set, else NoCache
  seen        \* per decoder: what each row of the latest append attended to

vars == <<window, streaming, kind, pinned, pending, cache, seen>>
-----------------------------------------------------------------------------
(* kv_cache.cpp *)

Smaller(a, b) == IF a <= b THEN a ELSE b
Larger(a, b) == IF a >= b THEN a ELSE b

\* The content of a slot that no row was written to.
Zero == -1

\* ring_stored_position: the position of a stored row, the pinned ones first.
StoredPosition(row, valid, end, pin) ==
  IF row < pin THEN row ELSE end - valid + row

\* The whole ring is one lap, the pinned part included.
SlotOverPrompt(c, position) ==
  IF window = 0 \/ position < c.pinned THEN position ELSE position % c.steps

SlotForPosition(c, position) ==
  IF window = 0 \/ position < c.pinned
  THEN position
  ELSE c.pinned + ((position - c.pinned) % (c.steps - c.pinned))

\* Where import_state puts, and export_state finds, the row of an exported state.
RowSlot(c, row) ==
  IF window = 0
  THEN row
  ELSE SlotForPosition(c, StoredPosition(row, c.valid, c.end, c.pinned))

\* The constructor refuses a ring that its pinned part would fill.
Constructible(steps, pin) == window = 0 \/ pin < steps

NewCache(steps, pin) ==
  [steps |-> steps, pinned |-> IF window = 0 THEN 0 ELSE pin,
   slots |-> [x \in 0..(steps - 1) |-> Zero], valid |-> 0, end |-> 0]

NoCache ==
  [steps |-> 0, pinned |-> 0, slots |-> [x \in {} |-> Zero], valid |-> 0, end |-> 0]

\* A state on the host: its rows in chronological order.
PrefillState(n) == [end |-> n, valid |-> n, row |-> [r \in 0..(n - 1) |-> r]]

ImportState(c, state) ==
  LET placed == [c EXCEPT !.end = state.end, !.valid = state.valid]
      To(x) == {r \in 0..(state.valid - 1) : RowSlot(placed, r) = x}
      Last(R) == CHOOSE r \in R : \A q \in R : q <= r
  IN  [placed EXCEPT !.slots = [x \in 0..(c.steps - 1) |->
         IF To(x) = {} THEN Zero ELSE state.row[Last(To(x))]]]

\* The rows in the order of their slots.
ExportUnordered(c) ==
  [end |-> c.end, valid |-> c.valid, row |-> [r \in 0..(c.valid - 1) |-> c.slots[r]]]

ExportState(c) ==
  [end |-> c.end, valid |-> c.valid,
   row |-> [r \in 0..(c.valid - 1) |-> c.slots[RowSlot(c, r)]]]

\* A full ring counts on.
AdvanceUncapped(c, k) == [c EXCEPT !.valid = @ + k, !.end = @ + k]

AdvanceAfterDirectAppend(c, k) ==
  [c EXCEPT !.valid = IF window = 0 THEN @ + k ELSE Smaller(c.steps, @ + k),
            !.end = @ + k]
-----------------------------------------------------------------------------
(* text_decoder.cpp: the graphs *)

New(c, k) == c.end..(c.end + k - 1)

\* The rows of an append are written side by side.  Of those that share a slot
\* one stays; which one, the backend's threads decide.
Winners(c, k) ==
  {W \in SUBSET New(c, k) :
     \A p \in New(c, k) :
       \E w \in W : \A v \in W :
         SlotForPosition(c, v) = SlotForPosition(c, p) <=> v = w}

SetRows(c, W) ==
  [c EXCEPT !.slots = [x \in 0..(c.steps - 1) |->
     IF \E w \in W : SlotForPosition(c, w) = x
     THEN CHOOSE w \in W : SlotForPosition(c, w) = x
     ELSE c.slots[x]]]

\* A row is hidden from itself.
VisibleBefore(c, position) ==
  {SlotForPosition(c, StoredPosition(r, c.valid, c.end, pinned)) :
     r \in 0..(c.valid - 1)}
  \cup {SlotForPosition(c, p) : p \in c.end..(position - 1)}

\* The slots that the mask shows to row position of an append: those of all
\* that was stored before it, and those of its rows up to this one.
Visible(c, position) ==
  {SlotForPosition(c, StoredPosition(r, c.valid, c.end, pinned)) :
     r \in 0..(c.valid - 1)}
  \cup {SlotForPosition(c, p) : p \in c.end..position}

\* The rows are in the cache before any of them attends to it.
Attended(c, written, k) ==
  [p \in New(c, k) |-> {written.slots[x] : x \in Visible(c, p)}]

\* No append has been computed.
Nothing == [p \in {} |-> {}]

FitsGraph(c, k) == window > 0 \/ c.valid + k <= c.steps
-----------------------------------------------------------------------------
(* text_decoder.cpp: the cached state *)

CacheGraphCapacity(n) ==
  Smaller(((Larger(n, InitialSteps) + GrowthStep - 1) \div GrowthStep) * GrowthStep,
          ModelSteps)

\* apply_history_window
RequiredCapacity(n) == CacheGraphCapacity(IF window > 0 THEN window ELSE n)
\* The absolute history is held against the model's positions.
TierableUnclamped(n) == n <= ModelSteps

Tierable(n) == window > 0 \/ n <= ModelSteps

Live(d) == cache[d].steps > 0
InUse(d) == Live(d) \/ pending[d] > 0
EndOf(d) == IF Live(d) THEN cache[d].end ELSE pending[d]

\* The cache an operation that asks for n steps works on: the one there is, a
\* larger one with its rows, or a first one with those of the prompt.
CanKeep(d, n) == Live(d) /\ cache[d].steps >= RequiredCapacity(n)
HostState(d) ==
  IF Live(d) THEN ExportState(cache[d]) ELSE PrefillState(pending[d])
Imported(state, n) == ImportState(NewCache(RequiredCapacity(n), pinned), state)
Prepared(d, n) == IF CanKeep(d, n) THEN cache[d] ELSE Imported(HostState(d), n)

Importable(valid, n, pin) ==
  /\ Constructible(RequiredCapacity(n), pin)
  /\ valid <= RequiredCapacity(n)
Preparable(d, n) ==
  /\ Tierable(n)
  /\ CanKeep(d, n) \/ Importable(HostState(d).valid, n, pinned)
-----------------------------------------------------------------------------
(* session.cpp *)

\* streaming_decoder_cache_capacity
StreamCapacity(n) == Smaller(ModelSteps, Larger(StreamSteps, n))

\* The steps asked for by an append of k steps.  A search asks for one more.
Wanted(d, k) ==
  IF kind = "stream"
  THEN Larger(StreamCapacity(EndOf(d) + k), EndOf(d) + k)
  ELSE EndOf(d) + 2

Init ==
  /\ window \in Windows
  /\ streaming \in BOOLEAN
  /\ kind = "idle"
  /\ pinned = 0
  /\ pending = [d \in Decoders |-> 0]
  /\ cache = [d \in Decoders |-> NoCache]
  /\ seen = [d \in Decoders |-> Nothing]

\* ensure_streaming_decoder_state: the prompt is pinned, computed and cached.
BeginStream(d, n) ==
  /\ kind = "idle"
  /\ streaming
  /\ Importable(n, StreamCapacity(n + 1), n)
  /\ kind' = "stream"
  /\ pinned' = n
  /\ cache' = [cache EXCEPT ![d] =
       ImportState(NewCache(RequiredCapacity(StreamCapacity(n + 1)), n), PrefillState(n))]
  /\ UNCHANGED <<window, streaming, pending, seen>>

\* The constructor or the import throws; the stream has not begun.
PromptTooLong(n) ==
  /\ kind = "idle"
  /\ streaming
  /\ ~Importable(n, StreamCapacity(n + 1), n)
  /\ pinned' = n
  /\ UNCHANGED <<window, streaming, kind, pending, cache, seen>>

\* run_single: nothing is pinned, and every beam starts from the prompt's rows.
BeginSingle(D, n) ==
  /\ kind = "idle"
  /\ ~streaming
  /\ kind' = "single"
  /\ pinned' = 0
  /\ pending' = [d \in Decoders |-> IF d \in D THEN n ELSE 0]
  /\ UNCHANGED <<window, streaming, cache, seen>>

\* cached_step and, for a chunk of a stream, cached_suffix.
Append(d, k) ==
  /\ InUse(d)
  /\ EndOf(d) + k <= LastPosition
  /\ Preparable(d, Wanted(d, k))
  /\ LET c == Prepared(d, Wanted(d, k)) IN
       /\ FitsGraph(c, k)
       /\ \E W \in Winners(c, k) :
            /\ cache' = [cache EXCEPT ![d] =
                 AdvanceAfterDirectAppend(SetRows(c, W), k)]
            /\ seen' = [seen EXCEPT ![d] = Attended(c, SetRows(c, W), k)]
  /\ pending' = [pending EXCEPT ![d] = 0]
  /\ UNCHANGED <<window, streaming, kind, pinned>>

Step(d) == Append(d, 1)
Suffix(d, k) == kind = "stream" /\ Append(d, k)

\* clone_cached_state, into a state of its own, for a beam taken twice.
Clone(d, e) ==
  LET asked == EndOf(d) + 1 IN
  /\ kind = "single"
  /\ Live(d)
  /\ ~InUse(e)
  /\ Tierable(asked)
  /\ Importable(cache[d].valid, asked, pinned)
  /\ cache' = [cache EXCEPT ![e] = Imported(ExportState(cache[d]), asked)]
  /\ UNCHANGED <<window, streaming, kind, pinned, pending, seen>>

Forget(D) ==
  /\ pending' = [d \in Decoders |-> IF d \in D THEN 0 ELSE pending[d]]
  /\ cache' = [d \in Decoders |-> IF d \in D THEN NoCache ELSE cache[d]]
  /\ seen' = [d \in Decoders |-> IF d \in D THEN Nothing ELSE seen[d]]
  /\ UNCHANGED <<window, streaming, pinned>>

\* A beam is done, or not among the best.
DropBeam(d) ==
  /\ kind = "single"
  /\ InUse(d)
  /\ Forget({d})
  /\ UNCHANGED kind

\* The request is over, be it by an exception: no cached state outlives it.
End ==
  /\ kind # "idle"
  /\ kind' = "idle"
  /\ Forget(Decoders)

Next ==
  \/ \E d \in Decoders, n \in Prompts : BeginStream(d, n)
  \/ \E n \in Prompts : PromptTooLong(n)
  \/ \E D \in SUBSET Decoders \ {{}}, n \in Prompts : BeginSingle(D, n)
  \/ \E d \in Decoders : Step(d)
  \/ \E d \in Decoders, k \in Suffixes : Suffix(d, k)
  \/ \E d, e \in Decoders : Clone(d, e)
  \/ \E d \in Decoders : DropBeam(d)
  \/ End

Spec == Init /\ [][Next]_vars
-----------------------------------------------------------------------------
(* Properties *)

IsCache(c) ==
  /\ c = [steps |-> c.steps, pinned |-> c.pinned, slots |-> c.slots,
          valid |-> c.valid, end |-> c.end]
  /\ c.steps \in Nat
  /\ c.pinned \in Nat
  /\ c.slots \in [0..(c.steps - 1) -> Int]
  /\ c.valid \in 0..c.steps
  /\ c.end \in Nat

\* Every variable has its type, and a cache has no more rows than slots.
TypeOK ==
  /\ window \in Windows
  /\ streaming \in BOOLEAN
  /\ kind \in {"idle", "stream", "single"}
  /\ pinned \in Nat
  /\ pending \in [Decoders -> Nat]
  /\ cache = [d \in Decoders |-> cache[d]]
  /\ \A d \in Decoders : IsCache(cache[d])
  /\ seen = [d \in Decoders |-> seen[d]]

\* The positions that a history of n steps comes down to.
Kept(n) ==
  {p \in 0..(n - 1) :
     \/ window = 0
     \/ p < pinned
     \/ p >= n - (CacheGraphCapacity(window) - pinned)}

\* No append is longer than the part of the ring that is not pinned.
Roomy == window = 0 \/ LongestAppend <= CacheGraphCapacity(window) - pinned

\* "The model then stores only the most recent steps.  [...]  It never removes
\* the prompt" (docs/models/vibevoice_asr.md): whatever appends, wraps, growths
\* and copies it has been through, a cache has each of these rows once, at the
\* place where export_state and the mask look for it.
HoldsHistory ==
  Roomy => \A d \in Decoders :
    LET c == cache[d]
        position == [r \in 0..(c.valid - 1) |-> StoredPosition(r, c.valid, c.end, pinned)]
    IN  Live(d) =>
          /\ {position[r] : r \in 0..(c.valid - 1)} = Kept(c.end)
          /\ \A r \in 0..(c.valid - 1) :
               /\ c.slots[RowSlot(c, r)] = position[r]
               /\ c.slots[SlotForPosition(c, position[r])] = position[r]

\* The documentation makes no exception ("The model then stores only the most
\* recent steps"): what a result is computed from are the steps of the window,
\* all of them.  Two rows of a chunk with less room than its length share a slot
\* (text_decoder.cpp:972), and one of them is lost.
MostRecentSteps ==
  \A d \in Decoders :
    seen[d] # Nothing => seen[d][cache[d].end - 1] = Kept(cache[d].end)

\* The windows of a session leave a prompt that fits them room for the longest
\* chunk.
EveryWindowRoomy ==
  \A w \in Windows \ {0}, n \in Prompts \cup {0} :
    n < CacheGraphCapacity(w) => LongestAppend <= CacheGraphCapacity(w) - n

\* Until a cache is full, every row of an append, those inside a chunk too,
\* depends on the steps up to its own and on no later one.
CausalUntilFull ==
  \A d \in Decoders : cache[d].end <= cache[d].steps =>
    \A p \in DOMAIN seen[d] : seen[d][p] = 0..p

\* A stream is not cut off by the cache: with a window it goes on for ever
\* (text_decoder.cpp:1215, "a long stream's absolute history can exceed" the
\* model's positions), without one as far as these reach.
StreamGoesOn ==
  \A d \in Decoders, k \in Suffixes \cup {1} :
    /\ kind = "stream"
    /\ Live(d)
    /\ window > 0 \/ EndOf(d) + k <= ModelSteps
    => /\ Preparable(d, Wanted(d, k))
       /\ FitsGraph(Prepared(d, Wanted(d, k)), k)

\* A result depends on what the documentation says it does: every append is one
\* that HistoryWindow allows.
History == INSTANCE HistoryWindow WITH
  room <- IF window = 0 THEN 0 ELSE CacheGraphCapacity(window),
  prompt <- pinned,
  length <- [d \in Decoders |-> IF InUse(d) THEN EndOf(d) ELSE -1],
  basis <- [d \in Decoders |->
              IF seen[d] = Nothing THEN {} ELSE seen[d][cache[d].end - 1]]

IsHistoryWindow == History!Spec
=============================================================================
