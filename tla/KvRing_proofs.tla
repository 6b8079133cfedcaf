---------------------------- MODULE KvRing_proofs ----------------------------
(***************************************************************************)
(* Theorems about KvRing.  The arithmetic of a lap of the ring comes first, *)
(* then what a well-formed cache holds after an import, an export and an   *)
(* append, and last the invariant.                                         *)
(***************************************************************************)
EXTENDS KvRing, TLAPS

-----------------------------------------------------------------------------
(* Arithmetic *)

LEMMA Multiples ==
  ASSUME NEW R \in Nat, R > 0, NEW k \in Int
  PROVE  (k >= 1 => R * k >= R) /\ (k <= 0 => R * k <= 0)
  BY SMT

\* Two numbers less than a lap apart are at different places of it.
LEMMA ModApart ==
  ASSUME NEW R \in Nat, R > 0, NEW a \in Nat, NEW b \in Nat, a < b, b - a < R
  PROVE  a % R # b % R
<1> SUFFICES ASSUME a % R = b % R PROVE FALSE
  OBVIOUS
<1> DEFINE k == (b \div R) - (a \div R)
<1>1. /\ a = R * (a \div R) + (a % R) /\ b = R * (b \div R) + (b % R)
      /\ a \div R \in Int /\ b \div R \in Int /\ a % R \in Int /\ b % R \in Int
  OBVIOUS
<1>2. k \in Int /\ b - a = R * k
  BY <1>1
<1> HIDE DEF k
<1>3. k >= 1 \/ k <= 0
  BY <1>2
<1>4. QED
  BY <1>2, <1>3, Multiples

\* A number is given by its quotient and remainder.
LEMMA ModUnique ==
  ASSUME NEW R \in Nat, R > 0, NEW a \in Nat, NEW q \in Int, NEW r \in Nat,
         r < R, a = R * q + r
  PROVE  a % R = r
<1> DEFINE k == q - (a \div R)
<1>1. /\ a = R * (a \div R) + (a % R) /\ a \div R \in Int
      /\ a % R \in Int /\ 0 <= a % R /\ a % R < R
  OBVIOUS
<1>2. k \in Int /\ R * k = (a % R) - r
  BY <1>1
<1>3. R * (0 - k) = r - (a % R)
  BY <1>1
<1> HIDE DEF k
<1>4. ~(k >= 1)
  BY <1>1, <1>2, Multiples
<1>5. ~(0 - k >= 1)
  <2>1. 0 - k \in Int
    BY <1>2
  <2>2. QED
    BY <1>1, <1>3, <2>1, Multiples
<1>6. k = 0
  BY <1>2, <1>4, <1>5
<1>7. QED
  BY <1>1, <1>2, <1>6

LEMMA ModSmall ==
  ASSUME NEW R \in Nat, R > 0, NEW a \in Nat, a < R
  PROVE  a % R = a
<1>1. a = R * 0 + a
  OBVIOUS
<1>2. QED
  BY <1>1, ModUnique

\* A lap later one is at the same place.
LEMMA ModLap ==
  ASSUME NEW R \in Nat, R > 0, NEW a \in Nat
  PROVE  (a + R) % R = a % R
<1>1. PICK q \in Int, r \in Nat : a = R * q + r /\ r < R
  <2>1. /\ a = R * (a \div R) + (a % R) /\ a \div R \in Int
        /\ a % R \in Nat /\ a % R < R
    OBVIOUS
  <2>2. QED
    BY <2>1
<1>2. a + R = R * (q + 1) + r
  BY <1>1
<1>3. a % R = r
  BY <1>1, ModUnique
<1>4. (a + R) % R = r
  <2>1. a + R \in Nat /\ q + 1 \in Int
    BY <1>1
  <2>2. QED
    BY <1>1, <1>2, <2>1, ModUnique
<1>5. QED
  BY <1>3, <1>4

LEMMA ModRange ==
  ASSUME NEW R \in Nat, R > 0, NEW a \in Nat
  PROVE  a % R \in 0..(R - 1)
  OBVIOUS

\* Tiering gives a positive capacity, and enough of it where the model reaches.
LEMMA Capacity ==
  ASSUME NEW n \in Nat
  PROVE  /\ CacheGraphCapacity(n) \in Nat
         /\ CacheGraphCapacity(n) > 0
         /\ n <= ModelSteps => n <= CacheGraphCapacity(n)
<1> DEFINE m == Larger(n, InitialSteps)
           q == (m + GrowthStep - 1) \div GrowthStep
<1>1. m \in Nat /\ m >= 1 /\ m >= n
  BY RingAssumption DEF Larger
<1>2. GrowthStep \in Nat /\ GrowthStep > 0 /\ ModelSteps \in Nat /\ ModelSteps > 0
  BY RingAssumption
<1> HIDE DEF m
<1>3. /\ q \in Int
      /\ m + GrowthStep - 1 = GrowthStep * q + ((m + GrowthStep - 1) % GrowthStep)
      /\ (m + GrowthStep - 1) % GrowthStep \in 0..(GrowthStep - 1)
  BY <1>1, <1>2
<1>4. q * GrowthStep = GrowthStep * q
  BY <1>2, <1>3
<1>5. GrowthStep * q \in Int
  BY <1>2, <1>3
<1> HIDE DEF q
<1>6. q * GrowthStep \in Nat /\ q * GrowthStep >= m
  BY <1>1, <1>2, <1>3, <1>4, <1>5
<1>7. CacheGraphCapacity(n) = Smaller(q * GrowthStep, ModelSteps)
  BY DEF CacheGraphCapacity, m, q
<1>8. QED
  BY <1>1, <1>2, <1>6, <1>7 DEF Smaller

-----------------------------------------------------------------------------
(* A cache by itself *)

\* The positions that n steps come down to in cache c.
KeptIn(c, n) ==
  {p \in 0..(n - 1) :
     window = 0 \/ p < c.pinned \/ p >= n - (c.steps - c.pinned)}

Shape(c) ==
  /\ IsCache(c)
  /\ c.steps > 0
  /\ window = 0 => c.valid = c.end
  /\ window # 0 => /\ c.pinned < c.steps
                   /\ c.pinned <= c.end
                   /\ c.valid = Smaller(c.steps, c.end)

\* Nothing has overwritten what it should have left.
Unbroken(c) ==
  \/ window = 0
  \/ LongestAppend <= c.steps - c.pinned
  \/ c.end <= c.steps

\* Every kept slot was written to; and it has the row it is kept for.
Filled(c) ==
  \A p \in KeptIn(c, c.end) : c.slots[SlotForPosition(c, p)] \in 0..(c.end - 1)
Exact(c) ==
  \A p \in KeptIn(c, c.end) : c.slots[SlotForPosition(c, p)] = p

Good(c) == Shape(c) /\ Filled(c) /\ (Unbroken(c) => Exact(c))

\* Within the window of one moment no two positions share a slot.
LEMMA SlotApart ==
  ASSUME NEW c, Shape(c), NEW n \in Nat,
         NEW p \in KeptIn(c, n), NEW q \in KeptIn(c, n), p < q
  PROVE  SlotForPosition(c, p) # SlotForPosition(c, q)
<1> DEFINE R == c.steps - c.pinned
<1>1. p \in 0..(n - 1) /\ q \in 0..(n - 1) /\ p \in Nat /\ q \in Nat
  BY DEF KeptIn
<1>2. CASE window = 0
  BY <1>1, <1>2 DEF SlotForPosition
<1>3. CASE window # 0
  <2>1. /\ c.steps \in Nat /\ c.pinned \in Nat /\ R \in Nat /\ R > 0
    BY <1>3 DEF Shape, IsCache
  <2>2. CASE q < c.pinned
    BY <1>1, <1>3, <2>1, <2>2 DEF SlotForPosition
  <2>3. CASE ~(q < c.pinned) /\ p < c.pinned
    <3>1. q - c.pinned \in Nat
      BY <1>1, <2>1, <2>3
    <3>2. (q - c.pinned) % R \in 0..(R - 1)
      BY <2>1, <3>1, ModRange
    <3>3. SlotForPosition(c, p) = p
      BY <2>3 DEF SlotForPosition
    <3>4. SlotForPosition(c, q) = c.pinned + ((q - c.pinned) % R)
      BY <1>3, <2>3 DEF SlotForPosition
    <3> HIDE DEF R
    <3>5. QED
      BY <1>1, <2>1, <2>3, <3>2, <3>3, <3>4
  <2>4. CASE ~(q < c.pinned) /\ ~(p < c.pinned)
    <3>1. p >= n - R
      BY <1>3, <2>4 DEF KeptIn
    <3>2. /\ q - c.pinned \in Nat /\ p - c.pinned \in Nat
          /\ p - c.pinned < q - c.pinned
          /\ (q - c.pinned) - (p - c.pinned) < R
      BY <1>1, <2>1, <2>4, <3>1
    <3>3. (p - c.pinned) % R # (q - c.pinned) % R
      BY <2>1, <3>2, ModApart
    <3>4. /\ (p - c.pinned) % R \in 0..(R - 1)
          /\ (q - c.pinned) % R \in 0..(R - 1)
      BY <2>1, <3>2, ModRange
    <3>5. /\ SlotForPosition(c, p) = c.pinned + ((p - c.pinned) % R)
          /\ SlotForPosition(c, q) = c.pinned + ((q - c.pinned) % R)
      BY <1>3, <2>4 DEF SlotForPosition
    <3> HIDE DEF R
    <3>6. QED
      BY <2>1, <3>3, <3>4, <3>5
  <2>5. QED
    BY <1>1, <2>1, <2>2, <2>3, <2>4
<1>4. QED
  BY <1>2, <1>3

LEMMA SlotUnique ==
  ASSUME NEW c, Shape(c), NEW n \in Nat,
         NEW p \in KeptIn(c, n), NEW q \in KeptIn(c, n),
         SlotForPosition(c, p) = SlotForPosition(c, q)
  PROVE  p = q
<1>1. p \in Nat /\ q \in Nat
  BY DEF KeptIn
<1>2. QED
  BY <1>1, SlotApart

\* A position that goes to the ring has a slot of it.
LEMMA RingSlot ==
  ASSUME NEW c, Shape(c), window # 0, NEW p \in Nat
  PROVE  SlotForPosition(c, p) \in 0..(c.steps - 1)
<1> DEFINE R == c.steps - c.pinned
<1>1. c.steps \in Nat /\ c.pinned \in Nat /\ R \in Nat /\ R > 0 /\ c.pinned < c.steps
  BY DEF Shape, IsCache
<1>2. CASE p < c.pinned
  BY <1>1, <1>2 DEF SlotForPosition
<1>3. CASE ~(p < c.pinned)
  <2>1. p - c.pinned \in Nat
    BY <1>1, <1>3
  <2>2. (p - c.pinned) % R \in 0..(R - 1)
    BY <1>1, <2>1, ModRange
  <2>3. SlotForPosition(c, p) = c.pinned + ((p - c.pinned) % R)
    BY <1>3 DEF SlotForPosition
  <2>4. c.steps = c.pinned + R
    BY <1>1
  <2> HIDE DEF R
  <2>5. QED
    BY <1>1, <2>2, <2>3, <2>4
<1>4. QED
  BY <1>2, <1>3

\* Until the ring is full a position has the slot of its number.
LEMMA FirstLap ==
  ASSUME NEW c, Shape(c), NEW p \in Nat, p < c.steps
  PROVE  SlotForPosition(c, p) = p
<1> DEFINE R == c.steps - c.pinned
<1>1. CASE window = 0 \/ p < c.pinned
  BY <1>1 DEF SlotForPosition
<1>2. CASE window # 0 /\ ~(p < c.pinned)
  <2>1. R \in Nat /\ R > 0 /\ p - c.pinned \in Nat /\ p - c.pinned < R /\ c.pinned \in Nat
    BY <1>2 DEF Shape, IsCache
  <2>2. (p - c.pinned) % R = p - c.pinned
    BY <2>1, ModSmall
  <2>3. QED
    BY <1>2, <2>1, <2>2 DEF SlotForPosition
<1>3. QED
  BY <1>1, <1>2

\* A position that has left the window has the slot of the one a lap later.
LEMMA NextLap ==
  ASSUME NEW c, Shape(c), window # 0, NEW p \in Nat, p >= c.pinned
  PROVE  SlotForPosition(c, p + (c.steps - c.pinned)) = SlotForPosition(c, p)
<1> DEFINE R == c.steps - c.pinned
<1>1. R \in Nat /\ R > 0 /\ p - c.pinned \in Nat /\ c.pinned \in Nat
  BY DEF Shape, IsCache
<1>2. ((p - c.pinned) + R) % R = (p - c.pinned) % R
  BY <1>1, ModLap
<1>3. (p + R) - c.pinned = (p - c.pinned) + R /\ ~(p + R < c.pinned) /\ ~(p < c.pinned)
  BY <1>1
<1>4. QED
  BY <1>2, <1>3 DEF SlotForPosition

\* The stored rows are the kept positions, in the order of export_state.
LEMMA Rows ==
  ASSUME NEW c, Shape(c)
  PROVE  /\ \A r \in 0..(c.valid - 1) :
              /\ StoredPosition(r, c.valid, c.end, c.pinned) \in KeptIn(c, c.end)
              /\ RowSlot(c, r) =
                   SlotForPosition(c, StoredPosition(r, c.valid, c.end, c.pinned))
         /\ \A p \in KeptIn(c, c.end) : \E r \in 0..(c.valid - 1) :
              StoredPosition(r, c.valid, c.end, c.pinned) = p
<1>1. CASE window = 0
  <2>1. c.valid = c.end /\ c.end \in Nat /\ KeptIn(c, c.end) = 0..(c.end - 1)
    BY <1>1 DEF Shape, IsCache, KeptIn
  <2>2. \A r \in 0..(c.valid - 1) : StoredPosition(r, c.valid, c.end, c.pinned) = r
    BY <2>1 DEF StoredPosition
  <2>3. QED
    BY <1>1, <2>1, <2>2 DEF RowSlot, SlotForPosition
<1>2. CASE window # 0
  <2>1. /\ c.valid \in Nat /\ c.end \in Nat /\ c.pinned \in Nat /\ c.steps \in Nat
        /\ c.pinned < c.steps /\ c.pinned <= c.end
        /\ c.valid = IF c.steps <= c.end THEN c.steps ELSE c.end
    BY <1>2 DEF Shape, IsCache, Smaller
  <2>2. \A r \in 0..(c.valid - 1) :
          StoredPosition(r, c.valid, c.end, c.pinned) \in KeptIn(c, c.end)
    BY <1>2, <2>1 DEF StoredPosition, KeptIn
  <2>3. ASSUME NEW p \in KeptIn(c, c.end)
        PROVE  \E r \in 0..(c.valid - 1) :
                 StoredPosition(r, c.valid, c.end, c.pinned) = p
    <3>1. p \in 0..(c.end - 1) /\ (p < c.pinned \/ p >= c.end - (c.steps - c.pinned))
      BY <1>2 DEF KeptIn
    <3>2. CASE p < c.pinned
      <4>1. p \in 0..(c.valid - 1)
        BY <2>1, <3>1, <3>2
      <4>2. StoredPosition(p, c.valid, c.end, c.pinned) = p
        BY <3>2 DEF StoredPosition
      <4>3. QED
        BY <4>1, <4>2
    <3>3. CASE ~(p < c.pinned)
      <4>1. p - (c.end - c.valid) \in 0..(c.valid - 1)
        BY <2>1, <3>1, <3>3
      <4>2. StoredPosition(p - (c.end - c.valid), c.valid, c.end, c.pinned) = p
        BY <2>1, <3>1, <3>3 DEF StoredPosition
      <4>3. QED
        BY <4>1, <4>2
    <3>4. QED
      BY <3>2, <3>3
  <2>4. QED
    BY <1>2, <2>2, <2>3 DEF RowSlot
<1>3. QED
  BY <1>1, <1>2

\* The slot of a kept position is one of the cache.
LEMMA KeptSlot ==
  ASSUME NEW c, Shape(c), NEW p \in KeptIn(c, c.end)
  PROVE  SlotForPosition(c, p) \in 0..(c.steps - 1)
<1>1. p \in 0..(c.end - 1)
  BY DEF KeptIn
<1>2. CASE window = 0
  BY <1>1, <1>2 DEF Shape, IsCache, SlotForPosition
<1>3. CASE window # 0
  BY <1>1, <1>3, RingSlot DEF Shape, IsCache
<1>4. QED
  BY <1>2, <1>3

-----------------------------------------------------------------------------
(* Import and export *)

\* A state on the host that fits a cache of so many steps, so many of them pinned.
Fits(state, steps, pin) ==
  /\ state.end \in Nat
  /\ state.valid \in 0..steps
  /\ state.row \in [0..(state.valid - 1) -> 0..(state.end - 1)]
  /\ window = 0 => state.valid = state.end
  /\ window # 0 => /\ pin < steps
                   /\ pin <= state.end
                   /\ state.valid = Smaller(steps, state.end)

\* Its rows are the kept positions, in order.
Ordered(state, pin) ==
  \A r \in 0..(state.valid - 1) :
    state.row[r] = StoredPosition(r, state.valid, state.end, pin)

Pin(pin) == IF window = 0 THEN 0 ELSE pin

LEMMA ImportIsGood ==
  ASSUME NEW steps \in Nat, steps > 0, NEW pin \in Nat, NEW state,
         Fits(state, steps, pin),
         NEW c, c = ImportState(NewCache(steps, pin), state),
         Unbroken(c) => Ordered(state, Pin(pin))
  PROVE  /\ Good(c)
         /\ c.steps = steps /\ c.pinned = Pin(pin)
         /\ c.end = state.end /\ c.valid = state.valid
<1> DEFINE first == NewCache(steps, pin)
           placed == [first EXCEPT !.end = state.end, !.valid = state.valid]
           To(x) == {r \in 0..(state.valid - 1) : RowSlot(placed, r) = x}
           Last(R) == CHOOSE r \in R : \A q \in R : q <= r
           slots == [x \in 0..(first.steps - 1) |->
                       IF To(x) = {} THEN Zero ELSE state.row[Last(To(x))]]
<1>1. c = [placed EXCEPT !.slots = slots]
  BY DEF ImportState
<1>2. /\ placed = [steps |-> steps, pinned |-> Pin(pin),
                   slots |-> [x \in 0..(steps - 1) |-> Zero],
                   valid |-> state.valid, end |-> state.end]
      /\ first.steps = steps
  <2> DEFINE zeros == [x \in 0..(steps - 1) |-> Zero]
  <2>1. first = [steps |-> steps, pinned |-> Pin(pin),
                 slots |-> zeros, valid |-> 0, end |-> 0]
    BY DEF NewCache, Pin
  <2> HIDE DEF first, zeros
  <2>2. placed = [steps |-> steps, pinned |-> Pin(pin), slots |-> zeros,
                  valid |-> state.valid, end |-> state.end]
    <3>1. PICK a : a = [first EXCEPT !.end = state.end]
      OBVIOUS
    <3>2. placed = [a EXCEPT !.valid = state.valid]
      BY <3>1
    <3>3. a = [steps |-> steps, pinned |-> Pin(pin), slots |-> zeros,
               valid |-> 0, end |-> state.end]
      BY <2>1, <3>1
    <3>4. QED
      BY <3>2, <3>3
  <2>3. first.steps = steps
    BY <2>1
  <2> HIDE DEF placed
  <2>4. QED
    BY <2>2, <2>3 DEF zeros
<1>a. /\ state.end \in Nat /\ state.valid \in 0..steps /\ state.valid \in Nat
      /\ state.valid <= state.end
      /\ Pin(pin) \in Nat
      /\ window = 0 => state.valid = state.end
      /\ window # 0 => /\ Pin(pin) < steps
                       /\ Pin(pin) <= state.end
                       /\ state.valid = Smaller(steps, state.end)
  BY DEF Fits, Pin, Smaller
<1>b. \A r \in 0..(state.valid - 1) : state.row[r] \in 0..(state.end - 1)
  BY DEF Fits
<1> HIDE DEF placed, first
<1>c. [x \in 0..(steps - 1) |-> Zero] \in [0..(steps - 1) -> Int]
  BY DEF Zero
<1>d. /\ placed.steps = steps /\ placed.pinned = Pin(pin)
      /\ placed.slots = [x \in 0..(steps - 1) |-> Zero]
      /\ placed.valid = state.valid /\ placed.end = state.end
      /\ placed = [steps |-> placed.steps, pinned |-> placed.pinned,
                   slots |-> placed.slots, valid |-> placed.valid, end |-> placed.end]
  BY <1>2
<1>e. Shape(placed)
  BY <1>a, <1>c, <1>d DEF Shape, IsCache
<1>3. ASSUME NEW r \in 0..(state.valid - 1)
      PROVE  To(RowSlot(placed, r)) = {r} /\ Last({r}) = r
  <2>1. ASSUME NEW q \in 0..(state.valid - 1), RowSlot(placed, q) = RowSlot(placed, r)
        PROVE  q = r
    <3>1. /\ StoredPosition(q, placed.valid, placed.end, placed.pinned)
               \in KeptIn(placed, placed.end)
          /\ StoredPosition(r, placed.valid, placed.end, placed.pinned)
               \in KeptIn(placed, placed.end)
          /\ SlotForPosition(placed,
               StoredPosition(q, placed.valid, placed.end, placed.pinned)) =
             SlotForPosition(placed,
               StoredPosition(r, placed.valid, placed.end, placed.pinned))
      BY <1>d, <1>e, <2>1, Rows
    <3>2. placed.end \in Nat
      BY <1>a, <1>d
    <3>3. StoredPosition(q, placed.valid, placed.end, placed.pinned) =
            StoredPosition(r, placed.valid, placed.end, placed.pinned)
      BY <1>e, <3>1, <3>2, SlotUnique
    <3>4. QED
      BY <1>a, <1>d, <3>3 DEF StoredPosition
  <2>2. \A q \in To(RowSlot(placed, r)) : q = r
    BY <2>1
  <2>3. r \in To(RowSlot(placed, r))
    OBVIOUS
  <2>4. To(RowSlot(placed, r)) = {r}
    BY <2>2, <2>3
  <2>5. Last({r}) = r
    BY <1>a
  <2>6. QED
    BY <2>4, <2>5
<1>4. slots \in [0..(steps - 1) -> Int]
  <2>1. ASSUME NEW x \in 0..(steps - 1), To(x) # {}
        PROVE  state.row[Last(To(x))] \in Int
    <3>1. PICK r \in 0..(state.valid - 1) : RowSlot(placed, r) = x
      BY <2>1
    <3>2. To(x) = {r} /\ Last({r}) = r
      BY <3>1, <1>3
    <3>3. state.row[r] \in Int
      BY <1>a, <1>b
    <3> HIDE DEF To, Last
    <3>4. QED
      BY <3>2, <3>3
  <2> HIDE DEF To, Last
  <2>2. \A x \in 0..(steps - 1) :
          (IF To(x) = {} THEN Zero ELSE state.row[Last(To(x))]) \in Int
    BY <2>1 DEF Zero
  <2>3. QED
    BY <1>2, <2>2
<1>5. /\ c.steps = steps /\ c.pinned = Pin(pin) /\ c.slots = slots
      /\ c.valid = state.valid /\ c.end = state.end
      /\ c = [steps |-> c.steps, pinned |-> c.pinned, slots |-> c.slots,
              valid |-> c.valid, end |-> c.end]
  <2> HIDE DEF slots
  <2>1. QED
    BY <1>1, <1>2
<1>f. \A x \in 0..(steps - 1) :
        c.slots[x] = IF To(x) = {} THEN Zero ELSE state.row[Last(To(x))]
  <2> HIDE DEF To, Last
  <2>1. QED
    BY <1>2, <1>5
<1> HIDE DEF slots
<1>6. Shape(c)
  BY <1>4, <1>5, <1>a DEF Shape, IsCache
<1>7. ASSUME NEW p \in KeptIn(c, c.end)
      PROVE  \E r \in 0..(state.valid - 1) :
               /\ StoredPosition(r, state.valid, state.end, Pin(pin)) = p
               /\ c.slots[SlotForPosition(c, p)] = state.row[r]
  <2>1. PICK r \in 0..(c.valid - 1) : StoredPosition(r, c.valid, c.end, c.pinned) = p
    BY <1>6, Rows
  <2>2. RowSlot(c, r) = SlotForPosition(c, p)
    BY <1>6, <2>1, Rows
  <2>3. RowSlot(placed, r) = RowSlot(c, r)
    BY <1>5, <1>d DEF RowSlot, SlotForPosition
  <2>4. SlotForPosition(c, p) \in 0..(steps - 1)
    BY <1>5, <1>6, KeptSlot
  <2>a. r \in 0..(state.valid - 1)
    BY <1>5, <2>1
  <2>5. To(RowSlot(placed, r)) = {r} /\ Last({r}) = r
    BY <1>3, <2>a
  <2> HIDE DEF To, Last
  <2>6. c.slots[SlotForPosition(c, p)] = state.row[r]
    BY <1>f, <2>2, <2>3, <2>4, <2>5
  <2>7. QED
    BY <1>5, <2>1, <2>6, <2>a
<1>8. Filled(c)
  BY <1>5, <1>7, <1>b DEF Filled
<1>9. Unbroken(c) => Exact(c)
  BY <1>7 DEF Exact, Ordered
<1>10. QED
  BY <1>5, <1>6, <1>8, <1>9 DEF Good

\* What a good cache exports has its rows in order.
LEMMA ExportIsOrdered ==
  ASSUME NEW c, Good(c)
  PROVE  /\ ExportState(c).end = c.end
         /\ ExportState(c).valid = c.valid
         /\ ExportState(c).row \in [0..(c.valid - 1) -> 0..(c.end - 1)]
         /\ Unbroken(c) => Ordered(ExportState(c), c.pinned)
<1>1. ASSUME NEW r \in 0..(c.valid - 1)
      PROVE  /\ c.slots[RowSlot(c, r)] \in 0..(c.end - 1)
             /\ Unbroken(c) => c.slots[RowSlot(c, r)] =
                                 StoredPosition(r, c.valid, c.end, c.pinned)
  <2>1. /\ StoredPosition(r, c.valid, c.end, c.pinned) \in KeptIn(c, c.end)
        /\ RowSlot(c, r) = SlotForPosition(c, StoredPosition(r, c.valid, c.end, c.pinned))
    BY Rows DEF Good
  <2>2. QED
    BY <2>1 DEF Good, Filled, Exact
<1>2. QED
  BY <1>1 DEF ExportState, Ordered

\* So has the state of a prefill.
LEMMA PrefillIsOrdered ==
  ASSUME NEW n \in Nat, NEW pin \in Nat
  PROVE  /\ PrefillState(n).end = n
         /\ PrefillState(n).valid = n
         /\ PrefillState(n).row \in [0..(n - 1) -> 0..(n - 1)]
         /\ Ordered(PrefillState(n), pin)
  BY DEF PrefillState, Ordered, StoredPosition
-----------------------------------------------------------------------------
(* Appends *)

LEMMA AppendShape ==
  ASSUME NEW c, Good(c), NEW k \in Nat, k > 0, FitsGraph(c, k),
         window \in Nat,
         NEW W \in Winners(c, k), NEW w, w = SetRows(c, W),
         NEW e, e = AdvanceAfterDirectAppend(w, k)
  PROVE  /\ Shape(e)
         /\ e.steps = c.steps /\ e.pinned = c.pinned /\ e.end = c.end + k
         /\ e.slots = w.slots
         /\ W \subseteq New(c, k)
         /\ New(c, k) \subseteq Nat
<1> DEFINE slots == [x \in 0..(c.steps - 1) |->
                       IF \E v \in W : SlotForPosition(c, v) = x
                       THEN CHOOSE v \in W : SlotForPosition(c, v) = x
                       ELSE c.slots[x]]
<1>1. /\ c = [steps |-> c.steps, pinned |-> c.pinned, slots |-> c.slots,
              valid |-> c.valid, end |-> c.end]
      /\ c.steps \in Nat /\ c.steps > 0 /\ c.pinned \in Nat /\ c.end \in Nat
      /\ c.slots \in [0..(c.steps - 1) -> Int] /\ c.valid \in 0..c.steps
  BY DEF Good, Shape, IsCache
<1>2. W \subseteq New(c, k) /\ New(c, k) \subseteq Nat
  BY <1>1 DEF Winners, New
<1>a. w = [c EXCEPT !.slots = slots]
  BY DEF SetRows
<1>4. slots \in [0..(c.steps - 1) -> Int]
  <2>1. ASSUME NEW x \in 0..(c.steps - 1), \E v \in W : SlotForPosition(c, v) = x
        PROVE  (CHOOSE v \in W : SlotForPosition(c, v) = x) \in Int
    BY <1>2, <2>1
  <2>2. \A x \in 0..(c.steps - 1) : c.slots[x] \in Int
    BY <1>1
  <2>3. QED
    BY <2>1, <2>2
<1> HIDE DEF slots
<1>3. w = [steps |-> c.steps, pinned |-> c.pinned, slots |-> slots,
           valid |-> c.valid, end |-> c.end]
  BY <1>1, <1>a
<1>5. e = [steps |-> c.steps, pinned |-> c.pinned, slots |-> slots,
           valid |-> IF window = 0 THEN c.valid + k ELSE Smaller(c.steps, c.valid + k),
           end |-> c.end + k]
  <2> DEFINE v == IF window = 0 THEN c.valid + k ELSE Smaller(c.steps, c.valid + k)
  <2>1. w.steps = c.steps /\ w.valid = c.valid /\ w.end = c.end
    BY <1>3
  <2>2. e = [w EXCEPT !.valid = v, !.end = c.end + k]
    BY <2>1, Zenon DEF AdvanceAfterDirectAppend
  <2> HIDE DEF v
  <2>3. e = [steps |-> c.steps, pinned |-> c.pinned, slots |-> slots,
             valid |-> v, end |-> c.end + k]
    <3>1. PICK a : a = [w EXCEPT !.valid = v]
      OBVIOUS
    <3>2. e = [a EXCEPT !.end = c.end + k]
      BY <2>2, <3>1
    <3>3. a = [steps |-> c.steps, pinned |-> c.pinned, slots |-> slots,
               valid |-> v, end |-> c.end]
      BY <1>3, <3>1
    <3>4. QED
      BY <3>2, <3>3
  <2>4. QED
    BY <2>3 DEF v
<1>b. /\ e.steps = c.steps /\ e.pinned = c.pinned /\ e.end = c.end + k
      /\ e.valid = IF window = 0 THEN c.valid + k ELSE Smaller(c.steps, c.valid + k)
      /\ e.slots = slots /\ w.slots = slots
      /\ e = [steps |-> e.steps, pinned |-> e.pinned, slots |-> e.slots,
              valid |-> e.valid, end |-> e.end]
  BY <1>3, <1>5
<1>c. /\ e.steps \in Nat /\ e.pinned \in Nat /\ e.end \in Nat
      /\ e.slots \in [0..(e.steps - 1) -> Int]
  BY <1>1, <1>4, <1>b
<1>d. e = [steps |-> e.steps, pinned |-> e.pinned, slots |-> e.slots,
           valid |-> e.valid, end |-> e.end]
  BY <1>b
<1>e. e.valid \in 0..e.steps => IsCache(e)
  BY <1>c, <1>d, Zenon DEF IsCache
<1>6. window = 0 => Shape(e)
  <2> HAVE window = 0
  <2>1. c.valid = c.end /\ c.valid + k <= c.steps
    BY DEF Good, Shape, FitsGraph
  <2>2. e.valid = e.end /\ e.valid \in 0..e.steps
    BY <1>1, <1>b, <2>1
  <2>3. IsCache(e)
    BY <1>e, <2>2
  <2>4. e.steps > 0
    BY <1>1, <1>b
  <2>5. QED
    BY <2>2, <2>3, <2>4 DEF Shape
<1>7. window # 0 => Shape(e)
  <2> HAVE window # 0
  <2>1. /\ c.pinned < c.steps /\ c.pinned <= c.end
        /\ c.valid = IF c.steps <= c.end THEN c.steps ELSE c.end
    BY DEF Good, Shape, Smaller
  <2>2. e.valid = Smaller(e.steps, e.end) /\ e.valid \in 0..e.steps
    BY <1>1, <1>b, <2>1 DEF Smaller
  <2>3. e.pinned < e.steps /\ e.pinned <= e.end /\ e.steps > 0
    BY <1>1, <1>b, <2>1
  <2>4. IsCache(e)
    BY <1>e, <2>2
  <2>5. QED
    BY <2>2, <2>3, <2>4 DEF Shape
<1>8. Shape(e)
  BY <1>6, <1>7
<1>9. QED
  BY <1>2, <1>8, <1>b

\* What set_rows leaves in each slot.
LEMMA SlotsSet ==
  ASSUME NEW c, IsCache(c), NEW W, NEW w, w = SetRows(c, W), NEW x \in 0..(c.steps - 1)
  PROVE  /\ (\E v \in W : SlotForPosition(c, v) = x) =>
              w.slots[x] \in W /\ SlotForPosition(c, w.slots[x]) = x
         /\ (~\E v \in W : SlotForPosition(c, v) = x) => w.slots[x] = c.slots[x]
<1> DEFINE slots == [y \in 0..(c.steps - 1) |->
                       IF \E v \in W : SlotForPosition(c, v) = y
                       THEN CHOOSE v \in W : SlotForPosition(c, v) = y
                       ELSE c.slots[y]]
<1>1. SetRows(c, W) = [c EXCEPT !.slots = slots]
  BY DEF SetRows
<1>2. slots[x] = IF \E v \in W : SlotForPosition(c, v) = x
                 THEN CHOOSE v \in W : SlotForPosition(c, v) = x
                 ELSE c.slots[x]
  OBVIOUS
<1> HIDE DEF slots
<1>3. c = [steps |-> c.steps, pinned |-> c.pinned, slots |-> c.slots,
           valid |-> c.valid, end |-> c.end]
  BY DEF IsCache
<1>4. w.slots[x] = slots[x]
  BY <1>1, <1>3
<1>5. CASE \E v \in W : SlotForPosition(c, v) = x
  <2>1. w.slots[x] = CHOOSE v \in W : SlotForPosition(c, v) = x
    BY <1>2, <1>4, <1>5
  <2>2. QED
    BY <1>5, <2>1
<1>6. CASE ~\E v \in W : SlotForPosition(c, v) = x
  BY <1>2, <1>4, <1>6
<1>7. QED
  BY <1>5, <1>6

LEMMA Longest ==
  /\ LongestAppend \in Nat \ {0}
  /\ \A k \in Suffixes : k <= LongestAppend
<1>1. /\ LongestAppend \in Suffixes
      /\ \A j \in Suffixes : j <= LongestAppend
  BY RingAssumption DEF LongestAppend
<1>2. QED
  BY <1>1, RingAssumption

\* Of the rows of an append one is in each slot they go to.
LEMMA Written ==
  ASSUME NEW c, Good(c), NEW k \in Nat, k > 0, FitsGraph(c, k),
         window \in Nat, NEW W \in Winners(c, k), NEW w, w = SetRows(c, W),
         NEW p \in New(c, k)
  PROVE  /\ SlotForPosition(c, p) \in 0..(c.steps - 1)
         /\ w.slots[SlotForPosition(c, p)] \in W
         /\ SlotForPosition(c, w.slots[SlotForPosition(c, p)]) = SlotForPosition(c, p)
<1>1. SlotForPosition(c, p) \in 0..(c.steps - 1)
  <2>1. p \in Nat /\ p < c.end + k /\ Shape(c)
    BY DEF New, Good, Shape, IsCache
  <2>2. CASE window = 0
    BY <2>1, <2>2 DEF SlotForPosition, Shape, IsCache, FitsGraph
  <2>3. CASE window # 0
    BY <2>1, <2>3, RingSlot
  <2>4. QED
    BY <2>2, <2>3
<1>2. \E v \in W : SlotForPosition(c, v) = SlotForPosition(c, p)
  BY DEF Winners
<1>3. IsCache(c)
  BY DEF Good, Shape
<1>4. QED
  BY <1>1, <1>2, <1>3, SlotsSet

\* A kept slot that an append does not reach is as it was.
LEMMA Untouched ==
  ASSUME NEW c, Good(c), NEW k \in Nat, k > 0, FitsGraph(c, k),
         window \in Nat, NEW W \in Winners(c, k), NEW w, w = SetRows(c, W),
         NEW p \in KeptIn(c, c.end)
  PROVE  /\ SlotForPosition(c, p) \in 0..(c.steps - 1)
         /\ \/ w.slots[SlotForPosition(c, p)] = c.slots[SlotForPosition(c, p)]
            \/ \E v \in W : SlotForPosition(c, v) = SlotForPosition(c, p)
         /\ \/ w.slots[SlotForPosition(c, p)] = c.slots[SlotForPosition(c, p)]
            \/ w.slots[SlotForPosition(c, p)] \in W
<1>1. SlotForPosition(c, p) \in 0..(c.steps - 1)
  BY KeptSlot DEF Good
<1>2. IsCache(c)
  BY DEF Good, Shape
<1>3. QED
  BY <1>1, <1>2, SlotsSet

LEMMA AppendIsGood ==
  ASSUME NEW c, Good(c), NEW k \in Nat, k > 0, k <= LongestAppend,
         FitsGraph(c, k), window \in Nat,
         NEW W \in Winners(c, k), NEW w, w = SetRows(c, W),
         NEW e, e = AdvanceAfterDirectAppend(w, k)
  PROVE  /\ Good(e)
         /\ KeptIn(e, e.end) \subseteq KeptIn(c, c.end) \cup New(c, k)
         /\ \A p \in KeptIn(c, c.end) \cup New(c, k) :
              w.slots[SlotForPosition(c, p)] \in 0..(e.end - 1)
         /\ Unbroken(e) => New(c, k) \subseteq KeptIn(e, e.end)
<1>1. /\ Shape(e)
      /\ e.steps = c.steps /\ e.pinned = c.pinned /\ e.end = c.end + k
      /\ e.slots = w.slots
      /\ W \subseteq New(c, k)
      /\ New(c, k) \subseteq Nat
  BY AppendShape
<1>2. /\ c.steps \in Nat /\ c.pinned \in Nat /\ c.end \in Nat
      /\ Shape(c) /\ Filled(c)
      /\ New(c, k) = c.end..(e.end - 1)
      /\ window # 0 => c.pinned < c.steps /\ c.pinned <= c.end
  BY <1>1 DEF Good, Shape, IsCache, New
<1>3. \A p : SlotForPosition(e, p) = SlotForPosition(c, p)
  BY <1>1 DEF SlotForPosition
<1>4. KeptIn(e, e.end) \subseteq KeptIn(c, c.end) \cup New(c, k)
  BY <1>1, <1>2 DEF KeptIn
<1>5. ASSUME NEW p \in KeptIn(c, c.end) \cup New(c, k)
      PROVE  w.slots[SlotForPosition(c, p)] \in 0..(e.end - 1)
  <2>1. W \subseteq 0..(e.end - 1)
    BY <1>1, <1>2
  <2>2. CASE p \in New(c, k)
    BY <2>1, <2>2, Written
  <2>3. CASE p \in KeptIn(c, c.end)
    <3>1. c.slots[SlotForPosition(c, p)] \in 0..(c.end - 1)
      BY <1>2, <2>3 DEF Filled
    <3>2. c.slots[SlotForPosition(c, p)] \in 0..(e.end - 1)
      BY <1>1, <1>2, <3>1
    <3>3. QED
      BY <2>1, <2>3, <3>2, Untouched
  <2>4. QED
    BY <2>2, <2>3
<1>6. Filled(e)
  BY <1>1, <1>3, <1>4, <1>5 DEF Filled
<1>7. Unbroken(e) => New(c, k) \subseteq KeptIn(e, e.end)
  BY <1>1, <1>2, Longest DEF Unbroken, KeptIn
<1>8. ASSUME Unbroken(e)
      PROVE  Exact(e)
  <2>1. Exact(c)
    <3>1. Unbroken(c)
      BY <1>1, <1>2, <1>8 DEF Unbroken
    <3>2. QED
      BY <3>1 DEF Good
  <2>2. ASSUME NEW p \in KeptIn(e, e.end)
        PROVE  w.slots[SlotForPosition(c, p)] = p
    <3>1. ASSUME NEW v \in W, SlotForPosition(c, v) = SlotForPosition(c, p)
          PROVE  v = p
      <4>1. v \in KeptIn(e, e.end)
        BY <1>1, <1>7, <1>8
      <4>2. SlotForPosition(e, v) = SlotForPosition(e, p)
        BY <1>3, <3>1
      <4>3. e.end \in Nat
        BY <1>1, <1>2
      <4>4. QED
        BY <1>1, <4>1, <4>2, <4>3, SlotUnique
    <3>2. CASE p \in New(c, k)
      BY <3>1, <3>2, Written
    <3>3. CASE p \in KeptIn(c, c.end) /\ p \notin New(c, k)
      <4>1. ~ \E v \in W : SlotForPosition(c, v) = SlotForPosition(c, p)
        BY <1>1, <3>1, <3>3
      <4>2. w.slots[SlotForPosition(c, p)] = c.slots[SlotForPosition(c, p)]
        BY <3>3, <4>1, Untouched
      <4>3. QED
        BY <2>1, <3>3, <4>2 DEF Exact
    <3>4. QED
      BY <1>4, <3>2, <3>3
  <2>3. QED
    BY <1>1, <1>3, <2>2 DEF Exact
<1>9. QED
  BY <1>1, <1>4, <1>5, <1>6, <1>7, <1>8 DEF Good

\* The cache was made for this window and this prompt.
Own(c) ==
  window # 0 => c.pinned = pinned /\ c.steps = CacheGraphCapacity(window)

\* The mask shows a row what was kept before its append, and the rows up to it.
LEMMA VisibleIs ==
  ASSUME NEW c, Shape(c), Own(c), NEW p
  PROVE  Visible(c, p) =
           {SlotForPosition(c, q) : q \in KeptIn(c, c.end) \cup (c.end..p)}
<1>1. \A r \in 0..(c.valid - 1) :
        StoredPosition(r, c.valid, c.end, pinned) =
          StoredPosition(r, c.valid, c.end, c.pinned)
  BY DEF Own, Shape, IsCache, StoredPosition
<1>2. {SlotForPosition(c, StoredPosition(r, c.valid, c.end, pinned)) :
         r \in 0..(c.valid - 1)} =
      {SlotForPosition(c, q) : q \in KeptIn(c, c.end)}
  BY <1>1, Rows
<1>3. QED
  BY <1>2 DEF Visible

\* What the rows of an append are computed from.
LEMMA Attends ==
  ASSUME NEW c, Good(c), Own(c), NEW k \in Nat, k > 0, k <= LongestAppend,
         FitsGraph(c, k), window \in Nat,
         NEW W \in Winners(c, k), NEW w, w = SetRows(c, W),
         NEW e, e = AdvanceAfterDirectAppend(w, k)
  PROVE  /\ Attended(c, w, k)[e.end - 1] \subseteq 0..(e.end - 1)
         /\ Unbroken(e) => Attended(c, w, k)[e.end - 1] = KeptIn(e, e.end)
         /\ e.end <= e.steps =>
              \A p \in New(c, k) : Attended(c, w, k)[p] = 0..p
<1>1. /\ Shape(e) /\ Good(e)
      /\ e.steps = c.steps /\ e.pinned = c.pinned /\ e.end = c.end + k
      /\ e.slots = w.slots
  BY AppendShape, AppendIsGood
<1>2. /\ c.steps \in Nat /\ c.pinned \in Nat /\ c.end \in Nat /\ Shape(c)
      /\ New(c, k) = c.end..(e.end - 1)
      /\ e.end \in Nat /\ e.end - 1 \in New(c, k)
      /\ window # 0 => c.pinned < c.steps /\ c.pinned <= c.end
  BY <1>1 DEF Good, Shape, IsCache, New
<1>3. \A p : SlotForPosition(e, p) = SlotForPosition(c, p)
  BY <1>1 DEF SlotForPosition
<1>4. \A p \in New(c, k) :
        Attended(c, w, k)[p] =
          {w.slots[SlotForPosition(c, q)] : q \in KeptIn(c, c.end) \cup (c.end..p)}
  <2>1. ASSUME NEW p \in New(c, k)
        PROVE  {w.slots[x] : x \in Visible(c, p)} =
                 {w.slots[SlotForPosition(c, q)] :
                    q \in KeptIn(c, c.end) \cup (c.end..p)}
    <3>1. Visible(c, p) =
            {SlotForPosition(c, q) : q \in KeptIn(c, c.end) \cup (c.end..p)}
      BY <1>2, VisibleIs
    <3>2. QED
      BY <3>1
  <2>2. QED
    BY <2>1 DEF Attended
<1>5. Attended(c, w, k)[e.end - 1] =
        {w.slots[SlotForPosition(c, q)] : q \in KeptIn(c, c.end) \cup New(c, k)}
  BY <1>2, <1>4
<1>6. Attended(c, w, k)[e.end - 1] \subseteq 0..(e.end - 1)
  BY <1>5, AppendIsGood
<1>7. ASSUME Unbroken(e)
      PROVE  \A q \in KeptIn(e, e.end) : w.slots[SlotForPosition(c, q)] = q
  BY <1>1, <1>3, <1>7 DEF Good, Exact
<1>8. ASSUME Unbroken(e)
      PROVE  Attended(c, w, k)[e.end - 1] = KeptIn(e, e.end)
  <2>1. KeptIn(e, e.end) \subseteq KeptIn(c, c.end) \cup New(c, k)
    BY AppendIsGood
  <2>2. ASSUME NEW q \in KeptIn(c, c.end) \cup New(c, k)
        PROVE  w.slots[SlotForPosition(c, q)] \in KeptIn(e, e.end)
    <3>1. CASE q \in KeptIn(e, e.end)
      BY <1>7, <1>8, <3>1
    <3>2. CASE q \notin KeptIn(e, e.end)
      <4>1. New(c, k) \subseteq KeptIn(e, e.end)
        BY <1>8, AppendIsGood
      <4> DEFINE R == c.steps - c.pinned
      <4>2. q \in KeptIn(c, c.end)
        BY <3>2, <4>1
      <4>3. /\ window # 0 /\ q \in Nat /\ q >= c.pinned
            /\ q + R \in New(c, k)
        <5>1. q \in 0..(c.end - 1) /\ (window = 0 \/ q < c.pinned \/ q >= c.end - R)
          BY <4>2 DEF KeptIn
        <5>2. q \in 0..(e.end - 1)
          BY <1>1, <1>2, <5>1
        <5>3. ~(window = 0 \/ q < c.pinned \/ q >= e.end - R)
          <6>1. ~(window = 0 \/ q < e.pinned \/ q >= e.end - (e.steps - e.pinned))
            BY <3>2, <5>2 DEF KeptIn
          <6>2. QED
            BY <1>1, <6>1
        <5>4. R \in Nat /\ R > 0 /\ q \in Nat
          BY <1>2, <5>1, <5>3
        <5>5. c.end \in Nat /\ e.end \in Nat /\ c.pinned \in Nat
          BY <1>2
        <5> HIDE DEF R
        <5>6. window # 0 /\ q >= c.pinned /\ q >= c.end - R /\ q < e.end - R
          BY <5>1, <5>3, <5>4, <5>5
        <5>7. q + R \in c.end..(e.end - 1)
          BY <5>4, <5>5, <5>6
        <5>8. QED
          BY <1>2, <5>4, <5>6, <5>7
      <4>4. SlotForPosition(c, q + R) = SlotForPosition(c, q)
        BY <1>2, <4>3, NextLap
      <4>5. q + R \in KeptIn(e, e.end)
        BY <4>1, <4>3
      <4> HIDE DEF R
      <4>6. QED
        BY <1>7, <1>8, <4>4, <4>5
    <3>3. QED
      BY <3>1, <3>2
  <2>3. QED
    BY <1>5, <1>7, <1>8, <2>1, <2>2
<1>9. ASSUME e.end <= e.steps, NEW p \in New(c, k)
      PROVE  Attended(c, w, k)[p] = 0..p
  <2>1. Unbroken(e)
    BY <1>9 DEF Unbroken
  <2>2. KeptIn(c, c.end) \cup (c.end..p) = 0..p
    BY <1>1, <1>2, <1>9 DEF KeptIn
  <2>3. ASSUME NEW q \in 0..p
        PROVE  q \in KeptIn(e, e.end)
    <3>1. q \in 0..(e.end - 1) /\ q < c.steps
      BY <1>1, <1>2, <1>9
    <3>2. window = 0 \/ q < e.pinned \/ q >= e.end - (e.steps - e.pinned)
      <4>1. /\ e.end \in Nat /\ e.steps \in Nat /\ e.pinned \in Nat /\ q \in Nat
            /\ e.end <= e.steps
        BY <1>1, <1>2, <1>9, <3>1
      <4>2. e.end - (e.steps - e.pinned) <= e.pinned
        BY <4>1
      <4>3. q < e.pinned \/ q >= e.pinned
        BY <4>1
      <4>4. QED
        BY <4>1, <4>2, <4>3
    <3>3. QED
      BY <3>1, <3>2 DEF KeptIn
  <2>4. \A q \in 0..p : w.slots[SlotForPosition(c, q)] = q
    BY <1>7, <2>1, <2>3
  <2>5. Attended(c, w, k)[p] = {w.slots[SlotForPosition(c, q)] : q \in 0..p}
    BY <1>4, <1>9, <2>2
  <2>6. QED
    BY <2>4, <2>5
<1>10. QED
  BY <1>6, <1>8, <1>9

-----------------------------------------------------------------------------
(* The invariant *)

\* A cached state in use has a good cache of its own request's, or the rows of
\* a prompt; one that is not has nothing.
Held(d) ==
  /\ Live(d) => /\ Good(cache[d])
                /\ Own(cache[d])
                /\ kind # "idle"
                /\ pending[d] = 0
  /\ ~Live(d) => seen[d] = Nothing
  /\ pending[d] > 0 => kind = "single"
  /\ cache[d].end <= cache[d].steps =>
       \A p \in DOMAIN seen[d] : seen[d][p] = 0..p

RingInv ==
  /\ TypeOK
  /\ \A d \in Decoders : Held(d)
  /\ kind = "single" => pinned = 0

LEMMA WindowType ==
  ASSUME TypeOK
  PROVE  window \in Nat /\ window <= ModelSteps
BY RingAssumption DEF TypeOK

LEMMA SameWindow ==
  ASSUME NEW c, window' = window
  PROVE  /\ Good(c) => Good(c)'
         /\ pinned' = pinned /\ Own(c) => Own(c)'
<1>1. Good(c) => Good(c)'
  BY DEF Good, Shape, Filled, Unbroken, Exact, KeptIn, SlotForPosition
<1>2. pinned' = pinned /\ Own(c) => Own(c)'
  BY DEF Own
<1>3. QED
  BY <1>1, <1>2

LEMMA Required ==
  ASSUME TypeOK, NEW n \in Nat
  PROVE  /\ RequiredCapacity(n) \in Nat /\ RequiredCapacity(n) > 0
         /\ window > 0 => RequiredCapacity(n) = CacheGraphCapacity(window)
         /\ window = 0 /\ n <= ModelSteps => n <= RequiredCapacity(n)
BY WindowType, Capacity DEF RequiredCapacity

\* An imported cache is as good as the state it is made from.
LEMMA ImportedIsGood ==
  ASSUME TypeOK, NEW n \in Nat, NEW pin \in Nat, NEW state, Importable(state.valid, n, pin),
         state.end \in Nat, state.valid \in Nat,
         state.row \in [0..(state.valid - 1) -> 0..(state.end - 1)],
         window = 0 => state.valid = state.end,
         window # 0 => /\ pin <= state.end
                       /\ state.valid = Smaller(RequiredCapacity(n), state.end),
         NEW c, c = ImportState(NewCache(RequiredCapacity(n), pin), state),
         Unbroken(c) => Ordered(state, Pin(pin))
  PROVE  /\ Good(c)
         /\ c.steps = RequiredCapacity(n) /\ c.steps \in Nat /\ c.steps > 0
         /\ c.pinned = Pin(pin)
         /\ c.end = state.end /\ c.valid = state.valid
<1>1. RequiredCapacity(n) \in Nat /\ RequiredCapacity(n) > 0
  BY Required
<1>2. Fits(state, RequiredCapacity(n), pin)
  BY <1>1, WindowType DEF Fits, Importable, Constructible
<1>3. QED
  BY <1>1, <1>2, ImportIsGood

\* The state that a live cache exports, or that a prefill has left.
LEMMA HostStateIs ==
  ASSUME RingInv, NEW d \in Decoders, InUse(d)
  PROVE  /\ HostState(d).end = EndOf(d) /\ EndOf(d) \in Nat
         /\ HostState(d).valid \in Nat
         /\ HostState(d).row \in
              [0..(HostState(d).valid - 1) -> 0..(HostState(d).end - 1)]
         /\ window = 0 => HostState(d).valid = HostState(d).end
         /\ Live(d) => HostState(d) = ExportState(cache[d])
         /\ ~Live(d) => /\ HostState(d) = PrefillState(pending[d])
                        /\ HostState(d).valid = HostState(d).end
                        /\ kind = "single" /\ pinned = 0
<1>1. CASE Live(d)
  <2>1. Good(cache[d])
    BY <1>1 DEF RingInv, Held
  <2>2. HostState(d) = ExportState(cache[d]) /\ EndOf(d) = cache[d].end
    BY <1>1 DEF HostState, EndOf
  <2>3. /\ cache[d].end \in Nat /\ cache[d].valid \in Nat
        /\ window = 0 => cache[d].valid = cache[d].end
    BY <2>1 DEF Good, Shape, IsCache
  <2>4. QED
    BY <1>1, <2>1, <2>2, <2>3, ExportIsOrdered
<1>2. CASE ~Live(d)
  <2>1. pending[d] \in Nat /\ pending[d] > 0
    BY <1>2 DEF InUse, RingInv, TypeOK
  <2>2. kind = "single" /\ pinned = 0
    BY <2>1 DEF RingInv, Held
  <2>3. HostState(d) = PrefillState(pending[d]) /\ EndOf(d) = pending[d]
    BY <1>2 DEF HostState, EndOf
  <2>4. QED
    BY <1>2, <2>1, <2>2, <2>3, PrefillIsOrdered
<1>3. QED
  BY <1>1, <1>2

LEMMA PreparedIsGood ==
  ASSUME RingInv, NEW d \in Decoders, InUse(d), NEW n \in Nat,
         Preparable(d, n), NEW c, c = Prepared(d, n)
  PROVE  Good(c) /\ Own(c) /\ c.end = EndOf(d)
<1>1. CASE CanKeep(d, n)
  <2>1. Live(d) /\ c = cache[d]
    BY <1>1 DEF CanKeep, Prepared
  <2>2. QED
    BY <2>1 DEF RingInv, Held, EndOf
<1>2. CASE ~CanKeep(d, n)
  <2> DEFINE state == HostState(d)
  <2>1. /\ c = ImportState(NewCache(RequiredCapacity(n), pinned), state)
        /\ Importable(state.valid, n, pinned)
        /\ TypeOK /\ pinned \in Nat
    BY <1>2 DEF Prepared, Imported, Preparable, RingInv, TypeOK
  <2>2. window \in Nat /\ RequiredCapacity(n) \in Nat /\ RequiredCapacity(n) > 0
    BY <2>1, Required, WindowType
  <2>3. Live(d) => window = 0
    <3>1. ASSUME Live(d), window # 0
          PROVE  CanKeep(d, n)
      <4>1. cache[d].steps = CacheGraphCapacity(window)
        BY <3>1 DEF RingInv, Held, Own
      <4>2. RequiredCapacity(n) = CacheGraphCapacity(window)
        BY <2>1, <2>2, <3>1, Required
      <4>3. QED
        BY <2>2, <3>1, <4>1, <4>2 DEF CanKeep
    <3>2. QED
      BY <1>2, <3>1
  <2>4. /\ state.end = EndOf(d) /\ state.end \in Nat /\ state.valid \in Nat
        /\ state.row \in [0..(state.valid - 1) -> 0..(state.end - 1)]
        /\ window = 0 => state.valid = state.end
        /\ ~Live(d) => state.valid = state.end /\ pinned = 0
        /\ ~Live(d) => state = PrefillState(pending[d])
        /\ Live(d) => state = ExportState(cache[d])
    BY HostStateIs
  <2>5. window # 0 => /\ pinned <= state.end
                      /\ state.valid = Smaller(RequiredCapacity(n), state.end)
    <3> HIDE DEF state
    <3>1. state.valid <= RequiredCapacity(n)
      BY <2>1 DEF Importable
    <3>2. QED
      BY <2>2, <2>3, <2>4, <3>1 DEF Smaller
  <2>6. Ordered(state, Pin(pinned))
    <3>1. CASE ~Live(d)
      <4>1. pending[d] \in Nat /\ Pin(pinned) \in Nat
        BY <2>1 DEF TypeOK, Pin
      <4>2. QED
        BY <2>4, <3>1, <4>1, PrefillIsOrdered
    <3>2. CASE Live(d)
      <4>1. window = 0 /\ Good(cache[d])
        BY <2>3, <3>2 DEF RingInv, Held
      <4>2. Ordered(state, cache[d].pinned)
        BY <2>4, <3>2, <4>1, ExportIsOrdered DEF Unbroken
      <4> HIDE DEF state
      <4>3. state.valid = state.end /\ state.end \in Nat
        BY <2>4, <4>1
      <4>4. QED
        BY <4>2, <4>3 DEF Ordered, StoredPosition
    <3>3. QED
      BY <3>1, <3>2
  <2> HIDE DEF state
  <2>7. /\ Good(c) /\ c.steps = RequiredCapacity(n) /\ c.pinned = Pin(pinned)
        /\ c.end = state.end
    BY <2>1, <2>4, <2>5, <2>6, ImportedIsGood
  <2>8. Own(c)
    BY <2>1, <2>2, <2>7, Required DEF Own, Pin
  <2>9. QED
    BY <2>4, <2>7, <2>8
<1>3. QED
  BY <1>1, <1>2

\* What an append makes of the cache it works on.
LEMMA AppendMakes ==
  ASSUME RingInv, NEW d \in Decoders, NEW k \in Nat, k > 0, k <= LongestAppend,
         Append(d, k)
  PROVE  \E e, f :
           /\ cache' = [cache EXCEPT ![d] = e]
           /\ seen' = [seen EXCEPT ![d] = f]
           /\ Good(e) /\ Own(e) /\ e.end = EndOf(d) + k
           /\ f # Nothing
           /\ f[e.end - 1] \subseteq 0..(e.end - 1)
           /\ Unbroken(e) => f[e.end - 1] = KeptIn(e, e.end)
           /\ e.end <= e.steps => \A p \in DOMAIN f : f[p] = 0..p
<1>1. InUse(d) /\ Preparable(d, Wanted(d, k)) /\ window \in Nat
  BY WindowType DEF Append, RingInv
<1>2. EndOf(d) \in Nat
  BY <1>1, HostStateIs
<1>3. Wanted(d, k) \in Nat
  BY <1>2, RingAssumption DEF Wanted, StreamCapacity, Larger, Smaller
<1>4. PICK c : c = Prepared(d, Wanted(d, k))
  OBVIOUS
<1>5. Good(c) /\ Own(c) /\ c.end = EndOf(d)
  BY <1>1, <1>3, <1>4, PreparedIsGood
<1>6. PICK W \in Winners(c, k) :
        /\ FitsGraph(c, k)
        /\ cache' = [cache EXCEPT ![d] = AdvanceAfterDirectAppend(SetRows(c, W), k)]
        /\ seen' = [seen EXCEPT ![d] = Attended(c, SetRows(c, W), k)]
  BY <1>4 DEF Append
<1>7. PICK w : w = SetRows(c, W)
  OBVIOUS
<1>8. PICK e : e = AdvanceAfterDirectAppend(w, k)
  OBVIOUS
<1>9. PICK f : f = Attended(c, w, k)
  OBVIOUS
<1>10. /\ Good(e) /\ e.end = c.end + k
       /\ e.steps = c.steps /\ e.pinned = c.pinned
  <2>1. /\ Good(c) /\ FitsGraph(c, k) /\ window \in Nat
        /\ w = SetRows(c, W) /\ e = AdvanceAfterDirectAppend(w, k)
    BY <1>1, <1>5, <1>6, <1>7, <1>8
  <2>2. Good(e)
    BY <2>1, AppendIsGood
  <2>3. e.end = c.end + k /\ e.steps = c.steps /\ e.pinned = c.pinned
    BY <2>1, AppendShape
  <2>4. QED
    BY <2>2, <2>3
<1>11. /\ f[e.end - 1] \subseteq 0..(e.end - 1)
       /\ Unbroken(e) => f[e.end - 1] = KeptIn(e, e.end)
       /\ e.end <= e.steps => \A p \in New(c, k) : f[p] = 0..p
  BY <1>1, <1>5, <1>6, <1>7, <1>8, <1>9, Attends
<1>12. DOMAIN f = New(c, k) /\ c.end \in New(c, k)
  BY <1>2, <1>5, <1>9 DEF Attended, New
<1>13. f # Nothing
  BY <1>12 DEF Nothing
<1>14. Own(e)
  BY <1>5, <1>10 DEF Own
<1>15. /\ cache' = [cache EXCEPT ![d] = e]
       /\ seen' = [seen EXCEPT ![d] = f]
  BY <1>6, <1>7, <1>8, <1>9
<1>16. e.end = EndOf(d) + k
  BY <1>5, <1>10
<1>17. e.end <= e.steps => \A p \in DOMAIN f : f[p] = 0..p
  BY <1>11, <1>12
<1>18. QED
  BY <1>10, <1>11, <1>13, <1>14, <1>15, <1>16, <1>17, Zenon

LEMMA Unmoved ==
  ASSUME RingInv, NEW d \in Decoders, window' = window, kind' = kind,
         pinned' = pinned, cache'[d] = cache[d], seen'[d] = seen[d],
         pending'[d] = pending[d]
  PROVE  Held(d)' /\ IsCache(cache'[d])
<1>1. Held(d) /\ IsCache(cache[d])
  BY DEF RingInv, TypeOK
<1>2. PICK c : c = cache[d]
  OBVIOUS
<1>3. Live(d) => Good(c)' /\ Own(c)'
  BY <1>1, <1>2, SameWindow DEF Held
<1>4. Live(d) => Good(cache[d])' /\ Own(cache[d])'
  BY <1>2, <1>3
<1>5. QED
  BY <1>1, <1>4 DEF Held, Live

LEMMA Emptied ==
  ASSUME NEW d \in Decoders, cache'[d] = NoCache, seen'[d] = Nothing,
         pending'[d] = 0
  PROVE  Held(d)' /\ IsCache(cache'[d])
<1>1. IsCache(NoCache) /\ NoCache.steps = 0
  BY DEF IsCache, NoCache
<1>2. DOMAIN Nothing = {}
  BY DEF Nothing
<1>3. QED
  BY <1>1, <1>2 DEF Held, Live

LEMMA Moved ==
  ASSUME NEW d \in Decoders, NEW e, NEW f, window' = window,
         cache'[d] = e, seen'[d] = f, pending'[d] = 0, kind' # "idle",
         Good(e), Own(e)',
         e.end <= e.steps => \A p \in DOMAIN f : f[p] = 0..p
  PROVE  Held(d)' /\ IsCache(cache'[d])
<1>1. IsCache(e) /\ e.steps > 0
  BY DEF Good, Shape
<1>2. Good(e)'
  BY SameWindow
<1>3. Good(cache[d])' /\ Own(cache[d])'
  BY <1>2
<1>4. QED
  BY <1>1, <1>3 DEF Held, Live

\* The cache that a stream begins with.
LEMMA StreamBegins ==
  ASSUME RingInv, NEW d \in Decoders, NEW n \in Prompts, BeginStream(d, n)
  PROVE  \E e : /\ cache' = [cache EXCEPT ![d] = e]
                /\ Good(e) /\ Own(e)' /\ e.end = n
<1> DEFINE asked == StreamCapacity(n + 1)
<1>1. n \in Nat /\ n > 0
  BY RingAssumption
<1>2. asked \in Nat
  BY <1>1, RingAssumption DEF StreamCapacity, Larger, Smaller
<1>3. Importable(n, asked, n) /\ TypeOK
  BY DEF BeginStream, RingInv
<1> HIDE DEF asked
<1>4. RequiredCapacity(asked) \in Nat /\ RequiredCapacity(asked) > 0
  BY <1>2, <1>3, Required
<1>5. PICK state : state = PrefillState(n)
  OBVIOUS
<1>6. /\ state.end = n /\ state.valid = n
      /\ state.row \in [0..(state.valid - 1) -> 0..(state.end - 1)]
  BY <1>1, <1>5, PrefillIsOrdered
<1>7. Ordered(state, Pin(n))
  BY <1>1, <1>5, PrefillIsOrdered DEF Pin
<1>8. window # 0 => /\ n <= state.end
                    /\ state.valid = Smaller(RequiredCapacity(asked), state.end)
  BY <1>1, <1>3, <1>4, <1>6 DEF Importable, Smaller
<1>9. PICK e : e = ImportState(NewCache(RequiredCapacity(asked), n), state)
  OBVIOUS
<1>10. /\ Good(e) /\ e.steps = RequiredCapacity(asked) /\ e.pinned = Pin(n)
       /\ e.end = n
  <2>1. /\ Importable(state.valid, asked, n)
        /\ state.end \in Nat /\ state.valid \in Nat /\ state.valid = state.end
    BY <1>1, <1>3, <1>6
  <2>2. state.row \in [0..(state.valid - 1) -> 0..(state.end - 1)]
    BY <1>6
  <2>3. /\ Good(e) /\ e.steps = RequiredCapacity(asked) /\ e.pinned = Pin(n)
        /\ e.end = state.end
    BY <1>1, <1>2, <1>3, <1>7, <1>8, <1>9, <2>1, <2>2, ImportedIsGood
  <2>4. QED
    BY <1>6, <2>3
<1>11. cache' = [cache EXCEPT ![d] = e]
  BY <1>5, <1>9 DEF BeginStream, asked
<1>12. Own(e)'
  <2>1. window' = window /\ pinned' = n /\ window \in Nat
    BY <1>3, WindowType DEF BeginStream
  <2>2. window # 0 => e.pinned = n /\ e.steps = CacheGraphCapacity(window)
    BY <1>2, <1>3, <1>10, <2>1, Required DEF Pin
  <2>3. QED
    BY <2>1, <2>2 DEF Own
<1>13. QED
  BY <1>10, <1>11, <1>12

\* The cache of a beam taken twice.
LEMMA Cloned ==
  ASSUME RingInv, NEW d \in Decoders, NEW x \in Decoders, Clone(d, x)
  PROVE  \E e : /\ cache' = [cache EXCEPT ![x] = e]
                /\ Good(e) /\ Own(e) /\ e.end = EndOf(d)
<1> DEFINE asked == EndOf(d) + 1
<1>1. PICK c : c = cache[d]
  OBVIOUS
<1>2. /\ Good(c) /\ Own(c) /\ TypeOK /\ pinned = 0 /\ EndOf(d) = c.end
      /\ Importable(c.valid, asked, pinned)
      /\ cache' = [cache EXCEPT ![x] = Imported(ExportState(c), asked)]
  BY <1>1 DEF Clone, RingInv, Held, EndOf
<1>3. /\ c.end \in Nat /\ c.valid \in Nat /\ c.steps \in Nat /\ asked \in Nat
      /\ window = 0 => c.valid = c.end
      /\ window # 0 => c.valid = Smaller(c.steps, c.end)
  BY <1>2 DEF Good, Shape, IsCache
<1> HIDE DEF asked
<1>4. /\ window \in Nat /\ RequiredCapacity(asked) \in Nat
      /\ window # 0 => /\ RequiredCapacity(asked) = c.steps
                       /\ RequiredCapacity(asked) = CacheGraphCapacity(window)
                       /\ c.pinned = 0
  BY <1>2, <1>3, WindowType, Required DEF Own
<1>5. PICK state : state = ExportState(c)
  OBVIOUS
<1>6. /\ state.end = c.end /\ state.valid = c.valid
      /\ state.row \in [0..(state.valid - 1) -> 0..(state.end - 1)]
      /\ Unbroken(c) => Ordered(state, c.pinned)
  BY <1>2, <1>5, ExportIsOrdered
<1>7. PICK e : e = ImportState(NewCache(RequiredCapacity(asked), pinned), state)
  OBVIOUS
<1>8. Unbroken(c) => Ordered(state, 0)
  <2>1. CASE window = 0
    BY <1>3, <1>6, <2>1 DEF Ordered, StoredPosition
  <2>2. CASE window # 0
    BY <1>4, <1>6, <2>2
  <2>3. QED
    BY <2>1, <2>2
<1>9. Unbroken(e) => Ordered(state, Pin(pinned))
  <2>1. Pin(pinned) = 0
    BY <1>2 DEF Pin
  <2>3. CASE window = 0
    BY <1>8, <2>1, <2>3 DEF Unbroken
  <2>4. CASE window # 0
    <3>1. e.steps = c.steps /\ e.pinned = 0 /\ e.end = c.end
      <4>1. NewCache(RequiredCapacity(asked), pinned) =
              [steps |-> c.steps, pinned |-> 0,
               slots |-> [y \in 0..(c.steps - 1) |-> Zero], valid |-> 0, end |-> 0]
        BY <1>2, <1>4, <2>4 DEF NewCache
      <4>2. PICK first : first = NewCache(RequiredCapacity(asked), pinned)
        OBVIOUS
      <4>3. PICK placed : placed = [first EXCEPT !.end = state.end,
                                                 !.valid = state.valid]
        OBVIOUS
      <4>4. PICK slots : e = [placed EXCEPT !.slots = slots]
        BY <1>7, <4>2, <4>3 DEF ImportState
      <4>5. placed.steps = c.steps /\ placed.pinned = 0 /\ placed.end = state.end
        BY <4>1, <4>2, <4>3
      <4>6. QED
        BY <1>6, <4>4, <4>5
    <3>2. QED
      BY <1>4, <1>8, <2>1, <2>4, <3>1 DEF Unbroken
  <2>5. QED
    BY <2>3, <2>4
<1>10. /\ Good(e) /\ e.steps = RequiredCapacity(asked) /\ e.pinned = Pin(pinned)
       /\ e.end = c.end
  <2>1. window # 0 => /\ pinned <= state.end
                      /\ state.valid = Smaller(RequiredCapacity(asked), state.end)
    BY <1>2, <1>3, <1>4, <1>6
  <2>2. pinned \in Nat /\ Importable(state.valid, asked, pinned)
    BY <1>2, <1>6
  <2>3. QED
    BY <1>2, <1>3, <1>6, <1>7, <1>9, <2>1, <2>2, ImportedIsGood
<1>11. Own(e)
  BY <1>2, <1>4, <1>10 DEF Own, Pin
<1>12. cache' = [cache EXCEPT ![x] = e]
  BY <1>2, <1>5, <1>7 DEF Imported
<1>13. QED
  BY <1>2, <1>10, <1>11, <1>12

-----------------------------------------------------------------------------
(* Theorems *)

\* A decoder that has not begun satisfies the invariant.
THEOREM RingInit == Init => RingInv
<1> SUFFICES ASSUME Init PROVE RingInv
  OBVIOUS
<1>1. IsCache(NoCache) /\ NoCache.steps = 0
  BY DEF IsCache, NoCache
<1>2. TypeOK
  BY <1>1 DEF Init, TypeOK
<1>3. ASSUME NEW d \in Decoders PROVE Held(d)
  BY <1>1 DEF Init, Held, Live, Nothing
<1>4. QED
  BY <1>2, <1>3 DEF RingInv, Init

LEMMA AppendKeeps ==
  ASSUME RingInv, NEW d \in Decoders, NEW k \in Nat, k > 0, k <= LongestAppend,
         Append(d, k)
  PROVE  RingInv'
<1>1. PICK e, f :
        /\ cache' = [cache EXCEPT ![d] = e]
        /\ seen' = [seen EXCEPT ![d] = f]
        /\ Good(e) /\ Own(e)
        /\ e.end <= e.steps => \A p \in DOMAIN f : f[p] = 0..p
  BY AppendMakes
<1>2. /\ window' = window /\ streaming' = streaming /\ kind' = kind
      /\ pinned' = pinned /\ pending' = [pending EXCEPT ![d] = 0]
      /\ InUse(d)
  BY DEF Append
<1>3. TypeOK
  BY DEF RingInv
<1>4. kind # "idle"
  BY <1>2 DEF RingInv, Held, InUse
<1>5. /\ cache'[d] = e /\ seen'[d] = f /\ pending'[d] = 0
      /\ \A x \in Decoders \ {d} : /\ cache'[x] = cache[x]
                                   /\ seen'[x] = seen[x]
                                   /\ pending'[x] = pending[x]
      /\ cache' = [x \in Decoders |-> cache'[x]]
      /\ seen' = [x \in Decoders |-> seen'[x]]
      /\ pending' \in [Decoders -> Nat]
  BY <1>1, <1>2, <1>3 DEF TypeOK
<1>6. Own(e)'
  BY <1>1, <1>2, SameWindow
<1>7. ASSUME NEW x \in Decoders PROVE Held(x)' /\ IsCache(cache'[x])
  <2>1. CASE x = d
    BY <1>1, <1>2, <1>4, <1>5, <1>6, <2>1, Moved
  <2>2. CASE x # d
    BY <1>2, <1>5, <2>2, Unmoved
  <2>3. QED
    BY <2>1, <2>2
<1>8. TypeOK'
  BY <1>2, <1>3, <1>5, <1>7 DEF TypeOK
<1>9. QED
  BY <1>2, <1>7, <1>8 DEF RingInv

LEMMA BeginStreamKeeps ==
  ASSUME RingInv, NEW d \in Decoders, NEW n \in Prompts, BeginStream(d, n)
  PROVE  RingInv'
<1>1. PICK e : cache' = [cache EXCEPT ![d] = e] /\ Good(e) /\ Own(e)'
  BY StreamBegins
<1>2. /\ window' = window /\ streaming' = streaming /\ kind = "idle"
      /\ kind' = "stream" /\ pinned' = n /\ pending' = pending /\ seen' = seen
  BY DEF BeginStream
<1>3. TypeOK /\ n \in Nat
  BY RingAssumption DEF RingInv
<1>4. \A x \in Decoders : ~Live(x) /\ pending[x] = 0 /\ seen[x] = Nothing
  BY <1>2 DEF RingInv, Held, TypeOK
<1>5. /\ cache'[d] = e
      /\ \A x \in Decoders \ {d} : cache'[x] = cache[x]
      /\ cache' = [x \in Decoders |-> cache'[x]]
  BY <1>1, <1>3 DEF TypeOK
<1>6. DOMAIN Nothing = {}
  BY DEF Nothing
<1>7. ASSUME NEW x \in Decoders PROVE Held(x)' /\ IsCache(cache'[x])
  <2>1. CASE x = d
    BY <1>1, <1>2, <1>4, <1>5, <1>6, <2>1, Moved
  <2>2. CASE x # d
    BY <1>2, <1>3, <1>4, <1>5, <1>6, <2>2 DEF Held, Live, TypeOK
  <2>3. QED
    BY <2>1, <2>2
<1>8. TypeOK'
  BY <1>2, <1>3, <1>5, <1>7 DEF TypeOK
<1>9. QED
  BY <1>2, <1>7, <1>8 DEF RingInv

LEMMA CloneKeeps ==
  ASSUME RingInv, NEW d \in Decoders, NEW x \in Decoders, Clone(d, x)
  PROVE  RingInv'
<1>1. PICK e : cache' = [cache EXCEPT ![x] = e] /\ Good(e) /\ Own(e)
  BY Cloned
<1>2. /\ window' = window /\ streaming' = streaming /\ kind = "single"
      /\ kind' = kind /\ pinned' = pinned /\ pending' = pending /\ seen' = seen
      /\ ~Live(x) /\ ~(pending[x] > 0)
  BY DEF Clone, InUse
<1>3. TypeOK /\ pending[x] = 0 /\ seen[x] = Nothing
  BY <1>2 DEF RingInv, Held, TypeOK
<1>4. /\ cache'[x] = e
      /\ \A y \in Decoders \ {x} : cache'[y] = cache[y]
      /\ cache' = [y \in Decoders |-> cache'[y]]
  BY <1>1, <1>3 DEF TypeOK
<1>5. DOMAIN Nothing = {} /\ Own(e)'
  BY <1>1, <1>2, SameWindow DEF Nothing
<1>6. ASSUME NEW y \in Decoders PROVE Held(y)' /\ IsCache(cache'[y])
  <2>1. CASE y = x
    BY <1>1, <1>2, <1>3, <1>4, <1>5, <2>1, Moved
  <2>2. CASE y # x
    BY <1>2, <1>4, <2>2, Unmoved
  <2>3. QED
    BY <2>1, <2>2
<1>7. TypeOK'
  BY <1>2, <1>3, <1>4, <1>6 DEF TypeOK
<1>8. QED
  BY <1>2, <1>6, <1>7 DEF RingInv

\* Steps that put no cache anywhere: those in D forget, the others stay.
LEMMA ForgetKeeps ==
  ASSUME RingInv, NEW D \in SUBSET Decoders, Forget(D), kind' = kind
  PROVE  RingInv'
<1>1. TypeOK
  BY DEF RingInv
<1>2. /\ window' = window /\ streaming' = streaming /\ pinned' = pinned
      /\ \A x \in D : cache'[x] = NoCache /\ seen'[x] = Nothing /\ pending'[x] = 0
      /\ \A x \in Decoders \ D : /\ cache'[x] = cache[x]
                                 /\ seen'[x] = seen[x]
                                 /\ pending'[x] = pending[x]
      /\ cache' = [x \in Decoders |-> cache'[x]]
      /\ seen' = [x \in Decoders |-> seen'[x]]
      /\ pending' \in [Decoders -> Nat]
  BY <1>1 DEF Forget, TypeOK
<1>3. ASSUME NEW x \in Decoders PROVE Held(x)' /\ IsCache(cache'[x])
  <2>1. CASE x \in D
    BY <1>2, <2>1, Emptied
  <2>2. CASE x \notin D
    BY <1>2, <2>2, Unmoved
  <2>3. QED
    BY <2>1, <2>2
<1>4. TypeOK'
  BY <1>1, <1>2, <1>3 DEF TypeOK
<1>5. QED
  BY <1>2, <1>3, <1>4 DEF RingInv

LEMMA EndKeeps ==
  ASSUME RingInv, End
  PROVE  RingInv'
<1>1. TypeOK
  BY DEF RingInv
<1>2. /\ window' = window /\ streaming' = streaming /\ pinned' = pinned
      /\ kind' = "idle"
      /\ \A x \in Decoders : cache'[x] = NoCache /\ seen'[x] = Nothing /\ pending'[x] = 0
      /\ cache' = [x \in Decoders |-> cache'[x]]
      /\ seen' = [x \in Decoders |-> seen'[x]]
      /\ pending' \in [Decoders -> Nat]
  BY DEF End, Forget
<1>3. ASSUME NEW x \in Decoders PROVE Held(x)' /\ IsCache(cache'[x])
  BY <1>2, Emptied
<1>4. TypeOK'
  BY <1>1, <1>2, <1>3 DEF TypeOK
<1>5. QED
  BY <1>2, <1>3, <1>4 DEF RingInv

LEMMA BeginSingleKeeps ==
  ASSUME RingInv, NEW D \in SUBSET Decoders, NEW n \in Prompts, BeginSingle(D, n)
  PROVE  RingInv'
<1>1. TypeOK /\ n \in Nat
  BY RingAssumption DEF RingInv
<1>2. /\ window' = window /\ streaming' = streaming /\ pinned' = 0
      /\ kind = "idle" /\ kind' = "single" /\ cache' = cache /\ seen' = seen
      /\ pending' \in [Decoders -> Nat]
  BY <1>1 DEF BeginSingle
<1>3. ASSUME NEW x \in Decoders PROVE Held(x)'
  <2>1. ~Live(x) /\ seen[x] = Nothing
    BY <1>2 DEF RingInv, Held
  <2>2. DOMAIN Nothing = {}
    BY DEF Nothing
  <2>3. QED
    BY <1>2, <2>1, <2>2 DEF Held, Live
<1>4. TypeOK'
  BY <1>1, <1>2 DEF TypeOK
<1>5. QED
  BY <1>2, <1>3, <1>4 DEF RingInv

LEMMA PromptTooLongKeeps ==
  ASSUME RingInv, NEW n \in Prompts, PromptTooLong(n)
  PROVE  RingInv'
<1>1. TypeOK /\ n \in Nat
  BY RingAssumption DEF RingInv
<1>2. /\ window' = window /\ streaming' = streaming /\ pinned' = n
      /\ kind = "idle" /\ kind' = kind /\ cache' = cache /\ seen' = seen
      /\ pending' = pending
  BY DEF PromptTooLong
<1>3. ASSUME NEW x \in Decoders PROVE Held(x)'
  <2>1. ~Live(x) /\ Held(x)
    BY <1>2 DEF RingInv, Held
  <2>2. QED
    BY <1>2, <2>1 DEF Held, Live
<1>4. TypeOK'
  BY <1>1, <1>2 DEF TypeOK
<1>5. QED
  BY <1>2, <1>3, <1>4 DEF RingInv

\* Every step preserves the invariant.
THEOREM RingStep == RingInv /\ [Next]_vars => RingInv'
<1> SUFFICES ASSUME RingInv, [Next]_vars PROVE RingInv'
  OBVIOUS
<1>1. ASSUME NEW d \in Decoders, NEW n \in Prompts, BeginStream(d, n)
      PROVE  RingInv'
  BY <1>1, BeginStreamKeeps
<1>2. ASSUME NEW n \in Prompts, PromptTooLong(n)
      PROVE  RingInv'
  BY <1>2, PromptTooLongKeeps
<1>3. ASSUME NEW D \in SUBSET Decoders, NEW n \in Prompts, BeginSingle(D, n)
      PROVE  RingInv'
  BY <1>3, BeginSingleKeeps
<1>4. ASSUME NEW d \in Decoders, Step(d)
      PROVE  RingInv'
  BY <1>4, Longest, AppendKeeps DEF Step
<1>5. ASSUME NEW d \in Decoders, NEW k \in Suffixes, Suffix(d, k)
      PROVE  RingInv'
  BY <1>5, Longest, AppendKeeps, RingAssumption DEF Suffix
<1>6. ASSUME NEW d \in Decoders, NEW e \in Decoders, Clone(d, e)
      PROVE  RingInv'
  BY <1>6, CloneKeeps
<1>7. ASSUME NEW d \in Decoders, DropBeam(d)
      PROVE  RingInv'
  BY <1>7, ForgetKeeps DEF DropBeam
<1>8. CASE End
  BY <1>8, EndKeeps
<1>9. CASE UNCHANGED vars
  <2>1. TypeOK'
    BY <1>9 DEF RingInv, TypeOK, vars
  <2>2. ASSUME NEW d \in Decoders PROVE Held(d)'
    BY <1>9, Unmoved DEF vars
  <2>3. QED
    BY <1>9, <2>1, <2>2 DEF RingInv, vars
<1>10. QED
  BY <1>1, <1>2, <1>3, <1>4, <1>5, <1>6, <1>7, <1>8, <1>9 DEF Next

\* What the theorems below rest on: the rows of every cache are in their slots.
THEOREM RingInvariant == Spec => []RingInv
  BY RingInit, RingStep, PTL DEF Spec

\* Every variable has its type, and no cache more rows than slots.
THEOREM RingTypes == Spec => []TypeOK
<1>1. RingInv => TypeOK
  BY DEF RingInv
<1>2. QED
  BY <1>1, RingInvariant, PTL

LEMMA KeptIs ==
  ASSUME TypeOK, NEW c, Shape(c), Own(c)
  PROVE  /\ Kept(c.end) = KeptIn(c, c.end)
         /\ Roomy => Unbroken(c)
<1>1. window = 0 \/ (c.pinned = pinned /\ c.steps = CacheGraphCapacity(window))
  BY DEF Own
<1>2. QED
  BY <1>1 DEF Kept, KeptIn, Roomy, Unbroken

\* Whatever appends, wraps, growths and copies a cache has been through, it has
\* the rows of its window, each once and where export_state and the mask look
\* for it, for every window, prompt and chunk that leaves a chunk room.
THEOREM RingHoldsHistory == Spec => []HoldsHistory
<1>1. ASSUME RingInv PROVE HoldsHistory
  <2>1. ASSUME Roomy, NEW c, Good(c), Own(c)
        PROVE  /\ {StoredPosition(r, c.valid, c.end, pinned) :
                     r \in 0..(c.valid - 1)} = Kept(c.end)
               /\ \A r \in 0..(c.valid - 1) :
                    /\ c.slots[RowSlot(c, r)] =
                         StoredPosition(r, c.valid, c.end, pinned)
                    /\ c.slots[SlotForPosition(c,
                         StoredPosition(r, c.valid, c.end, pinned))] =
                         StoredPosition(r, c.valid, c.end, pinned)
    <3>1. Shape(c) /\ Exact(c) /\ Kept(c.end) = KeptIn(c, c.end)
      BY <1>1, <2>1, KeptIs DEF Good, RingInv
    <3>2. \A r \in 0..(c.valid - 1) :
            StoredPosition(r, c.valid, c.end, pinned) =
              StoredPosition(r, c.valid, c.end, c.pinned)
      BY <2>1, <3>1 DEF Own, Shape, IsCache, StoredPosition
    <3>3. /\ \A r \in 0..(c.valid - 1) :
               /\ StoredPosition(r, c.valid, c.end, pinned) \in KeptIn(c, c.end)
               /\ RowSlot(c, r) =
                    SlotForPosition(c, StoredPosition(r, c.valid, c.end, pinned))
          /\ \A p \in KeptIn(c, c.end) : \E r \in 0..(c.valid - 1) :
               StoredPosition(r, c.valid, c.end, pinned) = p
      BY <3>1, <3>2, Rows
    <3>4. {StoredPosition(r, c.valid, c.end, pinned) : r \in 0..(c.valid - 1)} =
            KeptIn(c, c.end)
      BY <3>3
    <3>5. QED
      BY <3>1, <3>3, <3>4 DEF Exact
  <2>2. \A d \in Decoders : Live(d) => Good(cache[d]) /\ Own(cache[d])
    BY <1>1 DEF RingInv, Held
  <2>3. ASSUME Roomy, NEW d \in Decoders, Live(d), NEW c, c = cache[d],
               NEW position,
               position = [r \in 0..(c.valid - 1) |->
                             StoredPosition(r, c.valid, c.end, pinned)]
        PROVE  /\ {position[r] : r \in 0..(c.valid - 1)} = Kept(c.end)
               /\ \A r \in 0..(c.valid - 1) :
                    /\ c.slots[RowSlot(c, r)] = position[r]
                    /\ c.slots[SlotForPosition(c, position[r])] = position[r]
    <3>1. \A r \in 0..(c.valid - 1) :
            position[r] = StoredPosition(r, c.valid, c.end, pinned)
      BY <2>3
    <3>2. {position[r] : r \in 0..(c.valid - 1)} =
            {StoredPosition(r, c.valid, c.end, pinned) : r \in 0..(c.valid - 1)}
      BY <3>1
    <3>3. Good(c) /\ Own(c)
      BY <2>2, <2>3
    <3>4. QED
      BY <2>1, <2>3, <3>1, <3>2, <3>3
  <2>4. QED
    BY <2>3 DEF HoldsHistory
<1>2. QED
  BY <1>1, RingInvariant, PTL

\* Until a cache is full no row of an append depends on a later step, however
\* the appends are cut.
THEOREM RingCausalUntilFull == Spec => []CausalUntilFull
<1>1. RingInv => CausalUntilFull
  BY DEF RingInv, Held, CausalUntilFull
<1>2. QED
  BY <1>1, RingInvariant, PTL

\* The cache never refuses the next step or chunk of a stream that has a window.
THEOREM RingStreamGoesOn == Spec => []StreamGoesOn
<1>1. ASSUME RingInv PROVE StreamGoesOn
  <2> SUFFICES ASSUME NEW d \in Decoders, NEW k \in Suffixes \cup {1},
                      kind = "stream", Live(d),
                      window > 0 \/ EndOf(d) + k <= ModelSteps
               PROVE  /\ Preparable(d, Wanted(d, k))
                      /\ FitsGraph(Prepared(d, Wanted(d, k)), k)
    BY DEF StreamGoesOn
  <2>1. PICK n : n = Wanted(d, k)
    OBVIOUS
  <2>2. k \in Nat /\ k > 0
    BY RingAssumption
  <2>3. Good(cache[d]) /\ Own(cache[d]) /\ TypeOK /\ InUse(d)
    BY <1>1 DEF RingInv, Held, InUse
  <2>4. EndOf(d) \in Nat /\ window \in Nat /\ EndOf(d) = cache[d].end
    BY <1>1, <2>3, HostStateIs, WindowType DEF EndOf
  <2>5. n \in Nat /\ n >= EndOf(d) + k
        /\ (EndOf(d) + k <= ModelSteps => n <= ModelSteps)
    BY <2>1, <2>2, <2>4, RingAssumption DEF Wanted, StreamCapacity, Larger, Smaller
  <2>6. CASE window > 0
    <3>1. cache[d].steps = RequiredCapacity(n) /\ RequiredCapacity(n) \in Nat
      BY <2>3, <2>5, <2>6, Required DEF Own
    <3>2. CanKeep(d, n)
      BY <3>1 DEF CanKeep
    <3>3. QED
      BY <2>1, <2>6, <3>2 DEF Preparable, Tierable, FitsGraph
  <2>7. CASE window = 0
    <3>1. n <= ModelSteps /\ n <= RequiredCapacity(n) /\ RequiredCapacity(n) \in Nat
      BY <2>2, <2>3, <2>4, <2>5, <2>7, Required
    <3>2. HostState(d).valid = EndOf(d)
      BY <1>1, <2>3, <2>7, HostStateIs
    <3>3. Importable(HostState(d).valid, n, pinned)
      BY <2>2, <2>4, <2>5, <2>7, <3>1, <3>2 DEF Importable, Constructible
    <3>4. Preparable(d, n)
      BY <3>1, <3>3 DEF Preparable, Tierable
    <3>5. PICK c : c = Prepared(d, n)
      OBVIOUS
    <3>6. Good(c) /\ c.end = EndOf(d) /\ c.valid = c.end /\ c.steps \in Nat
      <4>1. Good(c) /\ c.end = EndOf(d)
        BY <1>1, <2>3, <2>5, <3>4, <3>5, PreparedIsGood
      <4>2. QED
        BY <2>7, <4>1 DEF Good, Shape, IsCache
    <3>7. c.steps >= RequiredCapacity(n)
      <4>1. CASE CanKeep(d, n)
        BY <3>5, <4>1 DEF Prepared, CanKeep
      <4>2. CASE ~CanKeep(d, n)
        <5>1. c.steps = RequiredCapacity(n)
          <6>1. PICK first : first = NewCache(RequiredCapacity(n), pinned)
            OBVIOUS
          <6>2. PICK placed : placed = [first EXCEPT !.end = HostState(d).end,
                                                     !.valid = HostState(d).valid]
            OBVIOUS
          <6>3. PICK slots : c = [placed EXCEPT !.slots = slots]
            BY <3>5, <4>2, <6>1, <6>2 DEF Prepared, Imported, ImportState
          <6>4. first.steps = RequiredCapacity(n) /\ placed.steps = first.steps
            BY <6>1, <6>2 DEF NewCache
          <6>5. QED
            BY <6>1, <6>3, <6>4
        <5>2. QED
          BY <3>1, <5>1
      <4>3. QED
        BY <4>1, <4>2
    <3>8. FitsGraph(c, k)
      BY <2>2, <2>4, <2>5, <3>1, <3>6, <3>7 DEF FitsGraph
    <3>9. QED
      BY <2>1, <3>4, <3>5, <3>8
  <2>8. QED
    BY <2>4, <2>6, <2>7
<1>2. QED
  BY <1>1, RingInvariant, PTL

-----------------------------------------------------------------------------
(* Refinement *)

\* What HistoryWindow sees of the cache.
Room == IF window = 0 THEN 0 ELSE CacheGraphCapacity(window)
LengthOf(d) == IF InUse(d) THEN EndOf(d) ELSE -1
BasisOf(d) == IF seen[d] = Nothing THEN {} ELSE seen[d][cache[d].end - 1]
Length == [d \in Decoders |-> LengthOf(d)]
Basis == [d \in Decoders |-> BasisOf(d)]

\* The instance, with its state written in these terms.
LEMMA HistoryIs ==
  /\ History!vars = <<Room, pinned, Length, Basis>>
  /\ History!Init <=> /\ Room \in Nat /\ pinned \in Nat
                      /\ Length = [d \in Decoders |-> -1]
                      /\ Basis = [d \in Decoders |-> {}]
  /\ History!Begin <=>
       /\ \A d \in Decoders : Length[d] = -1
       /\ pinned' \in Prompts \cup {0}
       /\ \E n \in Prompts, D \in SUBSET Decoders :
            Length' = [d \in Decoders |-> IF d \in D THEN n ELSE -1]
       /\ Room' = Room /\ Basis' = Basis
  /\ \A d : History!Append(d) <=>
       /\ Length[d] >= 0
       /\ \E k \in 1..LongestAppend : Length' = [Length EXCEPT ![d] = Length[d] + k]
       /\ Basis' = [Basis EXCEPT ![d] =
            {p \in 0..(Length'[d] - 1) :
               Room = 0 \/ p < pinned \/ p >= Length'[d] - (Room - pinned)}]
       /\ Room' = Room /\ pinned' = pinned
  /\ \A d, e : History!Copy(d, e) <=>
       /\ Length[d] >= 0
       /\ Length[e] = -1
       /\ Length' = [Length EXCEPT ![e] = Length[d]]
       /\ Room' = Room /\ pinned' = pinned /\ Basis' = Basis
  /\ \A D : History!Drop(D) <=>
       /\ Length' = [d \in Decoders |-> IF d \in D THEN -1 ELSE Length[d]]
       /\ Basis' = [d \in Decoders |-> IF d \in D THEN {} ELSE Basis[d]]
       /\ Room' = Room /\ pinned' = pinned
BY Zenon DEF History!vars, History!Init, History!Begin, History!Append, History!Copy,
       History!Drop, History!Kept, Room, Length, Basis, LengthOf, BasisOf

\* A decoder with a cache, and one without.
LEMMA LengthIs ==
  ASSUME RingInv, NEW d \in Decoders
  PROVE  /\ InUse(d) => LengthOf(d) = EndOf(d) /\ EndOf(d) \in Nat
         /\ ~InUse(d) => LengthOf(d) = -1
         /\ ~Live(d) => BasisOf(d) = {}
         /\ kind = "idle" => ~InUse(d) /\ ~Live(d)
<1>1. InUse(d) => EndOf(d) \in Nat
  BY HostStateIs
<1>2. ~Live(d) => BasisOf(d) = {}
  BY DEF RingInv, Held, BasisOf
<1>3. kind = "idle" => ~InUse(d) /\ ~Live(d)
  BY DEF RingInv, Held, InUse
<1>4. QED
  BY <1>1, <1>2, <1>3 DEF LengthOf

LEMMA LengthMoved ==
  ASSUME NEW d, NEW e, Good(e), cache'[d] = e
  PROVE  LengthOf(d)' = e.end
<1>1. e.steps > 0
  BY DEF Good, Shape
<1>2. QED
  BY <1>1 DEF LengthOf, InUse, EndOf, Live

LEMMA LengthUnmoved ==
  ASSUME NEW d, cache'[d] = cache[d], pending'[d] = pending[d]
  PROVE  /\ LengthOf(d)' = LengthOf(d)
         /\ seen'[d] = seen[d] => BasisOf(d)' = BasisOf(d)
BY DEF LengthOf, BasisOf, InUse, EndOf, Live

LEMMA HistoryBegins ==
  ASSUME NEW D \in SUBSET Decoders, NEW n \in Prompts,
         \A d \in Decoders : Length[d] = -1,
         Length' = [d \in Decoders |-> IF d \in D THEN n ELSE -1],
         pinned' \in Prompts \cup {0}, Room' = Room, Basis' = Basis
  PROVE  History!Begin
<1>1. \E m \in Prompts, E \in SUBSET Decoders :
        Length' = [d \in Decoders |-> IF d \in E THEN m ELSE -1]
  <2> WITNESS n \in Prompts, D \in SUBSET Decoders
  <2> QED
    OBVIOUS
<1>2. QED
  BY <1>1, HistoryIs, Zenon

LEMMA HistoryBeginStream ==
  ASSUME RingInv, NEW d \in Decoders, NEW n \in Prompts, BeginStream(d, n)
  PROVE  History!Begin
<1>1. PICK e : cache' = [cache EXCEPT ![d] = e] /\ Good(e) /\ e.end = n
  BY StreamBegins
<1>2. /\ window' = window /\ kind = "idle" /\ pinned' = n
      /\ pending' = pending /\ seen' = seen /\ TypeOK
  BY DEF BeginStream, RingInv
<1>3. \A x \in Decoders : LengthOf(x) = -1 /\ ~InUse(x) /\ ~Live(x)
  BY <1>2, LengthIs
<1>4. LengthOf(d)' = n
  BY <1>1, <1>2, LengthMoved DEF TypeOK
<1>5. \A x \in Decoders \ {d} : LengthOf(x)' = -1
  <2>1. ASSUME NEW x \in Decoders \ {d} PROVE LengthOf(x)' = -1
    <3>1. cache'[x] = cache[x] /\ pending'[x] = pending[x]
      BY <1>1, <1>2 DEF TypeOK
    <3>2. QED
      BY <1>3, <3>1, LengthUnmoved
  <2>2. QED
    BY <2>1
<1>6. Length' = [x \in Decoders |-> IF x \in {d} THEN n ELSE -1]
  BY <1>4, <1>5 DEF Length
<1>7. \A x \in Decoders : seen[x] = Nothing
  BY <1>3 DEF RingInv, Held
<1>8. Basis' = Basis
  <2>1. \A x \in Decoders : BasisOf(x)' = {} /\ BasisOf(x) = {}
    BY <1>2, <1>7 DEF BasisOf
  <2>2. QED
    BY <2>1 DEF Basis
<1>9. Room' = Room
  BY <1>2 DEF Room
<1>10. \A x \in Decoders : Length[x] = -1
  BY <1>3 DEF Length
<1>11. {d} \in SUBSET Decoders /\ pinned' \in Prompts \cup {0}
  BY <1>2
<1>12. QED
  BY <1>6, <1>8, <1>9, <1>10, <1>11, HistoryBegins

LEMMA HistoryBeginSingle ==
  ASSUME RingInv, NEW D \in SUBSET Decoders, NEW n \in Prompts, BeginSingle(D, n)
  PROVE  History!Begin
<1>1. /\ window' = window /\ kind = "idle" /\ pinned' = 0 /\ cache' = cache
      /\ pending' = [d \in Decoders |-> IF d \in D THEN n ELSE 0]
      /\ seen' = seen /\ TypeOK /\ n \in Nat /\ n > 0
  BY RingAssumption DEF BeginSingle, RingInv
<1>2. \A x \in Decoders : LengthOf(x) = -1 /\ ~Live(x)
  BY <1>1, LengthIs
<1>3. ASSUME NEW x \in Decoders
      PROVE  LengthOf(x)' = IF x \in D THEN n ELSE -1
  BY <1>1, <1>2 DEF LengthOf, InUse, EndOf, Live
<1>4. Length' = [x \in Decoders |-> IF x \in D THEN n ELSE -1]
  BY <1>3 DEF Length
<1>5. Basis' = Basis
  BY <1>1 DEF Basis, BasisOf
<1>6. Room' = Room
  BY <1>1 DEF Room
<1>7. \A x \in Decoders : Length[x] = -1
  BY <1>2 DEF Length
<1>8. QED
  BY <1>1, <1>4, <1>5, <1>6, <1>7, HistoryBegins

\* A stream whose prompt does not fit begins with no decoder.
LEMMA HistoryPromptTooLong ==
  ASSUME RingInv, NEW n \in Prompts, PromptTooLong(n)
  PROVE  History!Begin
<1>1. /\ window' = window /\ kind = "idle" /\ pinned' = n /\ cache' = cache
      /\ pending' = pending /\ seen' = seen
  BY DEF PromptTooLong
<1>2. \A x \in Decoders : LengthOf(x) = -1
  BY <1>1, LengthIs
<1>3. \A x \in Decoders : LengthOf(x)' = LengthOf(x) /\ BasisOf(x)' = BasisOf(x)
  BY <1>1, LengthUnmoved
<1>4. Length' = [x \in Decoders |-> IF x \in {} THEN n ELSE -1]
  BY <1>2, <1>3 DEF Length
<1>5. Basis' = Basis
  BY <1>3 DEF Basis
<1>6. Room' = Room
  BY <1>1 DEF Room
<1>7. \A x \in Decoders : Length[x] = -1
  BY <1>2 DEF Length
<1>8. {} \in SUBSET Decoders /\ pinned' \in Prompts \cup {0}
  BY <1>1
<1>9. QED
  BY <1>4, <1>5, <1>6, <1>7, <1>8, HistoryBegins

\* What is pinned is a prompt, or nothing.
PinsPrompt == pinned \in Prompts \cup {0}

LEMMA PromptPinned == Spec => []PinsPrompt
<1>1. Init => PinsPrompt
  BY DEF Init, PinsPrompt
<1>2. ASSUME PinsPrompt, [Next]_vars PROVE PinsPrompt'
  <2>1. pinned' = pinned \/ pinned' \in Prompts \cup {0}
    BY <1>2, Zenon DEF Next, vars, BeginStream, PromptTooLong, BeginSingle, Append, Step,
                       Suffix, Clone, DropBeam, Forget, End
  <2>2. QED
    BY <1>2, <2>1 DEF PinsPrompt
<1>3. QED
  BY <1>1, <1>2, PTL DEF Spec

\* A cache with its prompt pinned has room for the longest chunk.
LEMMA RingIsRoomy ==
  ASSUME EveryWindowRoomy, RingInv, PinsPrompt, NEW c, Good(c), Own(c)
  PROVE  Roomy
<1>1. window \in Windows /\ window \in Nat
  BY WindowType DEF RingInv, TypeOK
<1>2. CASE window = 0
  BY <1>2 DEF Roomy
<1>3. CASE window # 0
  <2>1. pinned < CacheGraphCapacity(window)
    BY <1>3 DEF Good, Shape, Own
  <2>2. LongestAppend <= CacheGraphCapacity(window) - pinned
    BY <1>1, <1>3, <2>1 DEF EveryWindowRoomy, PinsPrompt
  <2>3. QED
    BY <2>2 DEF Roomy
<1>4. QED
  BY <1>2, <1>3

LEMMA HistoryAppend ==
  ASSUME EveryWindowRoomy, RingInv, PinsPrompt, NEW d \in Decoders, NEW k \in Nat, k > 0, k <= LongestAppend,
         Append(d, k)
  PROVE  History!Append(d)
<1>1. PICK e, f :
        /\ cache' = [cache EXCEPT ![d] = e]
        /\ seen' = [seen EXCEPT ![d] = f]
        /\ Good(e) /\ Own(e) /\ e.end = EndOf(d) + k
        /\ f # Nothing
        /\ f[e.end - 1] \subseteq 0..(e.end - 1)
        /\ Unbroken(e) => f[e.end - 1] = KeptIn(e, e.end)
  BY AppendMakes
<1>2. /\ window' = window /\ pinned' = pinned /\ pending' = [pending EXCEPT ![d] = 0]
      /\ InUse(d) /\ TypeOK
  BY DEF Append, RingInv
<1>3. /\ cache'[d] = e /\ seen'[d] = f
      /\ \A x \in Decoders \ {d} : /\ cache'[x] = cache[x]
                                   /\ seen'[x] = seen[x]
                                   /\ pending'[x] = pending[x]
  BY <1>1, <1>2 DEF TypeOK
<1>4. LengthOf(d) = EndOf(d) /\ EndOf(d) \in Nat
  BY <1>2, LengthIs
<1>5. LengthOf(d)' = e.end /\ BasisOf(d)' = f[e.end - 1]
  BY <1>1, <1>3, LengthMoved DEF BasisOf
<1>6. \A x \in Decoders \ {d} : LengthOf(x)' = LengthOf(x) /\ BasisOf(x)' = BasisOf(x)
  BY <1>3, LengthUnmoved
<1>7. Length' = [Length EXCEPT ![d] = Length[d] + k] /\ Length'[d] = e.end
  BY <1>1, <1>4, <1>5, <1>6 DEF Length
<1>8. Basis' = [Basis EXCEPT ![d] = f[e.end - 1]]
  BY <1>5, <1>6 DEF Basis
<1>9. Length[d] >= 0
  BY <1>4 DEF Length
<1>10. Room' = Room /\ pinned' = pinned
  BY <1>2 DEF Room
<1>11. k \in 1..LongestAppend
  BY Longest
<1>12. Kept(e.end) = {p \in 0..(e.end - 1) :
                        Room = 0 \/ p < pinned \/ p >= e.end - (Room - pinned)}
  <2>1. window \in Nat
    BY <1>2, WindowType
  <2>2. CASE window = 0
    BY <2>2 DEF Room, Kept
  <2>3. CASE window # 0
    <3>1. Room = CacheGraphCapacity(window) /\ Room # 0
      BY <2>1, <2>3, Capacity DEF Room
    <3>2. QED
      BY <2>3, <3>1 DEF Kept
  <2>4. QED
    BY <2>2, <2>3
<1>13. Roomy
  <2>1. Good(e) /\ Own(e)
    BY <1>1
  <2>2. QED
    BY <2>1, RingIsRoomy
<1>14. f[e.end - 1] = Kept(e.end)
  BY <1>1, <1>2, <1>13, KeptIs DEF Good
<1>15. Basis' = [Basis EXCEPT ![d] =
          {p \in 0..(Length'[d] - 1) :
             Room = 0 \/ p < pinned \/ p >= Length'[d] - (Room - pinned)}]
  BY <1>7, <1>8, <1>12, <1>14
<1>16. QED
  BY <1>7, <1>9, <1>10, <1>11, <1>15, HistoryIs

LEMMA HistoryClone ==
  ASSUME RingInv, NEW d \in Decoders, NEW x \in Decoders, Clone(d, x)
  PROVE  History!Copy(d, x)
<1>1. PICK e : cache' = [cache EXCEPT ![x] = e] /\ Good(e) /\ e.end = EndOf(d)
  BY Cloned
<1>2. /\ window' = window /\ pinned' = pinned /\ pending' = pending /\ seen' = seen
      /\ InUse(d) /\ ~InUse(x) /\ ~Live(x) /\ TypeOK
  BY DEF Clone, InUse, RingInv
<1>3. /\ cache'[x] = e
      /\ \A y \in Decoders \ {x} : cache'[y] = cache[y]
  BY <1>1, <1>2 DEF TypeOK
<1>4. LengthOf(d) = EndOf(d) /\ EndOf(d) \in Nat /\ LengthOf(x) = -1
  BY <1>2, LengthIs
<1>5. LengthOf(x)' = EndOf(d)
  BY <1>1, <1>3, LengthMoved
<1>6. \A y \in Decoders \ {x} : LengthOf(y)' = LengthOf(y) /\ BasisOf(y)' = BasisOf(y)
  BY <1>2, <1>3, LengthUnmoved
<1>7. BasisOf(x) = {} /\ BasisOf(x)' = {}
  BY <1>2 DEF RingInv, Held, BasisOf
<1>8. Length' = [Length EXCEPT ![x] = Length[d]]
  BY <1>4, <1>5, <1>6 DEF Length
<1>9. Basis' = Basis
  BY <1>6, <1>7 DEF Basis
<1>10. Length[d] >= 0 /\ Length[x] = -1
  BY <1>4 DEF Length
<1>11. Room' = Room
  BY <1>2 DEF Room
<1>12. QED
  BY <1>2, <1>8, <1>9, <1>10, <1>11, HistoryIs

LEMMA HistoryForget ==
  ASSUME RingInv, NEW D \in SUBSET Decoders, Forget(D)
  PROVE  History!Drop(D)
<1>1. TypeOK
  BY DEF RingInv
<1>2. /\ window' = window /\ pinned' = pinned
      /\ \A x \in D : cache'[x] = NoCache /\ seen'[x] = Nothing /\ pending'[x] = 0
      /\ \A x \in Decoders \ D : /\ cache'[x] = cache[x]
                                 /\ seen'[x] = seen[x]
                                 /\ pending'[x] = pending[x]
  BY <1>1 DEF Forget, TypeOK
<1>3. NoCache.steps = 0
  BY DEF NoCache
<1>4. \A x \in D : LengthOf(x)' = -1 /\ BasisOf(x)' = {}
  BY <1>2, <1>3 DEF LengthOf, BasisOf, InUse, Live
<1>5. \A x \in Decoders \ D : LengthOf(x)' = LengthOf(x) /\ BasisOf(x)' = BasisOf(x)
  BY <1>2, LengthUnmoved
<1>6. Length' = [x \in Decoders |-> IF x \in D THEN -1 ELSE Length[x]]
  BY <1>4, <1>5 DEF Length
<1>7. Basis' = [x \in Decoders |-> IF x \in D THEN {} ELSE Basis[x]]
  BY <1>4, <1>5 DEF Basis
<1>8. Room' = Room
  BY <1>2 DEF Room
<1>9. QED
  BY <1>2, <1>6, <1>7, <1>8, HistoryIs

LEMMA HistoryStep ==
  EveryWindowRoomy /\ RingInv /\ PinsPrompt /\ [Next]_vars =>
    [History!Next]_(History!vars)
<1> SUFFICES ASSUME EveryWindowRoomy, RingInv, PinsPrompt, [Next]_vars
             PROVE  History!Next \/ UNCHANGED History!vars
  OBVIOUS
<1>1. ASSUME NEW d \in Decoders, NEW n \in Prompts, BeginStream(d, n)
      PROVE  History!Next
  BY <1>1, HistoryBeginStream DEF History!Next
<1>2. ASSUME NEW n \in Prompts, PromptTooLong(n)
      PROVE  History!Next
  BY <1>2, HistoryPromptTooLong DEF History!Next
<1>3. ASSUME NEW D \in SUBSET Decoders, NEW n \in Prompts, BeginSingle(D, n)
      PROVE  History!Next
  BY <1>3, HistoryBeginSingle DEF History!Next
<1>4. ASSUME NEW d \in Decoders, Step(d)
      PROVE  History!Next
  <2>1. History!Append(d)
    BY <1>4, Longest, HistoryAppend DEF Step
  <2>2. QED
    BY <2>1 DEF History!Next
<1>5. ASSUME NEW d \in Decoders, NEW k \in Suffixes, Suffix(d, k)
      PROVE  History!Next
  <2>1. History!Append(d)
    BY <1>5, Longest, HistoryAppend, RingAssumption DEF Suffix
  <2>2. QED
    BY <2>1 DEF History!Next
<1>6. ASSUME NEW d \in Decoders, NEW e \in Decoders, Clone(d, e)
      PROVE  History!Next
  BY <1>6, HistoryClone DEF History!Next
<1>7. ASSUME NEW d \in Decoders, DropBeam(d)
      PROVE  History!Next
  <2>1. History!Drop({d}) /\ {d} \in SUBSET Decoders
    BY <1>7, HistoryForget DEF DropBeam
  <2>2. QED
    BY <2>1 DEF History!Next
<1>8. ASSUME End
      PROVE  History!Next
  <2>1. History!Drop(Decoders)
    BY <1>8, HistoryForget DEF End
  <2>2. QED
    BY <2>1 DEF History!Next
<1>9. ASSUME UNCHANGED vars
      PROVE  UNCHANGED History!vars
  <2>1. /\ window' = window /\ pinned' = pinned /\ pending' = pending
        /\ cache' = cache /\ seen' = seen
    BY <1>9 DEF vars
  <2>2. Room' = Room /\ Length' = Length /\ Basis' = Basis
    BY <2>1 DEF Room, Length, Basis, LengthOf, BasisOf, InUse, EndOf, Live
  <2>3. History!vars = <<Room, pinned, Length, Basis>>
    BY HistoryIs
  <2>4. History!vars' = <<Room, pinned, Length, Basis>>'
    BY <2>3, Zenon DEF History!vars, Room, Length, Basis, LengthOf, BasisOf
  <2>5. QED
    BY <2>1, <2>2, <2>3, <2>4
<1>10. QED
  BY <1>1, <1>2, <1>3, <1>4, <1>5, <1>6, <1>7, <1>8, <1>9 DEF Next

LEMMA HistoryInit == Init => History!Init
<1> SUFFICES ASSUME Init PROVE History!Init
  OBVIOUS
<1>1. RingInv /\ TypeOK /\ window \in Nat
  BY RingInit, WindowType DEF RingInv
<1>2. Room \in Nat
  BY <1>1, Capacity DEF Room
<1>3. \A d \in Decoders : LengthOf(d) = -1 /\ BasisOf(d) = {}
  BY <1>1, LengthIs DEF Init
<1>4. Length = [d \in Decoders |-> -1] /\ Basis = [d \in Decoders |-> {}]
  BY <1>3 DEF Length, Basis
<1>5. pinned \in Nat
  BY DEF Init
<1>6. QED
  BY <1>2, <1>4, <1>5, HistoryIs

\* When every window leaves a chunk room beside the prompt, a result is computed
\* from what the documentation says: all steps so far, or the prompt and the most
\* recent ones.  Without the hypothesis it is not so (run KvNarrow).
THEOREM RingIsHistoryWindow == EveryWindowRoomy /\ Spec => IsHistoryWindow
<1>1. Spec => History!Init
  BY HistoryInit DEF Spec
<1>2. ASSUME EveryWindowRoomy PROVE Spec => [][History!Next]_(History!vars)
  <2>1. RingInv /\ PinsPrompt /\ [Next]_vars => [History!Next]_(History!vars)
    BY <1>2, HistoryStep
  <2>2. QED
    BY <2>1, RingInvariant, PromptPinned, PTL DEF Spec
<1>3. QED
  BY <1>1, <1>2 DEF IsHistoryWindow, History!Spec
=============================================================================
