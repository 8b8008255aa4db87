---------------------------- MODULE RingBufProofs ----------------------------
(***************************************************************************)
(* Theorems about module RingBuf, for any number of producers, any size of *)
(* the data region and frames of any lengths, as in the driver's traffic.  *)
(*                                                                         *)
(* That the reservations follow one another without gap or overlap and     *)
(* never exceed the region (Race) holds whatever the region's words read.  *)
(* The rest stands on words that read 0 where a reservation begins: until  *)
(* one does not (stale), every place holds what its claim says, the        *)
(* consumer has only committed frames in hand, and the ring implements the *)
(* queue of module RingQueue.  With frames of several lengths that time    *)
(* comes, and then the consumer may have one in hand that is not           *)
(* committed: see the run ring_mixed.                                      *)
(***************************************************************************)
EXTENDS RingBuf, SequenceTheorems, TLAPS

\* The remainder, a name that keeps the provers from computing with it.
Rem(a, m) == a % m

Frames == {Item(p, n) : p \in Producers, n \in Nat}
Items == Frames \union {None}

Statuses == {"open", "ready", "void"}
Claims == [at : Nat, len : Nat, item : Items, status : Statuses]

Filling == {"mirror", "pad", "commit pad", "header", "body", "commit", "commit void"}

WordsOf == [total : Nat, version : {Pad, Wire}, item : Items]
Calls == [pc : {"idle", "tail", "reserve"} \union Filling, len : 0 .. DataSize,
          enforce : BOOLEAN, head : Nat]

TypeOK ==
    /\ mem \in [0 .. DataSize - 1 -> WordsOf]
    /\ head \in Nat /\ mirror \in Nat /\ tail \in Nat
    /\ prod \in [Producers -> Calls]
    /\ cons \in [pc : {"next", "total", "bytes", "zero", "advance"}, tail : Nat, len : Nat]
    /\ claims \in Seq(Claims)
    /\ sent \in [Producers -> Nat]

-----------------------------------------------------------------------------

\* What a producer holds in its locals; what it read of tail is not ahead of it.
LocalsOf(p) ==
    /\ prod[p].pc # "idle" => prod[p].len >= 1
    /\ prod[p].pc = "reserve" =>
          prod[p].head + Need(prod[p].head, prod[p].len) - tail <= DataSize

\* Every place follows on the one before it, and head on the last.
Follow ==
    /\ \A i \in DOMAIN claims \ {1} : claims[i].at = claims[i - 1].at + claims[i - 1].len
    /\ claims # <<>> => head = claims[Len(claims)].at + claims[Len(claims)].len

\* The race for the head, whatever the words read.
Race ==
    /\ cons.tail = tail
    /\ Follow
    /\ head - tail <= DataSize
    /\ \A p \in Producers : LocalsOf(p)

\* Reservations follow one another from tail to head.
Tiles ==
    /\ \A i \in DOMAIN claims :
          claims[i].at = IF i = 1 THEN tail ELSE claims[i - 1].at + claims[i - 1].len
    /\ head = IF claims = <<>> THEN tail ELSE claims[Len(claims)].at + claims[Len(claims)].len
    /\ head - tail <= DataSize

Order ==
    /\ cons.tail = tail
    /\ Tiles
    /\ \A i \in DOMAIN claims : tail <= claims[i].at /\ claims[i].at + claims[i].len <= head
    /\ \A i, j \in DOMAIN claims : i < j => claims[i].at + claims[i].len <= claims[j].at

\* No place goes past the end of the region.
Shape ==
    \A i \in DOMAIN claims : claims[i].len >= 1 /\ At(claims[i].at) + claims[i].len <= DataSize

\* A settled place has been published, and the consumer looks at a published one.
Published ==
    /\ tail <= mirror /\ mirror <= head
    /\ \A i \in DOMAIN claims : claims[i].status # "open" => claims[i].at + claims[i].len <= mirror
    /\ cons.pc # "next" => tail < mirror

\* An open claim at that position, of that length.
Open(at, len, item) ==
    \E i \in DOMAIN claims :
        /\ claims[i].at = at /\ claims[i].len = len /\ claims[i].item = item
        /\ claims[i].status = "open"

\* A producer that won a reservation owns its claims until it commits them.
OwnerOf(p) ==
    LET len == prod[p].len
    IN  /\ prod[p].pc \in Filling => Open(Start(p), len, Item(p, sent[p]))
        /\ prod[p].pc \in {"pad", "commit pad"} => Wraps(prod[p].head, len)
        /\ prod[p].pc \in {"mirror", "pad", "commit pad"} /\ Wraps(prod[p].head, len) =>
              Open(prod[p].head, PadLen(prod[p].head, len), None)
        /\ prod[p].pc \in Filling \ {"mirror"} => Start(p) + len <= mirror

\* What it has written of them so far.
ProgressOf(p) ==
    LET first == mem[At(Start(p))]
    IN  /\ prod[p].pc = "commit pad" => mem[At(prod[p].head)].version = Pad
        /\ prod[p].pc \in {"body", "commit"} => first.version = Wire
        /\ prod[p].pc = "commit void" => first.version = Pad
        /\ prod[p].pc = "commit" =>
              \A w \in 0 .. prod[p].len - 1 : mem[At(Start(p) + w)].item = Item(p, sent[p])

Producer(p) == OwnerOf(p) /\ ProgressOf(p)

\* The consumer has the first claim in hand.
InHand ==
    /\ claims # <<>>
    /\ claims[1].status # "open" /\ claims[1].len = cons.len

Consumer ==
    /\ cons.pc \in {"bytes", "zero", "advance"} => InHand
    /\ cons.pc = "bytes" => claims[1].status = "ready"
    /\ cons.pc = "advance" => mem[At(tail)].total = 0

\* What holds as long as every reservation has begun on a word that reads 0.
Sound == /\ TypeOK /\ Race /\ Order /\ Shape /\ ClaimsHold /\ Published /\ Consumer
         /\ \A p \in Producers : Producer(p)

IInv == TypeOK /\ Race /\ (stale \/ Sound)

-----------------------------------------------------------------------------
(* Remainders *)

LEMMA DivMod ==
    ASSUME NEW a \in Nat, NEW m \in Nat \ {0}
    PROVE  Rem(a, m) \in 0 .. m - 1 /\ a \div m \in Int /\ a = m * (a \div m) + Rem(a, m)
<1>1. Rem(a, m) \in 0 .. m - 1
  BY DEF Rem
<1>2. a \div m \in Int
  OBVIOUS
<1>3. a = m * (a \div m) + Rem(a, m)
  BY DEF Rem
<1> QED
  BY <1>1, <1>2, <1>3

LEMMA Products ==
    /\ \A m, a, b \in Int : m * (a - b) = m * a - m * b
    /\ \A m \in Nat \ {0}, q \in Int : q >= 1 => m * q >= m
    /\ \A m \in Nat, q \in Int : m * (q + 1) = m * q + m
    /\ \A m, q \in Int : m * q \in Int
OBVIOUS

LEMMA QuotientUnique ==
    ASSUME NEW m \in Nat \ {0}, NEW p \in Int, NEW q \in Int, NEW r \in 0 .. m - 1, NEW s \in 0 .. m - 1,
           m * p + r = m * q + s
    PROVE  p = q /\ r = s
<1>1. CASE p >= q + 1
  <2>1. m * (p - q) >= m
    BY <1>1, Products
  <2> QED
    BY <2>1, Products
<1>2. CASE q >= p + 1
  <2>1. m * (q - p) >= m
    BY <1>2, Products
  <2> QED
    BY <2>1, Products
<1>3. CASE p = q
  BY <1>3
<1> QED
  BY <1>1, <1>2, <1>3

LEMMA RemainderIs ==
    ASSUME NEW a \in Nat, NEW m \in Nat \ {0}, NEW q \in Int, NEW r \in 0 .. m - 1, a = m * q + r
    PROVE  Rem(a, m) = r
<1> DEFINE p == a \div m
           s == Rem(a, m)
<1>1. s \in 0 .. m - 1 /\ p \in Int /\ a = m * p + s
  BY DivMod
<1> HIDE DEF p, s
<1>2. s = r
  BY <1>1, QuotientUnique
<1> QED
  BY <1>2 DEF s

LEMMA RemainderPlus ==
    ASSUME NEW a \in Nat, NEW m \in Nat \ {0}, NEW k \in Nat
    PROVE  /\ Rem(a, m) + k < m => Rem(a + k, m) = Rem(a, m) + k
           /\ Rem(a, m) + k = m => Rem(a + k, m) = 0
<1> DEFINE q == a \div m
           r == Rem(a, m)
           b == a + k
<1>1. r \in 0 .. m - 1 /\ q \in Int /\ a = m * q + r
  BY DivMod
<1>2. b = a + k /\ b \in Nat
  OBVIOUS
<1> HIDE DEF q, r, b
<1>3. m * q \in Int /\ m * (q + 1) = m * q + m
  BY <1>1, Products
<1>4. ASSUME r + k < m PROVE Rem(b, m) = r + k
  <2>1. r + k \in 0 .. m - 1 /\ b = m * q + (r + k)
    BY <1>1, <1>2, <1>3, <1>4
  <2> QED
    BY <1>1, <1>2, <2>1, RemainderIs
<1>5. ASSUME r + k = m PROVE Rem(b, m) = 0
  <2>1. 0 \in 0 .. m - 1 /\ b = m * (q + 1) + 0 /\ q + 1 \in Int
    BY <1>1, <1>2, <1>3, <1>5
  <2> QED
    BY <1>2, <2>1, RemainderIs
<1> QED
  BY <1>4, <1>5 DEF r, b

LEMMA RemainderOnce ==
    ASSUME NEW a \in Nat, NEW b \in Nat, NEW m \in Nat \ {0}, a <= b, b - a < m, Rem(a, m) = Rem(b, m)
    PROVE  a = b
<1> DEFINE p == a \div m
           q == b \div m
           r == Rem(a, m)
<1>1. r \in 0 .. m - 1 /\ p \in Int /\ a = m * p + r
  BY DivMod
<1>2. q \in Int /\ b = m * q + r
  BY DivMod
<1> HIDE DEF p, q, r
<1>3. m * (q - p) = b - a /\ m * (p - q) = a - b
  BY <1>1, <1>2, Products
<1>4. ~ q - p >= 1
  BY <1>1, <1>2, <1>3, Products
<1>5. ~ p - q >= 1
  BY <1>1, <1>2, <1>3, Products
<1>6. p = q
  BY <1>1, <1>2, <1>4, <1>5
<1> QED
  BY <1>1, <1>2, <1>6

-----------------------------------------------------------------------------
(* The circle *)

LEMMA Circle ==
    ASSUME NEW pos \in Nat
    PROVE  /\ At(pos) \in 0 .. DataSize - 1
           /\ \A k \in Nat : /\ At(pos) + k < DataSize => At(pos + k) = At(pos) + k
                             /\ At(pos) + k = DataSize => At(pos + k) = 0
           /\ \A b \in Nat : pos <= b /\ b - pos < DataSize /\ At(pos) = At(b) => pos = b
<1>1. DataSize \in Nat \ {0}
  BY RingAssumption
<1>2. At(pos) \in 0 .. DataSize - 1
  BY <1>1, DivMod DEF At, Rem
<1>3. \A k \in Nat : /\ At(pos) + k < DataSize => At(pos + k) = At(pos) + k
                     /\ At(pos) + k = DataSize => At(pos + k) = 0
  BY <1>1, RemainderPlus DEF At, Rem
<1>4. \A b \in Nat : pos <= b /\ b - pos < DataSize /\ At(pos) = At(b) => pos = b
  BY <1>1, RemainderOnce DEF At, Rem
<1> QED
  BY <1>2, <1>3, <1>4

LEMMA PadLenIs ==
    ASSUME NEW h \in Nat, NEW len \in 0 .. DataSize
    PROVE  /\ PadLen(h, len) \in Nat /\ Need(h, len) \in Nat
           /\ Wraps(h, len) => /\ len \in 1 .. DataSize /\ PadLen(h, len) \in 1 .. len - 1
                               /\ At(h) + PadLen(h, len) = DataSize
                               /\ At(h + PadLen(h, len)) = 0
           /\ ~ Wraps(h, len) => PadLen(h, len) = 0 /\ At(h) + len <= DataSize
<1>1. DataSize \in Nat \ {0} /\ At(h) \in 0 .. DataSize - 1
  BY RingAssumption, Circle
<1>2. Wraps(h, len) => /\ len \in 1 .. DataSize /\ PadLen(h, len) \in 1 .. len - 1
                       /\ At(h) + PadLen(h, len) = DataSize
  BY <1>1 DEF PadLen, Wraps
<1>3. ~ Wraps(h, len) => PadLen(h, len) = 0 /\ At(h) + len <= DataSize
  BY <1>1 DEF PadLen, Wraps
<1>4. PadLen(h, len) \in Nat
  BY <1>1, <1>2, <1>3
<1>5. Wraps(h, len) => At(h + PadLen(h, len)) = 0
  BY <1>2, <1>4, Circle
<1> QED
  BY <1>1, <1>2, <1>3, <1>4, <1>5 DEF Need

-----------------------------------------------------------------------------
(* The claims on it *)

\* The words a claim covers.
Words(claim) == {At(claim.at + w) : w \in 0 .. claim.len - 1}

LEMMA ClaimLies ==
    ASSUME TypeOK, Order, Shape, NEW i \in DOMAIN claims
    PROVE  /\ claims[i] \in Claims
           /\ claims[i].at \in Nat /\ claims[i].len \in Nat /\ claims[i].len >= 1
           /\ At(claims[i].at) \in Words(claims[i])
           /\ tail <= claims[i].at /\ claims[i].at + claims[i].len <= head
           /\ \A w \in 0 .. claims[i].len - 1 : At(claims[i].at + w) = At(claims[i].at) + w
           /\ Words(claims[i]) \subseteq 0 .. DataSize - 1
<1> DEFINE at == claims[i].at
           len == claims[i].len
<1>1. claims[i] \in Claims
  BY ElementOfSeq DEF TypeOK
<1>2. at \in Nat /\ len \in Nat /\ claims[i].at = at /\ claims[i].len = len
  BY <1>1 DEF Claims
<1>3. len >= 1 /\ At(at) + len <= DataSize /\ tail <= at /\ at + len <= head
  BY DEF Shape, Order
<1> HIDE DEF at, len
<1>4. DataSize \in Nat \ {0} /\ At(at) \in 0 .. DataSize - 1
  BY <1>2, RingAssumption, Circle
<1>5. \A w \in 0 .. len - 1 : At(at + w) = At(at) + w
  BY <1>2, <1>3, <1>4, Circle
<1>6. Words(claims[i]) = {At(at) + w : w \in 0 .. len - 1}
  BY <1>2, <1>5 DEF Words
<1>7. At(at) \in Words(claims[i])
  <2>1. 0 \in 0 .. len - 1 /\ At(at) = At(at) + 0
    BY <1>2, <1>3, <1>4
  <2> QED
    BY <1>6, <2>1
<1>8. Words(claims[i]) \subseteq 0 .. DataSize - 1
  BY <1>2, <1>3, <1>4, <1>6
<1> QED
  BY <1>1, <1>2, <1>3, <1>5, <1>7, <1>8

\* Two positions between tail and head are two words.
LEMMA Window ==
    ASSUME TypeOK, Order, NEW a \in Nat, NEW b \in Nat,
           tail <= a, tail <= b, a < head, b < head, At(a) = At(b)
    PROVE  a = b
<1>1. head - tail <= DataSize /\ head \in Nat /\ tail \in Nat
  BY DEF Order, Tiles, TypeOK
<1>2. CASE a <= b
  <2>1. b - a < DataSize
    BY <1>1, <1>2, RingAssumption
  <2> QED
    BY <1>2, <2>1, Circle
<1>3. CASE b <= a
  <2>1. a - b < DataSize
    BY <1>1, <1>3, RingAssumption
  <2> QED
    BY <1>3, <2>1, Circle
<1> QED
  BY <1>2, <1>3

LEMMA ClaimsApart ==
    ASSUME TypeOK, Order, Shape,
           NEW i \in DOMAIN claims, NEW j \in DOMAIN claims, i # j
    PROVE  /\ Words(claims[i]) \cap Words(claims[j]) = {}
           /\ claims[i].at # claims[j].at
           /\ At(claims[i].at) # At(claims[j].at)
<1>1. /\ claims[i].at \in Nat /\ claims[j].at \in Nat
      /\ claims[i].len \in Nat \ {0} /\ claims[j].len \in Nat \ {0}
      /\ tail <= claims[i].at /\ claims[i].at + claims[i].len <= head
      /\ tail <= claims[j].at /\ claims[j].at + claims[j].len <= head
      /\ head \in Nat /\ tail \in Nat
  <2>1. head \in Nat /\ tail \in Nat
    BY DEF TypeOK
  <2> QED
    BY <2>1, ClaimLies
<1>2. i \in Nat /\ j \in Nat
  BY LenProperties DEF TypeOK
<1>3. \/ claims[i].at + claims[i].len <= claims[j].at
      \/ claims[j].at + claims[j].len <= claims[i].at
  BY <1>2 DEF Order
<1>4. ASSUME NEW w \in 0 .. claims[i].len - 1, NEW v \in 0 .. claims[j].len - 1
      PROVE  At(claims[i].at + w) # At(claims[j].at + v)
  <2> DEFINE a == claims[i].at + w
             b == claims[j].at + v
  <2>1. a \in Nat /\ b \in Nat /\ a # b /\ tail <= a /\ tail <= b /\ a < head /\ b < head
    BY <1>1, <1>3
  <2> HIDE DEF a, b
  <2>2. At(a) # At(b)
    BY <2>1, Window
  <2> QED
    BY <2>2 DEF a, b
<1>5. Words(claims[i]) \cap Words(claims[j]) = {}
  BY <1>4 DEF Words
<1>6. claims[i].at # claims[j].at
  BY <1>1, <1>3
<1>7. At(claims[i].at) # At(claims[j].at)
  BY <1>5, ClaimLies
<1> QED
  BY <1>5, <1>6, <1>7

-----------------------------------------------------------------------------
(* What a producer does to a claim of its own *)

\* A step that writes words of claim i alone, and gives the claim the status s.
Fills(i, s) ==
    LET claim == claims[i]
        first == mem'[At(claim.at)]
    IN  /\ claim.status = "open" /\ UNCHANGED <<head, mirror, tail, cons>>
        /\ Len(claims') = Len(claims)
        /\ \A j \in DOMAIN claims :
              /\ claims'[j].at = claims[j].at /\ claims'[j].len = claims[j].len
              /\ claims'[j].item = claims[j].item
              /\ claims'[j].status = IF j = i THEN s ELSE claims[j].status
        /\ \A x \in 0 .. DataSize - 1 : x \notin Words(claim) => mem'[x] = mem[x]
        /\ s = "open" => first.total = 0
        /\ s # "open" => /\ first.total = claim.len /\ claim.at + claim.len <= mirror
                         /\ first.version = IF s = "ready" THEN Wire ELSE Pad
        /\ s = "ready" => \A w \in 0 .. claim.len - 1 : mem'[At(claim.at + w)].item = claim.item

\* Nobody else's claim, and nothing of the consumer's, is disturbed by it.
LEMMA FillsKeeps ==
    ASSUME Sound, TypeOK', NEW i \in DOMAIN claims, NEW s \in Statuses, Fills(i, s)
    PROVE  Order' /\ Shape' /\ ClaimsHold' /\ Published' /\ Consumer'
<1>1. /\ TypeOK /\ Order /\ Shape /\ ClaimsHold /\ Published /\ Consumer
      /\ claims[i].status = "open"
  BY DEF Sound, Fills
<1>2. /\ DOMAIN claims' = DOMAIN claims /\ DOMAIN claims = 1 .. Len(claims)
      /\ claims \in Seq(Claims) /\ claims' \in Seq(Claims) /\ Len(claims) \in Nat
      /\ claims' = <<>> <=> claims = <<>>
  <2>1. claims \in Seq(Claims) /\ claims' \in Seq(Claims) /\ Len(claims') = Len(claims)
    BY <1>1 DEF TypeOK, Fills
  <2> QED
    BY <2>1, LenProperties, EmptySeq
<1>3. \A j \in DOMAIN claims :
          /\ claims'[j].at = claims[j].at /\ claims'[j].len = claims[j].len
          /\ claims'[j].item = claims[j].item
          /\ claims'[j].status = IF j = i THEN s ELSE claims[j].status
  BY DEF Fills
<1>4. /\ head' = head /\ tail' = tail /\ cons' = cons /\ Len(claims') = Len(claims)
  BY DEF Fills
<1>5. ASSUME NEW j \in DOMAIN claims, j # i, NEW x \in Words(claims[j]) PROVE mem'[x] = mem[x]
  <2>1. x \notin Words(claims[i]) /\ x \in 0 .. DataSize - 1
    BY <1>1, <1>5, ClaimsApart, ClaimLies
  <2> QED
    BY <2>1 DEF Fills
<1>6. Order'
  <2>1. Tiles'
    <3>1. ASSUME NEW j \in DOMAIN claims
          PROVE  claims'[j].at = IF j = 1 THEN tail ELSE claims'[j - 1].at + claims'[j - 1].len
      <4>1. claims[j].at = IF j = 1 THEN tail ELSE claims[j - 1].at + claims[j - 1].len
        BY <1>1 DEF Order, Tiles
      <4>2. j # 1 => j - 1 \in DOMAIN claims
        BY <1>2
      <4> QED
        BY <1>3, <4>1, <4>2
    <3>2. claims # <<>> => Len(claims) \in DOMAIN claims
      BY <1>2, EmptySeq
    <3>3. head = IF claims = <<>> THEN tail ELSE claims[Len(claims)].at + claims[Len(claims)].len
      BY <1>1 DEF Order, Tiles
    <3>4. head - tail <= DataSize
      BY <1>1 DEF Order, Tiles
    <3> QED
      BY <1>2, <1>3, <1>4, <3>1, <3>2, <3>3, <3>4 DEF Tiles
  <2> QED
    BY <1>1, <1>2, <1>3, <1>4, <2>1 DEF Order
<1>7. Shape'
  BY <1>1, <1>2, <1>3, <1>4 DEF Shape
<1>8. ClaimsHold'
  <2> SUFFICES ASSUME NEW j \in DOMAIN claims
               PROVE  /\ claims'[j].status = "open" => mem'[At(claims[j].at)].total = 0
                      /\ claims'[j].status # "open" /\ ~(j = 1 /\ cons.pc = "advance") =>
                           /\ mem'[At(claims[j].at)].total = claims[j].len
                           /\ mem'[At(claims[j].at)].version =
                                IF claims'[j].status = "ready" THEN Wire ELSE Pad
                      /\ claims'[j].status = "ready" =>
                           \A w \in 0 .. claims[j].len - 1 :
                               mem'[At(claims[j].at + w)].item = claims[j].item
    BY <1>2, <1>3, <1>4 DEF ClaimsHold
  <2>1. CASE j = i
    BY <1>3, <2>1 DEF Fills
  <2>2. CASE j # i
    <3>1. mem'[At(claims[j].at)] = mem[At(claims[j].at)]
      BY <1>1, <1>5, <2>2, ClaimLies
    <3>2. \A w \in 0 .. claims[j].len - 1 : mem'[At(claims[j].at + w)] = mem[At(claims[j].at + w)]
      BY <1>5, <2>2 DEF Words
    <3> QED
      BY <1>1, <1>3, <2>2, <3>1, <3>2 DEF ClaimsHold
  <2> QED
    BY <2>1, <2>2
<1>9. Published'
  <2>1. \A j \in DOMAIN claims : claims'[j].status # "open" =>
                                    claims[j].at + claims[j].len <= mirror
    BY <1>1, <1>3 DEF Published, Fills
  <2>2. mirror' = mirror
    BY DEF Fills
  <2> QED
    BY <1>1, <1>2, <1>3, <1>4, <2>1, <2>2 DEF Published
<1>10. Consumer'
  <2>1. claims # <<>> => 1 \in DOMAIN claims
    BY <1>2, EmptySeq
  <2>2. cons.pc \in {"bytes", "zero", "advance"} => i # 1
    BY <1>1 DEF Consumer, InHand
  <2>3. cons.pc = "advance" => mem'[At(tail)].total = 0
    <3> SUFFICES ASSUME cons.pc = "advance" PROVE mem'[At(tail)].total = 0
      OBVIOUS
    <3>1. 1 \in DOMAIN claims /\ 1 # i
      BY <1>1, <2>1, <2>2 DEF Consumer, InHand
    <3>2. claims[1].at = tail
      BY <1>1, <3>1 DEF Order, Tiles
    <3>3. mem'[At(tail)] = mem[At(tail)]
      BY <1>1, <1>5, <3>1, <3>2, ClaimLies
    <3> QED
      BY <1>1, <3>3 DEF Consumer
  <2> QED
    BY <1>1, <1>2, <1>3, <1>4, <2>1, <2>2, <2>3 DEF Consumer, InHand
<1> QED
  BY <1>6, <1>7, <1>8, <1>9, <1>10

LEMMA ItemsDiffer ==
    \A p, q, n, m : Item(p, n) # None /\ (Item(p, n) = Item(q, m) => p = q /\ n = m)
BY DEF Item, None

\* Claim i is the frame, or the pad, of a producer that has not committed it.
OwnedBy(p, i) ==
    /\ prod[p].pc \in Filling
    /\ \/ claims[i].at = Start(p) /\ claims[i].item = Item(p, sent[p])
       \/ /\ claims[i].at = prod[p].head /\ claims[i].item = None
          /\ prod[p].pc \in {"pad", "commit pad"}

LEMMA OwnedByOne ==
    ASSUME Sound, NEW p \in Producers, NEW q \in Producers, p # q,
           NEW i \in DOMAIN claims, OwnedBy(p, i)
    PROVE  /\ ~ (claims[i].at = Start(q) /\ claims[i].item = Item(q, sent[q]))
           /\ ~ (/\ claims[i].at = prod[q].head /\ claims[i].item = None
                 /\ prod[q].pc \in {"mirror", "pad", "commit pad"})
<1> USE DEF Sound, Producer
<1>1. CASE claims[i].at = Start(p) /\ claims[i].item = Item(p, sent[p])
  BY <1>1, ItemsDiffer
<1>2. CASE /\ claims[i].at = prod[p].head /\ claims[i].item = None
           /\ prod[p].pc \in {"pad", "commit pad"}
  <2>1. claims[i].item # Item(q, sent[q])
    BY <1>2, ItemsDiffer
  <2>2. ASSUME prod[q].head = prod[p].head, prod[q].pc \in {"mirror", "pad", "commit pad"}
        PROVE  FALSE
    <3>1. PICK j \in DOMAIN claims : claims[j].at = Start(p) /\ claims[j].item = Item(p, sent[p])
      BY <1>2 DEF OwnerOf, Open, Filling
    <3>2. PICK k \in DOMAIN claims : claims[k].at = Start(q) /\ claims[k].item = Item(q, sent[q])
      BY <2>2 DEF OwnerOf, Open, Filling
    <3>3. CASE Wraps(prod[q].head, prod[q].len)
      <4>1. Start(p) = Start(q)
        BY <1>2, <2>2, <3>3 DEF Start, PadLen, OwnerOf
      <4>2. j = k
        BY <3>1, <3>2, <4>1, ClaimsApart
      <4> QED
        BY <3>1, <3>2, <4>2, ItemsDiffer
    <3>4. CASE ~ Wraps(prod[q].head, prod[q].len)
      <4>1. prod[q].head \in Nat
        BY DEF TypeOK, Calls
      <4>2. Start(q) = prod[q].head
        BY <3>4, <4>1 DEF Start, PadLen
      <4>3. i = k
        BY <1>2, <2>2, <3>2, <4>2, ClaimsApart
      <4> QED
        BY <1>2, <3>2, <4>3, ItemsDiffer
    <3> QED
      BY <3>3, <3>4
  <2> QED
    BY <1>2, <2>1, <2>2
<1> QED
  BY <1>1, <1>2 DEF OwnedBy

\* A producer's commit or write leaves what the others hold.
LEMMA FillsOthers ==
    ASSUME Sound, TypeOK', NEW p \in Producers, NEW q \in Producers, p # q,
           NEW i \in DOMAIN claims, NEW s \in Statuses, Fills(i, s), OwnedBy(p, i),
           prod'[q] = prod[q], sent'[q] = sent[q]
    PROVE  Producer(q)'
<1>1. /\ TypeOK /\ Order /\ Shape /\ OwnerOf(q) /\ ProgressOf(q)
  BY DEF Sound, Producer
<1>2. /\ DOMAIN claims' = DOMAIN claims /\ mirror' = mirror /\ Start(q)' = Start(q)
  <2>1. claims \in Seq(Claims) /\ claims' \in Seq(Claims) /\ Len(claims') = Len(claims)
    BY <1>1 DEF TypeOK, Fills
  <2> QED
    BY <2>1, LenProperties DEF Start, Fills
<1>3. ASSUME NEW j \in DOMAIN claims, j # i
      PROVE  /\ claims'[j].at = claims[j].at /\ claims'[j].len = claims[j].len
             /\ claims'[j].item = claims[j].item /\ claims'[j].status = claims[j].status
             /\ \A x \in Words(claims[j]) : mem'[x] = mem[x]
  <2>1. \A x \in Words(claims[j]) : x \notin Words(claims[i]) /\ x \in 0 .. DataSize - 1
    BY <1>1, <1>3, ClaimsApart, ClaimLies
  <2> QED
    BY <1>3, <2>1 DEF Fills
<1>5. ASSUME prod[q].pc \in Filling
      PROVE  /\ Open(Start(q), prod[q].len, Item(q, sent[q]))'
             /\ \A w \in 0 .. prod[q].len - 1 : mem'[At(Start(q) + w)] = mem[At(Start(q) + w)]
             /\ mem'[At(Start(q))] = mem[At(Start(q))]
  <2>1. PICK j \in DOMAIN claims : /\ claims[j].at = Start(q) /\ claims[j].len = prod[q].len
                                   /\ claims[j].item = Item(q, sent[q])
                                   /\ claims[j].status = "open"
    BY <1>1, <1>5 DEF OwnerOf, Open
  <2>2. j # i
    BY <2>1, OwnedByOne
  <2>3. Open(Start(q), prod[q].len, Item(q, sent[q]))'
    BY <1>2, <1>3, <2>1, <2>2 DEF Open
  <2>4. \A w \in 0 .. prod[q].len - 1 : At(Start(q) + w) \in Words(claims[j])
    BY <2>1 DEF Words
  <2>5. At(Start(q)) \in Words(claims[j])
    BY <1>1, <2>1, ClaimLies
  <2> QED
    BY <1>3, <2>2, <2>3, <2>4, <2>5
<1>6. ASSUME prod[q].pc \in {"mirror", "pad", "commit pad"}, Wraps(prod[q].head, prod[q].len)
      PROVE  /\ Open(prod[q].head, PadLen(prod[q].head, prod[q].len), None)'
             /\ mem'[At(prod[q].head)] = mem[At(prod[q].head)]
  <2>1. PICK j \in DOMAIN claims : /\ claims[j].at = prod[q].head
                                   /\ claims[j].len = PadLen(prod[q].head, prod[q].len)
                                   /\ claims[j].item = None /\ claims[j].status = "open"
    BY <1>1, <1>6 DEF OwnerOf, Open
  <2>2. j # i
    BY <1>6, <2>1, OwnedByOne
  <2>3. Open(prod[q].head, PadLen(prod[q].head, prod[q].len), None)'
    BY <1>2, <1>3, <2>1, <2>2 DEF Open
  <2>4. At(prod[q].head) \in Words(claims[j])
    BY <1>1, <2>1, ClaimLies
  <2> QED
    BY <1>3, <2>2, <2>3, <2>4
<1>7. OwnerOf(q)'
  BY <1>1, <1>2, <1>5, <1>6 DEF OwnerOf
<1>8. ProgressOf(q)'
  BY <1>1, <1>2, <1>5, <1>6 DEF ProgressOf, OwnerOf, Filling
<1> QED
  BY <1>7, <1>8 DEF Producer

-----------------------------------------------------------------------------
(* Types *)

\* What a producer works on.
LEMMA Publishing ==
    ASSUME TypeOK, NEW p \in Producers
    PROVE  /\ prod[p].len \in 0 .. DataSize /\ prod[p].head \in Nat /\ Start(p) \in Nat
           /\ Start(p) = prod[p].head + PadLen(prod[p].head, prod[p].len)
           /\ At(prod[p].head) \in 0 .. DataSize - 1 /\ At(Start(p)) \in 0 .. DataSize - 1
           /\ PadLen(prod[p].head, prod[p].len) \in Nat /\ Need(prod[p].head, prod[p].len) \in Nat
           /\ prod[p].len \in Nat
<1>1. prod[p].len \in 0 .. DataSize /\ prod[p].head \in Nat /\ prod[p].len \in Nat
  BY RingAssumption DEF TypeOK, Calls
<1>2. PadLen(prod[p].head, prod[p].len) \in Nat /\ Need(prod[p].head, prod[p].len) \in Nat
  BY <1>1, PadLenIs
<1>3. Start(p) = prod[p].head + PadLen(prod[p].head, prod[p].len) /\ Start(p) \in Nat
  BY <1>1, <1>2 DEF Start
<1> QED
  BY <1>1, <1>2, <1>3, Circle

LEMMA SettledIs ==
    ASSUME claims \in Seq(Claims), NEW pos, NEW s \in Statuses
    PROVE  /\ Settled(pos, s) \in Seq(Claims) /\ Len(Settled(pos, s)) = Len(claims)
           /\ DOMAIN Settled(pos, s) = DOMAIN claims
           /\ \A j \in DOMAIN claims :
                /\ Settled(pos, s)[j].at = claims[j].at /\ Settled(pos, s)[j].len = claims[j].len
                /\ Settled(pos, s)[j].item = claims[j].item
                /\ Settled(pos, s)[j].status = IF claims[j].at = pos THEN s ELSE claims[j].status
<1> DEFINE new == Settled(pos, s)
<1>1. DOMAIN claims = 1 .. Len(claims) /\ Len(claims) \in Nat
  BY LenProperties
<1>2. new = [j \in 1 .. Len(claims) |->
                 IF claims[j].at = pos THEN [claims[j] EXCEPT !.status = s] ELSE claims[j]]
  BY <1>1 DEF Settled
<1>3. \A j \in 1 .. Len(claims) : claims[j] \in Claims
  BY <1>1, ElementOfSeq
<1> HIDE DEF new
<1>4. \A j \in 1 .. Len(claims) : new[j] \in Claims
  BY <1>2, <1>3 DEF Claims
<1>5. new \in Seq(Claims) /\ Len(new) = Len(claims) /\ DOMAIN new = DOMAIN claims
  BY <1>1, <1>2, <1>4, IsASeq
<1>6. \A j \in DOMAIN claims :
        /\ new[j].at = claims[j].at /\ new[j].len = claims[j].len
        /\ new[j].item = claims[j].item
        /\ new[j].status = IF claims[j].at = pos THEN s ELSE claims[j].status
  BY <1>1, <1>2, <1>3 DEF Claims
<1> QED
  BY <1>5, <1>6 DEF new

LEMMA CallTypes ==
    ASSUME TypeOK, NEW p \in Producers
    PROVE  /\ \A pc \in Filling \union {"reserve"} : Goto(p, pc) => prod' \in [Producers -> Calls]
           /\ Return(p) => prod' \in [Producers -> Calls]
           /\ prod[p] \in Calls
<1>1. prod \in [Producers -> Calls] /\ prod[p] \in Calls
  BY DEF TypeOK
<1>2. ASSUME NEW pc \in Filling \union {"reserve"}, Goto(p, pc)
      PROVE  prod' \in [Producers -> Calls]
  <2>1. [prod[p] EXCEPT !.pc = pc] \in Calls
    BY <1>1 DEF Calls
  <2>2. prod' = [prod EXCEPT ![p] = [prod[p] EXCEPT !.pc = pc]]
    BY <1>2 DEF Goto
  <2> QED
    BY <1>1, <2>1, <2>2
<1>3. Idle \in Calls
  BY RingAssumption DEF Idle, Calls
<1> QED
  BY <1>1, <1>2, <1>3 DEF Return

LEMMA WordTypes ==
    ASSUME TypeOK, NEW x
    PROVE  /\ \A v \in {Pad, Wire} : [mem EXCEPT ![x].version = v] \in [0 .. DataSize - 1 -> WordsOf]
           /\ \A n \in Nat : [mem EXCEPT ![x].total = n] \in [0 .. DataSize - 1 -> WordsOf]
BY DEF TypeOK, WordsOf

\* What is left of a sequence without its first element.
LEMMA Later ==
    ASSUME NEW S, NEW s \in Seq(S)
    PROVE  LET rest == SubSeq(s, 2, Len(s))
           IN  /\ rest \in Seq(S)
               /\ DOMAIN rest = 1 .. Len(s) - 1
               /\ s # <<>> => Len(rest) = Len(s) - 1
               /\ \A i \in DOMAIN rest : i + 1 \in DOMAIN s /\ rest[i] = s[i + 1]
<1> DEFINE rest == SubSeq(s, 2, Len(s))
<1>1. Len(s) \in Nat /\ DOMAIN s = 1 .. Len(s) /\ (s # <<>> => Len(s) >= 1)
  BY LenProperties, EmptySeq
<1>2. \A i \in 2 .. Len(s) : s[i] \in S
  BY <1>1, ElementOfSeq
<1>3. rest \in Seq(S)
  BY <1>1, <1>2, SubSeqProperties
<1>4. Len(rest) = IF 2 <= Len(s) THEN Len(s) - 1 ELSE 0
  BY <1>1, <1>2, SubSeqProperties
<1>5. \A i \in 1 .. Len(s) - 1 : rest[i] = s[i + 1]
  BY <1>1, <1>2, SubSeqProperties
<1> HIDE DEF rest
<1>6. DOMAIN rest = 1 .. Len(rest)
  BY <1>3, LenProperties
<1> DEFINE n == Len(s)
           m == Len(rest)
<1>a. n \in Nat /\ m = (IF 2 <= n THEN n - 1 ELSE 0) /\ DOMAIN rest = 1 .. m
  BY <1>1, <1>4, <1>6
<1>b. s # <<>> => n >= 1
  BY <1>1
<1> HIDE DEF n, m
<1>7. DOMAIN rest = 1 .. Len(s) - 1
  <2>1. 1 .. m = 1 .. n - 1
    BY <1>a
  <2> QED
    BY <1>a, <2>1 DEF n
<1>8. s # <<>> => Len(rest) = Len(s) - 1
  <2>1. s # <<>> => m = n - 1
    BY <1>a, <1>b
  <2> QED
    BY <2>1 DEF m, n
<1>9. \A i \in DOMAIN rest : i + 1 \in DOMAIN s /\ rest[i] = s[i + 1]
  BY <1>1, <1>5, <1>7
<1> QED
  BY <1>3, <1>7, <1>8, <1>9 DEF rest

LEMMA TypeOKKept == TypeOK /\ Next => TypeOK'
<1> SUFFICES ASSUME TypeOK, Next PROVE TypeOK'
  OBVIOUS
<1>0. TypeOK /\ DataSize \in Nat \ {0} /\ Sizes \subseteq 1 .. DataSize
  BY RingAssumption
<1>1. ASSUME NEW p \in Producers, Publish(p) PROVE TypeOK'
  <2>1. CASE Begin(p)
    <3>1. PICK len \in Sizes, enforce \in BOOLEAN :
             prod' = [prod EXCEPT ![p] = [pc |-> "tail", len |-> len, enforce |-> enforce, head |-> head]]
      BY <2>1 DEF Begin
    <3>2. [pc |-> "tail", len |-> len, enforce |-> enforce, head |-> head] \in Calls
      BY <1>0 DEF Calls, TypeOK
    <3> QED
      BY <1>0, <2>1, <3>1, <3>2 DEF Begin, TypeOK
  <2>2. CASE LoadTail(p)
    BY <1>0, <2>2, CallTypes DEF LoadTail, TypeOK
  <2>3. CASE Retry(p)
    <3>1. [prod[p] EXCEPT !.head = head, !.pc = "tail"] \in Calls
      BY <1>0, CallTypes DEF Calls, TypeOK
    <3>2. prod' = [prod EXCEPT ![p] = [prod[p] EXCEPT !.head = head, !.pc = "tail"]]
      BY <2>3 DEF Retry
    <3> QED
      BY <1>0, <2>3, <3>1, <3>2 DEF Retry, TypeOK
  <2>4. CASE Reserve(p)
    <3>1. /\ prod[p].len \in Nat /\ head = prod[p].head /\ head \in Nat
          /\ Start(p) \in Nat /\ PadLen(prod[p].head, prod[p].len) \in Nat
          /\ Need(head, prod[p].len) \in Nat
      BY <2>4, Publishing DEF Reserve
    <3>2. Item(p, sent[p] + 1) \in Items /\ None \in Items
      <4>1. sent[p] + 1 \in Nat
        BY <1>0 DEF TypeOK
      <4> QED
        BY <4>1 DEF Items, Frames
    <3>3. Places(p) \in Seq(Claims)
      <4>1. [at |-> prod[p].head, len |-> PadLen(prod[p].head, prod[p].len),
             item |-> None, status |-> "open"] \in Claims
        BY <3>1, <3>2 DEF Claims, Statuses
      <4>2. [at |-> Start(p), len |-> prod[p].len, item |-> Item(p, sent[p] + 1), status |-> "open"]
                \in Claims
        BY <1>0, <3>1, <3>2 DEF Claims, Statuses
      <4> QED
        BY <4>1, <4>2 DEF Places
    <3>4. claims' \in Seq(Claims)
      BY <1>0, <2>4, <3>3, ConcatProperties DEF Reserve, TypeOK
    <3>5. prod' \in [Producers -> Calls]
      BY <1>0, <2>4, CallTypes DEF Reserve, Filling
    <3>6. head' \in Nat
      BY <2>4, <3>1 DEF Reserve
    <3>7. sent' \in [Producers -> Nat]
      BY <1>0, <2>4 DEF Reserve, TypeOK
    <3> QED
      BY <1>0, <2>4, <3>4, <3>5, <3>6, <3>7 DEF Reserve, TypeOK
  <2>5. CASE PublishMirror(p)
    <3>1. mirror' \in Nat
      BY <1>0, <2>5, Publishing DEF PublishMirror, Mirrored, TypeOK
    <3>2. prod' \in [Producers -> Calls]
      BY <1>0, <2>5, CallTypes DEF PublishMirror, Filling
    <3> QED
      BY <1>0, <2>5, <3>1, <3>2 DEF PublishMirror, TypeOK
  <2>6. CASE WritePad(p) \/ WriteHeader(p)
    <3>1. mem' \in [0 .. DataSize - 1 -> WordsOf]
      <4>1. CASE WritePad(p)
        BY <1>0, <4>1, WordTypes DEF WritePad
      <4>2. CASE WriteHeader(p)
        BY <1>0, <4>2, WordTypes DEF WriteHeader
      <4> QED
        BY <2>6, <4>1, <4>2
    <3>2. prod' \in [Producers -> Calls]
      BY <1>0, <2>6, CallTypes DEF WritePad, WriteHeader, Filling
    <3> QED
      BY <1>0, <2>6, <3>1, <3>2 DEF WritePad, WriteHeader, TypeOK
  <2>7. CASE CommitPad(p) \/ Commit(p)
    <3>1. prod[p].len \in Nat /\ PadLen(prod[p].head, prod[p].len) \in Nat
      BY <2>7, Publishing DEF CommitPad, Commit
    <3>2. mem' \in [0 .. DataSize - 1 -> WordsOf]
      <4>1. CASE CommitPad(p)
        BY <1>0, <3>1, <4>1, WordTypes DEF CommitPad
      <4>2. CASE Commit(p)
        BY <1>0, <3>1, <4>2, WordTypes DEF Commit
      <4> QED
        BY <2>7, <4>1, <4>2
    <3>3. claims' \in Seq(Claims)
      <4>1. claims \in Seq(Claims)
        BY <1>0 DEF TypeOK
      <4>2. \A pos : Settled(pos, "ready") \in Seq(Claims) /\ Settled(pos, "void") \in Seq(Claims)
        BY <4>1, SettledIs DEF Statuses
      <4> QED
        BY <2>7, <4>2 DEF CommitPad, Commit
    <3>4. prod' \in [Producers -> Calls]
      BY <1>0, <2>7, CallTypes DEF CommitPad, Commit, Filling
    <3> QED
      BY <1>0, <2>7, <3>2, <3>3, <3>4 DEF CommitPad, Commit, TypeOK
  <2>8. CASE WriteBody(p) \/ FailBody(p)
    <3>1. Item(p, sent[p]) \in Items
      BY <1>0 DEF Items, Frames, TypeOK
    <3>2. Filled(p) \in [0 .. DataSize - 1 -> WordsOf]
      BY <1>0, <3>1, RingAssumption DEF Filled, Word, WordsOf, TypeOK
    <3>3. mem' \in [0 .. DataSize - 1 -> WordsOf]
      BY <2>8, <3>2 DEF WriteBody, FailBody, WordsOf
    <3>4. prod' \in [Producers -> Calls]
      BY <1>0, <2>8, CallTypes DEF WriteBody, FailBody, Filling
    <3> QED
      BY <1>0, <2>8, <3>3, <3>4 DEF WriteBody, FailBody, TypeOK
  <2> QED
    BY <1>1, <2>1, <2>2, <2>3, <2>4, <2>5, <2>6, <2>7, <2>8 DEF Publish, Fill
<1>2. CASE SeeMirror
  BY <1>0, <1>2 DEF SeeMirror, TypeOK
<1>3. CASE SeeTotal
  <2>1. mem[At(cons.tail)].total \in Nat
    BY <1>0, Circle DEF TypeOK, WordsOf
  <2> QED
    BY <1>0, <1>3, <2>1 DEF SeeTotal, TypeOK
<1>4. CASE CopyFrame
  BY <1>0, <1>4 DEF CopyFrame, TypeOK
<1>5. CASE Zero
  BY <1>0, <1>5, WordTypes DEF Zero, TypeOK
<1>6. CASE Advance
  <2>1. claims' \in Seq(Claims)
    <3>1. claims' = SubSeq(claims, 2, Len(claims)) /\ claims \in Seq(Claims)
      BY <1>0, <1>6 DEF Advance, TypeOK
    <3> QED
      BY <3>1, Later
  <2>2. cons' \in [pc : {"next", "total", "bytes", "zero", "advance"}, tail : Nat, len : Nat]
    <3>1. cons' = [cons EXCEPT !.pc = "next", !.tail = cons.tail + cons.len, !.len = 0]
      BY <1>6 DEF Advance
    <3>2. cons.tail + cons.len \in Nat
      BY <1>0 DEF TypeOK
    <3> QED
      BY <1>0, <3>1, <3>2 DEF TypeOK
  <2>3. tail' \in Nat
    BY <1>0, <1>6 DEF Advance, TypeOK
  <2> QED
    BY <1>0, <1>6, <2>1, <2>2, <2>3 DEF Advance, TypeOK
<1> QED
  BY <1>1, <1>2, <1>3, <1>4, <1>5, <1>6 DEF Next, Consume

-----------------------------------------------------------------------------
(* The race for the head *)

\* What a reservation adds to the claims: the frame at the end, a pad before it.
Adds(p, len, pad, start) ==
    LET n == Len(claims)
        frame == [at |-> start, len |-> len, item |-> Item(p, sent[p] + 1), status |-> "open"]
        void == [at |-> head, len |-> pad, item |-> None, status |-> "open"]
    IN  /\ n \in Nat /\ DOMAIN claims = 1 .. n
        /\ \A j \in 1 .. n : claims'[j] = claims[j]
        /\ IF Wraps(head, len)
             THEN /\ DOMAIN claims' = 1 .. n + 2 /\ Len(claims') = n + 2
                  /\ claims'[n + 1] = void /\ claims'[n + 2] = frame
             ELSE /\ DOMAIN claims' = 1 .. n + 1 /\ Len(claims') = n + 1
                  /\ claims'[n + 1] = frame

LEMMA ReserveAdds ==
    ASSUME TypeOK, NEW p \in Producers, Reserve(p)
    PROVE  Adds(p, prod[p].len, PadLen(head, prod[p].len), Start(p))
<1> DEFINE len == prod[p].len
           pad == PadLen(head, len)
           start == Start(p)
<1>0. /\ prod[p].head = head /\ len \in Nat /\ start \in Nat /\ pad \in Nat
      /\ head \in Nat /\ sent[p] \in Nat /\ claims \in Seq(Claims)
      /\ claims' = claims \o Places(p) /\ prod[p].len = len
  <2>1. prod[p].head = head /\ claims' = claims \o Places(p)
    BY DEF Reserve
  <2>2. head \in Nat /\ sent[p] \in Nat /\ claims \in Seq(Claims)
    BY DEF TypeOK
  <2> QED
    BY <2>1, <2>2, Publishing
<1> DEFINE frame == [at |-> start, len |-> len, item |-> Item(p, sent[p] + 1), status |-> "open"]
           void == [at |-> head, len |-> pad, item |-> None, status |-> "open"]
<1>1. claims' = claims \o (IF Wraps(head, len) THEN <<void, frame>> ELSE <<frame>>)
  BY <1>0 DEF Places, pad, start
<1>2. claims \in Seq(Claims) /\ Len(claims) \in Nat /\ DOMAIN claims = 1 .. Len(claims)
  BY <1>0, LenProperties
<1>3. /\ frame \in Claims /\ void \in Claims
  <2>1. Item(p, sent[p] + 1) \in Items /\ None \in Items
    <3>1. sent[p] + 1 \in Nat
      BY <1>0
    <3> QED
      BY <3>1 DEF Items, Frames
  <2> QED
    BY <1>0, <2>1 DEF Claims, Statuses
<1> SUFFICES Adds(p, len, pad, start)
  OBVIOUS
<1> HIDE DEF frame, void, len, pad, start
<1>4. CASE Wraps(head, len)
  <2>1. /\ <<void, frame>> \in Seq(Claims) /\ Len(<<void, frame>>) = 2
        /\ <<void, frame>>[1] = void /\ <<void, frame>>[2] = frame
    BY <1>3
  <2> DEFINE new == <<void, frame>>
  <2>2. /\ new \in Seq(Claims) /\ Len(new) = 2 /\ new[1] = void /\ new[2] = frame
        /\ claims' = claims \o new
    BY <1>1, <1>4, <2>1
  <2> HIDE DEF new
  <2>3. /\ DOMAIN claims' = 1 .. Len(claims) + 2 /\ Len(claims') = Len(claims) + 2
        /\ \A j \in 1 .. Len(claims) : claims'[j] = claims[j]
        /\ claims'[Len(claims) + 1] = void /\ claims'[Len(claims) + 2] = frame
    <3>1. claims' \in Seq(Claims) /\ Len(claims') = Len(claims) + 2
      <4>1. claims \o new \in Seq(Claims) /\ Len(claims \o new) = Len(claims) + Len(new)
        BY <1>2, <2>2, ConcatProperties
      <4> QED
        BY <2>2, <4>1
    <3>2. DOMAIN claims' = 1 .. Len(claims) + 2
      BY <3>1, LenProperties
    <3>3. \A j \in 1 .. Len(claims) + 2 :
             claims'[j] = IF j <= Len(claims) THEN claims[j] ELSE new[j - Len(claims)]
      <4>1. \A j \in 1 .. Len(claims) + Len(new) :
               (claims \o new)[j] = IF j <= Len(claims) THEN claims[j] ELSE new[j - Len(claims)]
        BY <1>2, <2>2, ConcatProperties
      <4> QED
        BY <2>2, <4>1
    <3>4. \A j \in 1 .. Len(claims) : claims'[j] = claims[j]
      BY <1>2, <3>3
    <3>5. claims'[Len(claims) + 1] = void /\ claims'[Len(claims) + 2] = frame
      <4>1. claims'[Len(claims) + 1] = new[(Len(claims) + 1) - Len(claims)]
        BY <1>2, <3>3
      <4>2. claims'[Len(claims) + 2] = new[(Len(claims) + 2) - Len(claims)]
        BY <1>2, <3>3
      <4>3. (Len(claims) + 1) - Len(claims) = 1 /\ (Len(claims) + 2) - Len(claims) = 2
        BY <1>2
      <4> QED
        BY <2>2, <4>1, <4>2, <4>3
    <3> QED
      BY <3>1, <3>2, <3>4, <3>5
  <2> QED
    BY <1>2, <1>4, <2>3 DEF Adds, frame, void
<1>5. CASE ~ Wraps(head, len)
  <2>1. claims' = Append(claims, frame)
    BY <1>1, <1>2, <1>3, <1>5, AppendIsConcat
  <2>2. /\ claims' \in Seq(Claims) /\ Len(claims') = Len(claims) + 1
        /\ \A j \in 1 .. Len(claims) : claims'[j] = claims[j]
        /\ claims'[Len(claims) + 1] = frame
    BY <1>2, <1>3, <2>1, AppendProperties
  <2>3. DOMAIN claims' = 1 .. Len(claims) + 1
    BY <2>2, LenProperties
  <2> QED
    BY <1>2, <1>5, <2>2, <2>3 DEF Adds, frame
<1> QED
  BY <1>4, <1>5

\* What a step of p's that goes on to pc leaves of its locals.
LEMMA GoesOn ==
    ASSUME TypeOK, NEW p \in Producers, NEW pc \in Filling \union {"reserve"}, Goto(p, pc)
    PROVE  /\ \A q \in Producers : q # p => prod'[q] = prod[q]
           /\ prod'[p].pc = pc /\ prod'[p].len = prod[p].len /\ prod'[p].head = prod[p].head
           /\ Start(p)' = Start(p)
<1>1. prod \in [Producers -> Calls] /\ prod[p] \in Calls
  BY DEF TypeOK
<1>2. /\ \A q \in Producers : q # p => prod'[q] = prod[q]
      /\ prod'[p].pc = pc /\ prod'[p].len = prod[p].len /\ prod'[p].head = prod[p].head
  BY <1>1 DEF Goto, Calls
<1> QED
  BY <1>2 DEF Start

\* A producer asks for room before it tries to reserve it.
LEMMA LocalsKept ==
    ASSUME TypeOK, Race, NEW p \in Producers, Publish(p)
    PROVE  tail' = tail /\ \A q \in Producers : LocalsOf(q)'
<1>1. /\ prod \in [Producers -> Calls] /\ prod[p] \in Calls /\ LocalsOf(p)
      /\ \A q \in Producers : LocalsOf(q)
  BY DEF TypeOK, Race
<1>2. tail' = tail
  BY DEF Publish, Fill, Begin, LoadTail, Reserve, Retry, PublishMirror, WritePad, CommitPad,
         WriteHeader, WriteBody, FailBody, Commit
<1>3. CASE Begin(p)
  <2>1. PICK len \in Sizes, enforce \in BOOLEAN :
           prod' = [prod EXCEPT ![p] = [pc |-> "tail", len |-> len, enforce |-> enforce, head |-> head]]
    BY <1>3 DEF Begin
  <2>2. prod'[p].pc = "tail" /\ prod'[p].len >= 1
    BY <1>1, <2>1, RingAssumption
  <2> QED
    BY <1>1, <1>2, <2>1, <2>2 DEF LocalsOf
<1>4. CASE LoadTail(p) /\ Room(p)
  <2>1. prod[p].pc = "tail" /\ Goto(p, "reserve")
    BY <1>4 DEF LoadTail
  <2>2. /\ prod'[p].pc = "reserve" /\ prod'[p].len = prod[p].len /\ prod'[p].head = prod[p].head
        /\ \A q \in Producers : q # p => prod'[q] = prod[q]
    BY <2>1, GoesOn
  <2>3. /\ prod[p].head - tail + Need(prod[p].head, prod[p].len) <= Budget(prod[p].enforce)
        /\ Budget(prod[p].enforce) <= DataSize /\ Budget(prod[p].enforce) \in Int
    BY <1>4, RingAssumption DEF Room, Budget
  <2>4. Need(prod[p].head, prod[p].len) \in Int /\ prod[p].head \in Int /\ tail \in Int
    BY Publishing DEF TypeOK
  <2>5. prod[p].head + Need(prod[p].head, prod[p].len) - tail <= DataSize
    BY <2>3, <2>4, RingAssumption
  <2> QED
    BY <1>1, <1>2, <2>1, <2>2, <2>5 DEF LocalsOf
<1>5. CASE LoadTail(p) /\ ~ Room(p)
  BY <1>1, <1>2, <1>5 DEF LoadTail, Return, Idle, LocalsOf
<1>6. CASE Retry(p)
  <2>1. /\ prod'[p].pc = "tail" /\ prod'[p].len = prod[p].len /\ prod[p].pc = "reserve"
        /\ \A q \in Producers : q # p => prod'[q] = prod[q]
    BY <1>1, <1>6 DEF Retry, Calls
  <2> QED
    BY <1>1, <1>2, <2>1 DEF LocalsOf
<1>7. CASE Commit(p)
  BY <1>1, <1>2, <1>7 DEF Commit, Return, Idle, LocalsOf
<1>8. ASSUME NEW pc \in Filling, Goto(p, pc), prod[p].pc # "idle"
      PROVE  \A q \in Producers : LocalsOf(q)'
  <2>1. /\ prod'[p].pc = pc /\ prod'[p].len = prod[p].len
        /\ \A q \in Producers : q # p => prod'[q] = prod[q]
    BY <1>8, GoesOn
  <2>2. pc # "reserve"
    BY DEF Filling
  <2> QED
    BY <1>1, <1>2, <1>8, <2>1, <2>2 DEF LocalsOf
<1>9. CASE Reserve(p)
  BY <1>8, <1>9 DEF Reserve, Filling
<1>10. CASE PublishMirror(p)
  BY <1>8, <1>10 DEF PublishMirror, Filling
<1>11. CASE WritePad(p) \/ CommitPad(p)
  BY <1>8, <1>11 DEF WritePad, CommitPad, Filling
<1>12. CASE WriteHeader(p) \/ WriteBody(p) \/ FailBody(p)
  BY <1>8, <1>12 DEF WriteHeader, WriteBody, FailBody, Filling
<1> QED
  BY <1>2, <1>3, <1>4, <1>5, <1>6, <1>7, <1>9, <1>10, <1>11, <1>12 DEF Publish, Fill

\* The places stay where they are when only their statuses change.
LEMMA FollowStays ==
    ASSUME TypeOK, Follow, head' = head, Len(claims') = Len(claims),
           DOMAIN claims' = DOMAIN claims,
           \A i \in DOMAIN claims : claims'[i].at = claims[i].at /\ claims'[i].len = claims[i].len,
           claims' # <<>> => claims # <<>>
    PROVE  Follow'
<1>1. DOMAIN claims = 1 .. Len(claims) /\ Len(claims) \in Nat /\ (claims # <<>> => Len(claims) # 0)
  BY LenProperties, EmptySeq DEF TypeOK
<1>2. \A i \in DOMAIN claims \ {1} : i - 1 \in DOMAIN claims
  BY <1>1
<1>3. claims # <<>> => Len(claims) \in DOMAIN claims
  BY <1>1
<1> QED
  BY <1>2, <1>3 DEF Follow

LEMMA SettledFollow ==
    ASSUME TypeOK, Follow, head' = head, NEW pos, NEW s \in Statuses, claims' = Settled(pos, s)
    PROVE  Follow'
<1>1. claims \in Seq(Claims)
  BY DEF TypeOK
<1>2. /\ claims' \in Seq(Claims) /\ Len(claims') = Len(claims) /\ DOMAIN claims' = DOMAIN claims
      /\ \A i \in DOMAIN claims : claims'[i].at = claims[i].at /\ claims'[i].len = claims[i].len
  BY <1>1, SettledIs
<1>3. claims' # <<>> => claims # <<>>
  BY <1>1, <1>2, EmptySeq
<1> QED
  BY <1>2, <1>3, FollowStays

LEMMA ReserveFollows ==
    ASSUME TypeOK, Race, NEW p \in Producers, Reserve(p)
    PROVE  Follow' /\ head' - tail <= DataSize
<1> DEFINE len == prod[p].len
           pad == PadLen(head, len)
           start == Start(p)
           n == Len(claims)
<1>1. /\ Adds(p, len, pad, start) /\ start = head + pad /\ start \in Nat /\ head' = start + len
      /\ head \in Nat /\ len \in Nat /\ pad \in Nat /\ n \in Nat /\ DOMAIN claims = 1 .. n
  <2>1. prod[p].head = head /\ head' = head + Need(head, prod[p].len)
    BY DEF Reserve
  <2>2. /\ prod[p].head \in Nat /\ start = prod[p].head + PadLen(prod[p].head, prod[p].len)
        /\ PadLen(prod[p].head, prod[p].len) \in Nat /\ prod[p].len \in Nat /\ start \in Nat
    BY Publishing
  <2>3. n \in Nat /\ DOMAIN claims = 1 .. n
    BY LenProperties DEF TypeOK
  <2>4. Adds(p, len, pad, start)
    BY ReserveAdds
  <2> QED
    BY <2>1, <2>2, <2>3, <2>4 DEF Need
<1>2. ~ Wraps(head, len) => pad = 0
  BY DEF PadLen
<1>3. head' - tail <= DataSize
  <2>1. prod[p].pc = "reserve" /\ head' = prod[p].head + Need(prod[p].head, prod[p].len)
    BY DEF Reserve
  <2>2. LocalsOf(p)
    BY DEF Race
  <2>3. prod[p].head + Need(prod[p].head, prod[p].len) - tail <= DataSize
    BY <2>1, <2>2 DEF LocalsOf
  <2>4. /\ prod[p].head \in Nat /\ Need(prod[p].head, prod[p].len) \in Nat /\ tail \in Nat
        /\ DataSize \in Nat
    BY Publishing, RingAssumption DEF TypeOK
  <2> QED
    BY <2>1, <2>3, <2>4
<1>4. /\ \A i \in 1 .. n : i # 1 => claims[i].at = claims[i - 1].at + claims[i - 1].len
      /\ n # 0 => head = claims[n].at + claims[n].len
  BY <1>1, EmptySeq DEF Race, Follow, TypeOK
<1>5. \A i \in 1 .. n : claims'[i] = claims[i]
  BY <1>1 DEF Adds
<1> HIDE DEF len, pad, start
<1>6. CASE Wraps(head, len)
  <2>1. /\ DOMAIN claims' = 1 .. n + 2 /\ Len(claims') = n + 2
        /\ claims'[n + 1].at = head /\ claims'[n + 1].len = pad
        /\ claims'[n + 2].at = start /\ claims'[n + 2].len = len
    BY <1>1, <1>6 DEF Adds
  <2> HIDE DEF n
  <2>2. ASSUME NEW i \in 1 .. n + 2, i # 1
        PROVE  claims'[i].at = claims'[i - 1].at + claims'[i - 1].len
    <3>1. CASE i \in 1 .. n
      <4>1. i - 1 \in 1 .. n
        BY <1>1, <2>2, <3>1
      <4> QED
        BY <1>4, <1>5, <2>2, <3>1, <4>1
    <3>2. CASE i = n + 1
      <4>1. i - 1 = n /\ n \in 1 .. n /\ n # 0
        BY <1>1, <2>2, <3>2
      <4> QED
        BY <1>4, <1>5, <2>1, <3>2, <4>1
    <3>3. CASE i = n + 2
      <4>1. i - 1 = n + 1
        BY <1>1, <3>3
      <4> QED
        BY <1>1, <2>1, <3>3, <4>1
    <3>4. \A k \in 1 .. n + 2 : k \in 1 .. n \/ k = n + 1 \/ k = n + 2
      BY <1>1
    <3> QED
      BY <3>1, <3>2, <3>3, <3>4
  <2> QED
    BY <1>1, <1>3, <2>1, <2>2 DEF Follow
<1>7. CASE ~ Wraps(head, len)
  <2>1. /\ DOMAIN claims' = 1 .. n + 1 /\ Len(claims') = n + 1
        /\ claims'[n + 1].at = start /\ claims'[n + 1].len = len /\ start = head
    BY <1>1, <1>2, <1>7 DEF Adds
  <2> HIDE DEF n
  <2>2. ASSUME NEW i \in 1 .. n + 1, i # 1
        PROVE  claims'[i].at = claims'[i - 1].at + claims'[i - 1].len
    <3>1. CASE i \in 1 .. n
      <4>1. i - 1 \in 1 .. n
        BY <1>1, <2>2, <3>1
      <4> QED
        BY <1>4, <1>5, <2>2, <3>1, <4>1
    <3>2. CASE i = n + 1
      <4>1. i - 1 = n /\ n \in 1 .. n /\ n # 0
        BY <1>1, <2>2, <3>2
      <4> QED
        BY <1>4, <1>5, <2>1, <3>2, <4>1
    <3> QED
      BY <1>1, <3>1, <3>2
  <2> QED
    BY <1>1, <1>3, <2>1, <2>2 DEF Follow
<1> QED
  BY <1>6, <1>7

LEMMA Nearer == \A a, b, c, d \in Nat : a - b <= d /\ b <= c => a - c <= d
OBVIOUS

LEMMA AdvanceFollows ==
    ASSUME TypeOK, Race, Advance
    PROVE  Race'
<1>1. /\ claims \in Seq(Claims) /\ claims' = SubSeq(claims, 2, Len(claims)) /\ head' = head
      /\ prod' = prod /\ Len(claims) \in Nat /\ DOMAIN claims = 1 .. Len(claims)
  BY LenProperties DEF Advance, TypeOK
<1>2. /\ cons'.tail = tail' /\ tail' \in Nat /\ tail <= tail' /\ tail \in Nat /\ head \in Nat
  BY DEF Advance, TypeOK, Race
<1>3. /\ DOMAIN claims' = 1 .. Len(claims) - 1
      /\ \A i \in DOMAIN claims' : i + 1 \in DOMAIN claims /\ claims'[i] = claims[i + 1]
      /\ claims # <<>> => Len(claims') = Len(claims) - 1
      /\ claims' \in Seq(Claims)
  BY <1>1, Later
<1>4. \A i \in DOMAIN claims \ {1} : claims[i].at = claims[i - 1].at + claims[i - 1].len
  BY DEF Race, Follow
<1>5. ASSUME NEW i \in DOMAIN claims', i # 1
      PROVE  claims'[i].at = claims'[i - 1].at + claims'[i - 1].len
  <2>1. i \in Nat /\ i + 1 # 1 /\ (i + 1) - 1 = i /\ (i - 1) + 1 = i /\ i - 1 \in DOMAIN claims'
    BY <1>1, <1>3, <1>5
  <2>2. claims'[i] = claims[i + 1] /\ claims'[i - 1] = claims[i] /\ i + 1 \in DOMAIN claims
    BY <1>3, <2>1
  <2>3. claims[i + 1].at = claims[(i + 1) - 1].at + claims[(i + 1) - 1].len
    BY <1>4, <2>1, <2>2
  <2> QED
    BY <2>1, <2>2, <2>3
<1>6. claims' # <<>> => head = claims'[Len(claims')].at + claims'[Len(claims')].len
  <2> SUFFICES ASSUME claims' # <<>>
               PROVE  head = claims'[Len(claims')].at + claims'[Len(claims')].len
    OBVIOUS
  <2>1. Len(claims') \in DOMAIN claims' /\ Len(claims') >= 1
    BY <1>3, LenProperties, EmptySeq
  <2>2. claims # <<>>
    BY <1>1, <1>3, <2>1, EmptySeq
  <2>3. claims'[Len(claims')] = claims[Len(claims)]
    <3>1. Len(claims') + 1 = Len(claims)
      BY <1>1, <1>3, <2>2
    <3> QED
      BY <1>3, <2>1, <3>1
  <2> QED
    BY <2>2, <2>3 DEF Race, Follow
<1>7. Follow'
  BY <1>1, <1>5, <1>6 DEF Follow
<1>8. head' - tail' <= DataSize
  BY <1>1, <1>2, RingAssumption, Nearer DEF Race
<1>9. ASSUME NEW p \in Producers PROVE LocalsOf(p)'
  <2>1. prod[p].head \in Nat /\ Need(prod[p].head, prod[p].len) \in Nat
    BY Publishing
  <2>2. LocalsOf(p)
    BY DEF Race
  <2>3. ASSUME prod[p].pc = "reserve"
        PROVE  prod[p].head + Need(prod[p].head, prod[p].len) - tail' <= DataSize
    <3>1. prod[p].head + Need(prod[p].head, prod[p].len) - tail <= DataSize
      BY <2>2, <2>3 DEF LocalsOf
    <3> QED
      BY <1>2, <2>1, <3>1, RingAssumption
  <2> QED
    BY <1>1, <2>2, <2>3 DEF LocalsOf
<1> QED
  BY <1>2, <1>7, <1>8, <1>9 DEF Race

LEMMA RaceKept == TypeOK /\ Race /\ Next => Race'
<1> SUFFICES ASSUME TypeOK, Race, Next PROVE Race'
  OBVIOUS
<1>1. ASSUME NEW p \in Producers, Publish(p) PROVE Race'
  <2>1. tail' = tail /\ cons' = cons /\ \A q \in Producers : LocalsOf(q)'
    <3>1. cons' = cons
      BY <1>1 DEF Publish, Fill, Begin, LoadTail, Reserve, Retry, PublishMirror, WritePad,
                  CommitPad, WriteHeader, WriteBody, FailBody, Commit
    <3> QED
      BY <1>1, <3>1, LocalsKept
  <2>2. Follow' /\ head' - tail <= DataSize
    <3>1. CASE Reserve(p)
      BY <3>1, ReserveFollows
    <3>2. CASE CommitPad(p)
      BY <3>2, SettledFollow DEF CommitPad, Race, Statuses
    <3>3. CASE Commit(p)
      BY <3>3, SettledFollow DEF Commit, Race, Statuses
    <3>4. CASE ~ (Reserve(p) \/ CommitPad(p) \/ Commit(p))
      <4>1. UNCHANGED <<claims, head>>
        BY <1>1, <3>4 DEF Publish, Fill, Begin, LoadTail, Retry, PublishMirror, WritePad,
                          WriteHeader, WriteBody, FailBody
      <4> QED
        BY <4>1 DEF Race, Follow
    <3> QED
      BY <3>1, <3>2, <3>3, <3>4
  <2> QED
    BY <2>1, <2>2 DEF Race
<1>2. CASE SeeMirror \/ SeeTotal \/ CopyFrame \/ Zero
  <2>1. UNCHANGED <<claims, head, tail, prod>> /\ cons'.tail = cons.tail
    BY <1>2 DEF SeeMirror, SeeTotal, CopyFrame, Zero, TypeOK
  <2> QED
    BY <2>1 DEF Race, Follow, LocalsOf
<1>3. CASE Advance
  BY <1>3, AdvanceFollows
<1> QED
  BY <1>1, <1>2, <1>3 DEF Next, Consume

-----------------------------------------------------------------------------
(* Producers *)

Global == Order /\ Shape /\ ClaimsHold /\ Published /\ Consumer

\* A step of p that touches neither the region nor the claims.
LEMMA QuietKeeps ==
    ASSUME Sound, NEW p \in Producers,
           UNCHANGED <<mem, head, tail, cons, claims, sent>>,
           mirror' \in Nat, mirror <= mirror', mirror' <= head,
           \A q \in Producers : q # p => prod'[q] = prod[q]
    PROVE  Global' /\ \A q \in Producers : q # p => Producer(q)'
<1>1. /\ mirror \in Nat /\ tail \in Nat
      /\ \A i \in DOMAIN claims : claims[i].at \in Nat /\ claims[i].len \in Nat
  BY ClaimLies DEF Sound, TypeOK
<1>2. Order' /\ Shape' /\ ClaimsHold' /\ Consumer'
  BY DEF Sound, Order, Tiles, Shape, ClaimsHold, Consumer, InHand
<1>3. Published'
  BY <1>1 DEF Sound, Published
<1>4. ASSUME NEW q \in Producers, q # p PROVE Producer(q)'
  <2>1. prod'[q] = prod[q] /\ Producer(q)
    BY <1>4 DEF Sound
  <2>2. Start(q) \in Nat /\ prod[q].len \in Nat /\ Start(q)' = Start(q)
    BY <2>1, Publishing DEF Sound, Start
  <2>3. prod[q].pc \in Filling \ {"mirror"} => Start(q) + prod[q].len <= mirror'
    <3>1. prod[q].pc \in Filling \ {"mirror"} => Start(q) + prod[q].len <= mirror
      BY <2>1 DEF Producer, OwnerOf
    <3>2. \A end \in Nat : end <= mirror => end <= mirror'
      BY <1>1
    <3> QED
      BY <2>2, <3>1, <3>2
  <2>4. OwnerOf(q)'
    BY <2>1, <2>2, <2>3 DEF Producer, OwnerOf, Open
  <2>5. ProgressOf(q)'
    BY <2>1, <2>2 DEF Producer, ProgressOf
  <2> QED
    BY <2>4, <2>5 DEF Producer
<1> QED
  BY <1>2, <1>3, <1>4 DEF Global

\* A publish that has not won a reservation owns nothing.
LEMMA BeforeReserve ==
    ASSUME Sound, NEW p \in Producers, Begin(p) \/ LoadTail(p) \/ Retry(p)
    PROVE  Global' /\ \A q \in Producers : Producer(q)'
<1>1. /\ prod \in [Producers -> Calls] /\ prod[p] \in Calls /\ mirror \in Nat /\ mirror <= head
  BY DEF Sound, TypeOK, Published
<1>2. /\ UNCHANGED <<mem, head, mirror, tail, cons, claims, sent>>
      /\ \A q \in Producers : q # p => prod'[q] = prod[q]
  BY <1>1 DEF Begin, LoadTail, Retry, Goto, Return
<1>3. prod'[p].pc \in {"idle", "tail", "reserve"}
  BY <1>1 DEF Begin, LoadTail, Retry, Goto, Return, Idle, Calls
<1>4. Producer(p)'
  BY <1>3 DEF Producer, OwnerOf, ProgressOf, Filling
<1> QED
  BY <1>1, <1>2, <1>4, QuietKeeps

LEMMA MirrorKeeps ==
    ASSUME Sound, NEW p \in Producers, PublishMirror(p)
    PROVE  Global' /\ \A q \in Producers : Producer(q)'
<1> DEFINE end == Start(p) + prod[p].len
           to == IF Wraps(prod[p].head, prod[p].len) THEN "pad" ELSE "header"
<1>1. TypeOK /\ Producer(p) /\ Order /\ prod[p].pc = "mirror" /\ Goto(p, to) /\ to \in Filling
  BY DEF Sound, PublishMirror, Filling
<1>2. UNCHANGED <<mem, head, tail, cons, claims, sent>>
  BY DEF PublishMirror
<1>3. /\ \A q \in Producers : q # p => prod'[q] = prod[q]
      /\ prod'[p].pc = to /\ prod'[p].len = prod[p].len /\ prod'[p].head = prod[p].head
      /\ Start(p)' = Start(p)
  BY <1>1, GoesOn
<1>4. end \in Nat /\ prod[p].head + Need(prod[p].head, prod[p].len) = end
  <2>1. /\ prod[p].head \in Nat /\ PadLen(prod[p].head, prod[p].len) \in Nat /\ prod[p].len \in Nat
        /\ Start(p) = prod[p].head + PadLen(prod[p].head, prod[p].len)
    BY <1>1, Publishing
  <2> QED
    BY <2>1 DEF Need
<1>5. end <= head
  <2>1. PICK i \in DOMAIN claims : claims[i].at = Start(p) /\ claims[i].len = prod[p].len
    BY <1>1 DEF Producer, OwnerOf, Open, Filling
  <2> QED
    BY <1>1, <2>1 DEF Order
<1>6. mirror' = Mirrored(end)
  BY <1>4 DEF PublishMirror
<1> HIDE DEF end
<1>7. mirror' \in Nat /\ mirror <= mirror' /\ mirror' <= head /\ end <= mirror'
  BY <1>4, <1>5, <1>6 DEF Mirrored, Sound, TypeOK, Published
<1>8. OwnerOf(p)'
  <2>1. Open(Start(p), prod[p].len, Item(p, sent[p]))'
    BY <1>1, <1>2, <1>3 DEF Producer, OwnerOf, Open, Filling
  <2>2. Wraps(prod[p].head, prod[p].len) => Open(prod[p].head, PadLen(prod[p].head, prod[p].len), None)'
    BY <1>1, <1>2, <1>3 DEF Producer, OwnerOf, Open
  <2>3. (Start(p) + prod[p].len <= mirror)'
    BY <1>3, <1>7 DEF end
  <2> QED
    BY <1>3, <2>1, <2>2, <2>3 DEF OwnerOf
<1>9. ProgressOf(p)'
  BY <1>3 DEF ProgressOf
<1> QED
  BY <1>2, <1>3, <1>7, <1>8, <1>9, QuietKeeps DEF Producer

LEMMA FillKeeps ==
    ASSUME Sound, TypeOK', NEW p \in Producers, NEW i \in DOMAIN claims, NEW s \in Statuses,
           Fills(i, s), OwnedBy(p, i), sent' = sent,
           \A q \in Producers : q # p => prod'[q] = prod[q], Producer(p)'
    PROVE  Global' /\ \A q \in Producers : Producer(q)'
BY FillsKeeps, FillsOthers DEF Global

\* The claims of a producer, found.
LEMMA FrameOf ==
    ASSUME Sound, NEW p \in Producers, prod[p].pc \in Filling
    PROVE  \E i \in DOMAIN claims :
              /\ claims[i].at = Start(p) /\ claims[i].len = prod[p].len
              /\ claims[i].item = Item(p, sent[p]) /\ claims[i].status = "open"
              /\ OwnedBy(p, i)
              /\ Words(claims[i]) \subseteq 0 .. DataSize - 1 /\ At(Start(p)) \in Words(claims[i])
              /\ mem[At(Start(p))].total = 0
              /\ prod[p].pc # "mirror" => Start(p) + prod[p].len <= mirror
              /\ \A w \in 0 .. prod[p].len - 1 : /\ At(Start(p) + w) = At(Start(p)) + w
                                            /\ At(Start(p) + w) \in Words(claims[i])
<1>1. PICK i \in DOMAIN claims :
          /\ claims[i].at = Start(p) /\ claims[i].len = prod[p].len
          /\ claims[i].item = Item(p, sent[p]) /\ claims[i].status = "open"
  BY DEF Sound, Producer, OwnerOf, Open
<1>2. OwnedBy(p, i)
  BY <1>1 DEF OwnedBy
<1>3. /\ Words(claims[i]) \subseteq 0 .. DataSize - 1 /\ At(Start(p)) \in Words(claims[i])
      /\ \A w \in 0 .. prod[p].len - 1 : At(Start(p) + w) = At(Start(p)) + w
  BY <1>1, ClaimLies DEF Sound
<1>4. mem[At(Start(p))].total = 0
  BY <1>1 DEF Sound, ClaimsHold
<1>5. \A w \in 0 .. prod[p].len - 1 : At(Start(p) + w) \in Words(claims[i])
  BY <1>1 DEF Words
<1>6. prod[p].pc # "mirror" => Start(p) + prod[p].len <= mirror
  BY DEF Sound, Producer, OwnerOf
<1> QED
  BY <1>1, <1>2, <1>3, <1>4, <1>5, <1>6

LEMMA SumBelow == \A a, b, c \in Nat : a + b <= c => a <= c
OBVIOUS

LEMMA PadOf ==
    ASSUME Sound, NEW p \in Producers, prod[p].pc \in {"pad", "commit pad"}
    PROVE  \E i \in DOMAIN claims :
              /\ claims[i].at = prod[p].head /\ claims[i].len = PadLen(prod[p].head, prod[p].len)
              /\ claims[i].item = None /\ claims[i].status = "open"
              /\ OwnedBy(p, i)
              /\ Words(claims[i]) \subseteq 0 .. DataSize - 1
              /\ At(prod[p].head) \in Words(claims[i])
              /\ mem[At(prod[p].head)].total = 0
              /\ prod[p].head + PadLen(prod[p].head, prod[p].len) <= mirror
<1>1. PICK i \in DOMAIN claims :
          /\ claims[i].at = prod[p].head /\ claims[i].len = PadLen(prod[p].head, prod[p].len)
          /\ claims[i].item = None /\ claims[i].status = "open"
  BY DEF Sound, Producer, OwnerOf, Open
<1>2. OwnedBy(p, i)
  BY <1>1 DEF OwnedBy, Filling
<1>3. /\ Words(claims[i]) \subseteq 0 .. DataSize - 1 /\ At(prod[p].head) \in Words(claims[i])
  BY <1>1, ClaimLies DEF Sound
<1>4. mem[At(prod[p].head)].total = 0
  BY <1>1 DEF Sound, ClaimsHold
<1>5. prod[p].head + PadLen(prod[p].head, prod[p].len) <= mirror
  <2>1. Start(p) + prod[p].len <= mirror
    BY DEF Sound, Producer, OwnerOf, Filling
  <2>2. /\ Start(p) = prod[p].head + PadLen(prod[p].head, prod[p].len) /\ Start(p) \in Nat
        /\ prod[p].len \in Nat /\ mirror \in Nat
    BY Publishing DEF Sound, TypeOK
  <2>4. Start(p) <= mirror
    BY <2>1, <2>2, SumBelow
  <2> QED
    BY <2>2, <2>4
<1> QED
  BY <1>1, <1>2, <1>3, <1>4, <1>5

LEMMA PadKeeps ==
    ASSUME Sound, NEW p \in Producers, WritePad(p) \/ CommitPad(p)
    PROVE  Global' /\ \A q \in Producers : Producer(q)'
<1> DEFINE first == At(prod[p].head)
<1>1. /\ TypeOK /\ TypeOK' /\ Order /\ Shape /\ Producer(p) /\ claims \in Seq(Claims)
  BY TypeOKKept DEF Sound, Next, Publish, Fill, TypeOK
<1>2. prod[p].pc \in {"pad", "commit pad"} /\ prod[p].pc \in Filling
  BY DEF WritePad, CommitPad, Filling
<1>3. PICK i \in DOMAIN claims :
          /\ claims[i].at = prod[p].head /\ claims[i].len = PadLen(prod[p].head, prod[p].len)
          /\ claims[i].item = None /\ claims[i].status = "open"
          /\ OwnedBy(p, i)
          /\ Words(claims[i]) \subseteq 0 .. DataSize - 1 /\ first \in Words(claims[i])
          /\ mem[first].total = 0
          /\ prod[p].head + PadLen(prod[p].head, prod[p].len) <= mirror
  BY <1>2, PadOf
<1>4. PICK k \in DOMAIN claims :
          /\ claims[k].at = Start(p) /\ claims[k].len = prod[p].len
          /\ claims[k].item = Item(p, sent[p]) /\ claims[k].status = "open"
          /\ Start(p) + prod[p].len <= mirror
  BY <1>2, FrameOf
<1>5. k # i /\ claims[k].at # prod[p].head
  BY <1>1, <1>3, <1>4, ItemsDiffer, ClaimsApart
<1>6. first \in 0 .. DataSize - 1 /\ mem[first] \in WordsOf /\ mem \in [0 .. DataSize - 1 -> WordsOf]
  BY <1>1, <1>3 DEF TypeOK
<1> HIDE DEF first
<1>7. CASE WritePad(p)
  <2>1. /\ mem' = [mem EXCEPT ![first].version = Pad] /\ Goto(p, "commit pad")
        /\ UNCHANGED <<head, mirror, tail, cons, claims, sent>>
    BY <1>7 DEF WritePad, first
  <2>2. mem'[first].version = Pad /\ mem'[first].total = 0
    BY <1>3, <1>6, <2>1 DEF WordsOf
  <2>3. \A x \in 0 .. DataSize - 1 : x \notin Words(claims[i]) => mem'[x] = mem[x]
    BY <1>3, <1>6, <2>1
  <2>4. Fills(i, "open")
    BY <1>3, <2>1, <2>2, <2>3 DEF Fills, first
  <2>5. /\ \A q \in Producers : q # p => prod'[q] = prod[q]
        /\ prod'[p].pc = "commit pad" /\ prod'[p].len = prod[p].len /\ prod'[p].head = prod[p].head
        /\ Start(p)' = Start(p)
    BY <1>1, <2>1, GoesOn DEF Filling
  <2>6. Producer(p)'
    <3>1. (Start(p) + prod[p].len <= mirror)'
      BY <1>4, <2>1, <2>5
    <3>2. Open(Start(p), prod[p].len, Item(p, sent[p]))'
      BY <1>4, <2>1, <2>5 DEF Open
    <3>3. Open(prod[p].head, PadLen(prod[p].head, prod[p].len), None)'
      BY <1>3, <2>1, <2>5 DEF Open
    <3>4. OwnerOf(p)'
      BY <1>1, <1>2, <2>5, <3>1, <3>2, <3>3 DEF Producer, OwnerOf
    <3>5. ProgressOf(p)'
      BY <2>2, <2>5 DEF ProgressOf, first
    <3> QED
      BY <3>4, <3>5 DEF Producer
  <2> QED
    BY <1>1, <1>3, <2>1, <2>4, <2>5, <2>6, FillKeeps DEF Statuses
<1>8. CASE CommitPad(p)
  <2>1. /\ mem' = [mem EXCEPT ![first].total = PadLen(prod[p].head, prod[p].len)] /\ Goto(p, "header")
        /\ claims' = Settled(prod[p].head, "void") /\ UNCHANGED <<head, mirror, tail, cons, sent>>
        /\ prod[p].pc = "commit pad"
    BY <1>2, <1>8 DEF CommitPad, first
  <2>2. mem'[first].version = Pad /\ mem'[first].total = claims[i].len
    <3>1. mem[first].version = Pad
      BY <1>1, <2>1 DEF Producer, ProgressOf, first
    <3> QED
      BY <1>3, <1>6, <2>1, <3>1 DEF WordsOf
  <2>3. \A x \in 0 .. DataSize - 1 : x \notin Words(claims[i]) => mem'[x] = mem[x]
    BY <1>3, <1>6, <2>1
  <2>4. /\ Len(claims') = Len(claims) /\ DOMAIN claims' = DOMAIN claims
        /\ \A j \in DOMAIN claims :
              /\ claims'[j].at = claims[j].at /\ claims'[j].len = claims[j].len
              /\ claims'[j].item = claims[j].item
              /\ claims'[j].status = IF claims[j].at = prod[p].head THEN "void" ELSE claims[j].status
    <3>1. "void" \in Statuses
      BY DEF Statuses
    <3> DEFINE pos == prod[p].head
    <3>2. claims' = Settled(pos, "void")
      BY <2>1
    <3> HIDE DEF pos
    <3>3. /\ Len(claims') = Len(claims) /\ DOMAIN claims' = DOMAIN claims
          /\ \A j \in DOMAIN claims :
                /\ claims'[j].at = claims[j].at /\ claims'[j].len = claims[j].len
                /\ claims'[j].item = claims[j].item
                /\ claims'[j].status = IF claims[j].at = pos THEN "void" ELSE claims[j].status
      BY <1>1, <3>1, <3>2, SettledIs
    <3> QED
      BY <3>3 DEF pos
  <2>5. \A j \in DOMAIN claims : claims[j].at = prod[p].head <=> j = i
    BY <1>1, <1>3, ClaimsApart
  <2>6. Fills(i, "void")
    <3>1. /\ mem'[At(claims[i].at)].total = claims[i].len /\ mem'[At(claims[i].at)].version = Pad
          /\ claims[i].at + claims[i].len <= mirror
      BY <1>3, <2>2 DEF first
    <3>2. \A j \in DOMAIN claims :
              /\ claims'[j].at = claims[j].at /\ claims'[j].len = claims[j].len
              /\ claims'[j].item = claims[j].item
              /\ claims'[j].status = IF j = i THEN "void" ELSE claims[j].status
      BY <2>4, <2>5
    <3>3. UNCHANGED <<head, mirror, tail, cons>> /\ Len(claims') = Len(claims) /\ claims[i].status = "open"
      BY <1>3, <2>1, <2>4
    <3> QED
      BY <2>3, <3>1, <3>2, <3>3 DEF Fills
  <2>7. /\ \A q \in Producers : q # p => prod'[q] = prod[q]
        /\ prod'[p].pc = "header" /\ prod'[p].len = prod[p].len /\ prod'[p].head = prod[p].head
        /\ Start(p)' = Start(p)
    BY <1>1, <2>1, GoesOn DEF Filling
  <2>8. Producer(p)'
    <3>1. (Start(p) + prod[p].len <= mirror)'
      BY <1>4, <2>1, <2>7
    <3>2. Open(Start(p), prod[p].len, Item(p, sent[p]))'
      BY <1>4, <1>5, <2>1, <2>4, <2>7 DEF Open
    <3> QED
      BY <2>7, <3>1, <3>2 DEF Producer, OwnerOf, ProgressOf
  <2> QED
    BY <1>1, <1>3, <2>1, <2>6, <2>7, <2>8, FillKeeps DEF Statuses
<1> QED
  BY <1>7, <1>8

LEMMA FirstOrLater ==
    ASSUME NEW len \in Nat PROVE \A v \in 0 .. len - 1 : v = 0 \/ v \in 1 .. len - 1
OBVIOUS

LEMMA FrameKeeps ==
    ASSUME Sound, NEW p \in Producers, WriteHeader(p) \/ WriteBody(p) \/ FailBody(p)
    PROVE  Global' /\ \A q \in Producers : Producer(q)'
<1> DEFINE first == At(Start(p))
           item == Item(p, sent[p])
           len == prod[p].len
<1>1. /\ TypeOK /\ TypeOK' /\ Producer(p)
      /\ mem \in [0 .. DataSize - 1 -> WordsOf] /\ len \in Nat
  <2>1. Next
    BY DEF Next, Publish, Fill
  <2>2. TypeOK /\ Producer(p)
    BY DEF Sound
  <2>3. TypeOK'
    BY <2>1, <2>2, TypeOKKept
  <2>4. mem \in [0 .. DataSize - 1 -> WordsOf]
    BY <2>2 DEF TypeOK
  <2>5. len \in Nat
    BY <2>2, Publishing
  <2> QED
    BY <2>2, <2>3, <2>4, <2>5
<1>2. prod[p].pc \in {"header", "body"} /\ prod[p].pc \in Filling /\ prod[p].len = len
  BY DEF WriteHeader, WriteBody, FailBody, Filling
<1>3. PICK i \in DOMAIN claims :
          /\ claims[i].at = Start(p) /\ claims[i].len = len
          /\ claims[i].item = item /\ claims[i].status = "open"
          /\ OwnedBy(p, i)
          /\ Words(claims[i]) \subseteq 0 .. DataSize - 1 /\ first \in Words(claims[i])
          /\ mem[first].total = 0 /\ Start(p) + len <= mirror
          /\ \A w \in 0 .. len - 1 : /\ At(Start(p) + w) = first + w
                                        /\ At(Start(p) + w) \in Words(claims[i])
  BY <1>2, FrameOf
<1>4. first \in 0 .. DataSize - 1 /\ mem[first] \in WordsOf
  BY <1>1, <1>3
<1> HIDE DEF first, item, len
\* The words after the first are not the first, and all are the frame's.
<1>5. \A w \in 1 .. len - 1 : At(Start(p) + w) # first /\ At(Start(p) + w) \in Words(claims[i])
  BY <1>1, <1>3, <1>4
<1>6. /\ Filled(p)[first] = [mem[first] EXCEPT !.item = item]
      /\ \A x \in 0 .. DataSize - 1 : x \notin Words(claims[i]) => Filled(p)[x] = mem[x]
      /\ \A w \in 1 .. len - 1 : Filled(p)[At(Start(p) + w)].item = item
      /\ Filled(p) \in [0 .. DataSize - 1 -> WordsOf]
  <2> DEFINE frame == {At(Start(p) + w) : w \in 1 .. len - 1}
  <2>1. Filled(p) = [x \in 0 .. DataSize - 1 |->
                        IF x \in frame THEN Word(Contents, Wire, item)
                        ELSE IF x = first THEN [mem[x] EXCEPT !.item = item]
                        ELSE mem[x]]
    BY <1>1, <1>2 DEF Filled, item, first
  <2>2. first \notin frame /\ frame \subseteq Words(claims[i])
    BY <1>5
  <2>3. \A w \in 1 .. len - 1 : At(Start(p) + w) \in frame
    OBVIOUS
  <2> HIDE DEF frame
  <2>4. Filled(p)[first] = [mem[first] EXCEPT !.item = item]
    BY <1>4, <2>1, <2>2
  <2>5. \A x \in 0 .. DataSize - 1 : x \notin Words(claims[i]) => Filled(p)[x] = mem[x]
    BY <1>3, <2>1, <2>2
  <2>6. \A w \in 1 .. len - 1 : Filled(p)[At(Start(p) + w)].item = item
    BY <1>3, <2>1, <2>2, <2>3 DEF Word
  <2>7. item \in Items /\ Word(Contents, Wire, item) \in WordsOf
    BY <1>1, RingAssumption DEF item, Items, Frames, TypeOK, Word, WordsOf
  <2>8. \A x \in 0 .. DataSize - 1 : [mem[x] EXCEPT !.item = item] \in WordsOf
    BY <1>1, <2>7 DEF WordsOf
  <2>9. Filled(p) \in [0 .. DataSize - 1 -> WordsOf]
    BY <1>1, <2>1, <2>7, <2>8
  <2> QED
    BY <2>4, <2>5, <2>6, <2>9
\* What each of the three makes of the frame.
<1>7. \E pc \in {"body", "commit", "commit void"} :
        /\ Goto(p, pc) /\ UNCHANGED <<head, mirror, tail, cons, claims, sent>>
        /\ mem'[first].total = 0
        /\ mem'[first].version = IF pc = "commit void" THEN Pad ELSE Wire
        /\ pc = "commit" => /\ mem'[first].item = item
                            /\ \A w \in 1 .. len - 1 : mem'[At(Start(p) + w)].item = item
        /\ \A x \in 0 .. DataSize - 1 : x \notin Words(claims[i]) => mem'[x] = mem[x]
  <2>1. CASE WriteHeader(p)
    <3>1. /\ mem' = [mem EXCEPT ![first].version = Wire] /\ Goto(p, "body")
          /\ UNCHANGED <<head, mirror, tail, cons, claims, sent>>
      BY <2>1 DEF WriteHeader, first
    <3>2. mem'[first].total = 0 /\ mem'[first].version = Wire
      BY <1>1, <1>3, <1>4, <3>1 DEF WordsOf
    <3>3. \A x \in 0 .. DataSize - 1 : x \notin Words(claims[i]) => mem'[x] = mem[x]
      BY <1>1, <1>3, <3>1
    <3> QED
      BY <3>1, <3>2, <3>3
  <2>2. CASE WriteBody(p)
    <3>1. /\ mem' = Filled(p) /\ Goto(p, "commit")
          /\ UNCHANGED <<head, mirror, tail, cons, claims, sent>>
      BY <2>2 DEF WriteBody
    <3>2. mem[first].version = Wire
      BY <1>1, <2>2 DEF WriteBody, Producer, ProgressOf, first
    <3>3. mem'[first].total = 0 /\ mem'[first].version = Wire /\ mem'[first].item = item
      BY <1>3, <1>4, <1>6, <3>1, <3>2 DEF WordsOf
    <3> QED
      BY <1>6, <3>1, <3>3
  <2>3. CASE FailBody(p)
    <3>1. /\ mem' = [Filled(p) EXCEPT ![first].version = Pad] /\ Goto(p, "commit void")
          /\ UNCHANGED <<head, mirror, tail, cons, claims, sent>>
      BY <2>3 DEF FailBody, first
    <3>2. mem'[first].total = 0 /\ mem'[first].version = Pad
      BY <1>3, <1>4, <1>6, <3>1 DEF WordsOf
    <3>3. \A x \in 0 .. DataSize - 1 : x \notin Words(claims[i]) => mem'[x] = mem[x]
      BY <1>3, <1>6, <3>1
    <3> QED
      BY <3>1, <3>2, <3>3
  <2> QED
    BY <2>1, <2>2, <2>3
<1>8. PICK pc \in {"body", "commit", "commit void"} :
        /\ Goto(p, pc) /\ UNCHANGED <<head, mirror, tail, cons, claims, sent>>
        /\ mem'[first].total = 0
        /\ mem'[first].version = IF pc = "commit void" THEN Pad ELSE Wire
        /\ pc = "commit" => /\ mem'[first].item = item
                            /\ \A w \in 1 .. len - 1 : mem'[At(Start(p) + w)].item = item
        /\ \A x \in 0 .. DataSize - 1 : x \notin Words(claims[i]) => mem'[x] = mem[x]
  BY <1>7
<1>9. Fills(i, "open")
  <2>1. /\ UNCHANGED <<head, mirror, tail, cons>> /\ claims' = claims /\ claims[i].status = "open"
        /\ mem'[At(claims[i].at)].total = 0
    BY <1>3, <1>8 DEF first
  <2> QED
    BY <1>8, <2>1 DEF Fills
<1>10. /\ \A q \in Producers : q # p => prod'[q] = prod[q]
       /\ prod'[p].pc = pc /\ prod'[p].len = prod[p].len /\ prod'[p].head = prod[p].head
       /\ Start(p)' = Start(p)
  <2>1. pc \in Filling /\ Goto(p, pc)
    BY <1>2, <1>8 DEF Filling
  <2> QED
    BY <1>1, <2>1, GoesOn
<1>11. OwnerOf(p)'
  <2>1. Open(Start(p), prod[p].len, Item(p, sent[p]))'
    BY <1>2, <1>3, <1>8, <1>10 DEF Open, item
  <2>2. (Start(p) + prod[p].len <= mirror)'
    BY <1>2, <1>3, <1>8, <1>10
  <2> QED
    BY <1>10, <2>1, <2>2 DEF OwnerOf
<1>12. ProgressOf(p)'
  <2>1. ASSUME NEW v \in 0 .. len - 1, pc = "commit"
        PROVE  mem'[At(Start(p) + v)].item = item
    <3>1. v = 0 \/ v \in 1 .. len - 1
      BY <1>1, FirstOrLater
    <3>2. CASE v = 0
      BY <1>3, <1>4, <1>8, <2>1, <3>2
    <3> QED
      BY <1>8, <2>1, <3>1, <3>2
  <2>2. At(Start(p)') = first /\ sent' = sent
    BY <1>8, <1>10 DEF first
  <2> QED
    BY <1>2, <1>8, <1>10, <2>1, <2>2 DEF ProgressOf, item
<1> QED
  BY <1>1, <1>3, <1>8, <1>9, <1>10, <1>11, <1>12, FillKeeps DEF Producer, Statuses

LEMMA CommitKeeps ==
    ASSUME Sound, NEW p \in Producers, Commit(p)
    PROVE  Global' /\ \A q \in Producers : Producer(q)'
<1> DEFINE first == At(Start(p))
           item == Item(p, sent[p])
           pos == Start(p)
           len == prod[p].len
           s == IF prod[p].pc = "commit" THEN "ready" ELSE "void"
<1>1. /\ TypeOK /\ TypeOK' /\ Order /\ Shape /\ Producer(p)
      /\ mem \in [0 .. DataSize - 1 -> WordsOf] /\ claims \in Seq(Claims)
  <2>1. Next
    BY DEF Next, Publish, Fill
  <2>2. TypeOK /\ Order /\ Shape /\ Producer(p)
    BY DEF Sound
  <2> QED
    BY <2>1, <2>2, TypeOKKept DEF TypeOK
<1>2. prod[p].pc \in {"commit", "commit void"} /\ prod[p].pc \in Filling /\ prod[p].len = len
  BY DEF Commit, Filling
<1>3. PICK i \in DOMAIN claims :
          /\ claims[i].at = pos /\ claims[i].len = len
          /\ claims[i].item = item /\ claims[i].status = "open"
          /\ OwnedBy(p, i)
          /\ Words(claims[i]) \subseteq 0 .. DataSize - 1 /\ first \in Words(claims[i])
          /\ mem[first].total = 0 /\ Start(p) + len <= mirror
          /\ \A w \in 0 .. len - 1 : /\ At(Start(p) + w) = first + w
                                        /\ At(Start(p) + w) \in Words(claims[i])
  BY <1>2, FrameOf
<1>4. first \in 0 .. DataSize - 1 /\ mem[first] \in WordsOf
  BY <1>1, <1>3
<1>5. /\ mem' = [mem EXCEPT ![first].total = len] /\ Return(p)
      /\ claims' = Settled(pos, s) /\ UNCHANGED <<head, mirror, tail, cons, sent>>
  BY <1>2 DEF Commit
<1>6. /\ mem[first].version = IF s = "ready" THEN Wire ELSE Pad
      /\ s = "ready" => \A w \in 0 .. len - 1 : mem[At(pos + w)].item = item
  BY <1>1, <1>2 DEF Producer, ProgressOf
<1>7. s \in Statuses /\ s # "open"
  BY DEF Statuses
<1> HIDE DEF first, item, s, pos, len
<1>8. /\ mem'[first].total = len /\ mem'[first].version = mem[first].version
      /\ \A x \in 0 .. DataSize - 1 : mem'[x].item = mem[x].item
      /\ \A x \in 0 .. DataSize - 1 : x \notin Words(claims[i]) => mem'[x] = mem[x]
  <2>1. mem'[first].total = len /\ mem'[first].version = mem[first].version
    BY <1>1, <1>4, <1>5 DEF WordsOf
  <2>2. \A x \in 0 .. DataSize - 1 : mem'[x].item = mem[x].item
    BY <1>1, <1>4, <1>5 DEF WordsOf
  <2>3. \A x \in 0 .. DataSize - 1 : x \notin Words(claims[i]) => mem'[x] = mem[x]
    BY <1>1, <1>3, <1>5
  <2> QED
    BY <2>1, <2>2, <2>3
<1>9. /\ Len(claims') = Len(claims)
      /\ \A j \in DOMAIN claims :
            /\ claims'[j].at = claims[j].at /\ claims'[j].len = claims[j].len
            /\ claims'[j].item = claims[j].item
            /\ claims'[j].status = IF claims[j].at = pos THEN s ELSE claims[j].status
  BY <1>1, <1>5, <1>7, SettledIs
<1>10. \A j \in DOMAIN claims : claims[j].at = pos <=> j = i
  BY <1>1, <1>3, ClaimsApart
<1>11. Fills(i, s)
  <2>1. \A j \in DOMAIN claims :
            /\ claims'[j].at = claims[j].at /\ claims'[j].len = claims[j].len
            /\ claims'[j].item = claims[j].item
            /\ claims'[j].status = IF j = i THEN s ELSE claims[j].status
    BY <1>9, <1>10
  <2>2. /\ mem'[At(claims[i].at)].total = claims[i].len
        /\ mem'[At(claims[i].at)].version = IF s = "ready" THEN Wire ELSE Pad
        /\ claims[i].at + claims[i].len <= mirror
    BY <1>3, <1>6, <1>8 DEF first, pos
  <2>3. s = "ready" => \A w \in 0 .. claims[i].len - 1 :
                           mem'[At(claims[i].at + w)].item = claims[i].item
    BY <1>3, <1>6, <1>8 DEF pos
  <2>4. UNCHANGED <<head, mirror, tail, cons>> /\ claims[i].status = "open" /\ Len(claims') = Len(claims)
    BY <1>3, <1>5, <1>9
  <2> QED
    BY <1>7, <1>8, <2>1, <2>2, <2>3, <2>4 DEF Fills
<1>12. (\A q \in Producers : q # p => prod'[q] = prod[q]) /\ prod'[p] = Idle
  BY <1>1, <1>5 DEF Return, TypeOK
<1>13. Producer(p)'
  BY <1>12 DEF Producer, OwnerOf, ProgressOf, Filling, Idle
<1> QED
  BY <1>1, <1>3, <1>5, <1>7, <1>11, <1>12, <1>13, FillKeeps

\* As long as no reservation begins on old bytes.
LEMMA Reserved ==
    ASSUME Sound, NEW p \in Producers, Reserve(p), ~ stale'
    PROVE  LET len == prod[p].len
               pad == PadLen(head, len)
               start == Start(p)
           IN  /\ len \in 1 .. DataSize
               /\ start = head + pad /\ start \in Nat /\ head' = start + len
               /\ head' - tail <= DataSize /\ tail <= head
               /\ At(start) + len <= DataSize
               /\ mem[At(start)].total = 0
               /\ Wraps(head, len) => /\ pad \in 1 .. len - 1 /\ At(head) + pad = DataSize
                                      /\ mem[At(head)].total = 0
               /\ ~ Wraps(head, len) => pad = 0
               /\ Adds(p, len, pad, start)
<1> DEFINE len == prod[p].len
           pad == PadLen(head, len)
           start == Start(p)
<1>1. /\ prod[p].pc = "reserve" /\ prod[p].head = head /\ len = prod[p].len
      /\ head \in Nat /\ start = head + pad /\ start \in Nat /\ pad \in Nat
      /\ len \in 1 .. DataSize /\ tail \in Nat /\ DataSize \in Nat
      /\ TypeOK /\ Race /\ Order /\ Shape
  <2>1. prod[p].pc = "reserve" /\ prod[p].head = head
    BY DEF Reserve
  <2>2. TypeOK /\ Race /\ Order /\ Shape
    BY DEF Sound
  <2>3. tail \in Nat /\ head \in Nat /\ DataSize \in Nat
    BY <2>2, RingAssumption DEF TypeOK
  <2>4. /\ prod[p].len \in 0 .. DataSize /\ Start(p) \in Nat
        /\ Start(p) = prod[p].head + PadLen(prod[p].head, prod[p].len)
        /\ PadLen(prod[p].head, prod[p].len) \in Nat
    BY <2>2, Publishing
  <2>5. prod[p].len >= 1
    BY <2>1, <2>2 DEF Race, LocalsOf
  <2> QED
    BY <2>1, <2>2, <2>3, <2>4, <2>5
<1>2. head' = start + len
  BY <1>1 DEF Reserve, Need
<1>3. head' - tail <= DataSize
  BY <1>1, ReserveFollows
<1>4. tail <= head
  <2>1. CASE claims = <<>>
    BY <1>1, <2>1 DEF Order, Tiles
  <2>2. CASE claims # <<>>
    <3>1. 1 \in DOMAIN claims
      BY <1>1, <2>2, EmptySeq, LenProperties DEF TypeOK
    <3>2. /\ claims[1].at \in Nat /\ claims[1].len \in Nat
          /\ tail <= claims[1].at /\ claims[1].at + claims[1].len <= head
      BY <1>1, <3>1, ClaimLies
    <3> QED
      BY <1>1, <3>2
  <2> QED
    BY <2>1, <2>2
<1>5. /\ Wraps(head, len) => /\ pad \in 1 .. len - 1 /\ At(head) + pad = DataSize
                             /\ At(start) = 0
      /\ ~ Wraps(head, len) => pad = 0 /\ At(head) + len <= DataSize
  <2>1. len \in 0 .. DataSize
    BY <1>1
  <2>2. /\ Wraps(head, len) => /\ pad \in 1 .. len - 1 /\ At(head) + pad = DataSize
                               /\ At(head + pad) = 0
        /\ ~ Wraps(head, len) => pad = 0 /\ At(head) + len <= DataSize
    BY <1>1, <2>1, PadLenIs
  <2> QED
    BY <1>1, <2>2
<1>6. /\ mem[At(start)].total = 0
      /\ Wraps(head, len) => mem[At(head)].total = 0
  <2>1. \A i \in DOMAIN Places(p) : mem[At(Places(p)[i].at)].total = 0
    BY DEF Reserve, OnOldBytes
  <2>2. CASE Wraps(head, len)
    <3>1. /\ Places(p)[1].at = head /\ Places(p)[2].at = start
          /\ 1 \in DOMAIN Places(p) /\ 2 \in DOMAIN Places(p)
      BY <1>1, <2>2 DEF Places
    <3> QED
      BY <2>1, <3>1
  <2>3. CASE ~ Wraps(head, len)
    <3>1. Places(p)[1].at = start /\ 1 \in DOMAIN Places(p)
      BY <1>1, <2>3 DEF Places
    <3> QED
      BY <2>1, <2>3, <3>1
  <2> QED
    BY <2>2, <2>3
<1>7. Adds(p, len, pad, start)
  BY <1>1, ReserveAdds
<1> HIDE DEF pad, start
<1>8. At(start) + len <= DataSize
  <2>1. CASE Wraps(head, len)
    BY <1>1, <1>5, <2>1
  <2>2. CASE ~ Wraps(head, len)
    <3>1. start = head
      BY <1>1, <1>5, <2>2
    <3> QED
      BY <1>5, <2>2, <3>1
  <2> QED
    BY <2>1, <2>2
<1> QED
  BY <1>1, <1>2, <1>3, <1>4, <1>5, <1>6, <1>7, <1>8 DEF pad, start

LEMMA ReserveKeeps ==
    ASSUME Sound, NEW p \in Producers, Reserve(p), ~ stale'
    PROVE  Global' /\ \A q \in Producers : Producer(q)'
<1> DEFINE n == Len(claims)
           len == prod[p].len
           pad == PadLen(head, len)
           start == Start(p)
           item == Item(p, sent[p] + 1)
<1>1. /\ TypeOK /\ Order /\ Shape /\ ClaimsHold /\ Published
      /\ Consumer /\ head \in Nat /\ tail \in Nat /\ mirror \in Nat
      /\ DataSize \in Nat \ {0}
  <2>1. TypeOK /\ Order /\ Shape /\ ClaimsHold /\ Published /\ Consumer
    BY DEF Sound
  <2> QED
    BY <2>1, RingAssumption DEF TypeOK
<1>2. /\ start = head + pad /\ start \in Nat /\ head' = start + len
      /\ head' - tail <= DataSize /\ tail <= head /\ len \in 1 .. DataSize
      /\ At(start) + len <= DataSize
      /\ mem[At(start)].total = 0
      /\ Wraps(head, len) => /\ pad \in 1 .. len - 1 /\ At(head) + pad = DataSize
                             /\ mem[At(head)].total = 0
      /\ ~ Wraps(head, len) => pad = 0
  BY Reserved
<1>3. Adds(p, len, pad, start)
  BY Reserved
<1>4. /\ UNCHANGED <<mem, mirror, tail, cons>> /\ prod[p].head = head /\ prod[p].len = len
      /\ prod[p].pc = "reserve"
  BY DEF Reserve
<1> HIDE DEF n, len, pad, start
\* The old places are in their places still, and the new ones follow.
<1>5. /\ n \in Nat /\ DOMAIN claims = 1 .. n
      /\ \A j \in 1 .. n : j \in DOMAIN claims' /\ claims'[j] = claims[j]
      /\ \A j \in 1 .. n : /\ claims[j].at \in Nat /\ claims[j].len \in Nat /\ claims[j].len >= 1
                           /\ tail <= claims[j].at /\ claims[j].at + claims[j].len <= head
  <2>1. /\ n \in Nat /\ DOMAIN claims = 1 .. n
        /\ \A j \in 1 .. n : j \in DOMAIN claims' /\ claims'[j] = claims[j]
    BY <1>3 DEF Adds, n
  <2> QED
    BY <1>1, <2>1, ClaimLies
<1>6. \A j \in DOMAIN claims' : j \in 1 .. n \/ j \in n + 1 .. n + 2
  BY <1>3, <1>5 DEF Adds, n
<1>7. \A j \in DOMAIN claims' : j \in n + 1 .. n + 2 =>
          /\ claims'[j].status = "open"
          /\ \/ /\ claims'[j].at = start /\ claims'[j].len = len /\ claims'[j].item = item
                /\ j = IF Wraps(head, len) THEN n + 2 ELSE n + 1
             \/ /\ Wraps(head, len) /\ claims'[j].at = head /\ claims'[j].len = pad
                /\ claims'[j].item = None /\ j = n + 1
  BY <1>3, <1>5 DEF Adds, n, item
<1>8. /\ Len(claims') = IF Wraps(head, len) THEN n + 2 ELSE n + 1
      /\ Len(claims') \in DOMAIN claims'
      /\ claims'[Len(claims')].at = start /\ claims'[Len(claims')].len = len
      /\ claims'[Len(claims')].item = item /\ claims'[Len(claims')].status = "open"
  BY <1>3, <1>5 DEF Adds, n, item
<1>9. Wraps(head, len) => /\ n + 1 \in DOMAIN claims' /\ claims'[n + 1].at = head
                             /\ claims'[n + 1].len = pad /\ claims'[n + 1].item = None
                             /\ claims'[n + 1].status = "open"
  BY <1>3, <1>5 DEF Adds, n
<1> HIDE DEF item
<1>a. /\ pad \in Nat /\ head <= start /\ head + pad = start /\ start \in Nat
      /\ head' = start + len /\ head' \in Nat /\ len \in Nat /\ len >= 1
      /\ Wraps(head, len) => pad >= 1 /\ pad <= len
  <2>1. pad \in Nat
    BY <1>1, <1>2
  <2> QED
    BY <1>1, <1>2, <2>1
<1>b. ASSUME NEW k \in DOMAIN claims', k \in n + 1 .. n + 2
      PROVE  /\ claims'[k].at \in Nat /\ claims'[k].len \in Nat
             /\ head <= claims'[k].at /\ claims'[k].at + claims'[k].len <= head'
  <2>1. CASE claims'[k].at = start /\ claims'[k].len = len
    BY <1>1, <1>a, <2>1
  <2>2. CASE Wraps(head, len) /\ claims'[k].at = head /\ claims'[k].len = pad
    BY <1>1, <1>a, <2>2
  <2> QED
    BY <1>7, <1>b, <2>1, <2>2
<1>c. ASSUME NEW k \in 1 .. n
      PROVE  /\ claims'[k].at \in Nat /\ claims'[k].len \in Nat /\ tail <= claims'[k].at
             /\ claims'[k].at + claims'[k].len <= head
  BY <1>1, <1>5
<1>10. ASSUME NEW j \in DOMAIN claims', NEW k \in DOMAIN claims', j < k
       PROVE  claims'[j].at + claims'[j].len <= claims'[k].at
  <2>1. CASE j \in 1 .. n /\ k \in 1 .. n
    BY <1>1, <1>5, <1>10, <2>1 DEF Order
  <2>2. CASE j \in 1 .. n /\ k \in n + 1 .. n + 2
    <3>1. claims'[j].at + claims'[j].len <= head /\ claims'[j].at \in Nat /\ claims'[j].len \in Nat
      BY <1>c, <2>2
    <3>2. head <= claims'[k].at /\ claims'[k].at \in Nat
      BY <1>b, <2>2
    <3> QED
      BY <1>1, <3>1, <3>2
  <2>3. CASE j \in n + 1 .. n + 2
    <3>1. j = n + 1 /\ k = n + 2 /\ k \in n + 1 .. n + 2
      BY <1>5, <1>6, <1>10, <2>3
    <3>2. n + 1 # n + 2
      BY <1>5
    <3>3. Wraps(head, len) /\ claims'[k].at = start
      BY <1>7, <3>1, <3>2
    <3>4. claims'[j].at = head /\ claims'[j].len = pad
      BY <1>9, <3>1, <3>3
    <3> QED
      BY <1>a, <3>3, <3>4
  <2> QED
    BY <1>6, <2>1, <2>2, <2>3
<1>11. Order'
  <2>1. ASSUME NEW j \in DOMAIN claims'
        PROVE  tail' <= claims'[j].at /\ claims'[j].at + claims'[j].len <= head'
    <3>0. tail' = tail /\ tail <= head /\ head <= head' /\ head' \in Nat
      BY <1>1, <1>2, <1>4, <1>a
    <3>1. CASE j \in 1 .. n
      <4>1. /\ claims'[j].at \in Nat /\ claims'[j].len \in Nat /\ tail <= claims'[j].at
            /\ claims'[j].at + claims'[j].len <= head
        BY <1>c, <3>1
      <4> QED
        BY <1>1, <3>0, <4>1
    <3>2. CASE j \in n + 1 .. n + 2
      <4>1. /\ claims'[j].at \in Nat /\ claims'[j].len \in Nat
            /\ head <= claims'[j].at /\ claims'[j].at + claims'[j].len <= head'
        BY <1>b, <3>2
      <4> QED
        BY <1>1, <3>0, <4>1
    <3> QED
      BY <1>6, <3>1, <3>2
  <2>2. ASSUME NEW j \in DOMAIN claims'
        PROVE  claims'[j].at = IF j = 1 THEN tail' ELSE claims'[j - 1].at + claims'[j - 1].len
    <3>1. CASE j \in 1 .. n
      <4>1. j # 1 => j - 1 \in 1 .. n
        BY <1>5, <3>1
      <4>2. claims[j].at = IF j = 1 THEN tail ELSE claims[j - 1].at + claims[j - 1].len
        BY <1>1, <1>5, <3>1 DEF Order, Tiles
      <4> QED
        BY <1>4, <1>5, <3>1, <4>1, <4>2
    <3>2. CASE j = n + 1
      <4>1. claims'[j].at = head
        <5>1. CASE Wraps(head, len)
          BY <1>9, <3>2, <5>1
        <5>2. CASE ~ Wraps(head, len)
          <6>1. pad = 0 /\ Len(claims') = j /\ claims'[Len(claims')].at = start
            BY <1>2, <1>8, <3>2, <5>2
          <6> QED
            BY <1>1, <1>a, <6>1
        <5> QED
          BY <5>1, <5>2
      <4>2. n # 0 => head = claims[n].at + claims[n].len
        BY <1>1, <1>5, EmptySeq DEF Order, Tiles, n, TypeOK
      <4>3. n = 0 => head = tail
        BY <1>1, EmptySeq DEF Order, Tiles, n, TypeOK
      <4>4. n # 0 => n \in 1 .. n /\ (n + 1) - 1 = n /\ n + 1 # 1
        BY <1>5
      <4> QED
        BY <1>4, <1>5, <3>2, <4>1, <4>2, <4>3, <4>4
    <3>3. CASE j = n + 2
      <4>1. Wraps(head, len) /\ claims'[j].at = start /\ j # 1 /\ j - 1 = n + 1
        BY <1>5, <1>7, <1>8, <3>3
      <4> QED
        BY <1>2, <1>9, <4>1
    <3> QED
      BY <1>5, <1>6, <3>1, <3>2, <3>3
  <2>3. claims' # <<>> /\ head' = claims'[Len(claims')].at + claims'[Len(claims')].len
    BY <1>2, <1>5, <1>8
  <2>4. Tiles'
    BY <1>2, <1>4, <2>2, <2>3 DEF Tiles
  <2>5. cons'.tail = tail'
    BY <1>1, <1>4 DEF Order
  <2> QED
    BY <1>10, <2>1, <2>4, <2>5 DEF Order
<1>12. Shape'
  <2> SUFFICES ASSUME NEW j \in DOMAIN claims'
               PROVE  claims'[j].len >= 1 /\ At(claims'[j].at) + claims'[j].len <= DataSize
    BY DEF Shape
  <2>1. CASE j \in 1 .. n
    BY <1>1, <1>5, <2>1 DEF Shape
  <2>2. CASE j \in n + 1 .. n + 2
    BY <1>1, <1>2, <1>7, <1>a, <2>2
  <2> QED
    BY <1>6, <2>1, <2>2
<1>13. ClaimsHold'
  <2> SUFFICES ASSUME NEW j \in DOMAIN claims'
               PROVE  /\ claims'[j].status = "open" => mem[At(claims'[j].at)].total = 0
                      /\ claims'[j].status # "open" /\ ~(j = 1 /\ cons.pc = "advance") =>
                           /\ mem[At(claims'[j].at)].total = claims'[j].len
                           /\ mem[At(claims'[j].at)].version =
                                IF claims'[j].status = "ready" THEN Wire ELSE Pad
                      /\ claims'[j].status = "ready" =>
                           \A w \in 0 .. claims'[j].len - 1 :
                               mem[At(claims'[j].at + w)].item = claims'[j].item
    BY <1>4 DEF ClaimsHold
  <2>1. CASE j \in 1 .. n
    <3>1. claims'[j] = claims[j] /\ j \in DOMAIN claims
      BY <1>5, <2>1
    <3> QED
      BY <1>1, <3>1 DEF ClaimsHold
  <2>2. CASE j \in n + 1 .. n + 2
    BY <1>2, <1>7, <2>2
  <2> QED
    BY <1>6, <2>1, <2>2
<1>14. Published'
  <2>1. tail <= mirror /\ mirror <= head' /\ (cons.pc # "next" => tail < mirror)
    BY <1>1, <1>2, <1>a DEF Published
  <2>2. ASSUME NEW j \in DOMAIN claims', claims'[j].status # "open"
        PROVE  claims'[j].at + claims'[j].len <= mirror
    <3>1. j \in 1 .. n
      BY <1>6, <1>7, <2>2
    <3> QED
      BY <1>1, <1>5, <2>2, <3>1 DEF Published
  <2> QED
    BY <1>4, <2>1, <2>2 DEF Published
<1>15. Consumer'
  <2>1. InHand => InHand'
    <3> SUFFICES ASSUME InHand PROVE InHand'
      OBVIOUS
    <3>1. 1 \in 1 .. n
      BY <1>1, <1>5, EmptySeq DEF InHand, n, TypeOK
    <3>2. claims' # <<>>
      BY <1>5, <1>8
    <3> QED
      BY <1>4, <1>5, <3>1, <3>2 DEF InHand
  <2>2. cons.pc = "bytes" => claims'[1].status = "ready"
    <3> SUFFICES ASSUME cons.pc = "bytes" PROVE claims'[1].status = "ready"
      OBVIOUS
    <3>1. 1 \in 1 .. n /\ claims[1].status = "ready"
      BY <1>1, <1>5, EmptySeq DEF Consumer, InHand, n, TypeOK
    <3> QED
      BY <1>5, <3>1
  <2> QED
    BY <1>1, <1>4, <2>1, <2>2 DEF Consumer
<1>16. /\ \A q \in Producers : q # p => prod'[q] = prod[q] /\ sent'[q] = sent[q]
       /\ prod'[p].pc = "mirror" /\ prod'[p].head = head /\ prod'[p].len = len
       /\ sent'[p] = sent[p] + 1
  <2>1. /\ prod \in [Producers -> Calls] /\ sent \in [Producers -> Nat]
        /\ Goto(p, "mirror") /\ sent' = [sent EXCEPT ![p] = @ + 1]
    BY <1>1 DEF Reserve, TypeOK
  <2>2. prod[p] \in Calls
    BY <2>1
  <2> QED
    BY <1>4, <2>1, <2>2 DEF Goto, Calls
<1>17. ASSUME NEW q \in Producers, q # p PROVE Producer(q)'
  <2>1. /\ prod'[q] = prod[q] /\ sent'[q] = sent[q] /\ Producer(q) /\ mem' = mem
        /\ mirror' = mirror
    BY <1>4, <1>16, <1>17 DEF Sound
  <2>3. Start(q)' = Start(q)
    BY <2>1 DEF Start
  <2>5. OwnerOf(q)'
    <3>1. prod[q].pc \in Filling => Open(Start(q), prod[q].len, Item(q, sent[q]))'
      <4> SUFFICES ASSUME prod[q].pc \in Filling
                   PROVE  Open(Start(q), prod[q].len, Item(q, sent[q]))'
        OBVIOUS
      <4>1. PICK j \in DOMAIN claims :
                /\ claims[j].at = Start(q) /\ claims[j].len = prod[q].len
                /\ claims[j].item = Item(q, sent[q]) /\ claims[j].status = "open"
        BY <2>1 DEF Producer, OwnerOf, Open
      <4>2. j \in DOMAIN claims' /\ claims'[j] = claims[j]
        BY <1>5
      <4> QED
        BY <2>1, <2>3, <4>1, <4>2 DEF Open
    <3>2. prod[q].pc \in {"mirror", "pad", "commit pad"} /\ Wraps(prod[q].head, prod[q].len) =>
              Open(prod[q].head, PadLen(prod[q].head, prod[q].len), None)'
      <4> SUFFICES ASSUME prod[q].pc \in {"mirror", "pad", "commit pad"},
                          Wraps(prod[q].head, prod[q].len)
                   PROVE  Open(prod[q].head, PadLen(prod[q].head, prod[q].len), None)'
        OBVIOUS
      <4>1. PICK j \in DOMAIN claims :
                /\ claims[j].at = prod[q].head
                /\ claims[j].len = PadLen(prod[q].head, prod[q].len)
                /\ claims[j].item = None /\ claims[j].status = "open"
        BY <2>1 DEF Producer, OwnerOf, Open
      <4>2. j \in DOMAIN claims' /\ claims'[j] = claims[j]
        BY <1>5
      <4> QED
        BY <2>1, <4>1, <4>2 DEF Open
    <3> QED
      BY <2>1, <2>3, <3>1, <3>2 DEF Producer, OwnerOf
  <2>6. ProgressOf(q)'
    BY <2>1, <2>3 DEF Producer, ProgressOf
  <2> QED
    BY <2>5, <2>6 DEF Producer
<1>18. Producer(p)'
  <2>1. Start(p)' = start
    BY <1>2, <1>16 DEF Start, pad
  <2>2. Open(Start(p), prod[p].len, Item(p, sent[p]))'
    BY <1>8, <1>16, <2>1 DEF Open, item
  <2>3. Wraps(head, len) => Open(prod[p].head, PadLen(prod[p].head, prod[p].len), None)'
    BY <1>9, <1>16 DEF Open, pad
  <2> QED
    BY <1>16, <2>2, <2>3 DEF Producer, OwnerOf, ProgressOf
<1> QED
  BY <1>11, <1>12, <1>13, <1>14, <1>15, <1>17, <1>18 DEF Global

-----------------------------------------------------------------------------
(* The consumer *)

\* The first claim is where the consumer is.
LEMMA AtTail ==
    ASSUME Sound, NEW i \in DOMAIN claims
    PROVE  /\ 1 \in DOMAIN claims /\ claims[1].at = tail /\ cons.tail = tail
           /\ tail \in Nat /\ At(tail) \in 0 .. DataSize - 1
           /\ At(claims[i].at) = At(tail) => i = 1
<1>1. TypeOK /\ Order /\ Shape
  BY DEF Sound
<1>2. 1 \in DOMAIN claims
  BY <1>1, LenProperties DEF TypeOK
<1>3. claims[1].at = tail /\ cons.tail = tail
  BY <1>1, <1>2 DEF Order, Tiles
<1>4. tail \in Nat /\ At(tail) \in 0 .. DataSize - 1
  BY <1>1, Circle DEF TypeOK
<1>5. At(claims[i].at) = At(tail) => i = 1
  BY <1>1, <1>2, <1>3, ClaimsApart
<1> QED
  BY <1>2, <1>3, <1>4, <1>5

\* A step of the consumer's that only looks.
LEMMA LookKeeps ==
    ASSUME Sound, UNCHANGED <<mem, head, mirror, tail, prod, claims, sent>>,
           cons'.tail = cons.tail, cons.pc # "advance",
           cons'.pc # "next" => cons.pc # "next" \/ tail < mirror,
           Consumer'
    PROVE  Global' /\ \A p \in Producers : Producer(p)'
<1>1. Order' /\ Shape' /\ Published'
  BY DEF Sound, Order, Tiles, Shape, Published
<1>2. ClaimsHold'
  BY DEF Sound, ClaimsHold
<1>3. ASSUME NEW p \in Producers PROVE Producer(p)'
  BY DEF Sound, Producer, OwnerOf, ProgressOf, Open, Start
<1> QED
  BY <1>1, <1>2, <1>3 DEF Global

LEMMA SeeKeeps ==
    ASSUME Sound, SeeMirror \/ SeeTotal \/ CopyFrame
    PROVE  Global' /\ \A p \in Producers : Producer(p)'
<1>1. /\ TypeOK /\ ClaimsHold /\ Order /\ Published /\ Consumer
      /\ cons \in [pc : {"next", "total", "bytes", "zero", "advance"}, tail : Nat, len : Nat]
  BY DEF Sound, TypeOK
<1>2. UNCHANGED <<mem, head, mirror, tail, prod, claims, sent>> /\ cons'.tail = cons.tail /\ cons.pc # "advance"
  BY <1>1 DEF SeeMirror, SeeTotal, CopyFrame
<1>3. CASE SeeMirror
  <2>1. cons'.pc = "total" /\ tail < mirror
    BY <1>1, <1>3 DEF SeeMirror, TypeOK, Order, Published
  <2> QED
    BY <1>2, <2>1, LookKeeps DEF Consumer
<1>4. CASE SeeTotal
  <2> DEFINE first == mem[At(cons.tail)]
  <2>1. /\ cons.pc = "total" /\ cons'.len = first.total
        /\ cons'.pc = IF first.total = 0 THEN "next"
                      ELSE IF first.version = Pad THEN "zero" ELSE "bytes"
    BY <1>1, <1>4 DEF SeeTotal
  <2>2. ASSUME first.total # 0
        PROVE  /\ claims # <<>> /\ claims[1].status # "open" /\ claims[1].len = first.total
               /\ first.version # Pad => claims[1].status = "ready"
    <3>1. cons.tail = tail
      BY <1>1 DEF Order
    <3>2. claims # <<>>
      BY <1>1, <2>1 DEF Published, Order, Tiles, TypeOK
    <3>3. 1 \in DOMAIN claims /\ claims[1].at = tail /\ claims[1].status # "open"
      <4>1. 1 \in DOMAIN claims
        BY <1>1, <3>2, EmptySeq, LenProperties DEF TypeOK
      <4>2. claims[1].at = tail
        BY <4>1, AtTail
      <4> QED
        BY <1>1, <2>2, <3>1, <4>1, <4>2 DEF ClaimsHold
    <3>4. /\ first.total = claims[1].len
          /\ first.version = IF claims[1].status = "ready" THEN Wire ELSE Pad
      BY <1>1, <2>1, <3>1, <3>3 DEF ClaimsHold
    <3> QED
      BY <3>2, <3>3, <3>4
  <2>3. Consumer'
    <3>1. CASE first.total = 0
      BY <2>1, <3>1 DEF Consumer
    <3>2. CASE first.total # 0
      BY <1>2, <2>1, <2>2, <3>2 DEF Consumer, InHand
    <3> QED
      BY <3>1, <3>2
  <2> QED
    BY <1>2, <2>1, <2>3, LookKeeps
<1>5. CASE CopyFrame
  <2>1. cons.pc = "bytes" /\ cons'.pc = "zero" /\ cons'.len = cons.len
    BY <1>1, <1>5 DEF CopyFrame
  <2>2. Consumer'
    BY <1>1, <1>2, <2>1 DEF Consumer, InHand
  <2> QED
    BY <1>2, <2>1, <2>2, LookKeeps
<1> QED
  BY <1>3, <1>4, <1>5

\* The first word of the frame that is given back reads TotalSize = 0, and no other changes.
LEMMA ZeroKeeps ==
    ASSUME Sound, Zero
    PROVE  Global' /\ \A p \in Producers : Producer(p)'
<1> DEFINE first == At(tail)
<1>1. /\ TypeOK /\ Order /\ Shape /\ ClaimsHold /\ Published /\ InHand
      /\ cons \in [pc : {"next", "total", "bytes", "zero", "advance"}, tail : Nat, len : Nat]
      /\ mem \in [0 .. DataSize - 1 -> WordsOf] /\ claims \in Seq(Claims)
  <2>1. cons.pc = "zero"
    BY DEF Zero
  <2> QED
    BY <2>1 DEF Sound, TypeOK, Consumer
<1>2. 1 \in DOMAIN claims /\ claims[1].at = tail /\ cons.tail = tail /\ first \in 0 .. DataSize - 1
  <2>1. 1 \in DOMAIN claims
    BY <1>1, EmptySeq, LenProperties DEF InHand
  <2> QED
    BY <2>1, AtTail
<1>3. /\ UNCHANGED <<head, mirror, tail, prod, claims, sent>>
      /\ cons.pc = "zero" /\ cons'.pc = "advance" /\ cons'.len = cons.len /\ cons'.tail = cons.tail
      /\ mem' = [mem EXCEPT ![first].total = 0]
  BY <1>1, <1>2 DEF Zero
<1>4. \A j \in DOMAIN claims : At(claims[j].at) = first => j = 1
  BY AtTail
<1> HIDE DEF first
<1>5. /\ mem'[first].total = 0
      /\ \A x \in 0 .. DataSize - 1 : /\ mem'[x].item = mem[x].item
                                      /\ mem'[x].version = mem[x].version
                                      /\ x # first => mem'[x] = mem[x]
  BY <1>1, <1>2, <1>3 DEF WordsOf
<1>6. Order' /\ Shape'
  BY <1>1, <1>3 DEF Order, Tiles, Shape
<1>7. ClaimsHold'
  <2> SUFFICES ASSUME NEW j \in DOMAIN claims
               PROVE  /\ claims[j].status = "open" => mem'[At(claims[j].at)].total = 0
                      /\ claims[j].status # "open" /\ j # 1 =>
                           /\ mem'[At(claims[j].at)].total = claims[j].len
                           /\ mem'[At(claims[j].at)].version =
                                IF claims[j].status = "ready" THEN Wire ELSE Pad
                      /\ claims[j].status = "ready" =>
                           \A w \in 0 .. claims[j].len - 1 :
                               mem'[At(claims[j].at + w)].item = claims[j].item
    BY <1>3 DEF ClaimsHold
  <2>1. /\ At(claims[j].at) \in 0 .. DataSize - 1
        /\ \A w \in 0 .. claims[j].len - 1 : At(claims[j].at + w) \in 0 .. DataSize - 1
    <3>1. Words(claims[j]) \subseteq 0 .. DataSize - 1 /\ At(claims[j].at) \in Words(claims[j])
      BY <1>1, ClaimLies
    <3> QED
      BY <3>1 DEF Words
  <2>2. CASE j = 1
    <3>1. claims[j].status # "open"
      BY <1>1, <2>2 DEF InHand
    <3>2. claims[j].status = "ready" =>
              \A w \in 0 .. claims[j].len - 1 : mem[At(claims[j].at + w)].item = claims[j].item
      BY <1>1 DEF ClaimsHold
    <3> QED
      BY <1>5, <2>1, <2>2, <3>1, <3>2
  <2>3. CASE j # 1
    <3>1. mem'[At(claims[j].at)] = mem[At(claims[j].at)]
      BY <1>4, <1>5, <2>1, <2>3
    <3> QED
      BY <1>1, <1>5, <2>1, <2>3, <3>1 DEF ClaimsHold
  <2> QED
    BY <2>2, <2>3
<1>8. Published'
  BY <1>1, <1>3 DEF Published
<1>9. Consumer'
  BY <1>1, <1>3, <1>5 DEF Consumer, InHand, first
<1>10. ASSUME NEW p \in Producers PROVE Producer(p)'
  <2>1. OwnerOf(p)' /\ Start(p)' = Start(p)
    BY <1>3 DEF Sound, Producer, OwnerOf, Open, Start
  <2>2. ASSUME prod[p].pc \in Filling
        PROVE  /\ At(prod[p].head) \in 0 .. DataSize - 1 /\ At(Start(p)) \in 0 .. DataSize - 1
               /\ \A w \in 0 .. prod[p].len - 1 : At(Start(p) + w) \in 0 .. DataSize - 1
    <3>2. /\ At(prod[p].head) \in 0 .. DataSize - 1 /\ At(Start(p)) \in 0 .. DataSize - 1
      BY Publishing DEF Sound
    <3>3. \A w \in 0 .. prod[p].len - 1 : At(Start(p) + w) \in 0 .. DataSize - 1
      BY <2>2, FrameOf
    <3> QED
      BY <3>2, <3>3
  <2>3. ProgressOf(p)'
    <3>1. CASE prod[p].pc \in Filling
      <4>1. ProgressOf(p)
        BY DEF Sound, Producer
      <4>2. \A x \in 0 .. DataSize - 1 : mem'[x].item = mem[x].item /\ mem'[x].version = mem[x].version
        BY <1>5
      <4>3. prod' = prod /\ sent' = sent
        BY <1>3
      <4> QED
        BY <2>1, <2>2, <3>1, <4>1, <4>2, <4>3 DEF ProgressOf
    <3>2. CASE prod[p].pc \notin Filling
      BY <1>3, <3>2 DEF ProgressOf, Filling
    <3> QED
      BY <3>1, <3>2
  <2> QED
    BY <2>1, <2>3 DEF Producer
<1> QED
  BY <1>6, <1>7, <1>8, <1>9, <1>10 DEF Global

\* The tail moves past the first claim, and the next one becomes the first.
LEMMA AdvanceKeeps ==
    ASSUME Sound, Advance
    PROVE  Global' /\ \A p \in Producers : Producer(p)'
<1> DEFINE n == Len(claims)
<1>1. /\ TypeOK /\ Order /\ Shape /\ ClaimsHold /\ Published /\ InHand
      /\ cons \in [pc : {"next", "total", "bytes", "zero", "advance"}, tail : Nat, len : Nat]
      /\ claims \in Seq(Claims) /\ mem[At(tail)].total = 0
      /\ head \in Nat /\ tail \in Nat /\ DataSize \in Nat \ {0} /\ mirror \in Nat
  <2>1. cons.pc = "advance"
    BY DEF Advance
  <2> QED
    BY <2>1, RingAssumption DEF Sound, TypeOK, Consumer
<1>2. /\ n \in Nat /\ DOMAIN claims = 1 .. n /\ 1 \in DOMAIN claims /\ n >= 1
  <2>1. n \in Nat /\ DOMAIN claims = 1 .. n /\ 1 \in DOMAIN claims
    BY <1>1, EmptySeq, LenProperties DEF InHand
  <2> QED
    BY <2>1
<1>3. claims[1].at = tail /\ cons.tail = tail
  BY <1>2, AtTail
<1>4. /\ UNCHANGED <<mem, head, mirror, prod, sent>> /\ claims' = SubSeq(claims, 2, n)
      /\ cons'.pc = "next" /\ cons'.tail = tail + claims[1].len /\ tail' = tail + claims[1].len
  <2>1. cons.len = claims[1].len
    BY <1>1 DEF InHand
  <2> QED
    BY <1>1, <1>3, <2>1 DEF Advance
<1>5. /\ claims[1].len \in Nat /\ tail' \in Nat /\ tail <= tail' /\ tail' <= mirror
  <2>1. claims[1].len \in Nat /\ claims[1].at + claims[1].len <= mirror
    BY <1>1, <1>2, ClaimLies DEF Published, InHand
  <2> QED
    BY <1>1, <1>3, <1>4, <2>1
<1> HIDE DEF n
\* Place j is now what place j + 1 was.
<1>6. /\ claims' \in Seq(Claims) /\ Len(claims') = n - 1 /\ DOMAIN claims' = 1 .. n - 1
      /\ \A j \in 1 .. n - 1 : claims'[j] = claims[j + 1]
  <2>1. claims # <<>>
    BY <1>1 DEF InHand
  <2> DEFINE rest == SubSeq(claims, 2, Len(claims))
  <2>2. /\ rest \in Seq(Claims) /\ Len(rest) = Len(claims) - 1 /\ DOMAIN rest = 1 .. Len(claims) - 1
        /\ \A j \in DOMAIN rest : rest[j] = claims[j + 1]
    BY <1>1, <2>1, Later
  <2>3. claims' = rest
    BY <1>4 DEF n
  <2> HIDE DEF rest
  <2> QED
    BY <2>2, <2>3 DEF n
<1>7. \A j \in 1 .. n - 1 : j + 1 \in 1 .. n /\ j + 1 # 1 /\ (j + 1) - 1 = j /\ 1 < j + 1
  BY <1>2
<1>8. \A i \in 1 .. n : i # 1 => i - 1 \in 1 .. n - 1 /\ claims'[i - 1] = claims[i]
  <2> SUFFICES ASSUME NEW i \in 1 .. n, i # 1
               PROVE  i - 1 \in 1 .. n - 1 /\ claims'[i - 1] = claims[i]
    OBVIOUS
  <2>1. i - 1 \in 1 .. n - 1 /\ (i - 1) + 1 = i
    BY <1>2
  <2>2. claims'[i - 1] = claims[(i - 1) + 1]
    BY <1>6, <2>1
  <2> QED
    BY <2>1, <2>2
<1>9. Order'
  <2>1. ASSUME NEW j \in 1 .. n - 1
        PROVE  claims'[j].at = IF j = 1 THEN tail' ELSE claims'[j - 1].at + claims'[j - 1].len
    <3>1. claims[j + 1].at = claims[j].at + claims[j].len
      <4>1. j + 1 \in DOMAIN claims /\ j + 1 # 1 /\ (j + 1) - 1 = j
        BY <1>2, <1>7
      <4>2. \A k \in DOMAIN claims :
               claims[k].at = IF k = 1 THEN tail ELSE claims[k - 1].at + claims[k - 1].len
        BY <1>1 DEF Order, Tiles
      <4>3. claims[j + 1].at = IF j + 1 = 1 THEN tail
                               ELSE claims[(j + 1) - 1].at + claims[(j + 1) - 1].len
        BY <4>1, <4>2
      <4> QED
        BY <4>1, <4>3
    <3>2. claims'[j].at = claims[j].at + claims[j].len
      BY <1>6, <3>1
    <3>3. CASE j = 1
      BY <1>3, <1>4, <3>2, <3>3
    <3>4. CASE j # 1
      <4>1. j \in 1 .. n
        BY <1>2
      <4>2. claims'[j - 1] = claims[j]
        BY <1>8, <3>4, <4>1
      <4> QED
        BY <3>2, <3>4, <4>2
    <3> QED
      BY <3>3, <3>4
  <2>2. head' = IF claims' = <<>> THEN tail' ELSE claims'[Len(claims')].at + claims'[Len(claims')].len
    <3>1. head = claims[n].at + claims[n].len
      BY <1>1 DEF Order, Tiles, InHand, n
    <3>2. CASE n = 1
      <4>1. claims' = <<>>
        BY <1>6, <3>2, EmptySeq
      <4> QED
        BY <1>3, <1>4, <3>1, <3>2, <4>1
    <3>3. CASE n # 1
      <4>1. claims' # <<>> /\ n \in 1 .. n
        BY <1>2, <1>6, <3>3, EmptySeq
      <4>2. claims'[n - 1] = claims[n]
        BY <1>8, <3>3, <4>1
      <4> QED
        BY <1>4, <1>6, <3>1, <4>1, <4>2
    <3> QED
      BY <3>2, <3>3
  <2>3. head' - tail' <= DataSize
    <3>1. head - tail <= DataSize /\ head \in Nat /\ tail \in Nat /\ DataSize \in Nat
      BY <1>1 DEF Order, Tiles
    <3>2. tail' \in Nat /\ tail <= tail'
      BY <1>4, <1>5
    <3>3. head - tail' <= DataSize
      BY <3>1, <3>2, Nearer
    <3> QED
      BY <1>4, <3>3
  <2>4. Tiles'
    BY <1>6, <2>1, <2>2, <2>3 DEF Tiles
  <2>5. \A j \in 1 .. n - 1 : tail' <= claims'[j].at /\ claims'[j].at + claims'[j].len <= head'
    <3> SUFFICES ASSUME NEW j \in 1 .. n - 1
                 PROVE  tail' <= claims[j + 1].at /\ claims[j + 1].at + claims[j + 1].len <= head
      BY <1>4, <1>6
    <3>1. j + 1 \in DOMAIN claims /\ 1 < j + 1
      BY <1>2, <1>7
    <3>2. claims[1].at + claims[1].len <= claims[j + 1].at
      BY <1>1, <1>2, <3>1 DEF Order
    <3> QED
      BY <1>1, <1>3, <1>4, <3>1, <3>2 DEF Order
  <2>6. ASSUME NEW i \in 1 .. n - 1, NEW j \in 1 .. n - 1, i < j
        PROVE  claims'[i].at + claims'[i].len <= claims'[j].at
    <3>1. i + 1 \in DOMAIN claims /\ j + 1 \in DOMAIN claims
      BY <1>2, <1>7
    <3>2. i + 1 < j + 1
      BY <1>2, <2>6
    <3> QED
      BY <1>1, <1>6, <3>1, <3>2 DEF Order
  <2> QED
    BY <1>4, <1>6, <2>4, <2>5, <2>6 DEF Order
<1>10. Shape'
  <2>1. \A j \in 1 .. n - 1 :
          claims[j + 1].len >= 1 /\ At(claims[j + 1].at) + claims[j + 1].len <= DataSize
    BY <1>1, <1>2, <1>7 DEF Shape
  <2> QED
    BY <1>6, <2>1 DEF Shape
<1>11. ClaimsHold'
  <2> SUFFICES ASSUME NEW j \in 1 .. n - 1
               PROVE  /\ claims[j + 1].status = "open" => mem[At(claims[j + 1].at)].total = 0
                      /\ claims[j + 1].status # "open" =>
                           /\ mem[At(claims[j + 1].at)].total = claims[j + 1].len
                           /\ mem[At(claims[j + 1].at)].version =
                                IF claims[j + 1].status = "ready" THEN Wire ELSE Pad
                      /\ claims[j + 1].status = "ready" =>
                           \A w \in 0 .. claims[j + 1].len - 1 :
                               mem[At(claims[j + 1].at + w)].item = claims[j + 1].item
    BY <1>4, <1>6 DEF ClaimsHold
  <2>1. j + 1 \in DOMAIN claims /\ j + 1 # 1
    BY <1>2, <1>7
  <2> QED
    BY <1>1, <2>1 DEF ClaimsHold
<1>12. Published'
  <2>1. ASSUME NEW j \in 1 .. n - 1, claims'[j].status # "open"
        PROVE  claims'[j].at + claims'[j].len <= mirror
    <3>1. j + 1 \in DOMAIN claims /\ claims'[j] = claims[j + 1]
      BY <1>2, <1>6, <1>7
    <3> QED
      BY <1>1, <2>1, <3>1 DEF Published
  <2> QED
    BY <1>1, <1>4, <1>5, <1>6, <2>1 DEF Published
<1>13. Consumer'
  BY <1>4 DEF Consumer
<1>14. ASSUME NEW p \in Producers PROVE Producer(p)'
  <2>1. OwnerOf(p) /\ ProgressOf(p) /\ Start(p)' = Start(p)
    BY <1>4 DEF Sound, Producer, Start
  <2>2. ASSUME prod[p].pc \in Filling PROVE Open(Start(p), prod[p].len, Item(p, sent[p]))'
    <3>1. PICK i \in 1 .. n : /\ claims[i].at = Start(p) /\ claims[i].len = prod[p].len
                              /\ claims[i].item = Item(p, sent[p]) /\ claims[i].status = "open"
      BY <1>2, <2>1, <2>2 DEF OwnerOf, Open
    <3>2. i - 1 \in 1 .. n - 1 /\ claims'[i - 1] = claims[i]
      BY <1>1, <1>8, <3>1 DEF InHand
    <3> QED
      BY <1>4, <1>6, <2>1, <3>1, <3>2 DEF Open
  <2>3. ASSUME prod[p].pc \in {"mirror", "pad", "commit pad"}, Wraps(prod[p].head, prod[p].len)
        PROVE  Open(prod[p].head, PadLen(prod[p].head, prod[p].len), None)'
    <3>1. PICK i \in 1 .. n :
              /\ claims[i].at = prod[p].head
              /\ claims[i].len = PadLen(prod[p].head, prod[p].len)
              /\ claims[i].item = None /\ claims[i].status = "open"
      BY <1>2, <2>1, <2>3 DEF OwnerOf, Open
    <3>2. i - 1 \in 1 .. n - 1 /\ claims'[i - 1] = claims[i]
      BY <1>1, <1>8, <3>1 DEF InHand
    <3> QED
      BY <1>4, <1>6, <3>1, <3>2 DEF Open
  <2>4. OwnerOf(p)'
    BY <1>4, <2>1, <2>2, <2>3 DEF OwnerOf
  <2>5. ProgressOf(p)'
    BY <1>4, <2>1 DEF ProgressOf
  <2> QED
    BY <2>4, <2>5 DEF Producer
<1> QED
  BY <1>9, <1>10, <1>11, <1>12, <1>13, <1>14 DEF Global

-----------------------------------------------------------------------------
(* The theorems *)

LEMMA InitIInv == Init => IInv /\ Sound
<1> SUFFICES ASSUME Init PROVE IInv /\ Sound
  OBVIOUS
<1>1. DataSize \in Nat \ {0} /\ 0 \in 0 .. DataSize - 1
  BY RingAssumption
<1>2. claims = <<>> /\ DOMAIN claims = {} /\ claims \in Seq(Claims)
  BY DEF Init
<1>3. TypeOK
  <2>1. Word(0, Pad, None) \in WordsOf
    BY DEF Word, WordsOf, Items
  <2>2. Idle \in Calls
    BY <1>1 DEF Idle, Calls
  <2> QED
    BY <1>2, <2>1, <2>2 DEF Init, TypeOK
<1>4. Race
  BY <1>1, <1>2 DEF Init, Race, Follow, LocalsOf, Idle
<1>5. Order
  BY <1>1, <1>2 DEF Init, Order, Tiles
<1>6. Shape
  BY <1>2 DEF Shape
<1>7. ClaimsHold
  BY <1>2 DEF ClaimsHold
<1>8. Published
  BY <1>2 DEF Init, Published
<1>9. Consumer
  BY DEF Init, Consumer
<1>10. ASSUME NEW p \in Producers PROVE Producer(p)
  BY DEF Init, Producer, OwnerOf, ProgressOf, Filling, Idle
<1> QED
  BY <1>3, <1>4, <1>5, <1>6, <1>7, <1>8, <1>9, <1>10 DEF IInv, Sound

\* A step of the code, no reservation having begun on old bytes.
LEMMA SoundKept ==
    ASSUME Sound, Next, ~ stale'
    PROVE  Sound'
<1>1. TypeOK' /\ Race'
  BY TypeOKKept, RaceKept DEF Sound
<1>2. ASSUME NEW p \in Producers, Publish(p) PROVE Global' /\ \A q \in Producers : Producer(q)'
  <2>1. CASE Begin(p) \/ LoadTail(p) \/ Retry(p)
    BY <2>1, BeforeReserve
  <2>2. CASE Reserve(p)
    BY <2>2, ReserveKeeps
  <2>3. CASE PublishMirror(p)
    BY <2>3, MirrorKeeps
  <2>4. CASE WritePad(p) \/ CommitPad(p)
    BY <2>4, PadKeeps
  <2>5. CASE WriteHeader(p) \/ WriteBody(p) \/ FailBody(p)
    BY <2>5, FrameKeeps
  <2>6. CASE Commit(p)
    BY <2>6, CommitKeeps
  <2> QED
    BY <1>2, <2>1, <2>2, <2>3, <2>4, <2>5, <2>6 DEF Publish, Fill
<1>3. ASSUME Consume PROVE Global' /\ \A q \in Producers : Producer(q)'
  BY <1>3, SeeKeeps, ZeroKeeps, AdvanceKeeps DEF Consume
<1>4. Global' /\ \A q \in Producers : Producer(q)'
  BY <1>2, <1>3 DEF Next
<1> QED
  BY <1>1, <1>4 DEF Sound, Global

LEMMA StaysStale == Next /\ stale => stale'
<1> SUFFICES ASSUME Next, stale PROVE stale'
  OBVIOUS
<1>1. ASSUME NEW p \in Producers, Publish(p) PROVE stale'
  <2>1. stale' = (stale \/ OnOldBytes(p)) \/ stale' = stale
    BY <1>1 DEF Publish, Fill, Begin, LoadTail, Reserve, Retry, PublishMirror, WritePad, CommitPad,
                WriteHeader, WriteBody, FailBody, Commit
  <2> QED
    BY <2>1
<1>2. ASSUME Consume PROVE stale'
  <2>1. stale' = stale
    BY <1>2 DEF Consume, SeeMirror, SeeTotal, CopyFrame, Zero, Advance
  <2> QED
    BY <2>1
<1> QED
  BY <1>1, <1>2 DEF Next

LEMMA StepIInv == IInv /\ [Next]_vars => IInv'
<1> SUFFICES ASSUME IInv, [Next]_vars PROVE IInv'
  OBVIOUS
<1>1. CASE UNCHANGED vars
  <2>1. TypeOK' /\ Race'
    BY <1>1 DEF vars, IInv, TypeOK, Race, Follow, LocalsOf
  <2>2. ASSUME Sound PROVE Sound'
    <3>1. Order' /\ Shape' /\ ClaimsHold' /\ Published' /\ Consumer'
      BY <1>1, <2>2 DEF vars, Sound, Order, Tiles, Shape, ClaimsHold, Published, Consumer, InHand
    <3>2. ASSUME NEW p \in Producers PROVE Producer(p)'
      <4>1. Producer(p) /\ UNCHANGED <<mem, mirror, prod, claims, sent>>
        BY <1>1, <2>2 DEF vars, Sound
      <4> QED
        BY <4>1 DEF Producer, OwnerOf, ProgressOf, Open, Start
    <3> QED
      BY <2>1, <3>1, <3>2 DEF Sound
  <2>3. stale' = stale
    BY <1>1 DEF vars
  <2> QED
    BY <2>1, <2>2, <2>3 DEF IInv
<1>2. CASE Next
  <2>1. TypeOK' /\ Race'
    BY <1>2, TypeOKKept, RaceKept DEF IInv
  <2>2. stale' \/ Sound'
    <3>1. CASE stale
      BY <1>2, <3>1, StaysStale
    <3>2. CASE Sound
      BY <1>2, <3>2, SoundKept
    <3> QED
      BY <3>1, <3>2 DEF IInv
  <2> QED
    BY <2>1, <2>2 DEF IInv
<1> QED
  BY <1>1, <1>2

(***************************************************************************)
(* The invariant: every position up to head is accounted for; and unless a *)
(* reservation has begun on old bytes, every producer in publish owns what *)
(* it writes, nobody else writes it, and the consumer is at a claim that   *)
(* has been published.                                                     *)
(***************************************************************************)
THEOREM Inductive == Spec => []IInv
<1>1. Init => IInv
  BY InitIInv
<1>2. IInv /\ [Next]_vars => IInv'
  BY StepIInv
<1> QED
  BY <1>1, <1>2, PTL DEF Spec

(***************************************************************************)
(* Whichever producers race for the head with whatever stale head and tail,*)
(* frames of whatever lengths: the reservations tile the circle and never  *)
(* exceed it (publish).                                                    *)
(***************************************************************************)
THEOREM NoOverlap == Spec => []ReservationsTile
<1>1. IInv => ReservationsTile
  <2> SUFFICES ASSUME IInv PROVE ReservationsTile
    OBVIOUS
  <2>1. Sound => (tail = IF claims = <<>> THEN head ELSE claims[1].at)
    <3> SUFFICES ASSUME Sound PROVE tail = IF claims = <<>> THEN head ELSE claims[1].at
      OBVIOUS
    <3>1. CASE claims = <<>>
      BY <3>1 DEF Sound, Order, Tiles
    <3>2. CASE claims # <<>>
      <4>1. 1 \in DOMAIN claims
        BY <3>2, EmptySeq, LenProperties DEF Sound, TypeOK
      <4> QED
        BY <3>2, <4>1, AtTail
    <3> QED
      BY <3>1, <3>2
  <2> QED
    BY <2>1 DEF IInv, Race, Follow, ReservationsTile
<1> QED
  BY <1>1, Inductive, PTL

(***************************************************************************)
(* Every slot reserved on a 0 holds what its claim says, whatever bytes of *)
(* earlier laps lie under the rest of it (commit, advance).                *)
(***************************************************************************)
THEOREM CommitProtocol == Spec => []SlotsHoldTheirClaims
<1>1. IInv => SlotsHoldTheirClaims
  BY DEF IInv, Sound, SlotsHoldTheirClaims
<1> QED
  BY <1>1, Inductive, PTL

(***************************************************************************)
(* The consumer never has a frame in hand that its producer has not        *)
(* committed, as long as every reservation began on a 0 (next, bytes).     *)
(***************************************************************************)
THEOREM NoTornFrame == Spec => []NeverTorn
<1>1. Sound => TakesOnlyCommitted
  <2> SUFFICES ASSUME Sound, cons.pc = "bytes"
               PROVE  /\ claims # <<>> /\ claims[1].status = "ready"
                      /\ claims[1].at = cons.tail /\ claims[1].len = cons.len
    BY DEF TakesOnlyCommitted
  <2>1. InHand /\ claims[1].status = "ready" /\ claims \in Seq(Claims)
    BY DEF Sound, Consumer, TypeOK
  <2>2. 1 \in DOMAIN claims
    BY <2>1, EmptySeq, LenProperties DEF InHand
  <2> QED
    BY <2>1, <2>2, AtTail DEF InHand
<1>2. IInv => NeverTorn
  BY <1>1 DEF IInv, NeverTorn
<1> QED
  BY <1>2, Inductive, PTL

-----------------------------------------------------------------------------
(* The queue that the ring implements *)

\* Frames have the items of the reservations won, pads have none, and no pad is ready.
NamedClaim(i) ==
    /\ claims[i].status = "ready" => claims[i].item # None
    /\ claims[i].item # None =>
          \E p \in Producers : \E n \in 1 .. sent[p] : claims[i].item = Item(p, n)

Named == \A i \in DOMAIN claims : NamedClaim(i)

LEMMA NamedKept ==
    ASSUME Sound, Named, [Next]_vars
    PROVE  Named'
<1>1. /\ TypeOK /\ Order /\ Shape /\ claims \in Seq(Claims)
      /\ sent \in [Producers -> Nat] /\ Len(claims) \in Nat /\ DOMAIN claims = 1 .. Len(claims)
  BY LenProperties DEF Sound, TypeOK
<1>2. CASE UNCHANGED <<claims, sent>>
  BY <1>2 DEF Named, NamedClaim
\* The status of the claim at pos changes, and that is not the item of a ready one.
<1>3. ASSUME NEW pos, NEW s \in {"ready", "void"}, claims' = Settled(pos, s), sent' = sent,
             s = "ready" => \A i \in DOMAIN claims : claims[i].at = pos => claims[i].item # None
      PROVE  Named'
  <2>1. /\ DOMAIN claims' = DOMAIN claims
        /\ \A i \in DOMAIN claims :
             /\ claims'[i].item = claims[i].item
             /\ claims'[i].status = IF claims[i].at = pos THEN s ELSE claims[i].status
    BY <1>1, <1>3, SettledIs DEF Statuses
  <2>2. ASSUME NEW i \in DOMAIN claims PROVE NamedClaim(i)'
    <3>1. NamedClaim(i)
      BY DEF Named
    <3>2. claims'[i].status = "ready" => claims[i].item # None
      BY <1>3, <2>1, <3>1 DEF NamedClaim
    <3> QED
      BY <1>3, <2>1, <3>1, <3>2 DEF NamedClaim
  <2> QED
    BY <2>1, <2>2 DEF Named
<1>4. ASSUME NEW p \in Producers, Reserve(p) PROVE Named'
  <2> DEFINE len == prod[p].len
  <2>1. Adds(p, len, PadLen(head, len), Start(p))
    BY <1>1, <1>4, ReserveAdds
  <2>2. \A q \in Producers : sent'[q] = IF q = p THEN sent[p] + 1 ELSE sent[q]
    BY <1>1, <1>4 DEF Reserve
  <2>3. \A q \in Producers, n \in Nat : n \in 1 .. sent[q] => n \in 1 .. sent'[q]
    BY <1>1, <2>2
  <2>4. ASSUME NEW i \in DOMAIN claims' PROVE NamedClaim(i)'
    <3>1. CASE i \in DOMAIN claims
      <4>1. claims'[i] = claims[i] /\ NamedClaim(i)
        BY <2>1, <3>1 DEF Adds, Named
      <4> QED
        BY <2>3, <4>1 DEF NamedClaim
    <3>2. CASE i \notin DOMAIN claims
      <4>1. /\ claims'[i].status = "open"
            /\ claims'[i].item = None \/ claims'[i].item = Item(p, sent[p] + 1)
        <5>1. CASE Wraps(head, len)
          <6>1. i = Len(claims) + 1 \/ i = Len(claims) + 2
            <7>1. DOMAIN claims' = 1 .. Len(claims) + 2
              BY <2>1, <5>1 DEF Adds
            <7> QED
              BY <1>1, <3>2, <7>1
          <6> QED
            BY <2>1, <5>1, <6>1 DEF Adds
        <5>2. CASE ~ Wraps(head, len)
          <6>1. i = Len(claims) + 1
            BY <1>1, <2>1, <3>2, <5>2 DEF Adds
          <6> QED
            BY <2>1, <5>2, <6>1 DEF Adds
        <5> QED
          BY <5>1, <5>2
      <4>2. sent[p] + 1 \in 1 .. sent'[p]
        BY <1>1, <2>2
      <4> QED
        BY <4>1, <4>2 DEF NamedClaim
    <3> QED
      BY <3>1, <3>2
  <2> QED
    BY <2>4 DEF Named
<1>5. ASSUME NEW p \in Producers, CommitPad(p) PROVE Named'
  <2>1. claims' = Settled(prod[p].head, "void") /\ sent' = sent
    BY <1>5 DEF CommitPad
  <2> QED
    BY <2>1, <1>3
<1>6. ASSUME NEW p \in Producers, Commit(p) PROVE Named'
  <2>1. claims' = Settled(Start(p), IF prod[p].pc = "commit" THEN "ready" ELSE "void") /\ sent' = sent
    BY <1>6 DEF Commit
  <2>2. prod[p].pc \in Filling
    BY <1>6 DEF Commit, Filling
  <2>3. PICK i \in DOMAIN claims : claims[i].at = Start(p) /\ claims[i].item = Item(p, sent[p])
    BY <2>2, FrameOf
  <2>4. \A j \in DOMAIN claims : claims[j].at = Start(p) => claims[j].item # None
    BY <1>1, <2>3, ClaimsApart, ItemsDiffer
  <2> QED
    BY <1>3, <2>1, <2>4
<1>7. ASSUME Advance PROVE Named'
  <2>1. claims' = SubSeq(claims, 2, Len(claims)) /\ sent' = sent
    BY <1>7 DEF Advance
  <2>2. claims # <<>>
    BY <1>7 DEF Advance, Sound, Consumer, InHand
  <2>3. \A i \in DOMAIN claims' : i + 1 \in DOMAIN claims /\ claims'[i] = claims[i + 1]
    BY <1>1, <2>1, <2>2, Later
  <2> QED
    BY <2>1, <2>3 DEF Named, NamedClaim
<1>8. CASE \E p \in Producers : Publish(p)
  <2>1. PICK p \in Producers : Publish(p)
    BY <1>8
  <2>2. Reserve(p) \/ CommitPad(p) \/ Commit(p) \/ UNCHANGED <<claims, sent>>
    BY <2>1 DEF Publish, Fill, Begin, LoadTail, Retry, PublishMirror, WritePad, WriteHeader,
                WriteBody, FailBody
  <2> QED
    BY <2>2, <1>2, <1>4, <1>5, <1>6
<1>9. CASE Consume
  <2>1. Advance \/ UNCHANGED <<claims, sent>>
    BY <1>9 DEF Consume, SeeMirror, SeeTotal, CopyFrame, Zero
  <2> QED
    BY <2>1, <1>2, <1>7
<1>10. CASE UNCHANGED vars
  BY <1>2, <1>10 DEF vars
<1> QED
  BY <1>8, <1>9, <1>10 DEF Next

\* Claim i as a place in the queue, and whether it is in it.
Place(i) == [ticket |-> claims[i].at, item |-> claims[i].item, status |-> claims[i].status]
Copied == cons.pc \in {"zero", "advance"}
Queues(i) == i \in DOMAIN claims /\ claims[i].item # None /\ (i = 1 => ~ Copied)

LEMMA QueueIs == Queue = {Place(i) : i \in {j \in DOMAIN claims : Queues(j)}}
  BY DEF Queue, Uncopied, Queues, Place, Copied

\* Places differ in their tickets, which are in the order of the claims.
LEMMA TicketsInOrder ==
    ASSUME Sound, NEW i \in DOMAIN claims, NEW j \in DOMAIN claims
    PROVE  /\ i \in Nat /\ j \in Nat
           /\ claims[i].at \in Nat /\ claims[i].at < head
           /\ i < j => claims[i].at < claims[j].at
           /\ claims[i].at = claims[j].at => i = j
<1>1. TypeOK /\ Order /\ Shape
  BY DEF Sound
<1>2. i \in Nat /\ j \in Nat
  BY <1>1, LenProperties DEF TypeOK
<1>3. /\ claims[i].at \in Nat /\ claims[i].len \in Nat /\ claims[i].len >= 1
      /\ claims[i].at + claims[i].len <= head /\ head \in Nat /\ claims[j].at \in Nat
  <2>1. head \in Nat
    BY <1>1 DEF TypeOK
  <2> QED
    BY <1>1, <2>1, ClaimLies
<1>4. i < j => claims[i].at + claims[i].len <= claims[j].at
  BY <1>1 DEF Order
<1>5. claims[i].at = claims[j].at => i = j
  BY <1>1, ClaimsApart
<1> QED
  BY <1>2, <1>3, <1>4, <1>5

\* The queue stays as it is when the claims do and the consumer is where it was.
LEMMA QueueStays ==
    ASSUME UNCHANGED <<claims, out>>, Copied' <=> Copied
    PROVE  UNCHANGED Q!queueVars
<1>1. Queue' = Queue
  BY DEF Queue, Uncopied, Copied
<1> QED
  BY <1>1 DEF Q!queueVars

\* The consumer is done with the first claim: it leaves the queue.
LEMMA FirstLeaves ==
    ASSUME Sound, UNCHANGED claims, ~ Copied, Copied', 1 \in DOMAIN claims, claims[1].item # None
    PROVE  /\ Place(1) \in Queue
           /\ \A other \in Queue : Place(1).ticket <= other.ticket
           /\ Queue' = Queue \ {Place(1)}
<1>1. Queue = {Place(i) : i \in {j \in DOMAIN claims : Queues(j)}}
  BY QueueIs
<1>2. Queue' = {Place(i) : i \in {j \in DOMAIN claims : claims[j].item # None /\ j # 1}}
  BY DEF Queue, Uncopied, Place, Copied
<1>3. \A j \in DOMAIN claims : Queues(j) <=> claims[j].item # None
  BY DEF Queues
<1>4. \A j \in DOMAIN claims : /\ claims[1].at \in Nat /\ claims[j].at \in Nat /\ j \in Nat /\ j >= 1
                               /\ j # 1 => claims[1].at < claims[j].at
  BY TicketsInOrder, LenProperties DEF Sound, TypeOK
<1>5. \A j \in DOMAIN claims : Place(j).ticket = claims[j].at
  BY DEF Place
<1>6. \A j \in DOMAIN claims : j # 1 => Place(j) # Place(1)
  BY <1>4, <1>5
<1>7. Place(1) \in Queue
  BY <1>1, <1>3
<1>8. \A other \in Queue : Place(1).ticket <= other.ticket
  BY <1>1, <1>4, <1>5
<1>9. Queue' = Queue \ {Place(1)}
  BY <1>1, <1>2, <1>3, <1>6
<1> QED
  BY <1>7, <1>8, <1>9

\* A claim that is being filled waits in the queue.
LEMMA OpenQueues ==
    ASSUME Sound, NEW i \in DOMAIN claims, claims[i].status = "open"
    PROVE  i = 1 => ~ Copied
  BY DEF Sound, Consumer, InHand, Copied

LEMMA ReserveClaims ==
    ASSUME Sound, Named, NEW p \in Producers, Reserve(p), ~ stale'
    PROVE  \E place \in Queue' : Q!Claim(place)
<1> DEFINE n == Len(claims)
           len == prod[p].len
           pad == PadLen(head, len)
           start == Start(p)
           item == Item(p, sent[p] + 1)
           place == [ticket |-> start, item |-> item, status |-> "open"]
<1>1. /\ Adds(p, len, pad, start) /\ start \in Nat /\ start = head + pad /\ pad \in Nat
      /\ n \in Nat /\ DOMAIN claims = 1 .. n /\ head \in Nat /\ sent \in [Producers -> Nat]
  <2>1. /\ Adds(p, len, pad, start) /\ start \in Nat /\ start = head + pad /\ len \in 0 .. DataSize
    BY Reserved
  <2>2. head \in Nat /\ sent \in [Producers -> Nat]
    BY DEF Sound, TypeOK
  <2>3. pad \in Nat
    BY <2>1, <2>2, PadLenIs
  <2> QED
    BY <2>1, <2>2, <2>3 DEF Adds
<1>2. UNCHANGED <<cons, out>> /\ (Copied' <=> Copied)
  BY DEF Reserve, Copied
<1>3. n = 0 => ~ Copied
  BY <1>1, EmptySeq DEF Sound, Consumer, InHand, Copied
<1> HIDE DEF n, len, pad, start, item
<1>4. PICK new \in Nat :
      /\ new \in DOMAIN claims' /\ new \notin DOMAIN claims
      /\ claims'[new] = [at |-> start, len |-> len, item |-> item, status |-> "open"]
      /\ new = 1 => n = 0
      /\ \A j \in DOMAIN claims : j \in DOMAIN claims' /\ claims'[j] = claims[j]
      /\ \A j \in DOMAIN claims' : j \in DOMAIN claims \/ j = new \/ claims'[j].item = None
  <2>1. CASE Wraps(head, len)
    <3>1. /\ DOMAIN claims' = 1 .. n + 2 /\ claims'[n + 1].item = None
          /\ claims'[n + 2] = [at |-> start, len |-> len, item |-> item, status |-> "open"]
          /\ \A j \in 1 .. n : claims'[j] = claims[j]
      BY <1>1, <2>1 DEF Adds, n, item
    <3>2. \A j \in DOMAIN claims' : j \in DOMAIN claims \/ j = n + 2 \/ j = n + 1
      BY <1>1, <3>1
    <3>3. n + 2 \in Nat /\ n + 2 \in DOMAIN claims' /\ n + 2 \notin DOMAIN claims /\ n + 2 # 1
      BY <1>1, <3>1
    <3>4. \A j \in DOMAIN claims : j \in DOMAIN claims' /\ claims'[j] = claims[j]
      BY <1>1, <3>1
    <3> QED
      BY <3>1, <3>2, <3>3, <3>4
  <2>2. CASE ~ Wraps(head, len)
    <3>1. /\ DOMAIN claims' = 1 .. n + 1
          /\ claims'[n + 1] = [at |-> start, len |-> len, item |-> item, status |-> "open"]
          /\ \A j \in 1 .. n : claims'[j] = claims[j]
      BY <1>1, <2>2 DEF Adds, n, item
    <3>2. \A j \in DOMAIN claims' : j \in DOMAIN claims \/ j = n + 1
      BY <1>1, <3>1
    <3>3. n + 1 \in Nat /\ n + 1 \in DOMAIN claims' /\ n + 1 \notin DOMAIN claims /\ (n + 1 = 1 => n = 0)
      BY <1>1, <3>1
    <3>4. \A j \in DOMAIN claims : j \in DOMAIN claims' /\ claims'[j] = claims[j]
      BY <1>1, <3>1
    <3> QED
      BY <3>1, <3>2, <3>3, <3>4
  <2> QED
    BY <2>1, <2>2
<1>5. item # None /\ item \in Producers \X (Nat \ {0})
  BY <1>1, ItemsDiffer DEF item, Item
<1>6. Queues(new)' /\ Place(new)' = place
  <2>1. claims'[new].item = item /\ claims'[new].at = start /\ claims'[new].status = "open"
    BY <1>4
  <2>2. new = 1 => ~ Copied'
    BY <1>2, <1>3, <1>4
  <2> QED
    BY <1>4, <1>5, <2>1, <2>2 DEF Queues, Place
<1>7. \A j \in DOMAIN claims : (Queues(j)' <=> Queues(j)) /\ Place(j)' = Place(j)
  BY <1>2, <1>4 DEF Queues, Place
<1>8. \A j \in DOMAIN claims' : Queues(j)' => j \in DOMAIN claims \/ j = new
  BY <1>4 DEF Queues
<1>9. Queue' = {Place(i)' : i \in {j \in DOMAIN claims' : Queues(j)'}}
  BY <1>2 DEF Queue, Uncopied, Queues, Place, Copied
<1>10. Queue' = Queue \union {place}
  <2>1. Queue' = {Place(i)' : i \in {j \in DOMAIN claims : Queues(j)'} \union {new}}
    BY <1>4, <1>6, <1>8, <1>9
  <2>2. Queue' = {Place(i)' : i \in {j \in DOMAIN claims : Queues(j)}} \union {place}
    BY <1>6, <1>7, <2>1
  <2>3. {Place(i)' : i \in {j \in DOMAIN claims : Queues(j)}} = Queue
    BY <1>7, QueueIs
  <2> QED
    BY <2>2, <2>3
<1>11. ASSUME NEW other \in Queue PROVE other.ticket < place.ticket /\ other.item # place.item
  <2>1. PICK j \in DOMAIN claims : Queues(j) /\ other = Place(j)
    BY QueueIs
  <2>2. claims[j].at \in Nat /\ claims[j].at < head
    BY <2>1, TicketsInOrder
  <2>3. PICK q \in Producers : \E m \in 1 .. sent[q] : claims[j].item = Item(q, m)
    BY <2>1 DEF Queues, Named, NamedClaim
  <2>4. PICK m \in 1 .. sent[q] : claims[j].item = Item(q, m)
    BY <2>3
  <2>5. claims[j].item # item
    <3>1. q = p => m # sent[p] + 1
      BY <1>1, <2>4
    <3> QED
      BY <2>4, <3>1, ItemsDiffer DEF item
  <2> QED
    BY <1>1, <2>1, <2>2, <2>5 DEF Place
<1>12. Q!Claim(place)
  BY <1>2, <1>5, <1>10, <1>11 DEF Q!Claim
<1> QED
  BY <1>10, <1>12

LEMMA CommitSettles ==
    ASSUME Sound, NEW p \in Producers, Commit(p)
    PROVE  \E place \in Queue : Q!Settle(place)
<1> DEFINE s == IF prod[p].pc = "commit" THEN "ready" ELSE "void"
<1>1. claims' = Settled(Start(p), s) /\ UNCHANGED <<cons, out>> /\ s \in {"ready", "void"}
  BY DEF Commit
<1>2. PICK i \in DOMAIN claims :
          /\ claims[i].at = Start(p) /\ claims[i].item = Item(p, sent[p]) /\ claims[i].status = "open"
  BY FrameOf DEF Commit, Filling
<1>3. claims \in Seq(Claims) /\ \A j \in DOMAIN claims : claims[j].at = Start(p) <=> j = i
  BY <1>2, TicketsInOrder DEF Sound, TypeOK
<1> HIDE DEF s
<1>4. /\ DOMAIN claims' = DOMAIN claims
      /\ \A j \in DOMAIN claims : /\ claims'[j].at = claims[j].at /\ claims'[j].item = claims[j].item
                                  /\ claims'[j].status = IF j = i THEN s ELSE claims[j].status
  BY <1>1, <1>3, SettledIs DEF Statuses
<1>5. Queues(i) /\ Place(i).status = "open"
  BY <1>2, OpenQueues, ItemsDiffer DEF Queues, Place
<1>6. \A j \in DOMAIN claims : /\ Queues(j)' <=> Queues(j)
                               /\ j # i => Place(j)' = Place(j)
                               /\ j # i => Place(j) # Place(i)
  <2>1. \A j \in DOMAIN claims : (Queues(j)' <=> Queues(j)) /\ (j # i => Place(j)' = Place(j))
    BY <1>1, <1>4 DEF Queues, Place, Copied
  <2>2. \A j \in DOMAIN claims : Place(j).ticket = claims[j].at
    BY DEF Place
  <2> QED
    BY <2>1, <2>2, TicketsInOrder
<1>7. Place(i)' = [Place(i) EXCEPT !.status = s]
  BY <1>4 DEF Place
<1>8. Queue' = {Place(j)' : j \in {k \in DOMAIN claims' : Queues(k)'}}
  BY DEF Queue, Uncopied, Queues, Place, Copied
<1>9. Queue' = (Queue \ {Place(i)}) \union {Place(i)'}
  BY <1>4, <1>5, <1>6, <1>8, QueueIs
<1>10. Q!Settle(Place(i))
  BY <1>1, <1>5, <1>7, <1>9 DEF Q!Settle
<1> QED
  BY <1>5, <1>10, QueueIs

\* A pad has no place in the queue, committed or not.
LEMMA PadIsHidden ==
    ASSUME Sound, NEW p \in Producers, CommitPad(p)
    PROVE  UNCHANGED Q!queueVars
<1>1. claims' = Settled(prod[p].head, "void") /\ UNCHANGED <<cons, out>>
  BY DEF CommitPad
<1>2. PICK i \in DOMAIN claims : claims[i].at = prod[p].head /\ claims[i].item = None
  BY PadOf DEF CommitPad
<1>3. claims \in Seq(Claims) /\ \A j \in DOMAIN claims : claims[j].at = prod[p].head <=> j = i
  BY <1>2, TicketsInOrder DEF Sound, TypeOK
<1>4. /\ DOMAIN claims' = DOMAIN claims
      /\ \A j \in DOMAIN claims : /\ claims'[j].at = claims[j].at /\ claims'[j].item = claims[j].item
                                  /\ j # i => claims'[j].status = claims[j].status
  BY <1>1, <1>3, SettledIs DEF Statuses
<1>5. \A j \in DOMAIN claims : (Queues(j)' <=> Queues(j)) /\ (Queues(j) => Place(j)' = Place(j))
  BY <1>1, <1>2, <1>4 DEF Queues, Place, Copied
<1>6. Queue' = {Place(j)' : j \in {k \in DOMAIN claims' : Queues(k)'}}
  BY DEF Queue, Uncopied, Queues, Place, Copied
<1>7. Queue' = Queue
  BY <1>4, <1>5, <1>6, QueueIs
<1> QED
  BY <1>1, <1>7 DEF Q!queueVars

\* A place that the consumer finds void is skipped.
LEMMA SeeTakes ==
    ASSUME Sound, Named, SeeTotal
    PROVE  (\E place \in Queue : Q!Take(place)) \/ UNCHANGED Q!queueVars
<1> DEFINE first == mem[At(cons.tail)]
<1>1. /\ cons \in [pc : {"next", "total", "bytes", "zero", "advance"}, tail : Nat, len : Nat]
      /\ UNCHANGED <<claims, out>> /\ cons.pc = "total" /\ ~ Copied
  BY DEF SeeTotal, Sound, TypeOK, Copied
<1>2. cons'.pc = IF first.total = 0 THEN "next" ELSE IF first.version = Pad THEN "zero" ELSE "bytes"
  BY <1>1 DEF SeeTotal
<1>3. CASE ~ Copied'
  BY <1>1, <1>3, QueueStays
<1>4. CASE Copied'
  <2>1. first.total # 0 /\ first.version = Pad
    BY <1>2, <1>4 DEF Copied
  <2>2. cons.tail = tail /\ 1 \in DOMAIN claims
    <3>1. cons.tail = tail /\ claims # <<>> /\ claims \in Seq(Claims)
      BY <1>1 DEF Sound, Published, Order, Tiles, TypeOK
    <3> QED
      BY <3>1, EmptySeq, LenProperties
  <2>3. claims[1].at = tail
    BY <2>2, AtTail
  <2>4. 1 \in DOMAIN claims /\ claims[1].at = tail /\ claims[1].status # "open"
    BY <2>1, <2>2, <2>3 DEF Sound, ClaimsHold
  <2>5. first.version = IF claims[1].status = "ready" THEN Wire ELSE Pad
    BY <1>1, <2>2, <2>4 DEF Sound, ClaimsHold
  <2>6. claims[1].status # "ready"
    BY <2>1, <2>5 DEF Wire, Pad
  <2> HIDE DEF first
  <2>7. CASE claims[1].item = None
    <3>1. \A j \in DOMAIN claims : (Queues(j)' <=> Queues(j)) /\ Place(j)' = Place(j)
      BY <1>1, <2>7 DEF Queues, Place
    <3>2. Queue' = {Place(j)' : j \in {k \in DOMAIN claims' : Queues(k)'}}
      BY DEF Queue, Uncopied, Queues, Place, Copied
    <3>3. Queue' = Queue
      BY <1>1, <3>1, <3>2, QueueIs
    <3> QED
      BY <1>1, <3>3 DEF Q!queueVars
  <2>8. CASE claims[1].item # None
    <3>1. /\ Place(1) \in Queue /\ Queue' = Queue \ {Place(1)}
          /\ \A other \in Queue : Place(1).ticket <= other.ticket
      BY <1>1, <1>4, <2>4, <2>8, FirstLeaves
    <3>2. Place(1).status # "open" /\ Place(1).status # "ready"
      BY <2>4, <2>6 DEF Place
    <3>3. Q!Take(Place(1))
      BY <1>1, <3>1, <3>2 DEF Q!Take
    <3> QED
      BY <3>1, <3>3
  <2> QED
    BY <2>7, <2>8
<1> QED
  BY <1>3, <1>4

\* What is copied is the first place, whole.
LEMMA CopyTakes ==
    ASSUME Sound, Named, CopyFrame
    PROVE  \E place \in Queue : Q!Take(place)
<1> DEFINE frame == {mem[At(cons.tail + i)].item : i \in 0 .. cons.len - 1}
<1>1. /\ cons \in [pc : {"next", "total", "bytes", "zero", "advance"}, tail : Nat, len : Nat]
      /\ UNCHANGED claims /\ cons.pc = "bytes" /\ cons'.pc = "zero"
  BY DEF CopyFrame, Sound, TypeOK
<1>2. 1 \in DOMAIN claims /\ claims[1].status = "ready" /\ claims[1].len = cons.len
  <2>1. InHand /\ claims[1].status = "ready" /\ claims \in Seq(Claims)
    BY <1>1 DEF Sound, Consumer, TypeOK
  <2> QED
    BY <2>1, EmptySeq, LenProperties DEF InHand
<1>3. claims[1].at = cons.tail /\ cons.len \in Nat /\ cons.len >= 1
  BY <1>2, AtTail, ClaimLies DEF Sound
<1>4. claims[1].item # None
  BY <1>2 DEF Named, NamedClaim
<1>5. \A w \in 0 .. cons.len - 1 : mem[At(cons.tail + w)].item = claims[1].item
  BY <1>2, <1>3 DEF Sound, ClaimsHold
<1>6. frame = {claims[1].item}
  <2>1. 0 \in 0 .. cons.len - 1
    BY <1>3
  <2> QED
    BY <1>5, <2>1
<1>7. out' = claims[1].item
  <2>1. out' = IF \E item \in frame : frame = {item} THEN CHOOSE item \in frame : TRUE ELSE Torn
    BY DEF CopyFrame
  <2> HIDE DEF frame
  <2> QED
    BY <1>6, <2>1
<1>8. /\ Place(1) \in Queue /\ Queue' = Queue \ {Place(1)}
      /\ \A other \in Queue : Place(1).ticket <= other.ticket
  BY <1>1, <1>2, <1>4, FirstLeaves DEF Copied
<1>9. Place(1).status = "ready" /\ Place(1).item = claims[1].item
  BY <1>2 DEF Place
<1>10. Q!Take(Place(1))
  BY <1>7, <1>8, <1>9 DEF Q!Take
<1> QED
  BY <1>8, <1>10

\* The first claim was taken before; now the words are given back.
LEMMA AdvanceIsHidden ==
    ASSUME Sound, Advance
    PROVE  UNCHANGED Q!queueVars
<1>1. /\ cons \in [pc : {"next", "total", "bytes", "zero", "advance"}, tail : Nat, len : Nat]
      /\ claims \in Seq(Claims) /\ claims' = SubSeq(claims, 2, Len(claims)) /\ out' = out
      /\ cons.pc = "advance" /\ cons'.pc = "next"
  BY DEF Advance, Sound, TypeOK
<1>2. claims # <<>>
  BY <1>1 DEF Sound, Consumer, InHand
<1>3. /\ Len(claims) \in Nat /\ DOMAIN claims = 1 .. Len(claims)
      /\ DOMAIN claims' = 1 .. Len(claims) - 1
      /\ \A j \in 1 .. Len(claims) - 1 : claims'[j] = claims[j + 1]
  BY <1>1, <1>2, Later, LenProperties
<1>4. \A j \in DOMAIN claims' : /\ j + 1 \in DOMAIN claims /\ (Queues(j)' <=> Queues(j + 1))
                                /\ Place(j)' = Place(j + 1)
  <2>1. \A j \in DOMAIN claims' : j + 1 \in DOMAIN claims /\ j + 1 # 1 /\ claims'[j] = claims[j + 1]
    BY <1>3
  <2>2. ~ Copied'
    BY <1>1 DEF Copied
  <2> QED
    BY <2>1, <2>2 DEF Queues, Place
<1>5. \A j \in DOMAIN claims : Queues(j) => j - 1 \in DOMAIN claims' /\ j = (j - 1) + 1
  <2>1. \A j \in DOMAIN claims : Queues(j) => j # 1
    BY <1>1 DEF Queues, Copied
  <2> QED
    BY <1>3, <2>1
<1>6. Queue' = {Place(j)' : j \in {k \in DOMAIN claims' : Queues(k)'}}
  BY DEF Queue, Uncopied, Queues, Place, Copied
<1>7. Queue' \subseteq Queue
  <2> SUFFICES ASSUME NEW j \in DOMAIN claims', Queues(j)' PROVE Place(j)' \in Queue
    BY <1>6
  <2>1. j + 1 \in DOMAIN claims /\ Queues(j + 1) /\ Place(j)' = Place(j + 1)
    BY <1>4
  <2> QED
    BY <2>1, QueueIs
<1>8. Queue \subseteq Queue'
  <2> SUFFICES ASSUME NEW j \in DOMAIN claims, Queues(j) PROVE Place(j) \in Queue'
    BY QueueIs
  <2>1. j - 1 \in DOMAIN claims' /\ Queues(j - 1)' /\ Place(j - 1)' = Place(j)
    BY <1>4, <1>5
  <2> QED
    BY <1>6, <2>1
<1> QED
  BY <1>1, <1>7, <1>8 DEF Q!queueVars

LEMMA StepRefines == Sound /\ Named /\ [Next]_vars /\ ~ stale' => [Q!Next]_(Q!queueVars)
<1> SUFFICES ASSUME Sound, Named, [Next]_vars, ~ stale' PROVE Q!Next \/ UNCHANGED Q!queueVars
  OBVIOUS
<1>1. cons \in [pc : {"next", "total", "bytes", "zero", "advance"}, tail : Nat, len : Nat]
  BY DEF Sound, TypeOK
<1>2. CASE UNCHANGED vars
  BY <1>2, QueueStays DEF vars, Copied
<1>3. ASSUME NEW p \in Producers, Publish(p) PROVE Q!Next \/ UNCHANGED Q!queueVars
  <2>1. CASE Reserve(p)
    BY <2>1, ReserveClaims DEF Q!Next
  <2>2. CASE CommitPad(p)
    BY <2>2, PadIsHidden
  <2>3. CASE Commit(p)
    BY <2>3, CommitSettles DEF Q!Next
  <2>4. CASE ~ (Reserve(p) \/ CommitPad(p) \/ Commit(p))
    <3>1. UNCHANGED <<claims, out, cons>>
      BY <1>3, <2>4 DEF Publish, Fill, Begin, LoadTail, Retry, PublishMirror, WritePad,
                        WriteHeader, WriteBody, FailBody
    <3> QED
      BY <3>1, QueueStays DEF Copied
  <2> QED
    BY <2>1, <2>2, <2>3, <2>4
<1>4. CASE SeeMirror \/ Zero
  <2>1. UNCHANGED <<claims, out>> /\ (Copied' <=> Copied)
    BY <1>1, <1>4 DEF SeeMirror, Zero, Copied
  <2> QED
    BY <2>1, QueueStays
<1>5. CASE SeeTotal
  BY <1>5, SeeTakes DEF Q!Next
<1>6. CASE CopyFrame
  BY <1>6, CopyTakes DEF Q!Next
<1>7. CASE Advance
  BY <1>7, AdvanceIsHidden
<1> QED
  BY <1>2, <1>3, <1>4, <1>5, <1>6, <1>7 DEF Next, Consume

\* A claim has its item as long as no reservation has begun on old bytes.
NamedOrStale == stale \/ Named

LEMMA StepNamed == IInv /\ NamedOrStale /\ [Next]_vars => NamedOrStale'
<1> SUFFICES ASSUME IInv, NamedOrStale, [Next]_vars PROVE NamedOrStale'
  OBVIOUS
<1>1. CASE stale
  <2>1. stale'
    <3>1. CASE Next
      BY <1>1, <3>1, StaysStale
    <3>2. CASE UNCHANGED vars
      BY <1>1, <3>2 DEF vars
    <3> QED
      BY <3>1, <3>2
  <2> QED
    BY <2>1 DEF NamedOrStale
<1>2. CASE ~ stale
  <2>1. Sound /\ Named
    BY <1>2 DEF IInv, NamedOrStale
  <2>2. Named'
    BY <2>1, NamedKept
  <2> QED
    BY <2>2 DEF NamedOrStale
<1> QED
  BY <1>1, <1>2

\* No step out of a stale state ends in one that is not.
LEMMA StepImplements ==
    IInv /\ NamedOrStale /\ [Next]_vars => [~ stale' => [Q!Next]_(Q!queueVars)]_vars
<1> SUFFICES ASSUME IInv, NamedOrStale, Next, ~ stale' PROVE [Q!Next]_(Q!queueVars)
  OBVIOUS
<1>1. ~ stale
  BY StaysStale
<1>2. Sound /\ Named
  BY <1>1 DEF IInv, NamedOrStale
<1> QED
  BY <1>2, StepRefines

(***************************************************************************)
(* The frames the consumer copies are the frames that found room, each     *)
(* once, whole, in the order of their reservations: up to a reservation on *)
(* old bytes the ring implements the queue of module RingQueue (publish,   *)
(* next, bytes).                                                           *)
(***************************************************************************)
THEOREM RefinementCorrect == Spec => ImplementsQueue
<1>1. Init => IInv /\ NamedOrStale /\ Q!Init
  <2> SUFFICES ASSUME Init PROVE IInv /\ NamedOrStale /\ Q!Init
    OBVIOUS
  <2>1. claims = <<>> /\ DOMAIN claims = {} /\ out = None
    BY DEF Init
  <2>2. Queue = {}
    BY <2>1 DEF Queue, Uncopied
  <2> QED
    BY <2>1, <2>2, InitIInv DEF NamedOrStale, Named, Q!Init
<1>2. IInv /\ NamedOrStale /\ [Next]_vars => IInv' /\ NamedOrStale'
  BY StepIInv, StepNamed
<1> QED
  BY <1>1, <1>2, StepImplements, PTL DEF Spec, ImplementsQueue
=============================================================================
