--------------------------- MODULE RxCapture_proofs ---------------------------
(***************************************************************************)
(* Proof, for interfaces, chunks, buffers and captures of any number and   *)
(* size, that the interrupt handler carries every capture whole to the DDR *)
(* buffers and puts its read offset back, if it is never later than a      *)
(* chunk less two samples.                                                 *)
(*                                                                         *)
(* What Delivered says of a capture that is over is a fact about all the   *)
(* interrupts before.  CaptureInv relates the two offsets while they move: *)
(* the read offset is at the start of a chunk, and the radio is at most a  *)
(* chunk ahead of it when no interrupt is pending, and less than two       *)
(* chunks when one is (Tracked); below the read offset the samples are in  *)
(* the DDR buffer, and from there on in the BRAM (Held).                   *)
(***************************************************************************)
EXTENDS RxCapture, TLAPS

\* The capture goes on, or its last interrupt is still to be served.
Busy == running \/ irq

\* The handler has something to move.
Active == Busy /\ useDram /\ rxEn # {}

Typed ==
    /\ rxLength \in 0 .. MaxSamples - 1
    /\ rxBufferSize \in Nat
    /\ rxEn \in SUBSET RF
    /\ txEn \in SUBSET RF
    /\ rd \in 0 .. MaxSamples
    /\ written \in 0 .. MaxSamples
    /\ lag \in 0 .. MaxLag
    /\ capture \in 0 .. MaxCaptures
    /\ bram \in [RF -> [0 .. BramSize - 1 -> Cell]]
    /\ ddr \in [RF -> [0 .. MaxSamples - 1 -> Cell]]
    /\ armed \in SUBSET RF
    /\ copied \in 0 .. MaxSamples
    /\ reading \in SUBSET Reading

Flags ==
    /\ useDram \in BOOLEAN
    /\ running \in BOOLEAN
    /\ err \in BOOLEAN
    /\ above \in BOOLEAN
    /\ irq \in BOOLEAN

\* With DRAM a capture ends within the first chunk, or on a whole one.
Sized ==
    /\ rxLength + 1 <= Supported
    /\ useDram =>
           \/ rxLength + 1 < Chunk
           \/ /\ rxLength + 1 = rxBufferSize
              /\ \E k \in 0 .. NumChunks : rxBufferSize = k * Chunk

Extent ==
    /\ written <= Supported
    /\ running => written <= rxLength
    /\ irq /\ ~running => written = rxLength + 1

AtRest ==
    /\ ~Active => rd = 0
    /\ Busy => armed \subseteq rxEn
    /\ rd <= copied

Tracked ==
    Active =>
        /\ ~err
        /\ rd <= written
        /\ \E q \in 0 .. NumChunks : rd = q * Chunk
        /\ ~irq => ~above /\ written - rd <= Chunk
        /\ irq => written - rd \in 1 .. Chunk + 1 + lag
        /\ irq /\ running => written - rd > Chunk

Held ==
    /\ ~useDram => \A b \in armed : \A i \in 0 .. written - 1 :
           bram[b][i] = <<capture, i>>
    /\ Active => \A b \in armed :
           /\ \A i \in 0 .. rd - 1 : ddr[b][i] = <<capture, i>>
           /\ \A i \in rd .. written - 1 : bram[b][i % BramSize] = <<capture, i>>
    /\ useDram /\ ~Busy => \A b \in armed : \A i \in 0 .. written - 1 :
           ddr[b][i] = <<capture, i>>

CaptureInv ==
    Typed /\ Flags /\ Sized /\ Extent /\ AtRest /\ Tracked /\ Held

\* The offsets of the handler, whatever the host does: it moves whole chunks
\* that the capture has reached and that the BRAM still holds.
Paced ==
    /\ \E q \in 0 .. NumChunks : rd = q * Chunk
    /\ useDram => \/ rxLength + 1 <= Chunk
                  \/ \E k \in 0 .. NumChunks : rxLength + 1 = k * Chunk
    /\ running => written <= rxLength
    /\ irq /\ ~running => written = rxLength + 1
    /\ useDram /\ ~err /\ Busy =>
           /\ rd <= written /\ rd <= rxLength /\ written - rd <= BramSize
           /\ irq => rd = 0 \/ written - rd >= Chunk

TypeInv == Typed /\ Flags /\ Paced

\* The host asks for no more than a buffer holds, and the handler is in time.
Ordinary ==
    /\ MaxLag + 2 <= Chunk
    /\ Lengths \subseteq 0 .. MaxSamples

-----------------------------------------------------------------------------
(* Arithmetic.                                                             *)

LEMMA Sizes ==
    /\ Chunk \in Nat /\ Chunk >= 2
    /\ NumChunks \in Nat /\ NumChunks >= 2
    /\ BramSize = 2 * Chunk /\ BramSize \in Nat
    /\ MaxSamples = NumChunks * Chunk /\ MaxSamples \in Nat
    /\ BramSize <= MaxSamples
    /\ MaxLag \in Nat /\ MaxCaptures \in Nat
<1>1. /\ Chunk \in Nat /\ Chunk >= 2 /\ NumChunks \in Nat /\ NumChunks >= 2
      /\ MaxLag \in Nat /\ MaxCaptures \in Nat
  BY CaptureAssumption
<1>2. NumChunks * Chunk \in Nat /\ (NumChunks - 2) * Chunk >= 0
  BY <1>1
<1>3. (NumChunks - 2) * Chunk = NumChunks * Chunk - 2 * Chunk
  BY <1>1
<1> QED
  BY <1>1, <1>2, <1>3 DEF BramSize, MaxSamples

LEMMA Times ==
    ASSUME NEW a \in Int, NEW b \in Int, NEW c \in Nat
    PROVE  /\ a * c \in Int
           /\ a <= b => a * c <= b * c
           /\ (a + 1) * c = a * c + c
<1>1. a <= b => (b - a) * c >= 0
  OBVIOUS
<1> QED
  BY <1>1

(* A number has one quotient and one remainder. *)
LEMMA Divides ==
    ASSUME NEW c \in Nat \ {0}, NEW q \in Int, NEW r \in 0 .. c - 1
    PROVE  (q * c + r) \div c = q /\ (q * c + r) % c = r
<1> DEFINE a == q * c + r
           x == a \div c
           s == a % c
<1>1. a \in Int
  OBVIOUS
<1>2. x \in Int /\ s \in 0 .. c - 1 /\ a = c * x + s
  BY <1>1
<1> HIDE DEF x, s
<1>3. c * x = x * c /\ a = q * c + r /\ q * c \in Int /\ x * c \in Int
  BY <1>2
<1>4. ~ (x >= q + 1)
<2> SUFFICES ASSUME x >= q + 1 PROVE FALSE
  OBVIOUS
<2>1. (q + 1) * c <= x * c /\ (q + 1) * c = q * c + c
  BY <1>2, Times
<2> QED
  BY <1>2, <1>3, <2>1
<1>5. ~ (q >= x + 1)
<2> SUFFICES ASSUME q >= x + 1 PROVE FALSE
  OBVIOUS
<2>1. (x + 1) * c <= q * c /\ (x + 1) * c = x * c + c
  BY <1>2, Times
<2> QED
  BY <1>2, <1>3, <2>1
<1>6. x = q
  BY <1>2, <1>4, <1>5
<1>7. s = r
  BY <1>2, <1>3, <1>6
<1> QED
  BY <1>6, <1>7 DEF x, s

(* The whole chunks of what lies up to two chunks past the start of one. *)
LEMMA AlignedAt ==
    ASSUME NEW q \in Nat, NEW d \in 0 .. 2 * Chunk - 1
    PROVE  Aligned(q * Chunk + d) =
               IF d < Chunk THEN q * Chunk ELSE q * Chunk + Chunk
<1>1. Chunk \in Nat \ {0} /\ q * Chunk \in Nat /\ q + 1 \in Nat
  BY Sizes
<1>2. CASE d < Chunk
<2>1. (q * Chunk + d) \div Chunk = q
  BY <1>1, <1>2, Divides
<2> QED
  BY <1>1, <1>2, <2>1 DEF Aligned
<1>3. CASE d >= Chunk
<2>1. (q + 1) * Chunk = q * Chunk + Chunk /\ d - Chunk \in 0 .. Chunk - 1
  BY <1>1, <1>3
<2>2. q * Chunk + d = (q + 1) * Chunk + (d - Chunk)
  BY <1>1, <2>1
<2>3. (q * Chunk + d) \div Chunk = q + 1
  BY <1>1, <2>1, <2>2, Divides
<2> QED
  BY <1>1, <1>3, <2>1, <2>3 DEF Aligned
<1> QED
  BY <1>1, <1>2, <1>3

(* The start of a chunk is that of a half of the BRAM. *)
LEMMA InBram ==
    ASSUME NEW q \in Nat, NEW r, r = q * Chunk
    PROVE  \/ /\ r % BramSize = 0 /\ (r + Chunk) % BramSize = Chunk
              /\ \A j \in 0 .. Chunk - 1 : (r + j) % BramSize = j
           \/ /\ r % BramSize = Chunk /\ (r + Chunk) % BramSize = 0
              /\ \A j \in 0 .. Chunk - 1 : (r + j) % BramSize = Chunk + j
<1> DEFINE p == q \div 2
<1>1. p \in Int /\ (q = 2 * p \/ q = 2 * p + 1)
  OBVIOUS
<1> HIDE DEF p
<1>2. /\ Chunk \in Nat \ {0} /\ BramSize \in Nat \ {0} /\ BramSize = 2 * Chunk
      /\ p * BramSize \in Int /\ p * Chunk \in Int
      /\ p * BramSize = 2 * (p * Chunk)
  BY <1>1, Sizes
<1>3. CASE q = 2 * p
<2>1. r = p * BramSize
  BY <1>1, <1>2, <1>3
<2>2. ASSUME NEW j \in 0 .. BramSize - 1 PROVE (p * BramSize + j) % BramSize = j
  BY <1>1, <1>2, Divides
<2>3. \A j \in 0 .. BramSize - 1 : (r + j) % BramSize = j
  BY <2>1, <2>2
<2>4. r + 0 = r /\ 0 \in 0 .. BramSize - 1 /\ Chunk \in 0 .. BramSize - 1
  BY <1>2, <2>1
<2> QED
  BY <1>2, <2>3, <2>4
<1>4. CASE q = 2 * p + 1
<2>1. r = p * BramSize + Chunk
  BY <1>1, <1>2, <1>4
<2>2. ASSUME NEW j \in 0 .. BramSize - 1 PROVE (p * BramSize + j) % BramSize = j
  BY <1>1, <1>2, Divides
<2>3. \A j \in 0 .. Chunk - 1 : (r + j) % BramSize = Chunk + j
<3> SUFFICES ASSUME NEW j \in 0 .. Chunk - 1
             PROVE  (r + j) % BramSize = Chunk + j
  OBVIOUS
<3>1. Chunk + j \in 0 .. BramSize - 1 /\ r + j = p * BramSize + (Chunk + j)
  BY <1>2, <2>1
<3> QED
  BY <2>2, <3>1
<2>4. r % BramSize = Chunk
<3>1. r + 0 = r /\ 0 \in 0 .. Chunk - 1 /\ Chunk + 0 = Chunk
  BY <1>2, <2>1
<3> QED
  BY <2>3, <3>1
<2>5. (r + Chunk) % BramSize = 0
<3>1. r + Chunk = (p + 1) * BramSize + 0 /\ 0 \in 0 .. BramSize - 1
  BY <1>1, <1>2, <2>1
<3> QED
  BY <1>1, <1>2, <3>1, Divides
<2> QED
  BY <2>3, <2>4, <2>5
<1> QED
  BY <1>1, <1>3, <1>4

(* Samples less than a BRAM apart have different places in it. *)
LEMMA Apart ==
    ASSUME NEW i \in Nat, NEW w \in Nat, i < w, w - i < BramSize
    PROVE  i % BramSize # w % BramSize
<1> DEFINE x == i \div BramSize
           y == w \div BramSize
           s == i % BramSize
           t == w % BramSize
<1>1. /\ BramSize \in Nat \ {0}
      /\ x \in Int /\ y \in Int /\ s \in 0 .. BramSize - 1 /\ t \in 0 .. BramSize - 1
      /\ i = BramSize * x + s /\ w = BramSize * y + t
<2>1. BramSize \in Nat \ {0}
  BY Sizes
<2>2. x \in Int /\ s \in 0 .. BramSize - 1 /\ i = BramSize * x + s
  BY <2>1
<2>3. y \in Int /\ t \in 0 .. BramSize - 1 /\ w = BramSize * y + t
  BY <2>1
<2> QED
  BY <2>1, <2>2, <2>3
<1> HIDE DEF x, y, s, t
<1>2. /\ BramSize * x = x * BramSize /\ BramSize * y = y * BramSize
      /\ x * BramSize \in Int /\ y * BramSize \in Int
  BY <1>1
<1> SUFFICES ASSUME s = t PROVE FALSE
  BY DEF s, t
<1>3. w - i = y * BramSize - x * BramSize
  BY <1>1, <1>2
<1>4. CASE y <= x
<2>1. y * BramSize <= x * BramSize
  BY <1>1, <1>4, Times
<2> QED
  BY <1>2, <1>3, <2>1
<1>5. CASE y >= x + 1
<2>1. (x + 1) * BramSize <= y * BramSize /\ (x + 1) * BramSize = x * BramSize + BramSize
  BY <1>1, <1>5, Times
<2> QED
  BY <1>1, <1>2, <1>3, <2>1
<1> QED
  BY <1>1, <1>4, <1>5

LEMMA Low ==
    ASSUME NEW i \in 0 .. BramSize - 1
    PROVE  i % BramSize = i
<1>1. i = 0 * BramSize + i /\ BramSize \in Nat \ {0}
  BY Sizes
<1> QED
  BY <1>1, Divides

(* Rounding up to whole chunks stays within the buffer. *)
LEMMA Rounded ==
    ASSUME NEW n \in 1 .. MaxSamples
    PROVE  /\ \E k \in 0 .. NumChunks : RoundUp(n) = k * Chunk
           /\ RoundUp(n) \in n .. MaxSamples
           /\ n <= Chunk => RoundUp(n) = Chunk
<1> DEFINE q == n \div Chunk
           r == n % Chunk
<1>1. /\ Chunk \in Nat \ {0} /\ q \in Int /\ r \in 0 .. Chunk - 1
      /\ n = Chunk * q + r /\ NumChunks \in Nat /\ MaxSamples = NumChunks * Chunk
  BY Sizes
<1>2. Aligned(n) = Chunk * q
  BY DEF Aligned
<1> HIDE DEF q, r
<1>3. Chunk * q = q * Chunk /\ q * Chunk \in Int /\ (q + 1) * Chunk = q * Chunk + Chunk
      /\ NumChunks * Chunk \in Int
  BY <1>1
<1>4. q >= 0
<2> SUFFICES ASSUME q + 1 <= 0 PROVE FALSE
  BY <1>1
<2>1. (q + 1) * Chunk <= 0 * Chunk
  BY <1>1, Times
<2> QED
  BY <1>1, <1>3, <2>1
<1>5. CASE r = 0
<2>1. RoundUp(n) = n /\ n = q * Chunk
  BY <1>1, <1>2, <1>3, <1>5 DEF RoundUp
<2>2. q <= NumChunks
<3> SUFFICES ASSUME NumChunks + 1 <= q PROVE FALSE
  BY <1>1
<3>1. (NumChunks + 1) * Chunk <= q * Chunk
      /\ (NumChunks + 1) * Chunk = NumChunks * Chunk + Chunk
  BY <1>1, Times
<3> QED
  BY <1>1, <1>3, <2>1, <3>1
<2>3. n <= Chunk => n = Chunk
<3> SUFFICES ASSUME n < Chunk PROVE FALSE
  BY <1>1
<3>1. q >= 1
<4> SUFFICES ASSUME q = 0 PROVE FALSE
  BY <1>1, <1>4
<4> QED
  BY <1>1, <2>1
<3>2. 1 * Chunk <= q * Chunk
  BY <1>1, <3>1, Times
<3> QED
  BY <1>1, <1>3, <2>1, <3>2
<2>4. q \in 0 .. NumChunks /\ RoundUp(n) = q * Chunk
  BY <1>1, <1>4, <2>1, <2>2
<2>5. RoundUp(n) \in n .. MaxSamples
  BY <2>1
<2>6. n <= Chunk => RoundUp(n) = Chunk
  BY <2>1, <2>3
<2> QED
  BY <2>4, <2>5, <2>6
<1>6. CASE r > 0
<2>1. RoundUp(n) = (q + 1) * Chunk /\ RoundUp(n) = q * Chunk + Chunk
  BY <1>1, <1>2, <1>3, <1>6 DEF RoundUp
<2>2. q + 1 <= NumChunks
<3> SUFFICES ASSUME NumChunks <= q PROVE FALSE
  BY <1>1
<3>1. NumChunks * Chunk <= q * Chunk
  BY <1>1, Times
<3> QED
  BY <1>1, <1>3, <1>6, <3>1
<2>3. (q + 1) * Chunk <= NumChunks * Chunk
  BY <1>1, <2>2, Times
<2>4. n <= Chunk => q = 0
<3> SUFFICES ASSUME q >= 1, n <= Chunk PROVE FALSE
  BY <1>1, <1>4
<3>1. 1 * Chunk <= q * Chunk
  BY <1>1, Times
<3> QED
  BY <1>1, <1>3, <1>6, <3>1
<2>5. q + 1 \in 0 .. NumChunks /\ RoundUp(n) = (q + 1) * Chunk
  BY <1>1, <1>4, <2>1, <2>2
<2>6. RoundUp(n) \in n .. MaxSamples
<3>1. n = q * Chunk + r /\ r <= Chunk
  BY <1>1, <1>3
<3>2. (q + 1) * Chunk <= MaxSamples /\ (q + 1) * Chunk \in Int
  BY <1>1, <1>3, <2>3
<3> QED
  BY <1>1, <1>3, <2>1, <3>1, <3>2
<2>7. n <= Chunk => RoundUp(n) = Chunk
<3> SUFFICES ASSUME n <= Chunk PROVE RoundUp(n) = Chunk
  OBVIOUS
<3>1. q = 0 /\ 0 * Chunk = 0
  BY <1>1, <2>4
<3> QED
  BY <1>1, <2>1, <3>1
<2> QED
  BY <2>5, <2>6, <2>7
<1> QED
  BY <1>1, <1>5, <1>6
LEMMA Limits ==
    /\ Supported \in Nat /\ Supported <= MaxSamples
    /\ useDram => Supported = MaxSamples /\ Threshold = Chunk
    /\ ~useDram => Supported = BramSize /\ Threshold = BramSize
  BY Sizes DEF Supported, Threshold

-----------------------------------------------------------------------------
(* The buffers core.                                                       *)

LEMMA InitCapture == Init => CaptureInv
<1> SUFFICES ASSUME Init PROVE CaptureInv
  OBVIOUS
<1>1. Empty \in Cell
  BY Sizes DEF Empty, Cell
<1>2. Typed
<2>1. /\ bram \in [RF -> [0 .. BramSize - 1 -> Cell]]
      /\ ddr \in [RF -> [0 .. MaxSamples - 1 -> Cell]]
  BY <1>1 DEF Init
<2>2. /\ rxLength \in 0 .. MaxSamples - 1 /\ rxBufferSize \in Nat
      /\ rd \in 0 .. MaxSamples /\ written \in 0 .. MaxSamples
      /\ lag \in 0 .. MaxLag /\ capture \in 0 .. MaxCaptures
      /\ copied \in 0 .. MaxSamples /\ reading \in SUBSET Reading
  BY Sizes DEF Init
<2>3. /\ rxEn \in SUBSET RF /\ txEn \in SUBSET RF /\ armed \in SUBSET RF
  BY DEF Init
<2> QED
  BY <2>1, <2>2, <2>3 DEF Typed
<1>3. Flags
  BY DEF Init, Flags
<1>4. Sized
<2>1. rxLength + 1 = BramSize /\ rxBufferSize = 2 * Chunk /\ 2 \in 0 .. NumChunks
  BY Sizes DEF Init
<2> QED
  BY <2>1, Sizes, Limits DEF Sized
<1>5. Extent /\ AtRest /\ Tracked
  BY Limits DEF Init, Extent, AtRest, Tracked, Active, Busy
<1>6. Held
  BY DEF Init, Held, Active, Busy
<1> QED
  BY <1>2, <1>3, <1>4, <1>5, <1>6 DEF CaptureInv

LEMMA StartCaptureStep ==
    ASSUME CaptureInv, StartCapture
    PROVE  CaptureInv'
<1>1. /\ ~running /\ ~irq /\ rxEn # {} /\ capture < MaxCaptures
      /\ running' = TRUE /\ capture' = capture + 1 /\ written' = 0
      /\ lag' = 0 /\ armed' = rxEn /\ copied' = 0
      /\ UNCHANGED <<useDram, rxLength, rxBufferSize, rxEn, txEn, rd, bram, ddr,
                     reading>>
  BY DEF StartCapture, regs, enables
<1>2. rd = 0
  BY <1>1 DEF CaptureInv, AtRest, Active, Busy
<1>3. err' = FALSE /\ above' = FALSE /\ irq' = FALSE
<2>1. OverBram(0, rd) = FALSE /\ OverThreshold(0, rd) = FALSE
  BY <1>2, Sizes, Limits DEF OverBram, OverThreshold, Threshold
<2>2. /\ err' = OverBram(0, rd) /\ above' = OverThreshold(0, rd)
      /\ irq' = (~above /\ OverThreshold(0, rd))
  BY DEF StartCapture
<2> QED
  BY <2>1, <2>2, Zenon
<1>4. Typed'
  BY <1>1, <1>2, Sizes DEF CaptureInv, Typed
<1>5. Flags'
  BY <1>1, <1>3, Zenon DEF CaptureInv, Flags
<1>6. Sized'
  BY <1>1 DEF CaptureInv, Sized, Supported
<1>7. Extent'
  BY <1>1, <1>3, Limits DEF CaptureInv, Typed, Extent, Supported
<1>8. AtRest'
  BY <1>1, <1>2 DEF AtRest
<1>9. Tracked'
<2>1. rd' = 0 * Chunk /\ 0 \in 0 .. NumChunks
  BY <1>1, <1>2, Sizes
<2> QED
  BY <1>1, <1>2, <1>3, <2>1, Sizes DEF Tracked
<1>10. Held'
  BY <1>1, <1>2 DEF Held, Busy
<1> QED
  BY <1>4, <1>5, <1>6, <1>7, <1>8, <1>9, <1>10 DEF CaptureInv

(* The radio is less than two chunks ahead of the handler. *)
LEMMA Ahead ==
    ASSUME CaptureInv, Ordinary, Active
    PROVE  /\ written - rd \in 0 .. 2 * Chunk - 1
           /\ irq /\ lag < MaxLag => written - rd <= 2 * Chunk - 2
<1>1. rd \in Nat /\ written \in Nat /\ lag \in 0 .. MaxLag
  BY Sizes DEF CaptureInv, Typed
<1>2. MaxLag + 2 <= Chunk /\ Chunk \in Nat /\ MaxLag \in Nat
  BY Sizes DEF Ordinary
<1>3. CASE irq
  BY <1>1, <1>2, <1>3 DEF CaptureInv, Tracked
<1>4. CASE ~irq
  BY <1>1, <1>2, <1>4 DEF CaptureInv, Tracked
<1> QED
  BY <1>3, <1>4

LEMMA WriteSampleStep ==
    ASSUME CaptureInv, Ordinary, WriteSample
    PROVE  CaptureInv'
<1> DEFINE w == written + 1
           done == written >= rxLength
<1>1. /\ running /\ (irq => lag < MaxLag)
      /\ written' = w /\ lag' = IF irq THEN lag + 1 ELSE 0
      /\ bram' = [b \in RF |->
                     IF b \in rxEn
                     THEN [bram[b] EXCEPT ![written % BramSize] = <<capture, written>>]
                     ELSE bram[b]]
      /\ UNCHANGED <<useDram, rxLength, rxBufferSize, rxEn, txEn, rd, capture,
                     ddr, armed, copied, reading>>
  BY DEF WriteSample, regs, enables
<1>2. /\ running' = ~done
      /\ above' = OverThreshold(w, rd)
      /\ err' = (err \/ OverBram(w, rd))
      /\ irq' = (irq \/ (~above /\ OverThreshold(w, rd)) \/ done)
  BY DEF WriteSample
<1>2a. /\ running' <=> ~done
       /\ above' <=> OverThreshold(w, rd)
       /\ err' <=> err \/ OverBram(w, rd)
       /\ irq' <=> irq \/ (~above /\ OverThreshold(w, rd)) \/ done
<2> HIDE DEF done, w
<2> QED
  BY <1>2, Zenon
<1>3. /\ written \in Nat /\ rxLength \in Nat /\ rd \in Nat
      /\ written <= rxLength /\ w <= MaxSamples /\ w <= Supported
      /\ rxLength + 1 <= Supported
  BY <1>1, Sizes, Limits DEF CaptureInv, Typed, Extent, Sized
<1>3a. /\ written % BramSize \in 0 .. BramSize - 1
       /\ \A i \in Nat : i % BramSize \in 0 .. BramSize - 1
<2>1. BramSize \in Nat \ {0}
  BY Sizes
<2> QED
  BY <1>3, <2>1
<1>4. done => written = rxLength
  BY <1>3
<1>5. Busy /\ Busy' /\ (Active' <=> Active)
  BY <1>1, <1>2 DEF Busy, Active
<1>6. Typed'
<2>1. written % BramSize \in 0 .. BramSize - 1
  BY <1>3a
<2>2. <<capture, written>> \in Cell
  BY <1>3 DEF CaptureInv, Typed, Cell
<2>3. bram' \in [RF -> [0 .. BramSize - 1 -> Cell]]
  BY <1>1, <2>1, <2>2 DEF CaptureInv, Typed
<2>4. lag' \in 0 .. MaxLag
  BY <1>1, Sizes DEF CaptureInv, Typed
<2>5. written' \in 0 .. MaxSamples
  BY <1>1, <1>3, Sizes
<2> QED
  BY <1>1, <2>3, <2>4, <2>5 DEF CaptureInv, Typed
<1>7. Flags'
<2>1. OverThreshold(w, rd) \in BOOLEAN /\ OverBram(w, rd) \in BOOLEAN /\ done \in BOOLEAN
  BY DEF OverThreshold, OverBram
<2> HIDE DEF done
<2> QED
  BY <1>1, <1>2, <2>1, Zenon DEF CaptureInv, Flags
<1>8. Sized'
  BY <1>1 DEF CaptureInv, Sized, Supported
<1>9. Extent'
<2>1. w <= Supported'
  BY <1>1, <1>3 DEF Supported
<2>2. running' => w <= rxLength
  BY <1>2a, <1>3
<2>3. ~running' => w = rxLength + 1
  BY <1>2a, <1>4
<2> QED
  BY <1>1, <2>1, <2>2, <2>3 DEF Extent
<1>10. AtRest'
  BY <1>1, <1>5 DEF CaptureInv, AtRest
<1>11. Tracked'
<2> SUFFICES ASSUME Active PROVE Tracked'
  BY <1>5 DEF Tracked
<2> DEFINE d == written - rd
<2>1. /\ d \in 0 .. 2 * Chunk - 1 /\ ~err /\ Threshold = Chunk /\ Chunk \in Nat
      /\ BramSize = 2 * Chunk /\ d + 1 = w - rd /\ lag \in Nat
<3>1. d \in 0 .. 2 * Chunk - 1
  BY Ahead
<3>2. Threshold = Chunk
  BY Limits DEF Active
<3>3. ~err
  BY DEF CaptureInv, Tracked
<3>4. lag \in Nat
  BY Sizes DEF CaptureInv, Typed
<3> QED
  BY <1>3, <3>1, <3>2, <3>3, <3>4, Sizes
<2>2. OverThreshold(w, rd) <=> d + 1 > Chunk
  BY <1>3, <2>1 DEF OverThreshold
<2>3. ~OverBram(w, rd) /\ d <= 2 * Chunk - 2
<3>1. CASE irq
  BY <1>1, <1>3, <2>1, <3>1, Ahead DEF OverBram
<3>2. CASE ~irq
<4>1. d <= Chunk /\ Chunk >= 2
  BY <3>2, Sizes DEF CaptureInv, Tracked
<4> QED
  BY <1>3, <2>1, <4>1 DEF OverBram
<3> QED
  BY <3>1, <3>2
<2>4. ~err'
  BY <1>2a, <2>1, <2>3
<2>5. \E q \in 0 .. NumChunks : rd' = q * Chunk
  BY <1>1 DEF CaptureInv, Tracked
<2>6. CASE irq
<3>1. /\ d \in 1 .. Chunk + 1 + lag /\ d > Chunk /\ irq' /\ lag' = lag + 1
  BY <1>1, <1>2a, <2>6 DEF CaptureInv, Tracked
<3> QED
  BY <1>1, <1>3, <2>1, <2>4, <2>5, <3>1 DEF Tracked
<2>7. CASE ~irq
<3>1. d <= Chunk /\ ~above /\ lag' = 0
  BY <1>1, <2>7 DEF CaptureInv, Tracked
<3>2. irq' => d + 1 \in 1 .. Chunk + 1 + lag'
  BY <2>1, <3>1
<3>3. irq' /\ running' => d + 1 > Chunk
  BY <1>2a, <2>2, <2>7
<3>4. ~irq' => ~above' /\ d + 1 <= Chunk
  BY <1>2a, <2>1, <2>2, <3>1
<3> QED
  BY <1>1, <1>3, <2>1, <2>4, <2>5, <3>2, <3>3, <3>4 DEF Tracked
<2> QED
  BY <2>6, <2>7
<1>12. Held'
<2>1. armed \subseteq rxEn /\ armed \subseteq RF
  BY <1>5 DEF CaptureInv, AtRest, Typed
<2>2. ASSUME NEW b \in armed
      PROVE  /\ bram'[b][written % BramSize] = <<capture, written>>
             /\ \A i \in 0 .. BramSize - 1 :
                    i # written % BramSize => bram'[b][i] = bram[b][i]
<3>1. /\ written % BramSize \in 0 .. BramSize - 1
      /\ bram[b] \in [0 .. BramSize - 1 -> Cell]
      /\ bram'[b] = [bram[b] EXCEPT ![written % BramSize] = <<capture, written>>]
<4>1. b \in RF /\ b \in rxEn
  BY <2>1, <2>2
<4>2. bram[b] \in [0 .. BramSize - 1 -> Cell]
  BY <4>1 DEF CaptureInv, Typed
<4> QED
  BY <1>1, <1>3a, <4>1, <4>2
<3> QED
  BY <3>1
<2>3. ASSUME ~useDram, NEW b \in armed, NEW i \in 0 .. w - 1
      PROVE  bram'[b][i] = <<capture, i>>
<3>1. /\ i \in 0 .. BramSize - 1 /\ written \in 0 .. BramSize - 1
  BY <1>3, <2>3, Limits, Sizes
<3>2. written % BramSize = written
  BY <3>1, Low
<3>3. CASE i = written
  BY <2>2, <3>2, <3>3
<3>4. CASE i # written
<4>1. i \in 0 .. written - 1
  BY <1>3, <3>4
<4>2. bram[b][i] = <<capture, i>>
  BY <2>3, <4>1 DEF CaptureInv, Held
<4> QED
  BY <2>2, <3>1, <3>2, <3>4, <4>2
<3> QED
  BY <3>3, <3>4
<2>4. ASSUME Active, NEW b \in armed, NEW i \in rd .. w - 1
      PROVE  bram'[b][i % BramSize] = <<capture, i>>
<3>1. CASE i = written
  BY <2>2, <3>1
<3>2. CASE i # written
<4>1. i \in rd .. written - 1 /\ i \in Nat /\ i < written
  BY <1>3, <3>2
<4>2. bram[b][i % BramSize] = <<capture, i>>
  BY <2>4, <4>1 DEF CaptureInv, Held
<4>3. written - i < BramSize
<5>1. written - rd \in 0 .. 2 * Chunk - 1 /\ BramSize = 2 * Chunk /\ Chunk \in Nat
  BY <2>4, Ahead, Sizes
<5> QED
  BY <1>3, <4>1, <5>1
<4>4. i % BramSize # written % BramSize /\ i % BramSize \in 0 .. BramSize - 1
  BY <1>3, <1>3a, <4>1, <4>3, Apart
<4> QED
  BY <2>2, <4>2, <4>4
<3> QED
  BY <3>1, <3>2
<2>5. ASSUME Active, NEW b \in armed, NEW i \in 0 .. rd - 1
      PROVE  ddr[b][i] = <<capture, i>>
  BY <2>5 DEF CaptureInv, Held
<2>6. ~useDram' => \A b \in armed' : \A i \in 0 .. written' - 1 :
          bram'[b][i] = <<capture', i>>
  BY <1>1, <2>3
<2>7. Active' => \A b \in armed' :
          /\ \A i \in 0 .. rd' - 1 : ddr'[b][i] = <<capture', i>>
          /\ \A i \in rd' .. written' - 1 :
                 bram'[b][i % BramSize] = <<capture', i>>
<3> SUFFICES ASSUME Active', NEW b \in armed'
             PROVE  /\ \A i \in 0 .. rd' - 1 : ddr'[b][i] = <<capture', i>>
                    /\ \A i \in rd' .. written' - 1 :
                           bram'[b][i % BramSize] = <<capture', i>>
  OBVIOUS
<3>1. Active /\ b \in armed /\ rd' = rd /\ ddr' = ddr /\ capture' = capture
      /\ written' = w
  BY <1>1, <1>5
<3>2. \A i \in 0 .. rd - 1 : ddr[b][i] = <<capture, i>>
  BY <2>5, <3>1
<3>3. \A i \in rd .. w - 1 : bram'[b][i % BramSize] = <<capture, i>>
  BY <2>4, <3>1
<3> HIDE DEF w
<3> QED
  BY <3>1, <3>2, <3>3
<2> QED
  BY <1>5, <2>6, <2>7 DEF Held
<1> QED
  BY <1>6, <1>7, <1>8, <1>9, <1>10, <1>11, <1>12 DEF CaptureInv
-----------------------------------------------------------------------------
(* The interrupt handler.                                                  *)

(* The offset is written back.  Where the radio is less than a chunk ahead *)
(* of it there is neither an interrupt nor an error in that.               *)
LEMMA Caught ==
    ASSUME NEW r \in Nat, written \in Nat, r <= written,
           written - r <= Chunk, useDram
    PROVE  OverThreshold(written, r) = FALSE /\ OverBram(written, r) = FALSE
  BY Sizes DEF OverThreshold, OverBram, Threshold

(* An overflow is only seen when there is nothing to move. *)
LEMMA IsrErrorStep ==
    ASSUME CaptureInv, IsrError
    PROVE  CaptureInv'
<1>1. /\ irq /\ useDram /\ err /\ irq' = FALSE /\ lag' = 0
      /\ UNCHANGED <<useDram, rxLength, rxBufferSize, rxEn, txEn, rd, running,
                     written, err, above, capture, bram, ddr, armed, copied,
                     reading>>
  BY DEF IsrError, regs, enables
<1>2. ~Active /\ rxEn = {} /\ armed = {} /\ rd = 0 /\ ~Active'
  BY <1>1 DEF CaptureInv, Tracked, AtRest, Active, Busy
<1>3. Typed' /\ Sized'
  BY <1>1, Sizes DEF CaptureInv, Typed, Sized, Supported
<1>4. Flags'
  BY <1>1, Zenon DEF CaptureInv, Flags
<1>5. Extent' /\ AtRest' /\ Tracked' /\ Held'
  BY <1>1, <1>2 DEF CaptureInv, Extent, Supported, AtRest, Tracked, Held
<1> QED
  BY <1>3, <1>4, <1>5 DEF CaptureInv

LEMMA IsrNoDramStep ==
    ASSUME CaptureInv, IsrNoDram
    PROVE  CaptureInv'
<1>1. /\ irq /\ ~useDram /\ irq' = FALSE /\ lag' = 0 /\ rd' = 0
      /\ UNCHANGED <<useDram, rxLength, rxBufferSize, rxEn, txEn, running,
                     written, capture, bram, ddr, armed, copied, reading>>
  BY DEF IsrNoDram, SetReadOffset, regs, enables
<1>2. above' \in BOOLEAN /\ err' \in BOOLEAN
<2>1. OverThreshold(written, 0) \in BOOLEAN /\ OverBram(written, 0) \in BOOLEAN
  BY DEF OverThreshold, OverBram
<2>2. /\ above' = IF running THEN OverThreshold(written, 0) ELSE above
      /\ err' = (err \/ (running /\ OverBram(written, 0)))
  BY DEF IsrNoDram, SetReadOffset
<2> QED
  BY <2>1, <2>2, Zenon DEF CaptureInv, Flags
<1>3. Typed' /\ Sized'
  BY <1>1, Sizes DEF CaptureInv, Typed, Sized, Supported
<1>4. Flags'
  BY <1>1, <1>2, Zenon DEF CaptureInv, Flags
<1>5. Extent' /\ AtRest' /\ Tracked' /\ Held'
<2>1. copied \in Nat /\ ~Active'
  BY <1>1, Sizes DEF CaptureInv, Typed, Active
<2>2. Extent'
  BY <1>1 DEF CaptureInv, Extent, Supported
<2>3. AtRest'
  BY <1>1, <2>1 DEF CaptureInv, AtRest, Busy
<2>4. Tracked' /\ Held'
  BY <1>1, <2>1 DEF CaptureInv, Tracked, Held
<2> QED
  BY <2>2, <2>3, <2>4
<1> QED
  BY <1>3, <1>4, <1>5 DEF CaptureInv

(* A capture that ended within its first chunk: the handler copies the     *)
(* whole BRAM.                                                             *)
LEMMA MoveShort ==
    ASSUME CaptureInv, Ordinary, Active, irq, written - rd < Chunk
    PROVE  /\ ~running /\ rd = 0 /\ written \in 1 .. Chunk - 1
           /\ Aligned(written) = 0 /\ XferLength(rd, 0) = BramSize
           /\ NextReadOffset(0) = 0
<1>1. /\ Chunk \in Nat /\ Chunk >= 2 /\ written \in Nat /\ rd \in Nat
      /\ rxLength \in Nat
  BY Sizes DEF CaptureInv, Typed
<1>2. ~running
  BY <1>1 DEF CaptureInv, Tracked
<1>3. written = rxLength + 1 /\ written - rd >= 1
  BY <1>1, <1>2 DEF CaptureInv, Extent, Tracked
<1>4. PICK q \in 0 .. NumChunks : rd = q * Chunk
  BY DEF CaptureInv, Tracked
<1>5. q \in Nat
  BY Sizes, <1>4
<1>6. written < Chunk
<2> SUFFICES ASSUME written >= Chunk PROVE FALSE
  BY <1>1
<2>1. PICK k \in 0 .. NumChunks : written = k * Chunk
  BY <1>1, <1>3 DEF CaptureInv, Sized, Active
<2>2. k \in Nat
  BY <2>1, Sizes
<2>3. CASE k <= q
<3>1. k * Chunk <= q * Chunk
  BY <1>1, <1>5, <2>2, <2>3, Times
<3> QED
  BY <1>1, <1>3, <1>4, <2>1, <3>1
<2>4. CASE k >= q + 1
<3>1. (q + 1) * Chunk <= k * Chunk /\ (q + 1) * Chunk = q * Chunk + Chunk
  BY <1>1, <1>5, <2>2, <2>4, Times
<3> QED
  BY <1>1, <1>4, <2>1, <3>1
<2> QED
  BY <1>5, <2>2, <2>3, <2>4
<1>7. rd = 0
<2> SUFFICES ASSUME q >= 1 PROVE FALSE
  BY <1>1, <1>4, <1>5
<2>1. 1 * Chunk <= q * Chunk /\ 1 * Chunk = Chunk
  BY <1>1, <1>5, Times
<2> QED
  BY <1>1, <1>3, <1>4, <1>6, <2>1
<1>8. Aligned(written) = 0
<2>1. written = 0 * Chunk + written /\ 0 * Chunk = 0
      /\ written \in 0 .. 2 * Chunk - 1 /\ 0 \in Nat
  BY <1>1, <1>6
<2> QED
  BY <1>6, <2>1, AlignedAt
<1>9. XferLength(rd, 0) = BramSize
<2>1. 0 \in 0 .. BramSize - 1 /\ BramSize \in Nat
  BY Sizes
<2>2. 0 % BramSize = 0
  BY <2>1, Low
<2> QED
  BY <1>7, <2>1, <2>2 DEF XferLength
<1>10. NextReadOffset(0) = 0
  BY DEF NextReadOffset
<1> QED
  BY <1>1, <1>2, <1>3, <1>6, <1>7, <1>8, <1>9, <1>10

(* Otherwise it copies the one chunk that waits, and the capture is over   *)
(* exactly if its end has been reached.                                    *)
LEMMA MoveChunk ==
    ASSUME CaptureInv, Ordinary, Active, irq, written - rd >= Chunk
    PROVE  /\ Aligned(written) = rd + Chunk
           /\ XferLength(rd, rd + Chunk) = Chunk
           /\ running => /\ NextReadOffset(rd + Chunk) = rd + Chunk
                         /\ \E q \in 0 .. NumChunks : rd + Chunk = q * Chunk
           /\ ~running => /\ NextReadOffset(rd + Chunk) = 0
                          /\ written = rd + Chunk
<1>1. /\ Chunk \in Nat /\ Chunk >= 2 /\ written \in Nat /\ rd \in Nat
      /\ rxLength \in Nat /\ NumChunks \in Nat /\ rxBufferSize \in Nat
  BY Sizes DEF CaptureInv, Typed
<1>2. PICK q \in 0 .. NumChunks : rd = q * Chunk
  BY DEF CaptureInv, Tracked
<1>3. q \in Nat /\ (q + 1) * Chunk = rd + Chunk /\ q * Chunk \in Int
  BY <1>1, <1>2, Times
<1>4. written - rd \in Chunk .. 2 * Chunk - 1
  BY <1>1, Ahead
<1>5. Aligned(written) = rd + Chunk
<2>1. written = q * Chunk + (written - rd) /\ written - rd \in 0 .. 2 * Chunk - 1
      /\ ~(written - rd < Chunk)
  BY <1>1, <1>2, <1>3, <1>4
<2> QED
  BY <1>2, <1>3, <2>1, AlignedAt
<1>6. XferLength(rd, rd + Chunk) = Chunk
<2>1. \/ rd % BramSize = 0 /\ (rd + Chunk) % BramSize = Chunk
      \/ rd % BramSize = Chunk /\ (rd + Chunk) % BramSize = 0
  BY <1>2, <1>3, InBram
<2> QED
  BY <1>1, <2>1, Sizes DEF XferLength
<1>7. /\ rxLength + 1 = rxBufferSize
      /\ \E k \in 0 .. NumChunks : rxBufferSize = k * Chunk
<2>1. ~(rxLength + 1 < Chunk)
<3>1. written <= rxLength + 1
  BY <1>1 DEF CaptureInv, Extent
<3> QED
  BY <1>1, <1>4, <3>1
<2> QED
  BY <2>1 DEF CaptureInv, Sized, Active
<1>8. PICK k \in 0 .. NumChunks : rxBufferSize = k * Chunk
  BY <1>7
<1>9. k \in Nat
  BY <1>1, <1>8
<1>10. ASSUME running
       PROVE  /\ NextReadOffset(rd + Chunk) = rd + Chunk
              /\ q + 1 \in 0 .. NumChunks
<2>1. written <= rxLength
  BY <1>10 DEF CaptureInv, Extent
<2>2. rd + Chunk < rxBufferSize
  BY <1>1, <1>4, <1>7, <2>1
<2>3. NextReadOffset(rd + Chunk) = rd + Chunk
  BY <1>1, <2>2 DEF NextReadOffset
<2>4. q + 1 <= NumChunks
<3> SUFFICES ASSUME NumChunks <= q PROVE FALSE
  BY <1>1, <1>3
<3>1. k <= q
  BY <1>1, <1>3, <1>8, <1>9
<3>2. k * Chunk <= q * Chunk
  BY <1>1, <1>3, <1>9, <3>1, Times
<3> QED
  BY <1>1, <1>2, <1>8, <2>2, <3>2
<2> QED
  BY <1>3, <2>3, <2>4
<1>11. ASSUME ~running
       PROVE  NextReadOffset(rd + Chunk) = 0 /\ written = rd + Chunk
<2>1. written = rxBufferSize
  BY <1>7, <1>11 DEF CaptureInv, Extent
<2>2. CASE k >= q + 2
<3>1. (q + 2) * Chunk <= k * Chunk /\ (q + 1 + 1) * Chunk = (q + 1) * Chunk + Chunk
  BY <1>1, <1>3, <1>9, <2>2, Times
<3>2. (q + 2) * Chunk = rd + Chunk + Chunk
  BY <1>1, <1>3, <3>1
<3> QED
  BY <1>1, <1>4, <1>8, <2>1, <3>1, <3>2
<2>3. CASE k <= q
<3>1. k * Chunk <= q * Chunk
  BY <1>1, <1>3, <1>9, <2>3, Times
<3> QED
  BY <1>1, <1>2, <1>4, <1>8, <2>1, <3>1
<2>4. CASE k = q + 1
<3>1. written = rd + Chunk
  BY <1>3, <1>8, <2>1, <2>4
<3> QED
  BY <2>1, <3>1 DEF NextReadOffset
<2> QED
  BY <1>3, <1>9, <2>2, <2>3, <2>4
<1> QED
  BY <1>3, <1>5, <1>6, <1>10, <1>11
(* What one transfer leaves in a DDR buffer. *)
LEMMA Moved ==
    ASSUME Typed, NEW b \in RF, NEW r \in Nat, NEW len \in Nat,
           \A i \in r .. r + len - 1 : (r % BramSize) + (i - r) \in 0 .. BramSize - 1
    PROVE  /\ CopyChunks(ddr[b], bram[b], r, len) \in [0 .. MaxSamples - 1 -> Cell]
           /\ \A i \in 0 .. MaxSamples - 1 :
                  CopyChunks(ddr[b], bram[b], r, len)[i] =
                      IF i \in r .. r + len - 1
                      THEN bram[b][(r % BramSize) + (i - r)] ELSE ddr[b][i]
<1>1. /\ ddr[b] \in [0 .. MaxSamples - 1 -> Cell]
      /\ bram[b] \in [0 .. BramSize - 1 -> Cell]
  BY DEF Typed
<1> QED
  BY <1>1 DEF CopyChunks

LEMMA IsrTransferStep ==
    ASSUME CaptureInv, Ordinary, IsrTransfer
    PROVE  CaptureInv'
<1> DEFINE w == Aligned(written)
           len == XferLength(rd, w)
           r == NextReadOffset(w)
<1>1. /\ irq /\ useDram /\ ~err /\ lag' = 0
      /\ ddr' = [b \in RF |-> IF b \in rxEn
                              THEN CopyChunks(ddr[b], bram[b], rd, len) ELSE ddr[b]]
      /\ UNCHANGED <<useDram, rxLength, rxBufferSize, rxEn, txEn, running,
                     written, capture, bram, armed, reading>>
  BY DEF IsrTransfer, regs, enables
<1>2. irq' = (running /\ rxEn # {} /\ ~above /\ OverThreshold(written, r))
  BY DEF IsrTransfer
<1>3. Busy /\ (Active <=> rxEn # {})
  BY <1>1 DEF Active, Busy
<1>4. /\ rd \in Nat /\ written \in Nat /\ written <= MaxSamples /\ copied \in Nat
      /\ Chunk \in Nat /\ BramSize = 2 * Chunk /\ MaxSamples \in Nat
      /\ BramSize <= MaxSamples /\ 0 \in 0 .. MaxLag /\ Chunk >= 2
      /\ armed \subseteq rxEn /\ armed \subseteq RF
  BY <1>3, Sizes DEF CaptureInv, Typed, AtRest
<1>5. Sized'
  BY <1>1 DEF CaptureInv, Sized, Supported
<1> HIDE DEF w, len, r
<1>6. CASE rxEn = {}
<2>1. UNCHANGED <<rd, above, err, copied>>
  BY <1>6 DEF IsrTransfer
<2>2. ddr' = [b \in RF |-> ddr[b]]
  BY <1>1, <1>6
<2>3. ddr' = ddr
  BY <2>2 DEF CaptureInv, Typed
<2>4. irq' = FALSE
  BY <1>2, <1>6, Zenon
<2>5. armed = {} /\ rd = 0 /\ ~Active'
  BY <1>1, <1>3, <1>4, <1>6 DEF CaptureInv, AtRest, Active
<2>6. Typed'
  BY <1>1, <1>4, <2>1, <2>3 DEF CaptureInv, Typed
<2>7. Flags'
  BY <1>1, <2>1, <2>4, Zenon DEF CaptureInv, Flags
<2>8. Extent' /\ AtRest'
  BY <1>1, <2>1, <2>4, <2>5 DEF CaptureInv, Extent, Supported, AtRest
<2>9. Tracked' /\ Held'
  BY <1>1, <2>5 DEF Tracked, Held
<2> QED
  BY <1>5, <2>6, <2>7, <2>8, <2>9 DEF CaptureInv
<1>7. ASSUME rxEn # {}
      PROVE  /\ rd' = r /\ copied' = rd + len
             /\ above' = IF running THEN OverThreshold(written, r) ELSE above
             /\ err' = (err \/ (running /\ OverBram(written, r)))
  BY <1>7 DEF IsrTransfer, SetReadOffset, w, len, r
<1>8. CASE rxEn # {} /\ written - rd < Chunk
<2>1. /\ Active /\ ~running /\ rd = 0 /\ written \in 1 .. Chunk - 1
      /\ w = 0 /\ len = BramSize /\ r = 0
  BY <1>1, <1>3, <1>8, MoveShort DEF w, len, r
<2>2. rd' = 0 /\ copied' = BramSize /\ above' = above
  BY <1>4, <1>7, <1>8, <2>1
<2>3. err' = FALSE /\ irq' = FALSE /\ running' = FALSE
<3>1. err = FALSE /\ running = FALSE
  BY <1>1, <2>1, Zenon DEF CaptureInv, Flags
<3> QED
  BY <1>1, <1>2, <1>7, <1>8, <3>1, Zenon
<2>4. \A i \in 0 .. 0 + BramSize - 1 :
          (0 % BramSize) + (i - 0) \in 0 .. BramSize - 1 /\ (0 % BramSize) + (i - 0) = i
<3>1. 0 % BramSize = 0
  BY <1>4, Low
<3> QED
  BY <1>4, <3>1
<2>5. ASSUME NEW b \in rxEn
      PROVE  /\ ddr'[b] \in [0 .. MaxSamples - 1 -> Cell]
             /\ \A i \in 0 .. written - 1 : ddr'[b][i] = bram[b][i]
<3>1. b \in RF /\ ddr'[b] = CopyChunks(ddr[b], bram[b], 0, BramSize)
  BY <1>1, <2>1, <2>5 DEF CaptureInv, Typed
<3>2. BramSize \in Nat /\ 0 \in Nat
  BY <1>4
<3>3. /\ CopyChunks(ddr[b], bram[b], 0, BramSize) \in [0 .. MaxSamples - 1 -> Cell]
      /\ \A i \in 0 .. MaxSamples - 1 :
             CopyChunks(ddr[b], bram[b], 0, BramSize)[i] =
                 IF i \in 0 .. 0 + BramSize - 1
                 THEN bram[b][(0 % BramSize) + (i - 0)] ELSE ddr[b][i]
  BY <2>4, <3>1, <3>2, Moved DEF CaptureInv
<3>4. \A i \in 0 .. written - 1 :
          i \in 0 .. MaxSamples - 1 /\ i \in 0 .. 0 + BramSize - 1
  BY <1>4, <2>1
<3> QED
  BY <2>4, <3>1, <3>3, <3>4
<2>6. Typed'
<3>1. ddr' \in [RF -> [0 .. MaxSamples - 1 -> Cell]]
  BY <1>1, <2>5 DEF CaptureInv, Typed
<3>2. copied' \in 0 .. MaxSamples /\ rd' \in 0 .. MaxSamples
  BY <1>4, <2>2
<3> QED
  BY <1>1, <1>4, <3>1, <3>2 DEF CaptureInv, Typed
<2>7. Flags'
  BY <1>1, <2>2, <2>3, Zenon DEF CaptureInv, Flags
<2>8. ~Busy' /\ ~Active'
  BY <2>3 DEF Busy, Active
<2>9. Extent' /\ AtRest' /\ Tracked'
  BY <1>1, <1>4, <2>2, <2>3, <2>8
     DEF CaptureInv, Extent, Supported, AtRest, Tracked
<2>10. ASSUME NEW b \in armed, NEW i \in 0 .. written - 1
       PROVE  ddr'[b][i] = <<capture, i>>
<3>1. bram[b][i % BramSize] = <<capture, i>>
<4>1. i \in rd .. written - 1
  BY <2>1, <2>10
<4> QED
  BY <2>1, <2>10, <4>1 DEF CaptureInv, Held
<3>2. i % BramSize = i
<4>1. i \in 0 .. BramSize - 1
  BY <1>4, <2>1, <2>10
<4> QED
  BY <4>1, Low
<3>3. ddr'[b][i] = bram[b][i]
  BY <1>4, <2>5, <2>10
<3> QED
  BY <3>1, <3>2, <3>3
<2>11. Held'
  BY <1>1, <2>8, <2>10 DEF Held
<2> QED
  BY <1>5, <2>6, <2>7, <2>9, <2>11 DEF CaptureInv
<1>9. CASE rxEn # {} /\ written - rd >= Chunk
<2>1. /\ Active /\ w = rd + Chunk /\ len = Chunk
      /\ running => r = rd + Chunk /\ \E q \in 0 .. NumChunks : r = q * Chunk
      /\ ~running => r = 0 /\ written = rd + Chunk
  BY <1>1, <1>3, <1>9, MoveChunk DEF w, len, r
<2>2. written - rd \in Chunk .. 2 * Chunk - 1
  BY <1>4, <1>9, <2>1, Ahead
<2>3. rd' = r /\ copied' = rd + Chunk
  BY <1>7, <1>9, <2>1
<2>4. /\ err' = FALSE /\ irq' = FALSE
      /\ running => above' = FALSE
      /\ above' \in BOOLEAN
<3>1. CASE running
<4>1. r \in Nat /\ r <= written /\ written - r <= Chunk
  BY <1>4, <2>1, <2>2, <3>1
<4>2. OverThreshold(written, r) = FALSE /\ OverBram(written, r) = FALSE
  BY <1>1, <1>4, <4>1, Caught
<4> QED
  BY <1>1, <1>2, <1>7, <1>9, <3>1, <4>2, Zenon DEF CaptureInv, Flags
<3>2. CASE ~running
  BY <1>1, <1>2, <1>7, <1>9, <3>2, Zenon DEF CaptureInv, Flags
<3> QED
  BY <3>1, <3>2
<2>5. PICK q \in 0 .. NumChunks : rd = q * Chunk
  BY <2>1 DEF CaptureInv, Tracked
<2>6. /\ rd % BramSize \in {0, Chunk}
      /\ \A j \in 0 .. Chunk - 1 : (rd + j) % BramSize = (rd % BramSize) + j
<3>1. q \in Nat
  BY <2>5, Sizes
<3> QED
  BY <2>5, <3>1, InBram
<2>7. \A i \in rd .. rd + Chunk - 1 :
          (rd % BramSize) + (i - rd) \in 0 .. BramSize - 1
          /\ (rd % BramSize) + (i - rd) = i % BramSize
<3> SUFFICES ASSUME NEW i \in rd .. rd + Chunk - 1
             PROVE  (rd % BramSize) + (i - rd) \in 0 .. BramSize - 1
                    /\ (rd % BramSize) + (i - rd) = i % BramSize
  OBVIOUS
<3>1. i - rd \in 0 .. Chunk - 1 /\ rd + (i - rd) = i
  BY <1>4
<3>2. (rd % BramSize) + (i - rd) = i % BramSize
  BY <2>6, <3>1
<3>3. (rd % BramSize) + (i - rd) \in 0 .. BramSize - 1
  BY <1>4, <2>6, <3>1
<3> QED
  BY <3>2, <3>3
<2>8. ASSUME NEW b \in rxEn
      PROVE  /\ ddr'[b] \in [0 .. MaxSamples - 1 -> Cell]
             /\ \A i \in 0 .. rd - 1 : ddr'[b][i] = ddr[b][i]
             /\ \A i \in rd .. rd + Chunk - 1 : ddr'[b][i] = bram[b][i % BramSize]
<3>1. b \in RF /\ ddr'[b] = CopyChunks(ddr[b], bram[b], rd, Chunk)
  BY <1>1, <2>1, <2>8 DEF CaptureInv, Typed
<3>2. /\ CopyChunks(ddr[b], bram[b], rd, Chunk) \in [0 .. MaxSamples - 1 -> Cell]
      /\ \A i \in 0 .. MaxSamples - 1 :
             CopyChunks(ddr[b], bram[b], rd, Chunk)[i] =
                 IF i \in rd .. rd + Chunk - 1
                 THEN bram[b][(rd % BramSize) + (i - rd)] ELSE ddr[b][i]
  BY <1>4, <2>7, <3>1, Moved DEF CaptureInv
<3>3. rd + Chunk <= MaxSamples
  BY <1>4, <2>2
<3>4. \A i \in 0 .. rd - 1 :
          i \in 0 .. MaxSamples - 1 /\ i \notin rd .. rd + Chunk - 1
  BY <1>4, <3>3
<3>5. \A i \in rd .. rd + Chunk - 1 : i \in 0 .. MaxSamples - 1
  BY <1>4, <3>3
<3>6. \A i \in 0 .. rd - 1 : ddr'[b][i] = ddr[b][i]
  BY <3>1, <3>2, <3>4
<3>7. ASSUME NEW i \in rd .. rd + Chunk - 1
      PROVE  ddr'[b][i] = bram[b][i % BramSize]
  BY <2>7, <3>1, <3>2, <3>5, <3>7
<3> QED
  BY <3>1, <3>2, <3>6, <3>7
<2>9. Typed'
<3>1. ddr' \in [RF -> [0 .. MaxSamples - 1 -> Cell]]
  BY <1>1, <2>8 DEF CaptureInv, Typed
<3>2. copied' \in 0 .. MaxSamples /\ rd' \in 0 .. MaxSamples
  BY <1>4, <2>1, <2>2, <2>3
<3> QED
  BY <1>1, <1>4, <3>1, <3>2 DEF CaptureInv, Typed
<2>10. Flags'
  BY <1>1, <2>4, Zenon DEF CaptureInv, Flags
<2>11. (Busy' <=> running) /\ (Active' <=> running)
  BY <1>1, <1>9, <2>4 DEF Busy, Active
<2>12. Extent'
  BY <1>1, <2>4 DEF CaptureInv, Extent, Supported
<2>13. AtRest'
<3>1. rd' <= copied'
  BY <1>4, <2>1, <2>3
<3>2. ~running => rd' = 0
  BY <2>1, <2>3
<3> QED
  BY <1>1, <1>4, <2>11, <3>1, <3>2 DEF AtRest
<2>14. Tracked'
<3> SUFFICES ASSUME running PROVE Tracked'
  BY <2>11 DEF Tracked
<3>1. rd' = rd + Chunk /\ \E k \in 0 .. NumChunks : rd' = k * Chunk
  BY <2>1, <2>3
<3>2. rd' <= written /\ written - rd' <= Chunk
  BY <1>4, <2>2, <3>1
<3> QED
  BY <1>1, <2>4, <3>1, <3>2 DEF Tracked
<2>15. ASSUME NEW b \in armed, NEW i \in 0 .. rd + Chunk - 1
       PROVE  ddr'[b][i] = <<capture, i>>
<3>1. b \in rxEn
  BY <1>4, <2>15
<3>2. CASE i \in 0 .. rd - 1
  BY <2>1, <2>8, <2>15, <3>1, <3>2 DEF CaptureInv, Held
<3>3. CASE i \in rd .. rd + Chunk - 1
<4>1. i \in rd .. written - 1
  BY <1>4, <2>2, <3>3
<4>2. bram[b][i % BramSize] = <<capture, i>>
  BY <2>1, <2>15, <4>1 DEF CaptureInv, Held
<4> QED
  BY <2>8, <3>1, <3>3, <4>2
<3> QED
  BY <1>4, <2>15, <3>2, <3>3
<2>15a. \A b \in armed : \A i \in 0 .. rd + Chunk - 1 : ddr'[b][i] = <<capture, i>>
  BY <2>15
<2>16. Held'
<3>1. CASE running
<4>1. rd' = rd + Chunk
  BY <2>1, <2>3, <3>1
<4>2. ASSUME NEW b \in armed, NEW i \in rd' .. written - 1
      PROVE  bram[b][i % BramSize] = <<capture, i>>
<5>1. i \in rd .. written - 1
  BY <1>4, <4>1, <4>2
<5> QED
  BY <2>1, <4>2, <5>1 DEF CaptureInv, Held
<4>3. /\ Busy' /\ useDram' /\ armed' = armed /\ capture' = capture
      /\ written' = written /\ bram' = bram
  BY <1>1, <2>11, <3>1
<4>4. \A b \in armed' :
          /\ \A i \in 0 .. rd' - 1 : ddr'[b][i] = <<capture', i>>
          /\ \A i \in rd' .. written' - 1 :
                 bram'[b][i % BramSize] = <<capture', i>>
<5> SUFFICES ASSUME NEW b \in armed
             PROVE  /\ \A i \in 0 .. rd' - 1 : ddr'[b][i] = <<capture, i>>
                    /\ \A i \in rd' .. written - 1 :
                           bram[b][i % BramSize] = <<capture, i>>
  BY <4>3
<5>1. \A i \in 0 .. rd' - 1 : ddr'[b][i] = <<capture, i>>
<6>1. rd' - 1 = rd + Chunk - 1
  BY <1>4, <4>1
<6> QED
  BY <2>15a, <6>1
<5>2. \A i \in rd' .. written - 1 : bram[b][i % BramSize] = <<capture, i>>
  BY <4>2
<5> QED
  BY <5>1, <5>2
<4> QED
  BY <4>3, <4>4 DEF Held
<3>2. CASE ~running
<4>1. /\ written = rd + Chunk /\ ~Busy' /\ ~Active' /\ useDram'
      /\ armed' = armed /\ capture' = capture /\ written' = written
  BY <1>1, <2>1, <2>11, <3>2
<4>2. \A b \in armed' : \A i \in 0 .. written' - 1 : ddr'[b][i] = <<capture', i>>
<5> SUFFICES ASSUME NEW b \in armed, NEW i \in 0 .. written - 1
             PROVE  ddr'[b][i] = <<capture, i>>
  BY <4>1
<5>1. i \in 0 .. rd + Chunk - 1
<6>1. written - 1 = rd + Chunk - 1
  BY <1>4, <4>1
<6> QED
  BY <6>1
<5> QED
  BY <2>15, <5>1
<4> QED
  BY <4>1, <4>2 DEF Held
<3> QED
  BY <3>1, <3>2
<2> QED
  BY <1>5, <2>9, <2>10, <2>12, <2>13, <2>14, <2>16 DEF CaptureInv
<1> QED
  BY <1>4, <1>6, <1>8, <1>9
-----------------------------------------------------------------------------
(* The main loop.                                                          *)

(* A command that leaves the core and the buffers alone. *)
LEMMA Commands ==
    ASSUME CaptureInv,
           UNCHANGED <<useDram, rd, running, written, irq, err, above, lag,
                       capture, bram, ddr, copied>>,
           rxLength' \in 0 .. MaxSamples - 1, rxBufferSize' \in Nat,
           rxEn' \in SUBSET RF, txEn' \in SUBSET RF, armed' \subseteq armed,
           reading' \in SUBSET Reading,
           Busy => UNCHANGED <<rxLength, rxBufferSize>> /\ armed' \subseteq rxEn'
                   /\ (rxEn' = {} <=> rxEn = {}),
           Sized'
    PROVE  CaptureInv'
<1>1. (Busy' <=> Busy) /\ (Active' <=> Active)
  BY DEF Busy, Active
<1>2. Typed'
  BY DEF CaptureInv, Typed
<1>3. Flags'
  BY Zenon DEF CaptureInv, Flags
<1>4. Extent'
<2>1. running \/ irq => rxLength' = rxLength
  BY DEF Busy
<2> QED
  BY <2>1 DEF CaptureInv, Extent, Supported
<1>5. AtRest' /\ Tracked'
  BY <1>1 DEF CaptureInv, AtRest, Tracked
<1>6. Held'
  BY <1>1 DEF CaptureInv, Held
<1> QED
  BY <1>2, <1>3, <1>4, <1>5, <1>6 DEF CaptureInv

LEMMA SizedKept ==
    ASSUME CaptureInv, UNCHANGED regs
    PROVE  Sized'
  BY DEF CaptureInv, Sized, Supported, regs

LEMMA RxLengthStep ==
    ASSUME CaptureInv, Ordinary, NEW n \in Lengths, RxLength(n)
    PROVE  CaptureInv'
<1> DEFINE len == IF n - 1 > Supported - 1 THEN Supported - 1 ELSE n
<1>1. /\ ~running /\ ~irq
      /\ UNCHANGED <<useDram, rxEn, txEn, rd, running, written, err, above, lag,
                     capture, bram, irq, ddr, armed, copied, reading>>
  BY DEF RxLength, NextCommand, enables, core
<1>2. n \in 0 .. MaxSamples
  BY DEF Ordinary
<1>3. /\ Chunk \in Nat /\ Chunk >= 2 /\ BramSize = 2 * Chunk /\ MaxSamples \in Nat
      /\ BramSize <= MaxSamples /\ Supported' = Supported
  BY <1>1, Sizes DEF Supported
<1>4. /\ rxLength' \in 0 .. MaxSamples - 1 /\ rxBufferSize' \in Nat /\ Sized'
<2>1. CASE n = 0
<3>1. rxLength' = 0 /\ rxBufferSize' = rxBufferSize
  BY <2>1 DEF RxLength
<3>2. rxBufferSize \in Nat /\ 0 + 1 <= Supported
  BY <1>3, Limits DEF CaptureInv, Typed
<3> QED
  BY <1>3, <3>1, <3>2 DEF Sized
<2>2. CASE n # 0
<3>1. /\ rxBufferSize' = RoundUp(n)
      /\ rxLength' = (IF len > Threshold THEN RoundUp(len) ELSE len) - 1
  BY <2>2 DEF RxLength
<3>2. n \in 1 .. MaxSamples
  BY <1>2, <1>3, <2>2
<3>3. /\ \E k \in 0 .. NumChunks : RoundUp(n) = k * Chunk
      /\ RoundUp(n) \in n .. MaxSamples
      /\ n <= Chunk => RoundUp(n) = Chunk
  BY <3>2, Rounded
<3>4. CASE useDram
<4>1. Supported = MaxSamples /\ Threshold = Chunk /\ len = n
  BY <1>3, <3>2, <3>4, Limits
<4> HIDE DEF len
<4>2. CASE n > Chunk
<5>1. rxLength' = RoundUp(n) - 1
  BY <3>1, <4>1, <4>2
<5>2. RoundUp(n) \in 1 .. MaxSamples
  BY <1>3, <3>2, <3>3
<5>3. rxLength' + 1 = rxBufferSize' /\ rxLength' + 1 <= Supported
  BY <3>1, <4>1, <5>1, <5>2
<5> QED
  BY <1>3, <3>1, <3>3, <5>1, <5>2, <5>3 DEF Sized
<4>3. CASE n = Chunk
<5>1. rxLength' = n - 1 /\ RoundUp(n) = n
  BY <1>3, <3>1, <3>3, <4>1, <4>3
<5>2. rxLength' + 1 = n /\ rxBufferSize' = n /\ n <= Supported
  BY <1>3, <3>1, <3>2, <4>1, <5>1
<5>4. rxLength' \in 0 .. MaxSamples - 1 /\ rxBufferSize' \in Nat
  BY <1>3, <3>2, <5>1, <5>2
<5> QED
  BY <1>3, <3>1, <3>3, <5>2, <5>4 DEF Sized
<4>4. CASE n < Chunk
<5>1. rxLength' = n - 1
  BY <1>3, <3>1, <3>2, <4>1, <4>4
<5>2. rxLength' + 1 < Chunk /\ rxLength' + 1 <= Supported
      /\ rxLength' \in 0 .. MaxSamples - 1 /\ rxBufferSize' \in Nat
  BY <1>3, <3>1, <3>2, <3>3, <4>1, <4>4, <5>1
<5> QED
  BY <1>3, <5>2 DEF Sized
<4> QED
  BY <1>3, <3>2, <4>2, <4>3, <4>4
<3>5. CASE ~useDram
<4>1. Supported = BramSize /\ Threshold = BramSize
  BY <3>5, Limits
<4>2. len \in 1 .. BramSize
  BY <1>3, <3>2, <4>1
<4> HIDE DEF len
<4>3. rxLength' = len - 1
  BY <1>3, <3>1, <4>1, <4>2
<4>4. rxLength' \in 0 .. MaxSamples - 1 /\ rxLength' + 1 <= Supported
  BY <1>3, <4>1, <4>2, <4>3
<4>5. rxBufferSize' \in Nat
  BY <3>1, <3>2, <3>3
<4> QED
  BY <1>1, <1>3, <3>5, <4>4, <4>5 DEF Sized
<3> QED
  BY <3>4, <3>5
<2> QED
  BY <2>1, <2>2
<1> QED
  BY <1>1, <1>4, Commands DEF CaptureInv, Typed, Busy

(* The enables change and no capture is interfered with. *)
LEMMA EnableSteps ==
    ASSUME CaptureInv, ~interfered', NEW sel \in SUBSET RF,
           RxBuffEn(sel) \/ TxBuffEn(sel) \/ TxRxBuffDis(sel)
    PROVE  CaptureInv'
<1>1. /\ ~irq /\ UNCHANGED regs
      /\ UNCHANGED <<rd, running, written, err, above, lag, capture, bram, irq,
                     ddr, copied, reading>>
  BY DEF RxBuffEn, TxBuffEn, TxRxBuffDis, ChangeEnables, NextCommand, core
<1>2. /\ rxEn \subseteq RF /\ txEn \subseteq RF /\ armed \subseteq RF
      /\ running => armed \subseteq rxEn
  BY DEF CaptureInv, Typed, AtRest, Busy
<1>3. /\ rxEn' \in SUBSET RF /\ txEn' \in SUBSET RF /\ armed' \subseteq armed
      /\ running => armed' \subseteq rxEn' /\ rxEn' # {} /\ rxEn # {}
<2>1. CASE RxBuffEn(sel)
  BY <1>2, <2>1 DEF RxBuffEn
<2>2. CASE TxBuffEn(sel)
  BY <1>2, <2>2 DEF TxBuffEn, NoneLeft
<2>3. CASE TxRxBuffDis(sel)
  BY <1>2, <2>3 DEF TxRxBuffDis, NoneLeft
<2> QED
  BY <2>1, <2>2, <2>3
<1>4. UNCHANGED <<useDram, rxLength, rxBufferSize>> /\ (Busy <=> running) /\ Sized'
  BY <1>1, SizedKept DEF regs, Busy
<1>5. /\ rxLength' \in 0 .. MaxSamples - 1 /\ rxBufferSize' \in Nat
      /\ reading' \in SUBSET Reading
  BY <1>1, <1>4 DEF CaptureInv, Typed
<1> QED
  BY <1>1, <1>3, <1>4, <1>5, Commands

LEMMA BasebandResetStep ==
    ASSUME CaptureInv, BasebandReset
    PROVE  CaptureInv'
<1>1. /\ ~irq /\ rxEn' = {} /\ txEn' = {} /\ rd' = 0 /\ lag' = 0 /\ copied' = 0
      /\ armed' = IF running THEN {} ELSE armed
      /\ UNCHANGED <<useDram, rxLength, rxBufferSize, running, written, capture,
                     bram, ddr, reading>>
  BY DEF BasebandReset, ChangeEnables, NextCommand, SetReadOffset, regs
<1>2. /\ irq' = (running /\ ~above /\ OverThreshold(written, 0))
      /\ above' = IF running THEN OverThreshold(written, 0) ELSE above
      /\ err' = (err \/ (running /\ OverBram(written, 0)))
  BY DEF BasebandReset, SetReadOffset
<1>3. irq' => running
  BY <1>2, Zenon
<1>4. Flags'
<2>1. OverThreshold(written, 0) \in BOOLEAN /\ OverBram(written, 0) \in BOOLEAN
  BY DEF OverThreshold, OverBram
<2> QED
  BY <1>1, <1>2, <2>1, Zenon DEF CaptureInv, Flags
<1>5. Typed'
<2>1. rd' \in 0 .. MaxSamples /\ copied' \in 0 .. MaxSamples /\ lag' \in 0 .. MaxLag
  BY <1>1, Sizes
<2>2. armed' \in SUBSET RF
  BY <1>1 DEF CaptureInv, Typed
<2> QED
  BY <1>1, <2>1, <2>2 DEF CaptureInv, Typed
<1>6. Sized'
  BY <1>1 DEF CaptureInv, Sized, Supported
<1>7. Extent'
  BY <1>1, <1>3 DEF CaptureInv, Extent, Supported
<1>8. ~Active' /\ (Busy' => running) /\ (Busy' => armed' = {})
  BY <1>1, <1>3 DEF Active, Busy
<1>9. AtRest' /\ Tracked'
  BY <1>1, <1>8 DEF AtRest, Tracked
<1>10. Held'
<2>1. CASE running
  BY <1>1, <2>1 DEF Held
<2>2. CASE ~running
<3>1. ~Busy /\ armed' = armed
  BY <1>1, <2>2 DEF Busy
<3> QED
  BY <1>1, <1>8, <3>1 DEF CaptureInv, Held
<2> QED
  BY <2>1, <2>2
<1> QED
  BY <1>4, <1>5, <1>6, <1>7, <1>9, <1>10 DEF CaptureInv

LEMMA ReadSteps ==
    ASSUME CaptureInv, reading' \in SUBSET Reading,
           UNCHANGED <<regs, enables, rd, core, irq, ddr, armed, copied>>
    PROVE  CaptureInv'
<1>1. /\ UNCHANGED regs
      /\ UNCHANGED <<rxEn, txEn, rd, running, written, err, above, lag, capture,
                     bram, irq, ddr, armed, copied>>
  BY DEF core, enables
<1>2. rxLength \in 0 .. MaxSamples - 1
  BY DEF CaptureInv, Typed
<1>3. /\ UNCHANGED <<useDram, rxLength, rxBufferSize>> /\ Sized'
      /\ rxBufferSize \in Nat /\ rxEn \in SUBSET RF /\ txEn \in SUBSET RF
      /\ Busy => armed \subseteq rxEn
  BY <1>1, SizedKept DEF regs, CaptureInv, Typed, AtRest
<1> QED
  BY <1>1, <1>2, <1>3, Commands

(* Its samples are those of whole chunks. *)
LEMMA ChunkTimes ==
    ASSUME NEW first \in 0 .. NumChunks, NEW n \in ReadChunks
    PROVE  first * Chunk \in Nat /\ n * Chunk \in Nat
<1>1. first \in Nat /\ n \in Nat /\ Chunk \in Nat
  BY CaptureAssumption
<1> QED
  BY <1>1

(* A Read IQ notes what it was let into. *)
LEMMA ReadIqNotes ==
    ASSUME Typed, NEW b \in RF, NEW start \in Nat, NEW total \in Nat,
           ReadIq(b, start, total)
    PROVE  reading' \in SUBSET Reading
<1> DEFINE r == [buff |-> b, start |-> start, total |-> total, at |-> written,
                 of |-> IF running /\ b \in rxEn THEN capture ELSE NoCapture]
<1>1. reading' = {r} /\ start + total <= rxLength + 1
  BY DEF ReadIq
<1>2. /\ rxLength \in 0 .. MaxSamples - 1 /\ MaxSamples \in Nat
      /\ written \in 0 .. MaxSamples /\ capture \in 0 .. MaxCaptures
  BY Sizes DEF Typed
<1>3. start \in 0 .. MaxSamples /\ total \in 0 .. MaxSamples
  BY <1>1, <1>2
<1>4. r \in Reading
  BY <1>2, <1>3 DEF Reading
<1> QED
  BY <1>1, <1>4

-----------------------------------------------------------------------------
(* The shape of the state. *)

(* Whole chunks. *)
LEMMA AlignedWhole ==
    ASSUME NEW n \in Nat
    PROVE  Aligned(n) \in Nat
<1>1. Chunk \in Nat \ {0}
  BY Sizes
<1>2. n \div Chunk \in Nat
  BY <1>1
<1> HIDE DEF Aligned
<1>3. \A x \in Nat : Chunk * x \in Nat
  BY <1>1
<1> QED
  BY <1>2, <1>3 DEF Aligned

(* The start of a chunk within the buffer is that of one of its chunks. *)
LEMMA ChunkWithin ==
    ASSUME NEW q \in Nat, q * Chunk <= MaxSamples
    PROVE  q \in 0 .. NumChunks
<1>1. /\ Chunk \in Nat /\ Chunk >= 2 /\ NumChunks \in Nat
      /\ MaxSamples = NumChunks * Chunk /\ NumChunks * Chunk \in Int
  BY Sizes
<1> SUFFICES ASSUME NumChunks + 1 <= q PROVE FALSE
  BY <1>1
<1>2. (NumChunks + 1) * Chunk <= q * Chunk
      /\ (NumChunks + 1) * Chunk = NumChunks * Chunk + Chunk
  BY <1>1, Times
<1>3. q * Chunk \in Int
  BY <1>1
<1> QED
  BY <1>1, <1>2, <1>3

(* What the handler moves: from the read offset as far as the BRAM goes    *)
(* round, and no further than the radio has come, unless it is at the      *)
(* start of the buffer.                                                    *)
LEMMA MovesWithin ==
    ASSUME TypeInv, useDram, ~err, irq
    PROVE  /\ Aligned(written) \in 0 .. written
           /\ \E q \in 0 .. NumChunks : Aligned(written) = q * Chunk
           /\ XferLength(rd, Aligned(written)) \in Nat
           /\ rd + XferLength(rd, Aligned(written)) \in 0 .. MaxSamples
           /\ \A i \in rd .. rd + XferLength(rd, Aligned(written)) - 1 :
                  (rd % BramSize) + (i - rd) \in 0 .. BramSize - 1
<1> DEFINE w == Aligned(written)
           len == XferLength(rd, w)
           d == written - rd
           s == rd % BramSize
<1>1. /\ rd \in Nat /\ written \in Nat /\ written <= MaxSamples
      /\ Chunk \in Nat /\ Chunk >= 2 /\ BramSize = 2 * Chunk
      /\ MaxSamples \in Nat /\ BramSize <= MaxSamples
  BY Sizes DEF TypeInv, Typed
<1>2. /\ rd <= written /\ d \in 0 .. BramSize /\ d \in Int
      /\ rd = 0 \/ d >= Chunk
  BY <1>1 DEF TypeInv, Paced, Busy
<1>3. PICK q \in 0 .. NumChunks : rd = q * Chunk
  BY DEF TypeInv, Paced
<1>4. q \in Nat /\ q + 1 \in Nat /\ q + 2 \in Nat
      /\ (q + 1) * Chunk = rd + Chunk /\ (q + 2) * Chunk = rd + 2 * Chunk
  BY <1>1, <1>3, Sizes
<1>5. /\ written = rd + d
      /\ \/ w = rd /\ d < Chunk
         \/ w = rd + Chunk /\ d >= Chunk /\ d < 2 * Chunk
         \/ w = rd + 2 * Chunk /\ d = 2 * Chunk
<2> HIDE DEF w
<2>1. written = rd + d
  BY <1>1
<2>2. CASE d < 2 * Chunk
<3>1. d \in 0 .. 2 * Chunk - 1
  BY <1>1, <1>2, <2>2
<3>2. Aligned(q * Chunk + d) = IF d < Chunk THEN q * Chunk ELSE q * Chunk + Chunk
  BY <1>4, <3>1, AlignedAt
<3> HIDE DEF d
<3> QED
  BY <1>1, <1>2, <1>3, <2>1, <2>2, <3>2 DEF w
<2>3. CASE d = 2 * Chunk
<3>1. 0 \in 0 .. 2 * Chunk - 1
  BY <1>1
<3>2. Aligned((q + 2) * Chunk + 0) = (q + 2) * Chunk
<4> DEFINE k == q + 2
<4>1. k \in Nat
  BY <1>4
<4> HIDE DEF k
<4>2. Aligned(k * Chunk + 0) = IF 0 < Chunk THEN k * Chunk ELSE k * Chunk + Chunk
  BY <3>1, <4>1, AlignedAt
<4>3. Aligned(k * Chunk + 0) = k * Chunk
  BY <1>1, <4>2
<4> QED
  BY <4>3 DEF k
<3>3. written = (q + 2) * Chunk + 0
  BY <1>1, <1>4, <2>3
<3> QED
  BY <1>4, <2>1, <2>3, <3>2, <3>3 DEF w
<2> QED
  BY <1>1, <1>2, <2>1, <2>2, <2>3
<1> HIDE DEF w, len, d
<1>6. w \in 0 .. written
  BY <1>1, <1>2, <1>5
<1>7. \E k \in 0 .. NumChunks : w = k * Chunk
<2>1. \E k \in Nat : w = k * Chunk
  BY <1>3, <1>4, <1>5
<2>2. PICK k \in Nat : w = k * Chunk
  BY <2>1
<2>3. k * Chunk <= MaxSamples
  BY <1>1, <1>6, <2>2
<2> QED
  BY <2>2, <2>3, ChunkWithin
<1>8. /\ s = 0 \/ s = Chunk
      /\ s = 0 => (rd + Chunk) % BramSize = Chunk /\ (rd + 2 * Chunk) % BramSize = 0
      /\ s = Chunk => (rd + Chunk) % BramSize = 0 /\ (rd + 2 * Chunk) % BramSize = Chunk
<2>1. \/ s = 0 /\ (rd + Chunk) % BramSize = Chunk
      \/ s = Chunk /\ (rd + Chunk) % BramSize = 0
  BY <1>3, <1>4, InBram
<2>2. \/ (rd + Chunk) % BramSize = 0 /\ ((rd + Chunk) + Chunk) % BramSize = Chunk
      \/ (rd + Chunk) % BramSize = Chunk /\ ((rd + Chunk) + Chunk) % BramSize = 0
  BY <1>4, InBram
<2>3. (rd + Chunk) + Chunk = rd + 2 * Chunk /\ Chunk # 0
  BY <1>1
<2> QED
  BY <2>1, <2>2, <2>3
<1>9. len = IF w % BramSize > s THEN w - rd ELSE BramSize - s
  BY DEF len, XferLength
<1>10. (s = 0 /\ rd = 0) \/ s # 0 \/ d >= Chunk
  BY <1>2
<1> HIDE DEF s
<1>11. \/ len = Chunk /\ rd + len <= written /\ s + len <= BramSize
       \/ len = BramSize /\ s = 0 /\ (rd = 0 \/ rd + len = written)
<2>1. CASE w = rd /\ d < Chunk
<3>1. rd = 0 /\ w = 0
  BY <1>1, <1>2, <2>1
<3>2. 0 % BramSize = 0
  BY <1>1, Low
<3>3. s = 0 /\ w % BramSize = s
  BY <3>1, <3>2 DEF s
<3>4. len = BramSize
  BY <1>1, <1>9, <3>3
<3> QED
  BY <3>1, <3>3, <3>4
<2>2. CASE w = rd + Chunk /\ d >= Chunk /\ d < 2 * Chunk
<3>1. /\ s = 0 => w % BramSize = Chunk
      /\ s = Chunk => w % BramSize = 0
  BY <1>8, <2>2
<3>2. len = Chunk
<4>1. CASE s = 0
  BY <1>1, <1>9, <2>2, <3>1, <4>1
<4>2. CASE s = Chunk
  BY <1>1, <1>9, <3>1, <4>2
<4> QED
  BY <1>8, <4>1, <4>2
<3>3. rd + Chunk <= written
  BY <1>1, <1>2, <1>5, <2>2
<3>4. s + Chunk <= BramSize
  BY <1>1, <1>8
<3> QED
  BY <3>2, <3>3, <3>4
<2>3. CASE w = rd + 2 * Chunk /\ d = 2 * Chunk
<3>1. /\ s = 0 => w % BramSize = 0
      /\ s = Chunk => w % BramSize = Chunk
  BY <1>8, <2>3
<3>2. written = rd + 2 * Chunk
  BY <1>5, <2>3
<3>3. CASE s = 0
<4>1. len = BramSize
  BY <1>1, <1>9, <3>1, <3>3
<4> QED
  BY <1>1, <3>2, <3>3, <4>1
<3>4. CASE s = Chunk
<4>1. len = Chunk
  BY <1>1, <1>9, <3>1, <3>4
<4> QED
  BY <1>1, <3>2, <3>4, <4>1
<3> QED
  BY <1>8, <3>3, <3>4
<2> QED
  BY <1>5, <2>1, <2>2, <2>3
<1>12. len \in Nat /\ rd + len \in 0 .. MaxSamples
  BY <1>1, <1>11
<1>13. \A i \in rd .. rd + len - 1 : s + (i - rd) \in 0 .. BramSize - 1
  BY <1>1, <1>8, <1>11
<1> QED
  BY <1>6, <1>7, <1>12, <1>13 DEF w, len, s

(* Each step of the buffers core and of the handler keeps the shape. *)
LEMMA InitTypeInv == Init => TypeInv
<1> SUFFICES ASSUME Init PROVE TypeInv
  OBVIOUS
<1>1. Typed /\ Flags
  BY InitCapture DEF CaptureInv
<1>2. rd = 0 * Chunk /\ 0 \in 0 .. NumChunks
  BY Sizes DEF Init
<1>3. rxLength + 1 = 2 * Chunk /\ 2 \in 0 .. NumChunks
  BY Sizes DEF Init
<1>4. ~running /\ ~irq
  BY DEF Init
<1> QED
  BY <1>1, <1>2, <1>3, <1>4 DEF TypeInv, Paced, Busy

LEMMA StartCaptureType ==
    ASSUME TypeInv, StartCapture
    PROVE  TypeInv'
<1>1. /\ ~running /\ ~irq /\ capture < MaxCaptures
      /\ running' = TRUE /\ capture' = capture + 1 /\ written' = 0
      /\ lag' = 0 /\ armed' = rxEn /\ copied' = 0
      /\ UNCHANGED <<useDram, rxLength, rxBufferSize, rxEn, txEn, rd, bram, ddr,
                     reading>>
      /\ err' = OverBram(0, rd) /\ above' = OverThreshold(0, rd)
      /\ irq' = (~above /\ OverThreshold(0, rd))
  BY DEF StartCapture, regs, enables
<1>2. /\ rd \in Nat /\ rxLength \in Nat /\ BramSize \in Nat /\ capture \in Nat
      /\ MaxCaptures \in Nat /\ MaxSamples \in Nat /\ MaxLag \in Nat
  BY Sizes DEF TypeInv, Typed
<1>3. Typed'
  BY <1>1, <1>2 DEF TypeInv, Typed
<1>4. Flags'
<2>1. OverThreshold(0, rd) \in BOOLEAN /\ OverBram(0, rd) \in BOOLEAN
  BY DEF OverThreshold, OverBram
<2> QED
  BY <1>1, <2>1, Zenon DEF TypeInv, Flags
<1>5. ~err' => rd = 0
<2>1. ~OverBram(0, rd) => rd = 0
  BY <1>2 DEF OverBram
<2> QED
  BY <1>1, <2>1, Zenon
<1>6. Paced'
  BY <1>1, <1>2, <1>5 DEF TypeInv, Paced
<1> QED
  BY <1>3, <1>4, <1>6 DEF TypeInv

LEMMA WriteSampleType ==
    ASSUME TypeInv, WriteSample
    PROVE  TypeInv'
<1> DEFINE w == written + 1
           done == written >= rxLength
<1>1. /\ running /\ (irq => lag < MaxLag)
      /\ written' = w /\ running' = ~done
      /\ above' = OverThreshold(w, rd)
      /\ err' = (err \/ OverBram(w, rd))
      /\ irq' = (irq \/ (~above /\ OverThreshold(w, rd)) \/ done)
      /\ lag' = IF irq THEN lag + 1 ELSE 0
      /\ bram' = [b \in RF |->
                     IF b \in rxEn
                     THEN [bram[b] EXCEPT ![written % BramSize] = <<capture, written>>]
                     ELSE bram[b]]
      /\ UNCHANGED <<useDram, rxLength, rxBufferSize, rxEn, txEn, rd, capture,
                     ddr, armed, copied, reading>>
  BY DEF WriteSample, regs, enables
<1>2. /\ rd \in Nat /\ rxLength \in 0 .. MaxSamples - 1 /\ BramSize \in Nat
      /\ written \in Nat /\ written <= rxLength /\ capture \in 0 .. MaxCaptures
      /\ MaxSamples \in Nat /\ MaxLag \in Nat /\ lag \in 0 .. MaxLag
      /\ Chunk \in Nat /\ Chunk >= 2 /\ BramSize = 2 * Chunk
  BY <1>1, Sizes DEF TypeInv, Typed, Paced
<1>3. w \in Nat /\ w = written + 1 /\ w <= MaxSamples
      /\ (done <=> written = rxLength) /\ done \in BOOLEAN
  BY <1>2
<1> HIDE DEF w, done
<1>4. bram' \in [RF -> [0 .. BramSize - 1 -> Cell]]
<2>1. <<capture, written>> \in Cell
  BY <1>2 DEF Cell
<2>2. bram \in [RF -> [0 .. BramSize - 1 -> Cell]]
  BY DEF TypeInv, Typed
<2> QED
  BY <1>1, <2>1, <2>2
<1>5. lag' \in 0 .. MaxLag /\ written' \in 0 .. MaxSamples
  BY <1>1, <1>2, <1>3
<1>6. Typed'
  BY <1>1, <1>4, <1>5 DEF TypeInv, Typed
<1>7. Flags'
<2>1. OverThreshold(w, rd) \in BOOLEAN /\ OverBram(w, rd) \in BOOLEAN
  BY DEF OverThreshold, OverBram
<2> QED
  BY <1>1, <1>3, <2>1, Zenon DEF TypeInv, Flags
<1>8. /\ running' => written' <= rxLength
      /\ ~running' => written' = rxLength + 1
<2>1. CASE done
<3>1. ~running' /\ written = rxLength
  BY <1>1, <1>3, <2>1, Zenon
<3> QED
  BY <1>1, <1>3, <3>1
<2>2. CASE ~done
<3>1. running' /\ written # rxLength
  BY <1>1, <1>3, <2>2, Zenon
<3> QED
  BY <1>1, <1>2, <1>3, <3>1
<2> QED
  BY <2>1, <2>2
<1>9. ASSUME useDram, ~err'
      PROVE  /\ rd <= w /\ rd <= rxLength /\ w - rd <= BramSize
             /\ irq' => rd = 0 \/ w - rd >= Chunk
<2>1. ~err /\ ~OverBram(w, rd)
  BY <1>1, <1>9, Zenon
<2>2. rd <= w /\ w - rd <= BramSize
  BY <1>2, <1>3, <2>1 DEF OverBram
<2>3. /\ rd <= rxLength /\ rd <= written
      /\ irq => rd = 0 \/ written - rd >= Chunk
  BY <1>1, <1>9, <2>1 DEF TypeInv, Paced, Busy
<2>4. CASE irq
  BY <1>2, <1>3, <2>2, <2>3, <2>4
<2>5. CASE OverThreshold(w, rd)
<3>1. Threshold = Chunk
  BY <1>9, Limits
<3> QED
  BY <1>2, <1>3, <2>2, <2>3, <2>5, <3>1 DEF OverThreshold
<2>6. CASE done
<3>1. w = rxLength + 1
  BY <1>3, <2>6
<3>2. PICK q \in 0 .. NumChunks : rd = q * Chunk
  BY DEF TypeInv, Paced
<3>3. q \in Nat
  BY <3>2, Sizes
<3>4. CASE w <= Chunk
<4>1. rd = 0
<5> SUFFICES ASSUME q >= 1 PROVE FALSE
  BY <1>2, <3>2, <3>3
<5>1. 1 * Chunk <= q * Chunk /\ 1 * Chunk = Chunk
  BY <1>2, <3>3, Times
<5> QED
  BY <1>2, <2>3, <3>1, <3>2, <3>4, <5>1
<4> QED
  BY <2>2, <2>3, <4>1
<3>5. CASE \E k \in 0 .. NumChunks : w = k * Chunk
<4>1. PICK k \in 0 .. NumChunks : w = k * Chunk
  BY <3>5
<4>2. k \in Nat
  BY <4>1, Sizes
<4>3. k >= q + 1
<5> SUFFICES ASSUME k <= q PROVE FALSE
  BY <3>3, <4>2
<5>1. k * Chunk <= q * Chunk
  BY <1>2, <3>3, <4>2, Times
<5> QED
  BY <1>2, <2>3, <3>1, <3>2, <4>1, <5>1
<4>4. (q + 1) * Chunk <= k * Chunk /\ (q + 1) * Chunk = q * Chunk + Chunk
  BY <1>2, <3>3, <4>2, <4>3, Times
<4>5. w - rd >= Chunk
  BY <1>2, <1>3, <3>2, <4>1, <4>4
<4> QED
  BY <2>2, <2>3, <4>5
<3> QED
  BY <1>9, <3>1, <3>4, <3>5 DEF TypeInv, Paced
<2>7. irq' => irq \/ OverThreshold(w, rd) \/ done
  BY <1>1, Zenon
<2> QED
  BY <2>2, <2>3, <2>4, <2>5, <2>6, <2>7
<1>10. Paced'
  BY <1>1, <1>8, <1>9 DEF TypeInv, Paced
<1> QED
  BY <1>6, <1>7, <1>10 DEF TypeInv

LEMMA IsrType ==
    ASSUME TypeInv, IsrError \/ IsrNoDram
    PROVE  TypeInv'
<1>1. /\ irq' = FALSE /\ lag' = 0
      /\ UNCHANGED <<useDram, rxLength, rxBufferSize, rxEn, txEn, running,
                     written, capture, bram, ddr, armed, copied, reading>>
      /\ \/ useDram /\ err /\ UNCHANGED <<rd, err, above>>
         \/ ~useDram /\ SetReadOffset(0)
  BY DEF IsrError, IsrNoDram, regs, enables
<1>2. 0 \in 0 .. MaxLag /\ 0 \in 0 .. MaxSamples /\ 0 * Chunk = 0 /\ 0 \in 0 .. NumChunks
  BY Sizes
<1>3. rd' = rd \/ rd' = 0
  BY <1>1 DEF SetReadOffset
<1>4. Typed'
  BY <1>1, <1>2, <1>3 DEF TypeInv, Typed
<1>5. Flags'
<2>1. OverThreshold(written, 0) \in BOOLEAN /\ OverBram(written, 0) \in BOOLEAN
  BY DEF OverThreshold, OverBram
<2> QED
  BY <1>1, <2>1, Zenon DEF TypeInv, Flags, SetReadOffset
<1>6. useDram => err'
  BY <1>1 DEF TypeInv, Flags
<1>7. \E q \in 0 .. NumChunks : rd' = q * Chunk
  BY <1>2, <1>3 DEF TypeInv, Paced
<1>8. Paced'
  BY <1>1, <1>6, <1>7 DEF TypeInv, Paced
<1> QED
  BY <1>4, <1>5, <1>8 DEF TypeInv

LEMMA IsrTransferType ==
    ASSUME TypeInv, IsrTransfer
    PROVE  TypeInv'
<1> DEFINE w == Aligned(written)
           len == XferLength(rd, w)
           r == NextReadOffset(w)
<1>1. /\ irq /\ useDram /\ ~err /\ lag' = 0
      /\ ddr' = [b \in RF |-> IF b \in rxEn
                              THEN CopyChunks(ddr[b], bram[b], rd, len) ELSE ddr[b]]
      /\ UNCHANGED <<useDram, rxLength, rxBufferSize, rxEn, txEn, running,
                     written, capture, bram, armed, reading>>
      /\ irq' = (running /\ rxEn # {} /\ ~above /\ OverThreshold(written, r))
      /\ \/ /\ rxEn # {} /\ rd' = r /\ copied' = rd + len
            /\ above' = IF running THEN OverThreshold(written, r) ELSE above
            /\ err' = (err \/ (running /\ OverBram(written, r)))
         \/ rxEn = {} /\ UNCHANGED <<rd, above, err, copied>>
  BY DEF IsrTransfer, SetReadOffset, regs, enables
<1>2. /\ w \in 0 .. written /\ \E q \in 0 .. NumChunks : w = q * Chunk
      /\ len \in Nat /\ rd + len \in 0 .. MaxSamples
      /\ \A i \in rd .. rd + len - 1 :
             (rd % BramSize) + (i - rd) \in 0 .. BramSize - 1
  BY <1>1, MovesWithin
<1>3. /\ written \in Nat /\ written <= MaxSamples /\ rd \in Nat /\ MaxSamples \in Nat
      /\ Chunk \in Nat /\ rxLength \in Nat /\ BramSize \in Nat
      /\ 0 \in 0 .. MaxLag /\ 0 * Chunk = 0 /\ 0 \in 0 .. NumChunks
  BY Sizes DEF TypeInv, Typed
<1>4. r = 0 \/ r = w
  BY DEF NextReadOffset
<1> HIDE DEF w, len, r
<1>5. /\ r \in 0 .. MaxSamples /\ r <= written
      /\ \E q \in 0 .. NumChunks : r = q * Chunk
  BY <1>2, <1>3, <1>4
<1>6. ASSUME NEW b \in RF
      PROVE  CopyChunks(ddr[b], bram[b], rd, len) \in [0 .. MaxSamples - 1 -> Cell]
<2>1. Typed
  BY DEF TypeInv
<2> QED
  BY <1>2, <1>3, <2>1, Moved
<1>7. ddr' \in [RF -> [0 .. MaxSamples - 1 -> Cell]]
<2>1. ddr \in [RF -> [0 .. MaxSamples - 1 -> Cell]]
  BY DEF TypeInv, Typed
<2> QED
  BY <1>1, <1>6, <2>1
<1>8. copied' \in 0 .. MaxSamples /\ rd' \in 0 .. MaxSamples
<2>1. copied \in 0 .. MaxSamples /\ rd \in 0 .. MaxSamples
  BY DEF TypeInv, Typed
<2> QED
  BY <1>1, <1>2, <1>5, <2>1
<1>9. Typed'
  BY <1>1, <1>3, <1>7, <1>8 DEF TypeInv, Typed
<1>10. Flags'
<2>1. OverThreshold(written, r) \in BOOLEAN /\ OverBram(written, r) \in BOOLEAN
  BY DEF OverThreshold, OverBram
<2> QED
  BY <1>1, <2>1, Zenon DEF TypeInv, Flags
<1>11. \E q \in 0 .. NumChunks : rd' = q * Chunk
  BY <1>1, <1>5 DEF TypeInv, Paced
<1>12. irq' => running /\ rxEn # {} /\ OverThreshold(written, r)
  BY <1>1, Zenon
<1>13. ASSUME ~err', running' \/ irq'
       PROVE  /\ rd' <= written /\ rd' <= rxLength /\ written - rd' <= BramSize
              /\ irq' => rd' = 0 \/ written - rd' >= Chunk
<2>1. running /\ written <= rxLength
  BY <1>1, <1>12, <1>13 DEF TypeInv, Paced
<2>2. CASE rxEn = {}
<3>1. rd' = rd /\ ~irq'
  BY <1>1, <1>12, <2>2
<3> QED
  BY <1>1, <3>1 DEF TypeInv, Paced, Busy
<2>3. CASE rxEn # {}
<3>1. rd' = r /\ err' = (err \/ (running /\ OverBram(written, r)))
  BY <1>1, <2>3
<3>2. ~OverBram(written, r)
  BY <1>13, <2>1, <3>1, Zenon
<3>3. written - r <= BramSize
  BY <1>3, <1>5, <3>2 DEF OverBram
<3>4. OverThreshold(written, r) => written - r >= Chunk
<4>1. Threshold = Chunk
  BY <1>1, Limits
<4> QED
  BY <1>3, <1>5, <4>1 DEF OverThreshold
<3> QED
  BY <1>3, <1>5, <1>12, <2>1, <3>1, <3>3, <3>4
<2> QED
  BY <2>2, <2>3
<1>14. Paced'
<2>1. irq' => running'
  BY <1>1, <1>12
<2> QED
  BY <1>1, <1>11, <1>13, <2>1 DEF TypeInv, Paced, Busy
<1> QED
  BY <1>9, <1>10, <1>14 DEF TypeInv

(* So does each command of the main loop. *)
LEMMA RxLengthType ==
    ASSUME TypeInv, NEW n \in Lengths, RxLength(n)
    PROVE  TypeInv'
<1> DEFINE len == IF n - 1 > Supported - 1 THEN Supported - 1 ELSE n
<1>1. /\ ~running /\ ~irq
      /\ UNCHANGED <<useDram, rxEn, txEn, rd, running, written, err, above, lag,
                     capture, bram, irq, ddr, armed, copied, reading>>
  BY DEF RxLength, NextCommand, enables, core
<1>2. n \in Nat /\ Supported \in Nat /\ MaxSamples \in Nat
      /\ Supported <= MaxSamples /\ Chunk \in Nat /\ Chunk >= 2
      /\ BramSize = 2 * Chunk /\ BramSize <= MaxSamples
  BY CaptureAssumption, Sizes, Limits
<1>3. Supported >= BramSize
  BY <1>2, Limits
<1>4. /\ rxLength' \in 0 .. MaxSamples - 1 /\ rxBufferSize' \in Nat
      /\ useDram => \/ rxLength' + 1 <= Chunk
                    \/ \E k \in 0 .. NumChunks : rxLength' + 1 = k * Chunk
<2>1. CASE n = 0
<3>1. rxLength' = 0 /\ rxBufferSize' = rxBufferSize
  BY <2>1 DEF RxLength
<3> QED
  BY <1>2, <3>1 DEF TypeInv, Typed
<2>2. CASE n # 0
<3>1. /\ rxBufferSize' = RoundUp(n)
      /\ rxLength' = (IF len > Threshold THEN RoundUp(len) ELSE len) - 1
  BY <2>2 DEF RxLength
<3>2. len \in 1 .. MaxSamples /\ len <= Supported
  BY <1>2, <1>3, <2>2
<3> HIDE DEF len
<3>3. RoundUp(n) \in Nat
<4>1. Aligned(n) \in Nat
  BY <1>2, AlignedWhole
<4> QED
  BY <1>2, <4>1 DEF RoundUp
<3>4. CASE useDram /\ len > Chunk
<4>1. rxLength' = RoundUp(len) - 1
  BY <3>1, <3>4, Limits
<4>2. /\ \E k \in 0 .. NumChunks : RoundUp(len) = k * Chunk
      /\ RoundUp(len) \in len .. MaxSamples
  BY <3>2, Rounded
<4>3. rxLength' + 1 = RoundUp(len) /\ rxLength' \in 0 .. MaxSamples - 1
  BY <1>2, <3>2, <4>1, <4>2
<4> QED
  BY <3>1, <3>3, <4>2, <4>3
<3>5. CASE ~useDram \/ len <= Chunk
<4>1. len <= Threshold
  BY <1>2, <3>2, <3>5, Limits
<4>2. rxLength' = len - 1
<5>1. Threshold \in Nat
  BY <1>2 DEF Threshold
<5>2. ~(len > Threshold)
  BY <3>2, <4>1, <5>1
<5> QED
  BY <3>1, <5>2
<4> QED
  BY <1>2, <3>1, <3>2, <3>3, <3>5, <4>2
<3> QED
  BY <1>2, <3>2, <3>4, <3>5
<2> QED
  BY <2>1, <2>2
<1>5. Typed'
  BY <1>1, <1>4 DEF TypeInv, Typed
<1>6. Flags'
  BY <1>1, Zenon DEF TypeInv, Flags
<1>7. Paced'
  BY <1>1, <1>4 DEF TypeInv, Paced, Busy
<1> QED
  BY <1>5, <1>6, <1>7 DEF TypeInv

LEMMA OthersType ==
    ASSUME TypeInv,
           UNCHANGED <<useDram, rxLength, rxBufferSize, rd, running, written,
                       irq, err, above, lag, capture, bram, ddr, copied>>,
           rxEn' \in SUBSET RF, txEn' \in SUBSET RF, armed' \in SUBSET RF,
           reading' \in SUBSET Reading
    PROVE  TypeInv'
<1>1. Typed'
  BY DEF TypeInv, Typed
<1>2. Flags'
  BY Zenon DEF TypeInv, Flags
<1>3. Paced'
  BY DEF TypeInv, Paced, Busy
<1> QED
  BY <1>1, <1>2, <1>3 DEF TypeInv

LEMMA BasebandResetType ==
    ASSUME TypeInv, BasebandReset
    PROVE  TypeInv'
<1>1. /\ ~irq /\ rxEn' = {} /\ txEn' = {} /\ rd' = 0 /\ lag' = 0 /\ copied' = 0
      /\ armed' = IF running THEN {} ELSE armed
      /\ UNCHANGED <<useDram, rxLength, rxBufferSize, running, written, capture,
                     bram, ddr, reading>>
      /\ irq' = (running /\ ~above /\ OverThreshold(written, 0))
      /\ above' = IF running THEN OverThreshold(written, 0) ELSE above
      /\ err' = (err \/ (running /\ OverBram(written, 0)))
  BY DEF BasebandReset, ChangeEnables, NextCommand, SetReadOffset, regs
<1>2. /\ written \in Nat /\ rxLength \in Nat /\ BramSize \in Nat
      /\ 0 \in 0 .. MaxLag /\ 0 \in 0 .. MaxSamples /\ 0 * Chunk = 0
      /\ 0 \in 0 .. NumChunks
  BY Sizes DEF TypeInv, Typed
<1>3. Typed'
  BY <1>1, <1>2 DEF TypeInv, Typed
<1>4. Flags'
<2>1. OverThreshold(written, 0) \in BOOLEAN /\ OverBram(written, 0) \in BOOLEAN
  BY DEF OverThreshold, OverBram
<2> QED
  BY <1>1, <2>1, Zenon DEF TypeInv, Flags
<1>5. irq' => running
  BY <1>1, Zenon
<1>6. running /\ ~err' => written - 0 <= BramSize
<2>1. running /\ ~err' => ~OverBram(written, 0)
  BY <1>1, Zenon
<2> QED
  BY <1>2, <2>1 DEF OverBram
<1>7. Paced'
  BY <1>1, <1>2, <1>5, <1>6 DEF TypeInv, Paced, Busy
<1> QED
  BY <1>3, <1>4, <1>7 DEF TypeInv

(* What the commands count, and that interference is not forgotten. *)
Counted == changes \in 0 .. MaxChanges /\ interfered \in BOOLEAN

LEMMA InitCounted == Init => Counted
<1>1. Init => changes = 0 /\ interfered = FALSE
  BY DEF Init
<1>2. 0 \in 0 .. MaxChanges
  BY CaptureAssumption
<1> QED
  BY <1>1, <1>2, Zenon DEF Counted

LEMMA CountedKept ==
    ASSUME Counted, [Next]_vars
    PROVE  Counted' /\ (interfered => interfered')
<1>1. CASE UNCHANGED enables
  BY <1>1 DEF Counted, enables
<1>2. ASSUME ChangeEnables,
             \/ interfered' = interfered
             \/ interfered' = (interfered \/ running)
             \/ \E sel : interfered' = (interfered \/ NoneLeft(sel))
      PROVE  Counted' /\ (interfered => interfered')
<2>1. changes' \in 0 .. MaxChanges
  BY <1>2, CaptureAssumption DEF ChangeEnables, Counted
<2>2. interfered' \in BOOLEAN
<3>1. interfered \in BOOLEAN
  BY DEF Counted
<3> QED
  BY <1>2, <3>1, Zenon DEF NoneLeft
<2>3. interfered => interfered'
  BY <1>2, Zenon
<2> QED
  BY <2>1, <2>2, <2>3 DEF Counted
<1>3. ASSUME NEW sel \in SUBSET RF,
             RxBuffEn(sel) \/ TxBuffEn(sel) \/ TxRxBuffDis(sel)
      PROVE  Counted' /\ (interfered => interfered')
  BY <1>2, <1>3 DEF RxBuffEn, TxBuffEn, TxRxBuffDis
<1>4. CASE BasebandReset
  BY <1>2, <1>4 DEF BasebandReset
<1>5. ASSUME NEW n \in Lengths, RxLength(n) PROVE UNCHANGED enables
  BY <1>5 DEF RxLength
<1>6. ASSUME NEW b, NEW start, NEW total, ReadIq(b, start, total)
      PROVE  UNCHANGED enables
  BY <1>6 DEF ReadIq
<1>7. ReadSent => UNCHANGED enables
  BY DEF ReadSent
<1>8. StartCapture \/ WriteSample \/ Isr => UNCHANGED enables
  BY DEF StartCapture, WriteSample, Isr, IsrError, IsrTransfer, IsrNoDram
<1>9. UNCHANGED vars => UNCHANGED enables
  BY DEF vars
<1> QED
  BY <1>1, <1>3, <1>4, <1>5, <1>6, <1>7, <1>8, <1>9 DEF Next, Host

(* The state keeps its shape, whatever lengths the host sets, whatever it  *)
(* does in the middle of a capture and however late the handler is: no     *)
(* transfer of the handler reaches past a buffer.                          *)
THEOREM TypeCorrect == Spec => []TypeOK
<1>0. Counted /\ [Next]_vars => Counted'
  BY CountedKept
<1>1. TypeInv /\ [Next]_vars => TypeInv'
<2> SUFFICES ASSUME TypeInv, [Next]_vars PROVE TypeInv'
  OBVIOUS
<2>0. /\ rxEn \in SUBSET RF /\ txEn \in SUBSET RF /\ armed \in SUBSET RF
      /\ reading \in SUBSET Reading
  BY DEF TypeInv, Typed
<2>1. ASSUME NEW n \in Lengths, RxLength(n) PROVE TypeInv'
  BY <2>1, RxLengthType
<2>2. ASSUME NEW sel \in SUBSET RF,
             RxBuffEn(sel) \/ TxBuffEn(sel) \/ TxRxBuffDis(sel)
      PROVE  TypeInv'
<3>1. UNCHANGED <<useDram, rxLength, rxBufferSize, rd, running, written, irq, err,
                  above, lag, capture, bram, ddr, copied, reading>>
  BY <2>2 DEF RxBuffEn, TxBuffEn, TxRxBuffDis, regs, core
<3>2. rxEn' \in SUBSET RF /\ txEn' \in SUBSET RF /\ armed' \in SUBSET RF
  BY <2>0, <2>2 DEF RxBuffEn, TxBuffEn, TxRxBuffDis
<3> QED
  BY <2>0, <3>1, <3>2, OthersType
<2>3. ASSUME NEW b \in RF, NEW first \in 0 .. NumChunks, NEW n \in ReadChunks,
             ReadIq(b, first * Chunk, n * Chunk)
      PROVE  TypeInv'
<3>1. first * Chunk \in Nat /\ n * Chunk \in Nat
  BY ChunkTimes
<3>2. reading' \in SUBSET Reading
  BY <2>3, <3>1, ReadIqNotes DEF TypeInv
<3>3. UNCHANGED <<useDram, rxLength, rxBufferSize, rd, running, written, irq, err,
                  above, lag, capture, bram, ddr, copied, rxEn, txEn, armed>>
  BY <2>3 DEF ReadIq, regs, core, enables
<3> QED
  BY <2>0, <3>2, <3>3, OthersType
<2>4. CASE ReadSent
<3>1. reading' \in SUBSET Reading
  BY <2>4 DEF ReadSent
<3>2. UNCHANGED <<useDram, rxLength, rxBufferSize, rd, running, written, irq, err,
                  above, lag, capture, bram, ddr, copied, rxEn, txEn, armed>>
  BY <2>4 DEF ReadSent, regs, core, enables
<3> QED
  BY <2>0, <3>1, <3>2, OthersType
<2>5. CASE Isr
  BY <2>5, IsrType, IsrTransferType DEF Isr
<2>6. CASE UNCHANGED vars
<3>1. UNCHANGED <<useDram, rxLength, rxBufferSize, rd, running, written, irq, err,
                  above, lag, capture, bram, ddr, copied, rxEn, txEn, armed,
                  reading>>
  BY <2>6 DEF vars, regs, enables
<3> QED
  BY <2>0, <3>1, OthersType
<2>7. CASE StartCapture
  BY <2>7, StartCaptureType
<2>8. CASE WriteSample
  BY <2>8, WriteSampleType
<2>9. CASE BasebandReset
  BY <2>9, BasebandResetType
<2> QED
  BY <2>1, <2>2, <2>3, <2>4, <2>5, <2>6, <2>7, <2>8, <2>9 DEF Next, Host
<1>2. TypeInv /\ Counted => TypeOK
  BY DEF TypeInv, Typed, Flags, Counted, TypeOK
<1>3. Init => Counted
  BY InitCounted
<1> QED
  BY <1>0, <1>1, <1>2, <1>3, InitTypeInv, PTL DEF Spec

-----------------------------------------------------------------------------
(* The inductive invariant, as long as the host does not interfere. *)
THEOREM CaptureInvariant == Ordinary => (Spec => [](~interfered => CaptureInv))
<1> SUFFICES ASSUME Ordinary PROVE Spec => [](~interfered => CaptureInv)
  OBVIOUS
<1>0. Counted /\ [Next]_vars => Counted' /\ (interfered => interfered')
  BY CountedKept
<1>1. (~interfered => CaptureInv) /\ Counted /\ [Next]_vars
      => (~interfered => CaptureInv)'
<2> SUFFICES ASSUME CaptureInv, [Next]_vars, ~interfered' PROVE CaptureInv'
  BY <1>0
<2>1. ASSUME NEW n \in Lengths, RxLength(n) PROVE CaptureInv'
  BY <2>1, RxLengthStep
<2>2. ASSUME NEW sel \in SUBSET RF,
             RxBuffEn(sel) \/ TxBuffEn(sel) \/ TxRxBuffDis(sel)
      PROVE  CaptureInv'
  BY <2>2, EnableSteps
<2>3. ASSUME NEW b \in RF, NEW first \in 0 .. NumChunks, NEW n \in ReadChunks,
             ReadIq(b, first * Chunk, n * Chunk)
      PROVE  CaptureInv'
<3>1. first * Chunk \in Nat /\ n * Chunk \in Nat
  BY ChunkTimes
<3>2. reading' \in SUBSET Reading
  BY <2>3, <3>1, ReadIqNotes DEF CaptureInv
<3> QED
  BY <2>3, <3>2, ReadSteps DEF ReadIq
<2>3a. CASE ReadSent
<3>1. reading' \in SUBSET Reading
  BY <2>3a DEF ReadSent
<3> QED
  BY <2>3a, <3>1, ReadSteps DEF ReadSent
<2>4. CASE Isr
  BY <2>4, IsrErrorStep, IsrTransferStep, IsrNoDramStep DEF Isr
<2>5. CASE UNCHANGED vars
<3>1. /\ UNCHANGED <<useDram, rd, running, written, irq, err, above, lag, capture,
                     bram, ddr, copied>>
      /\ UNCHANGED <<rxLength, rxBufferSize, rxEn, txEn, armed, reading>>
      /\ UNCHANGED regs
  BY <2>5 DEF vars, regs, enables
<3>2. /\ rxLength \in 0 .. MaxSamples - 1 /\ rxBufferSize \in Nat
      /\ rxEn \in SUBSET RF /\ txEn \in SUBSET RF /\ reading \in SUBSET Reading
      /\ Busy => armed \subseteq rxEn
  BY DEF CaptureInv, Typed, AtRest
<3> QED
  BY <3>1, <3>2, SizedKept, Commands
<2>6. CASE StartCapture
  BY <2>6, StartCaptureStep
<2>7. CASE WriteSample
  BY <2>7, WriteSampleStep
<2>8. CASE BasebandReset
  BY <2>8, BasebandResetStep
<2> QED
  BY <2>1, <2>2, <2>3, <2>3a, <2>4, <2>5, <2>6, <2>7, <2>8 DEF Next, Host
<1>2. Init => Counted
  BY InitCounted
<1> QED
  BY <1>0, <1>1, <1>2, InitCapture, PTL DEF Spec

(* However captures, commands and late interrupts interleave, the host     *)
(* reads every sample of a capture that is over from each buffer that      *)
(* stayed enabled, as long as it does not interfere.                       *)
THEOREM CapturesDelivered ==
    Ordinary => (Spec => [](~interfered => Delivered))
<1> SUFFICES ASSUME Ordinary PROVE Spec => [](~interfered => Delivered)
  OBVIOUS
<1>1. CaptureInv => Delivered
  BY DEF CaptureInv, Held, Delivered, Stored, Quiet, Busy
<1> QED
  BY <1>1, CaptureInvariant, PTL

(* Every capture starts from a read offset of zero.                        *)
THEOREM OffsetsAreReset == Ordinary => (Spec => []OffsetsReset)
<1> SUFFICES ASSUME Ordinary PROVE Spec => []OffsetsReset
  OBVIOUS
<1>1. (~interfered => CaptureInv) => OffsetsReset
  BY DEF CaptureInv, AtRest, OffsetsReset, Quiet, Active, Busy
<1> QED
  BY <1>1, CaptureInvariant, PTL

(* The read offset never passes what the handler has copied.               *)
THEOREM OffsetFollowsCopy == Ordinary => (Spec => []ReadOffsetReflectsCopy)
<1> SUFFICES ASSUME Ordinary PROVE Spec => []ReadOffsetReflectsCopy
  OBVIOUS
<1>1. (~interfered => CaptureInv) => ReadOffsetReflectsCopy
  BY DEF CaptureInv, AtRest, ReadOffsetReflectsCopy
<1> QED
  BY <1>1, CaptureInvariant, PTL
-----------------------------------------------------------------------------
(* Read IQ.                                                                *)

\* During a capture the buffers that are received are those that have been
\* all along, and a read that was let into it is of one of them, of samples
\* that have been written and, with DRAM, copied.
LetIn ==
    /\ Busy => rxEn \subseteq armed
    /\ \A r \in reading :
        /\ r.of <= capture
        /\ r.of = capture /\ r.at # r.start + Chunk =>
               /\ r.buff \in armed
               /\ r.start + r.total <= written
               /\ useDram /\ Busy => r.start + r.total <= rd

(* Nothing takes back what a read has been let in for. *)
LEMMA LetInKept ==
    ASSUME Typed, LetIn, UNCHANGED <<rxEn, capture, armed, reading, useDram>>,
           written <= written', Busy' => Busy, written' \in Nat, rd' \in Nat,
           useDram /\ Busy' => rd <= rd'
    PROVE  LetIn'
<1>1. Busy' => rxEn' \subseteq armed'
  BY DEF LetIn
<1>2. ASSUME NEW r \in reading
      PROVE  /\ r.of <= capture'
             /\ r.of = capture' /\ r.at # r.start + Chunk =>
                    /\ r.buff \in armed'
                    /\ r.start + r.total <= written'
                    /\ useDram' /\ Busy' => r.start + r.total <= rd'
<2>1. /\ r.of <= capture
      /\ r.of = capture /\ r.at # r.start + Chunk =>
             /\ r.buff \in armed
             /\ r.start + r.total <= written
             /\ useDram /\ Busy => r.start + r.total <= rd
  BY DEF LetIn
<2>2. r.start \in Nat /\ r.total \in Nat /\ written \in Nat /\ rd \in Nat
<3>1. r \in Reading /\ MaxSamples \in Nat
  BY Sizes DEF Typed
<3>2. r.start \in 0 .. MaxSamples /\ r.total \in 0 .. MaxSamples
  BY <3>1 DEF Reading
<3> QED
  BY <3>1, <3>2, Sizes DEF Typed
<2> QED
  BY <2>1, <2>2
<1> QED
  BY <1>1, <1>2 DEF LetIn

(* What the guard of READ_IQ lets pass into a running capture.             *)
LEMMA ReadIqLetIn ==
    ASSUME CaptureInv, LetIn, NEW b \in RF, NEW first \in 0 .. NumChunks,
           NEW n \in {0, 1}, ReadIq(b, first * Chunk, n * Chunk)
    PROVE  LetIn'
<1> DEFINE start == first * Chunk
           total == n * Chunk
           of == IF running /\ b \in rxEn THEN capture ELSE NoCapture
           r == [buff |-> b, start |-> start, total |-> total, at |-> written,
                 of |-> of]
<1>1. /\ ~irq /\ ~Defer(b, start) /\ start + total <= rxLength + 1
      /\ reading' = {r}
      /\ UNCHANGED <<useDram, rxEn, rd, running, written, capture, irq, armed>>
  BY DEF ReadIq, NextCommand, regs, core, enables
<1>2. /\ capture \in Nat /\ written \in Nat /\ rd \in Nat /\ rxLength \in Nat
      /\ Chunk \in Nat /\ Chunk >= 2 /\ NumChunks \in Nat
  BY Sizes DEF CaptureInv, Typed
<1>3. start \in Nat /\ total \in Nat /\ total <= Chunk
  BY <1>2
<1>4. of <= capture
  BY <1>2 DEF NoCapture
<1>5. /\ r.of = of /\ r.at = written /\ r.start = start /\ r.total = total
      /\ r.buff = b
  OBVIOUS
<1>6. of = capture => running /\ b \in rxEn
  BY <1>2 DEF NoCapture
<1> HIDE DEF start, total, of, r
<1>7. ASSUME of = capture, written # start + Chunk
      PROVE  /\ b \in armed /\ start + total <= written
             /\ useDram => start + total <= rd
<2>1. running /\ b \in rxEn /\ b \in armed
  BY <1>6, <1>7 DEF LetIn, Busy
<2>2. written > start + Chunk
  BY <1>1, <1>2, <1>3, <1>7, <2>1 DEF Defer
<2>3. ASSUME useDram PROVE start + Chunk <= rd
<3>1. PICK q \in 0 .. NumChunks : rd = q * Chunk
  BY <2>1, <2>3 DEF CaptureInv, Tracked, Active, Busy
<3>2. written - rd <= Chunk
  BY <1>1, <2>1, <2>3 DEF CaptureInv, Tracked, Active, Busy
<3>3. q \in Nat /\ first \in Nat
  BY <1>2, <3>1
<3>4. q >= first + 1
<4> SUFFICES ASSUME q <= first PROVE FALSE
  BY <3>3
<4>1. q * Chunk <= first * Chunk
  BY <1>2, <3>3, Times
<4>2. rd <= start
  BY <3>1, <4>1 DEF start
<4> QED
  BY <1>2, <1>3, <2>2, <3>2, <4>2
<3>5. (first + 1) * Chunk <= q * Chunk /\ (first + 1) * Chunk = first * Chunk + Chunk
  BY <1>2, <3>3, <3>4, Times
<3> QED
  BY <3>1, <3>5 DEF start
<2> QED
  BY <1>2, <1>3, <2>1, <2>2, <2>3
<1>8. Busy' => rxEn' \subseteq armed'
  BY <1>1 DEF LetIn, Busy
<1>9. ASSUME NEW x \in reading'
      PROVE  /\ x.of <= capture'
             /\ x.of = capture' /\ x.at # x.start + Chunk =>
                    /\ x.buff \in armed'
                    /\ x.start + x.total <= written'
                    /\ useDram' /\ Busy' => x.start + x.total <= rd'
  BY <1>1, <1>4, <1>5, <1>7
<1> QED
  BY <1>8, <1>9 DEF LetIn

(* The handler moves the offset on until the capture is over.              *)
LEMMA IsrLetIn ==
    ASSUME CaptureInv, Ordinary, LetIn, Isr, CaptureInv'
    PROVE  LetIn'
<1>1. /\ irq /\ UNCHANGED <<useDram, rxEn, running, written, capture, armed, reading>>
  BY DEF Isr, IsrError, IsrTransfer, IsrNoDram, regs, enables
<1>2. /\ written \in Nat /\ rd \in Nat /\ rd' \in Nat /\ Typed /\ Chunk \in Nat
      /\ Chunk >= 2
  BY Sizes DEF CaptureInv, Typed
<1>3. Busy
  BY <1>1 DEF Busy
<1>4. ASSUME useDram, Busy' PROVE rd <= rd'
<2>1. CASE IsrError
  BY <1>2, <2>1 DEF IsrError
<2>2. CASE IsrTransfer
<3>1. CASE rxEn = {}
  BY <1>2, <2>2, <3>1 DEF IsrTransfer
<3>2. CASE rxEn # {}
<4>1. Active /\ Active'
  BY <1>1, <1>3, <1>4, <3>2 DEF Active
<4>2. rd' = NextReadOffset(Aligned(written))
  BY <2>2, <3>2 DEF IsrTransfer, SetReadOffset
<4>3. running
<5>1. irq' = (running /\ rxEn # {} /\ ~above
                 /\ OverThreshold(written, NextReadOffset(Aligned(written))))
  BY <2>2 DEF IsrTransfer
<5>2. irq' => running
  BY <5>1, Zenon
<5> QED
  BY <1>1, <1>4, <5>2 DEF Busy
<4>4. written - rd >= Chunk
<5>1. written - rd > Chunk
  BY <1>1, <4>1, <4>3 DEF CaptureInv, Tracked
<5> QED
  BY <1>2, <5>1
<4>5. rd' = rd + Chunk
  BY <1>1, <4>1, <4>2, <4>3, <4>4, MoveChunk
<4> QED
  BY <1>2, <4>5
<3> QED
  BY <3>1, <3>2
<2>3. CASE IsrNoDram
  BY <1>4, <2>3 DEF IsrNoDram
<2> QED
  BY <2>1, <2>2, <2>3 DEF Isr
<1>5. written <= written' /\ written' \in Nat
  BY <1>1, <1>2
<1> QED
  BY <1>1, <1>2, <1>3, <1>4, <1>5, LetInKept

LEMMA NextLetIn ==
    ASSUME CaptureInv, CaptureInv', Ordinary, ~interfered', ReadChunks \subseteq {0, 1},
           LetIn, [Next]_vars
    PROVE  LetIn'
<1>1. /\ Typed /\ written \in Nat /\ rd \in Nat /\ written' \in Nat /\ rd' \in Nat
      /\ capture \in Nat
  BY Sizes DEF CaptureInv, Typed
<1>2. ASSUME NEW n \in Lengths, RxLength(n) PROVE LetIn'
  BY <1>2 DEF RxLength, NextCommand, core, enables, LetIn, Busy
<1>3. ASSUME NEW sel \in SUBSET RF, RxBuffEn(sel) PROVE LetIn'
  BY <1>3 DEF RxBuffEn, ChangeEnables, NextCommand, core, LetIn, Busy
<1>4. ASSUME NEW sel \in SUBSET RF, TxBuffEn(sel) \/ TxRxBuffDis(sel)
      PROVE  LetIn'
<2>1. /\ reading = {} /\ reading' = {} /\ UNCHANGED <<running, irq>> /\ ~irq
      /\ rxEn' \subseteq rxEn
  BY <1>4 DEF TxBuffEn, TxRxBuffDis, ChangeEnables, NextCommand, core
<2>2. running => rxEn' \subseteq armed'
  BY <1>4 DEF TxBuffEn, TxRxBuffDis, LetIn, Busy
<2> QED
  BY <2>1, <2>2 DEF LetIn, Busy
<1>5. CASE BasebandReset
  BY <1>5 DEF BasebandReset, ChangeEnables, NextCommand, LetIn
<1>6. ASSUME NEW b \in RF, NEW first \in 0 .. NumChunks, NEW n \in ReadChunks,
             ReadIq(b, first * Chunk, n * Chunk)
      PROVE  LetIn'
<2>1. n \in {0, 1}
  OBVIOUS
<2> QED
  BY <1>6, <2>1, ReadIqLetIn
<1>7. CASE ReadSent
  BY <1>7 DEF ReadSent, core, enables, LetIn, Busy
<1>8. CASE StartCapture
<2>1. /\ armed' = rxEn /\ rxEn' = rxEn /\ capture' = capture + 1
      /\ reading' = reading
  BY <1>8 DEF StartCapture, enables
<2>2. ASSUME NEW r \in reading PROVE r.of <= capture' /\ r.of # capture'
<3>1. r.of <= capture /\ r \in Reading
  BY <1>1 DEF LetIn, Typed
<3>2. r.of \in {NoCapture} \cup 0 .. MaxCaptures
  BY <3>1 DEF Reading
<3>3. r.of \in Int
  BY <3>2, Sizes DEF NoCapture
<3> QED
  BY <1>1, <2>1, <3>1, <3>3
<2> QED
  BY <2>1, <2>2 DEF LetIn
<1>9. CASE WriteSample
<2>1. /\ written' = written + 1 /\ rd' = rd /\ running
      /\ UNCHANGED <<rxEn, capture, armed, reading, useDram>>
  BY <1>9 DEF WriteSample, regs, enables
<2>2. Busy /\ written <= written'
  BY <1>1, <2>1 DEF Busy
<2> QED
  BY <1>1, <2>1, <2>2, LetInKept
<1>10. CASE Isr
  BY <1>10, IsrLetIn
<1>11. CASE UNCHANGED vars
<2>1. UNCHANGED <<rxEn, capture, armed, reading, useDram, written, rd, running, irq>>
  BY <1>11 DEF vars, regs, enables
<2>2. Busy' <=> Busy
  BY <2>1 DEF Busy
<2> QED
  BY <1>1, <2>1, <2>2, LetInKept
<1> QED
  BY <1>2, <1>3, <1>4, <1>5, <1>6, <1>7, <1>8, <1>9, <1>10, <1>11 DEF Next, Host

(* A Read IQ of at most a chunk that is let into a running capture, other  *)
(* than just when the chunk is full, sends only samples of that capture,   *)
(* whatever the radio and the handler do meanwhile: with DRAM they have    *)
(* been copied by then.                                                    *)
THEOREM ReadsAreCopied ==
    Ordinary /\ ReadChunks \subseteq {0, 1} => (Spec => []ReadPastThreshold)
<1> SUFFICES ASSUME Ordinary, ReadChunks \subseteq {0, 1}
             PROVE  Spec => []ReadPastThreshold
  OBVIOUS
<1>1. Init => LetIn
  BY DEF Init, LetIn, Busy
<1>0. Counted /\ [Next]_vars => Counted' /\ (interfered => interfered')
  BY CountedKept
<1>2. /\ ~interfered => CaptureInv
      /\ (~interfered => CaptureInv)'
      /\ Counted /\ (~interfered => LetIn)
      /\ [Next]_vars
      => (~interfered => LetIn)'
<2> SUFFICES ASSUME CaptureInv, CaptureInv', LetIn, [Next]_vars, ~interfered'
             PROVE  LetIn'
  BY <1>0
<2> QED
  BY NextLetIn
<1>3. (~interfered => CaptureInv /\ LetIn) => ReadPastThreshold
<2> SUFFICES ASSUME CaptureInv, LetIn, NEW r \in reading,
                    r.of = capture, r.at # r.start + Chunk,
                    NEW i \in r.start .. r.start + r.total - 1
             PROVE  Stored(r.buff)[i] = <<capture, i>>
  BY DEF ReadPastThreshold, Received
<2>1. /\ r.buff \in armed /\ r.start + r.total <= written
      /\ useDram /\ Busy => r.start + r.total <= rd
  BY DEF LetIn
<2>2. /\ r.start \in Nat /\ r.total \in Nat /\ written \in Nat /\ rd \in Nat
<3>1. r \in Reading /\ MaxSamples \in Nat
  BY Sizes DEF CaptureInv, Typed
<3>2. r.start \in 0 .. MaxSamples /\ r.total \in 0 .. MaxSamples
  BY <3>1 DEF Reading
<3> QED
  BY <3>1, <3>2 DEF CaptureInv, Typed
<2>3. i \in 0 .. written - 1
  BY <2>1, <2>2
<2>4. CASE ~useDram
  BY <2>1, <2>3, <2>4 DEF CaptureInv, Held, Stored
<2>5. CASE useDram /\ ~Busy
  BY <2>1, <2>3, <2>5 DEF CaptureInv, Held, Stored
<2>6. CASE useDram /\ Busy
<3>1. rxEn # {} /\ Active
  BY <2>1, <2>6 DEF CaptureInv, AtRest, Active
<3>2. i \in 0 .. rd - 1
  BY <2>1, <2>2, <2>6
<3> QED
  BY <2>1, <2>6, <3>1, <3>2 DEF CaptureInv, Held, Stored
<2> QED
  BY <2>4, <2>5, <2>6
<1>4. Init => Counted
  BY InitCounted
<1> QED
  BY <1>0, <1>1, <1>2, <1>3, <1>4, CaptureInvariant, PTL DEF Spec
=============================================================================
