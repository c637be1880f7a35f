--------------------------- MODULE TxPath_proofs ---------------------------
(***************************************************************************)
(* Proofs about the transmit path: the playback of a waveform through the  *)
(* BRAM (TxPlayback) and the CDMA that copies it there (CdmaSharing).      *)
(*                                                                         *)
(* TxPlayback, for every chunk size, waveform length, lag and history of   *)
(* host commands that meets Ordinary: the radio sends the waveform that    *)
(* was loaded unless an underflow is recorded, and the start of the        *)
(* waveform is back in the BRAM when the radio stops; its types, without   *)
(* Ordinary.                                                               *)
(*                                                                         *)
(* The argument.  Played is not inductive: that the next sample is right   *)
(* depends on what the handler copied chunks ago.  PlayInv says where the  *)
(* handler's write offset and the radio's read address are (Window: the    *)
(* BRAM is being filled, is filled to the end of the waveform, or has      *)
(* wrapped to the next lap) and that every sample the radio sends before   *)
(* the handler's next copy is in the BRAM, or still in the DDR to be       *)
(* copied (Data).  The radio passes the write offset only with the         *)
(* underflow flag set (RunDry is what the hardware's Underflow amounts to  *)
(* there), since an interrupt becomes pending a chunk before it would.  A  *)
(* handler at most a chunk late (Ordinary) leaves the two in step, so the  *)
(* last interrupt of a transmission finds the offsets at its end, and      *)
(* loads the BRAM again (Kept).                                            *)
(***************************************************************************)
EXTENDS TxPlayback, CdmaSharing, TLAPS

\* The registers.
Length ==
    /\ txLength < BramSize \/ txLength % Chunk # 0
    /\ cont => txLength < BramSize \/ (txLength + 1) % BramSize = 0

Within == rd <= txLength /\ (~running => rd = 0)

Control ==
    /\ ~running /\ irq => ~WriteNotDone /\ ~cont /\ txEn # {}
    /\ irq => LargeTx
    /\ ~LargeTx \/ Quiet => wr \in {Chunk, BramSize}
    /\ running => armed \subseteq txEn /\ txEn # {}
    /\ running /\ cont => looped

\* While a large transmission is under way, the handler fills the BRAM chunk
\* by chunk, or has filled it to the end of the waveform, or has wrapped and
\* filled the first chunk of the next lap.
Filling ==
    /\ wr < txLength /\ wr >= Chunk /\ wr % Chunk = 0
    /\ irq => rd = wr - Chunk + 1 + lag
    /\ ~irq => rd <= wr - Chunk
    /\ err \/ rd < wr

\* The read address when the interrupt is served, d samples after it should
\* have become pending; after an underflow the radio may have wrapped.
Late(d) ==
    LET p == txLength + 1 - Chunk + lag + d
    IN  rd = p \/ (err /\ rd + txLength + 1 = p)

Filled ==
    /\ wr > txLength /\ wr <= txLength + Chunk /\ wr % Chunk = 0
    /\ irq => cont /\ (Late(0) \/ (err /\ Late(1)))
    /\ ~irq /\ cont => err \/ rd <= txLength - Chunk
    /\ ~err /\ cont => rd < txLength

Wrapped ==
    /\ wr = Chunk /\ ~irq /\ looped
    /\ rd > txLength - Chunk /\ (txLength + 1) % BramSize = 0

Window == running /\ LargeTx => Filling \/ Filled \/ Wrapped

\* Sample j of the waveform of b is in its place.
Good(b, j) ==
    /\ bram[b][j % BramSize][2] = j
    /\ ~looped => bram[b][j % BramSize][1] = wave[b][j]

\* What the radio is about to send is in the BRAM, or in the DDR buffer.
Ahead(b) ==
    IF LargeTx
    THEN /\ \A j \in rd .. txLength : rd >= wr \/ j < wr => Good(b, j)
         /\ rd < wr /\ ~looped => \A j \in wr .. txLength : ddr[b][j] = wave[b][j]
         /\ rd >= wr => \A j \in 0 .. Chunk - 1 : bram[b][j][2] = j
    ELSE /\ \A j \in rd .. txLength : Good(b, j)
         /\ looped => \A j \in 0 .. txLength : bram[b][j][2] = j

Data == running /\ ~err => \A b \in armed : Ahead(b)

\* Without DRAM a sample is written to its place.
Dry == ~useDram => \A b \in RF : \A i \in 0 .. BramSize - 1 : bram[b][i][2] = i

Loaded(b) == \A i \in 0 .. BramSize - 1 : bram[b][i] = <<ddr[b][i], i>>

\* The start of the waveform is in the BRAM when nothing is sent, and already
\* before the end of a transmission that refills no more.
Settled == Quiet \/ ~LargeTx \/ (running /\ Wrapped /\ ~cont)

Kept == useDram /\ Settled => \A b \in txEn \ unloaded : Loaded(b)

TypeInv == TypeOK /\ Within

CoreInv == TypeInv /\ Length /\ Control /\ Window

PlayInv == CoreInv /\ Data /\ Dry /\ Kept /\ Played

-----------------------------------------------------------------------------
(* Arithmetic.                                                             *)

LEMMA Sizes ==
    /\ Chunk \in Nat /\ Chunk >= 2
    /\ NumChunks \in Nat /\ NumChunks >= 2
    /\ BramSize = 2 * Chunk /\ BramSize \in Nat \ {0}
    /\ MaxSamples = NumChunks * Chunk /\ MaxSamples \in Nat
    /\ BramSize <= MaxSamples
    /\ MaxLag \in Nat /\ MaxTx \in Nat /\ MaxWrites \in Nat
    /\ PacketLen \in 1 .. Chunk
<1>1. /\ Chunk \in Nat /\ Chunk >= 2 /\ NumChunks \in Nat /\ NumChunks >= 2
      /\ MaxLag \in Nat /\ MaxTx \in Nat /\ MaxWrites \in Nat
      /\ PacketLen \in 1 .. Chunk
  BY PlaybackAssumption
<1>2. NumChunks * Chunk \in Nat /\ (NumChunks - 2) * Chunk >= 0
  BY <1>1
<1>3. (NumChunks - 2) * Chunk = NumChunks * Chunk - 2 * Chunk
  BY <1>1
<1> QED
  BY <1>1, <1>2, <1>3 DEF BramSize, MaxSamples

LEMMA Times ==
    ASSUME NEW a \in Int, NEW b \in Int, NEW c \in Nat
    PROVE  /\ a * c \in Int
           /\ a <= b => a * c <= b * c
           /\ (a + 1) * c = a * c + c
<1>1. a <= b => (b - a) * c >= 0
  OBVIOUS
<1> QED
  BY <1>1

(* A number has one quotient and one remainder. *)
LEMMA Divides ==
    ASSUME NEW c \in Nat \ {0}, NEW q \in Int, NEW r \in 0 .. c - 1
    PROVE  (q * c + r) \div c = q /\ (q * c + r) % c = r
<1> DEFINE a == q * c + r
           x == a \div c
           s == a % c
<1>1. a \in Int
  OBVIOUS
<1>2. x \in Int /\ s \in 0 .. c - 1 /\ a = c * x + s
  BY <1>1
<1> HIDE DEF x, s
<1>3. c * x = x * c /\ a = q * c + r /\ q * c \in Int /\ x * c \in Int
  BY <1>2
<1>4. ~ (x >= q + 1)
  <2> SUFFICES ASSUME x >= q + 1 PROVE FALSE
    OBVIOUS
  <2>1. (q + 1) * c <= x * c /\ (q + 1) * c = q * c + c
    BY <1>2, Times
  <2> QED
    BY <1>2, <1>3, <2>1
<1>5. ~ (q >= x + 1)
  <2> SUFFICES ASSUME q >= x + 1 PROVE FALSE
    OBVIOUS
  <2>1. (x + 1) * c <= q * c /\ (x + 1) * c = x * c + c
    BY <1>2, Times
  <2> QED
    BY <1>2, <1>3, <2>1
<1>6. x = q
  BY <1>2, <1>4, <1>5
<1>7. s = r
  BY <1>2, <1>3, <1>6
<1> QED
  BY <1>6, <1>7 DEF x, s

LEMMA Parts ==
    ASSUME NEW c \in Nat \ {0}, NEW a \in Int
    PROVE  /\ a \div c \in Int /\ a % c \in 0 .. c - 1
           /\ a = (a \div c) * c + (a % c)
           /\ (a \div c) * c = c * (a \div c) /\ (a \div c) * c \in Int
<1> DEFINE x == a \div c
           s == a % c
<1>1. x \in Int /\ s \in 0 .. c - 1 /\ a = c * x + s
  OBVIOUS
<1> HIDE DEF x, s
<1>2. c * x = x * c /\ x * c \in Int
  BY <1>1
<1>3. x \in Int /\ s \in 0 .. c - 1 /\ a = x * c + s /\ x * c = c * x
      /\ x * c \in Int
  BY <1>1, <1>2
<1> QED
  BY <1>3 DEF x, s

(* Different multiples are that far apart. *)
LEMMA Multiples ==
    ASSUME NEW c \in Nat \ {0}, NEW a \in Int, NEW b \in Int,
           a % c = 0, b % c = 0
    PROVE  /\ a < b => a + c <= b
           /\ (a + c) % c = 0
           /\ c * (a \div c) = a
<1> DEFINE p == a \div c
           q == b \div c
<1>1. /\ p \in Int /\ a = p * c /\ p * c = c * p /\ p * c \in Int
      /\ q \in Int /\ b = q * c /\ q * c \in Int
  BY Parts
<1> HIDE DEF p, q
<1>2. (p + 1) * c = p * c + c /\ p + 1 \in Int
  BY <1>1, Times
<1>3. ASSUME a < b PROVE a + c <= b
  <2>1. ~ (q <= p)
    <3> SUFFICES ASSUME q <= p PROVE FALSE
      OBVIOUS
    <3>1. q * c <= p * c
      BY <1>1, Times
    <3> QED
      BY <1>1, <1>3, <3>1
  <2>2. p + 1 <= q
    BY <1>1, <2>1
  <2>3. (p + 1) * c <= q * c
    BY <1>1, <1>2, <2>2, Times
  <2> QED
    BY <1>1, <1>2, <2>3
<1>4. (a + c) % c = 0
  <2>1. a + c = (p + 1) * c + 0 /\ 0 \in 0 .. c - 1
    BY <1>1, <1>2
  <2> QED
    BY <1>2, <2>1, Divides
<1>5. c * p = a
  BY <1>1
<1> QED
  BY <1>3, <1>4, <1>5 DEF p

LEMMA WholeBram ==
    /\ Chunk % Chunk = 0 /\ BramSize % Chunk = 0 /\ MaxSamples % Chunk = 0
    /\ (MaxSamples - 1) % Chunk # 0
<1>1. Chunk \in Nat \ {0} /\ 0 \in 0 .. Chunk - 1 /\ Chunk - 1 \in 0 .. Chunk - 1
      /\ NumChunks \in Int /\ NumChunks - 1 \in Int
  BY Sizes
<1>2. Chunk = 1 * Chunk + 0 /\ BramSize = 2 * Chunk + 0
      /\ MaxSamples = NumChunks * Chunk + 0
  BY Sizes
<1>3. Chunk % Chunk = 0 /\ BramSize % Chunk = 0 /\ MaxSamples % Chunk = 0
  BY <1>1, <1>2, Divides
<1>4. (NumChunks - 1 + 1) * Chunk = (NumChunks - 1) * Chunk + Chunk
      /\ NumChunks - 1 + 1 = NumChunks /\ (NumChunks - 1) * Chunk \in Int
  BY <1>1, Times
<1>5. MaxSamples - 1 = (NumChunks - 1) * Chunk + (Chunk - 1)
  BY <1>1, <1>4, Sizes
<1>6. (MaxSamples - 1) % Chunk = Chunk - 1
  BY <1>1, <1>5, Divides
<1> QED
  BY <1>3, <1>6, Sizes

(* A multiple of the BRAM is one of a chunk. *)
LEMMA WholeLaps ==
    ASSUME NEW a \in Int, a % BramSize = 0
    PROVE  a % Chunk = 0
<1> DEFINE p == a \div BramSize
           q == 2 * p
<1>1. p \in Int /\ a = p * BramSize + (a % BramSize) /\ p * BramSize \in Int
  BY Parts, Sizes
<1> HIDE DEF p
<1>2. a = p * (2 * Chunk) /\ p * (2 * Chunk) = (2 * p) * Chunk
  BY <1>1, Sizes
<1>3. Chunk \in Nat \ {0} /\ 0 \in 0 .. Chunk - 1
  BY Sizes
<1>4. q \in Int /\ a = q * Chunk /\ q * Chunk \in Int
  BY <1>1, <1>2, <1>3
<1> HIDE DEF q
<1>5. a = q * Chunk + 0
  BY <1>4
<1>6. (q * Chunk + 0) % Chunk = 0
  BY <1>3, <1>4, Divides
<1> QED
  BY <1>5, <1>6

(* A continuous waveform ends with the chunk that holds its last sample. *)
LEMMA LastChunk ==
    ASSUME NEW w \in Nat, NEW n \in Nat, w % Chunk = 0,
           (n + 1) % BramSize = 0, w < n, n < w + Chunk
    PROVE  n + 1 = w + Chunk
<1>1. Chunk \in Nat \ {0} /\ w \in Int /\ n + 1 \in Int
  BY Sizes
<1>2. (n + 1) % Chunk = 0
  BY <1>1, WholeLaps
<1> DEFINE m == n + 1
<1>3. m \in Int /\ w < m /\ m % Chunk = 0
  BY <1>1, <1>2
<1> HIDE DEF m
<1>4. w + Chunk <= m
  BY <1>1, <1>3, Multiples
<1> QED
  BY <1>1, <1>4 DEF m

LEMMA Low ==
    ASSUME NEW i \in 0 .. BramSize - 1
    PROVE  i % BramSize = i
<1>1. i = 0 * BramSize + i /\ BramSize \in Nat \ {0}
  BY Sizes
<1> QED
  BY <1>1, Divides

LEMMA InBram ==
    ASSUME NEW i \in Int
    PROVE  i % BramSize \in 0 .. BramSize - 1 /\ (i + BramSize) % BramSize = i % BramSize
<1>1. BramSize \in Nat \ {0}
  BY Sizes
<1> DEFINE x == i \div BramSize
           s == i % BramSize
<1>2. x \in Int /\ s \in 0 .. BramSize - 1 /\ i = x * BramSize + s
  BY <1>1, Parts
<1> HIDE DEF x, s
<1>3. (x + 1) * BramSize = x * BramSize + BramSize /\ x + 1 \in Int
      /\ x * BramSize \in Int
  BY <1>1, <1>2, Times
<1>4. i + BramSize = (x + 1) * BramSize + s
  BY <1>1, <1>2, <1>3
<1>5. (i + BramSize) % BramSize = s
  BY <1>1, <1>2, <1>3, <1>4, Divides
<1> QED
  BY <1>2, <1>5 DEF s

(* The last chunk of whole laps is in the second half of the BRAM. *)
LEMMA SecondHalf ==
    ASSUME NEW n \in Nat, (n + 1) % BramSize = 0, NEW j \in n + 1 - Chunk .. n
    PROVE  j % BramSize \in Chunk .. BramSize - 1
<1>1. BramSize \in Nat \ {0} /\ BramSize = 2 * Chunk /\ Chunk \in Nat
  BY Sizes
<1> DEFINE x == (n + 1) \div BramSize
<1>0. n + 1 \in Int
  OBVIOUS
<1>2a. x \in Int /\ n + 1 = x * BramSize + ((n + 1) % BramSize)
       /\ x * BramSize \in Int
  BY <1>0, <1>1, Parts
<1> HIDE DEF x
<1>2. x \in Int /\ n + 1 = x * BramSize
  BY <1>2a
<1>3. (x - 1 + 1) * BramSize = (x - 1) * BramSize + BramSize /\ x - 1 \in Int
      /\ x - 1 + 1 = x /\ (x - 1) * BramSize \in Int
  BY <1>1, <1>2, Times
<1> DEFINE r == j - (n + 1) + BramSize
<1>4. r \in Chunk .. BramSize - 1 /\ r \in 0 .. BramSize - 1
      /\ j = (x - 1) * BramSize + r
  BY <1>1, <1>2, <1>3
<1> HIDE DEF r
<1>5. j % BramSize = r
  BY <1>1, <1>3, <1>4, Divides
<1> QED
  BY <1>4, <1>5

(* Where sample j is, counted from the start of a copy. *)
LEMMA FromOffset ==
    ASSUME NEW offset \in Nat, NEW j \in offset .. offset + BramSize - 1
    PROVE  ((j % BramSize) - offset) % BramSize = j - offset
<1>1. BramSize \in Nat \ {0}
  BY Sizes
<1> DEFINE x == j \div BramSize
           s == j % BramSize
<1>2. x \in Int /\ s \in 0 .. BramSize - 1 /\ j = x * BramSize + s
  BY <1>1, Parts
<1> HIDE DEF x, s
<1>3. (0 - x) * BramSize = 0 - x * BramSize /\ 0 - x \in Int /\ x * BramSize \in Int
  BY <1>1, <1>2
<1>4. s - offset = (0 - x) * BramSize + (j - offset) /\ j - offset \in 0 .. BramSize - 1
  BY <1>1, <1>2, <1>3
<1>5. (s - offset) % BramSize = j - offset
  BY <1>1, <1>3, <1>4, Divides
<1> QED
  BY <1>5 DEF s

-----------------------------------------------------------------------------
(* The shape of the state.                                                 *)

LEMMA Limits ==
    /\ Supported \in Nat \ {0} /\ Supported <= MaxSamples
    /\ useDram => Supported = MaxSamples /\ Threshold = Chunk
    /\ ~useDram => Supported = BramSize /\ Threshold = BramSize
  BY Sizes DEF Supported, Threshold

LEMMA Registers ==
    ASSUME TypeOK
    PROVE  /\ txLength \in Nat /\ txLength < Supported /\ txLength < MaxSamples
           /\ rd \in Nat /\ wr \in Nat /\ wr <= MaxSamples
           /\ lag \in Nat /\ lag <= MaxLag
           /\ writes \in Nat /\ writes <= MaxWrites
           /\ useDram \in BOOLEAN /\ cont \in BOOLEAN /\ running \in BOOLEAN
           /\ err \in BOOLEAN /\ irq \in BOOLEAN /\ looped \in BOOLEAN
           /\ txEn \subseteq RF /\ armed \subseteq RF /\ unloaded \subseteq RF
           /\ wrong \subseteq RF
           /\ LargeTx => useDram
  BY Limits, Sizes DEF TypeOK, LargeTx

LEMMA InitType == Init => TypeInv
<1> SUFFICES ASSUME Init PROVE TypeInv
  OBVIOUS
<1>1. /\ bram \in [RF -> [0 .. BramSize - 1 -> Cell]]
      /\ ddr \in [RF -> [0 .. MaxSamples - 1 -> 0 .. MaxWrites]]
  BY Sizes DEF Init, Cell
<1>2. txLength \in 0 .. Supported - 1 /\ rd \in 0 .. MaxSamples - 1
      /\ wr \in 0 .. MaxSamples /\ lag \in 0 .. MaxLag /\ rd <= txLength
      /\ writes \in 0 .. MaxWrites /\ lap \in 0 .. MaxTx
  BY Sizes, Limits DEF Init
<1> QED
  BY <1>1, <1>2 DEF Init, TypeInv, TypeOK, Within

(* Sample j after a copy. *)
LEMMA PopulatedAt ==
    ASSUME NEW b, NEW offset \in Nat, NEW len \in Nat,
           NEW j \in offset .. offset + BramSize - 1
    PROVE  Populated(b, offset, len)[j % BramSize] =
               IF j < offset + len THEN <<ddr[b][j], j>> ELSE bram[b][j % BramSize]
<1> DEFINE i == j % BramSize
<1>1. i \in 0 .. BramSize - 1
  BY InBram, Sizes
<1>2a. (i - offset) % BramSize = j - offset
  BY FromOffset
<1>2. offset + ((i - offset) % BramSize) = j
  BY <1>2a, Sizes
<1> HIDE DEF i
<1>3. Populated(b, offset, len)[i] =
          IF j < offset + len THEN <<ddr[b][j], j>> ELSE bram[b][i]
  BY <1>1, <1>2 DEF Populated
<1> QED
  BY <1>3 DEF i

LEMMA PopulatedType ==
    ASSUME TypeOK, NEW b \in RF, NEW offset \in Nat, NEW len \in Nat,
           offset + len <= MaxSamples
    PROVE  Populated(b, offset, len) \in [0 .. BramSize - 1 -> Cell]
<1> SUFFICES ASSUME NEW i \in 0 .. BramSize - 1
             PROVE  (LET j == offset + ((i - offset) % BramSize)
                     IN  IF j < offset + len THEN <<ddr[b][j], j>> ELSE bram[b][i])
                        \in Cell
  BY DEF Populated
<1> DEFINE j == offset + ((i - offset) % BramSize)
<1>1. j \in Nat
  BY InBram, Sizes
<1>0. /\ bram \in [RF -> [0 .. BramSize - 1 -> Cell]]
      /\ ddr \in [RF -> [0 .. MaxSamples - 1 -> 0 .. MaxWrites]]
  BY DEF TypeOK
<1>2. bram[b][i] \in Cell
  BY <1>0
<1> HIDE DEF j
<1>3. ASSUME j < offset + len PROVE <<ddr[b][j], j>> \in Cell
  <2>1. j \in 0 .. MaxSamples - 1
    BY <1>1, <1>3, Sizes
  <2>2. ddr[b][j] \in 0 .. MaxWrites
    BY <1>0, <2>1
  <2> QED
    BY <2>1, <2>2 DEF Cell
<1> QED
  BY <1>2, <1>3 DEF j

LEMMA PopulateType ==
    ASSUME TypeOK, NEW sel, NEW offset \in Nat, NEW len \in Nat,
           offset + len <= MaxSamples, Populate(sel, offset, len)
    PROVE  bram' \in [RF -> [0 .. BramSize - 1 -> Cell]]
<1>1. \A b \in RF : /\ Populated(b, offset, len) \in [0 .. BramSize - 1 -> Cell]
                    /\ bram[b] \in [0 .. BramSize - 1 -> Cell]
  BY PopulatedType DEF TypeOK
<1> QED
  BY <1>1 DEF Populate

LEMMA ReactsType ==
    ASSUME NEW STATE pending, CoreReacts(pending)
    PROVE  irq' \in BOOLEAN /\ err' \in BOOLEAN
  BY DEF CoreReacts

(* Where the handler copies to lies within the buffer. *)
LEMMA CopyWithin ==
    ASSUME TypeOK
    PROVE  /\ NextOffset \in Nat /\ XferLength \in Nat
           /\ NextOffset + XferLength <= MaxSamples
<1>1. /\ wr \in Nat /\ txLength \in Nat /\ txLength < MaxSamples
      /\ Chunk \in Nat \ {0} /\ BramSize \in Nat /\ Chunk <= BramSize
      /\ BramSize <= MaxSamples /\ MaxSamples \in Nat
  BY Registers, Sizes
<1>2. CASE ~WriteNotDone
  BY <1>1, <1>2 DEF NextOffset, XferLength
<1>3. CASE WriteNotDone
  <2> DEFINE m == Chunk * (wr \div Chunk)
  <2>1. wr \div Chunk \in Int /\ m = (wr \div Chunk) * Chunk /\ m \in Int
        /\ wr = m + (wr % Chunk) /\ wr % Chunk \in 0 .. Chunk - 1
    BY <1>1, Parts
  <2>2. m % Chunk = 0
    <3> DEFINE q == wr \div Chunk
    <3> HIDE DEF m
    <3>1. q \in Int /\ m = q * Chunk
      BY <2>1
    <3> HIDE DEF q
    <3>2. m = q * Chunk + 0 /\ 0 \in 0 .. Chunk - 1
      BY <1>1, <2>1, <3>1
    <3> QED
      BY <1>1, <3>1, <3>2, Divides
  <2>3. NextOffset = m /\ XferLength = Chunk
    BY <1>3 DEF NextOffset, XferLength
  <2>4. m < MaxSamples
    <3> HIDE DEF m
    <3> QED
      BY <1>1, <1>3, <2>1 DEF WriteNotDone
  <2>5. m >= 0
    <3> DEFINE r == wr % Chunk
    <3>1. r \in 0 .. Chunk - 1 /\ wr = m + r /\ m \in Int
      BY <2>1
    <3> HIDE DEF m, r
    <3>2. 0 % Chunk = 0
      BY <1>1
    <3>3. ~ (m < 0)
      <4> SUFFICES ASSUME m < 0 PROVE FALSE
        OBVIOUS
      <4>1. m + Chunk <= 0
        BY <1>1, <2>2, <3>1, <3>2, Multiples
      <4> QED
        BY <1>1, <3>1, <4>1
    <3> QED
      BY <3>1, <3>3
  <2>6. m + Chunk <= MaxSamples
    <3> HIDE DEF m
    <3> QED
      BY <1>1, <2>1, <2>2, <2>4, Multiples, WholeBram
  <2> QED
    <3> HIDE DEF m
    <3> QED
      BY <1>1, <2>1, <2>3, <2>5, <2>6
<1> QED
  BY <1>2, <1>3

LEMMA TypeStart == ASSUME TypeInv, StartTx PROVE TypeInv'
<1> USE DEF TypeInv
<1>1. wave' \in [RF -> [0 .. MaxSamples - 1 -> 0 .. MaxWrites]]
  <2>1. CASE useDram
    <3>1. wave' = [b \in RF |-> ddr[b]]
      BY <2>1 DEF StartTx
    <3> QED
      BY <3>1 DEF TypeOK
  <2>2. CASE ~useDram
    <3>1. wave' = [b \in RF |-> [i \in 0 .. MaxSamples - 1 |->
                                    bram[b][i % BramSize][1]]]
      BY <2>2 DEF StartTx
    <3>2. ASSUME NEW b \in RF, NEW i \in 0 .. MaxSamples - 1
          PROVE  bram[b][i % BramSize][1] \in 0 .. MaxWrites
      <4>1. i % BramSize \in 0 .. BramSize - 1
        BY InBram
      <4>2. bram \in [RF -> [0 .. BramSize - 1 -> Cell]]
        BY DEF TypeOK
      <4>3. bram[b][i % BramSize] \in Cell
        BY <4>1, <4>2
      <4> QED
        BY <4>3 DEF Cell
    <3> QED
      BY <3>1, <3>2
  <2> QED
    BY <2>1, <2>2
<1>2. lap' \in 0 .. MaxTx
  BY Sizes DEF StartTx, TypeOK
<1>3. Within'
  BY DEF StartTx, Within, config
<1>4. TypeOK'
  BY <1>1, <1>2 DEF StartTx, TypeOK, config, memory, Supported
<1> QED
  BY <1>3, <1>4

LEMMA TypeSend == ASSUME TypeInv, SendSample PROVE TypeInv'
<1> USE DEF TypeInv
<1>1. /\ txLength \in Nat /\ rd \in Nat /\ lag \in Nat /\ MaxLag \in Nat
      /\ rd <= txLength /\ txLength < MaxSamples /\ lag <= MaxLag
      /\ running
  BY Registers, Sizes DEF SendSample, Within
<1>2. rd' \in 0 .. MaxSamples - 1 /\ rd' <= txLength /\ (~running' => rd' = 0)
  <2>1. /\ rd' = IF rd >= txLength THEN 0 ELSE rd + 1
        /\ ~running' => rd >= txLength
    BY DEF SendSample
  <2> QED
    BY <1>1, <2>1, Sizes
<1>3. lag' \in 0 .. MaxLag
  BY <1>1 DEF SendSample
<1>4. lap' \in 0 .. MaxTx
  BY Sizes DEF SendSample, TypeOK
<1>5. irq' \in BOOLEAN /\ err' \in BOOLEAN
  BY ReactsType DEF SendSample
<1>6. running' \in BOOLEAN
  BY DEF SendSample
<1>7. wrong' \subseteq RF
  BY DEF SendSample, TypeOK
<1>8. UNCHANGED <<config, wr, memory, armed, looped, wave>>
  BY DEF SendSample
<1>9. TypeOK'
  BY <1>2, <1>3, <1>4, <1>5, <1>6, <1>7, <1>8
     DEF TypeOK, config, memory, Supported
<1> QED
  BY <1>2, <1>8, <1>9 DEF Within, config

LEMMA TypeIsr == ASSUME TypeInv, Isr PROVE TypeInv'
<1> USE DEF TypeInv
<1>1. wr' \in 0 .. MaxSamples /\ bram' \in [RF -> [0 .. BramSize - 1 -> Cell]]
  <2>1. CASE useDram /\ TxIqError = 0 /\ txEn # {}
    <3>1. Populate(txEn, NextOffset, XferLength) /\ wr' = NextOffset + XferLength
      BY <2>1 DEF Isr
    <3>2. NextOffset \in Nat /\ XferLength \in Nat
          /\ NextOffset + XferLength <= MaxSamples
      BY CopyWithin
    <3>3. bram' \in [RF -> [0 .. BramSize - 1 -> Cell]]
      BY <3>1, <3>2, PopulateType
    <3>4. MaxSamples \in Nat
      BY Sizes
    <3> QED
      BY <3>1, <3>2, <3>3, <3>4
  <2>2. CASE ~ (useDram /\ TxIqError = 0 /\ txEn # {})
    <3>1. wr' = (IF useDram THEN wr ELSE BramSize) /\ UNCHANGED bram
      BY <2>2 DEF Isr
    <3>2. /\ wr \in 0 .. MaxSamples /\ BramSize \in 0 .. MaxSamples
          /\ bram \in [RF -> [0 .. BramSize - 1 -> Cell]]
      BY Sizes DEF TypeOK
    <3> QED
      BY <3>1, <3>2
  <2> QED
    BY <2>1, <2>2
<1>2. lag' \in 0 .. MaxLag
  BY Sizes DEF Isr
<1>3. irq' \in BOOLEAN /\ err' \in BOOLEAN
  BY ReactsType DEF Isr
<1>4. UNCHANGED <<config, rd, running, ddr, writes, unloaded, history>>
  BY DEF Isr
<1>5. TypeOK'
  BY <1>1, <1>2, <1>3, <1>4 DEF TypeOK, config, history, Supported
<1> QED
  BY <1>4, <1>5 DEF Within, config

LEMMA TypeLength ==
    ASSUME TypeInv, NEW n \in Lengths \cup ContLengths, TxLength(n)
    PROVE  TypeInv'
<1> USE DEF TypeInv
<1>1. n \in Nat
  BY PlaybackAssumption
<1>2. txLength' \in 0 .. Supported - 1
  BY <1>1, Limits DEF TxLength
<1>3. UNCHANGED <<useDram, cont, txEn, core, memory, history>> /\ ~running
  BY DEF TxLength, Quiet
<1>4. TypeOK'
  BY <1>2, <1>3 DEF TypeOK, core, memory, history, Supported
<1>5. rd' = 0 /\ ~running'
  BY <1>3 DEF Within, core
<1> QED
  BY <1>2, <1>4, <1>5, Limits DEF Within

LEMMA TypeMode ==
    ASSUME TypeInv, NEW mode \in BOOLEAN, TxMode(mode) PROVE TypeInv'
<1> USE DEF TypeInv
<1>1. irq' \in BOOLEAN /\ err' \in BOOLEAN
  BY ReactsType DEF TxMode
<1>2. unloaded' \in SUBSET RF /\ cont' \in BOOLEAN
  BY DEF TxMode, TypeOK
<1>3. UNCHANGED <<useDram, txLength, txEn, rd, wr, running, lag, bram, ddr, writes,
                  history>>
  BY DEF TxMode
<1> QED
  BY <1>1, <1>2, <1>3 DEF TypeOK, Within, history, Supported

LEMMA TypeEnables ==
    ASSUME TypeInv, NEW sel \in SUBSET RF,
           TxBuffEn(sel) \/ RxBuffEn(sel) \/ TxRxBuffDis(sel)
    PROVE  TypeInv'
<1> USE DEF TypeInv
<1>1. irq' \in BOOLEAN /\ err' \in BOOLEAN
  BY ReactsType DEF TxBuffEn, RxBuffEn, TxRxBuffDis
<1>2. bram' \in [RF -> [0 .. BramSize - 1 -> Cell]]
  <2>1. CASE RxBuffEn(sel)
    BY <2>1 DEF RxBuffEn, memory, TypeOK
  <2>2. CASE ~ RxBuffEn(sel)
    <3>1. Populate(sel, 0, BramSize)
      BY <2>2 DEF TxBuffEn, TxRxBuffDis
    <3> QED
      BY <3>1, PopulateType, Sizes
  <2> QED
    BY <2>1, <2>2
<1>3. /\ txEn' \in SUBSET RF /\ unloaded' \in SUBSET RF /\ armed' \in SUBSET RF
      /\ UNCHANGED <<useDram, txLength, cont, rd, wr, running, lag, ddr, writes,
                     lap, looped, wave, wrong>>
  BY DEF TxBuffEn, RxBuffEn, TxRxBuffDis, TypeOK, memory, history
<1> QED
  BY <1>1, <1>2, <1>3 DEF TypeOK, Within, Supported

LEMMA PutType ==
    ASSUME NEW S, NEW n \in Nat, NEW buf \in [0 .. n - 1 -> S], NEW start \in Nat,
           NEW new \in [0 .. n - 1 -> S]
    PROVE  Put(buf, start, new) \in [0 .. n - 1 -> S]
  BY DEF Put

LEMMA TypeWrite ==
    ASSUME TypeInv, NEW b \in RF, NEW start \in Starts, NEW isLast \in BOOLEAN,
           WriteIq(b, start, isLast)
    PROVE  TypeInv'
<1> USE DEF TypeInv
<1> DEFINE v == writes + 1
           new == Put(ddr[b], start, [i \in DOMAIN ddr[b] |-> v])
<1>1. start \in Nat
  BY PlaybackAssumption
<1>2. v \in 0 .. MaxWrites /\ writes' = v
  BY Registers, Sizes DEF WriteIq
<1>3. /\ bram \in [RF -> [0 .. BramSize - 1 -> Cell]]
      /\ ddr \in [RF -> [0 .. MaxSamples - 1 -> 0 .. MaxWrites]]
      /\ DOMAIN ddr[b] = 0 .. MaxSamples - 1 /\ DOMAIN bram[b] = 0 .. BramSize - 1
      /\ bram[b] \in [0 .. BramSize - 1 -> Cell]
      /\ ddr[b] \in [0 .. MaxSamples - 1 -> 0 .. MaxWrites]
  BY DEF TypeOK
<1>4. new \in [0 .. MaxSamples - 1 -> 0 .. MaxWrites]
  <2>1. [i \in DOMAIN ddr[b] |-> v] \in [0 .. MaxSamples - 1 -> 0 .. MaxWrites]
    BY <1>2, <1>3
  <2> HIDE DEF v
  <2> QED
    BY <1>1, <1>3, <2>1, PutType, Sizes
<1>5. \A i \in 0 .. BramSize - 1 : i \in 0 .. MaxSamples - 1
  BY Sizes
<1>6. CASE useDram
  <2>1. /\ ddr' = [ddr EXCEPT ![b] = new]
        /\ \/ bram' = bram
           \/ bram' = [bram EXCEPT ![b] = [i \in DOMAIN bram[b] |-> <<new[i], i>>]]
    BY <1>6 DEF WriteIq
  <2> HIDE DEF new
  <2>2. ddr' \in [RF -> [0 .. MaxSamples - 1 -> 0 .. MaxWrites]]
    BY <1>3, <1>4, <2>1
  <2>3. [i \in DOMAIN bram[b] |-> <<new[i], i>>] \in [0 .. BramSize - 1 -> Cell]
    BY <1>3, <1>4, <1>5 DEF Cell
  <2>4. bram' \in [RF -> [0 .. BramSize - 1 -> Cell]]
    BY <1>3, <2>1, <2>3
  <2> QED
    BY <1>2, <2>2, <2>4 DEF WriteIq, TypeOK, Within, config, core, history, Supported
<1>7. CASE ~useDram
  <2>1. /\ bram' = [bram EXCEPT ![b] =
                       Put(bram[b], start, [i \in DOMAIN bram[b] |-> <<v, i>>])]
        /\ UNCHANGED ddr
    BY <1>7 DEF WriteIq
  <2>2. [i \in DOMAIN bram[b] |-> <<v, i>>] \in [0 .. BramSize - 1 -> Cell]
    BY <1>2, <1>3, <1>5 DEF Cell
  <2>3. Put(bram[b], start, [i \in DOMAIN bram[b] |-> <<v, i>>])
           \in [0 .. BramSize - 1 -> Cell]
    BY <1>1, <1>3, <2>2, PutType, Sizes
  <2>4. bram' \in [RF -> [0 .. BramSize - 1 -> Cell]]
    BY <1>3, <2>1, <2>3
  <2> QED
    BY <1>2, <2>1, <2>4 DEF WriteIq, TypeOK, Within, config, core, history, Supported
<1> QED
  BY <1>6, <1>7

LEMMA TypeReset == ASSUME TypeInv, BasebandReset PROVE TypeInv'
<1>1. /\ cont' = FALSE /\ txEn' = {} /\ wr' = BramSize
      /\ UNCHANGED <<useDram, txLength, rd, running, err, irq, lag, memory, history>>
  BY DEF BasebandReset
<1>2. wr' \in 0 .. MaxSamples
  BY <1>1, Sizes
<1> QED
  BY <1>1, <1>2 DEF TypeInv, TypeOK, Within, memory, history, Supported

LEMMA TypeStep == TypeInv /\ [Next]_vars => TypeInv'
<1> SUFFICES ASSUME TypeInv, [Next]_vars PROVE TypeInv'
  OBVIOUS
<1>1. CASE StartTx \/ SendSample \/ Isr
  BY <1>1, TypeStart, TypeSend, TypeIsr
<1>2. CASE Host
  BY <1>2, TypeLength, TypeMode, TypeEnables, TypeWrite, TypeReset DEF Host
<1>3. CASE UNCHANGED vars
  BY <1>3 DEF vars, config, core, memory, history, TypeInv, TypeOK, Within, Supported
<1> QED
  BY <1>1, <1>2, <1>3 DEF Next

-----------------------------------------------------------------------------
(* The core's equations.                                                   *)

\* The refill that the core asks for, and the underflow, without unsigned
\* differences.
Wanted ==
    /\ LargeTx /\ txEn # {}
    /\ IF wr < txLength THEN rd <= wr /\ wr - rd < Chunk
                        ELSE cont /\ txLength - rd < Chunk

RunDry ==
    /\ LargeTx /\ txEn # {}
    /\ IF wr < txLength THEN rd = wr ELSE cont /\ rd = txLength

LEMMA Demand == TypeInv => (Refill <=> Wanted) /\ (Underflow <=> RunDry)
<1> SUFFICES ASSUME TypeInv PROVE (Refill <=> Wanted) /\ (Underflow <=> RunDry)
  OBVIOUS
<1>1. /\ wr \in Nat /\ txLength \in Nat /\ rd \in Nat /\ rd <= txLength
      /\ txLength < MaxSamples /\ MaxSamples \in Nat /\ Chunk \in Nat
      /\ Chunk < MaxSamples /\ (LargeTx => Threshold = Chunk)
  BY Registers, Limits, Sizes DEF TypeInv, Within
<1>2. CASE wr < txLength
  <2>1. Occupancy = IF wr - rd < 0 THEN wr - rd + 1024 * MaxSamples ELSE wr - rd
    BY <1>2 DEF Occupancy, WriteNotDone
  <2> QED
    BY <1>1, <1>2, <2>1 DEF Refill, Underflow, Wanted, RunDry, NotFinal, WriteNotDone
<1>3. CASE ~ (wr < txLength)
  <2>1. Occupancy = txLength - rd
    BY <1>1, <1>3 DEF Occupancy, WriteNotDone
  <2> QED
    BY <1>1, <1>3, <2>1 DEF Refill, Underflow, Wanted, RunDry, NotFinal, WriteNotDone
<1> QED
  BY <1>2, <1>3

(* The same of the state that a step leads to. *)
LEMMA DemandNext == TypeInv' => (Refill' <=> Wanted') /\ (Underflow' <=> RunDry')
<1> SUFFICES ASSUME TypeInv' PROVE (Refill' <=> Wanted') /\ (Underflow' <=> RunDry')
  OBVIOUS
<1> QED
  BY Demand, PTL

(* The interrupt rises, and the underflow latch is set. *)
LEMMA Reacts ==
    ASSUME TypeInv, TypeInv', NEW STATE pending, pending \in BOOLEAN,
           CoreReacts(pending)
    PROVE  /\ irq' <=> pending \/ (~Wanted /\ Wanted')
           /\ err' <=> err \/ RunDry'
<1>1. /\ irq' = (pending \/ (~Refill /\ Refill'))
      /\ err' = (err \/ Underflow')
  BY DEF CoreReacts
<1>2. (irq' <=> pending \/ (~Refill /\ Refill')) /\ (err' <=> err \/ Underflow')
  BY <1>1, Zenon
<1> QED
  BY <1>2, Demand, DemandNext, Zenon

-----------------------------------------------------------------------------
(* The handler keeps ahead of the radio.                                   *)

LEMMA Facts ==
    ASSUME CoreInv
    PROVE  /\ txLength \in Nat /\ rd \in Nat /\ wr \in Nat /\ lag \in Nat
           /\ MaxLag \in Nat /\ lag <= MaxLag /\ rd <= txLength
           /\ Chunk \in Nat /\ Chunk >= 2 /\ BramSize = 2 * Chunk
           /\ LargeTx => useDram /\ txLength > 2 * Chunk /\ txLength % Chunk # 0
           /\ ~LargeTx => txLength < 2 * Chunk
           /\ ~running => rd = 0
           /\ irq => LargeTx
<1>1. /\ txLength \in Nat /\ rd \in Nat /\ wr \in Nat /\ lag \in Nat
      /\ lag <= MaxLag /\ (LargeTx => useDram)
  BY Registers DEF CoreInv, TypeInv
<1>2. LargeTx <=> txLength >= BramSize
  <2>1. txLength # BramSize
    BY WholeBram, Sizes DEF CoreInv, Length
  <2> QED
    BY <1>1, <2>1, Sizes DEF LargeTx
<1>3. LargeTx => txLength % Chunk # 0
  BY <1>1, Sizes DEF CoreInv, Length, LargeTx
<1> QED
  BY <1>1, <1>2, <1>3, Sizes DEF CoreInv, TypeInv, Within, Control, LargeTx

LEMMA InitCore == Init => CoreInv
<1> SUFFICES ASSUME Init PROVE CoreInv
  OBVIOUS
<1>1. TypeInv
  BY InitType
<1>2. Length
  BY Sizes DEF Init, Length
<1>3. Control /\ Window
  BY Sizes DEF Init, Control, Window, Quiet, LargeTx
<1> QED
  BY <1>1, <1>2, <1>3 DEF CoreInv

LEMMA CoreStart ==
    ASSUME CoreInv, TypeInv', StartTx
    PROVE  CoreInv'
<1>1. /\ ~running /\ ~irq /\ txEn # {} /\ running' = TRUE /\ err' = FALSE
      /\ armed' = txEn \ unloaded /\ looped' = cont
      /\ UNCHANGED <<useDram, txLength, cont, txEn, rd, wr, irq, lag>>
  BY DEF StartTx, config
<1>2. Length'
  BY <1>1 DEF CoreInv, Length
<1>3. wr \in {Chunk, BramSize} /\ rd = 0
  BY <1>1, Facts DEF CoreInv, Control, Quiet
<1>4. Control'
  BY <1>1, <1>3 DEF CoreInv, Control, LargeTx, Quiet
<1>5. Window'
  <2> SUFFICES ASSUME LargeTx PROVE Filling'
    BY <1>1 DEF Window, LargeTx
  <2>1. wr < txLength /\ wr >= Chunk /\ wr % Chunk = 0 /\ rd <= wr - Chunk /\ rd < wr
    BY <1>3, Facts, WholeBram
  <2> QED
    BY <1>1, <2>1 DEF Filling
<1> QED
  BY <1>2, <1>4, <1>5 DEF CoreInv

LEMMA SendReacts ==
    ASSUME TypeInv, TypeInv', SendSample
    PROVE  /\ irq' <=> \/ irq \/ (~Wanted /\ Wanted')
                       \/ LargeTx /\ ~NotFinal /\ rd >= txLength /\ ~cont
           /\ err' <=> err \/ RunDry'
<1> DEFINE pending == irq \/ (LargeTx /\ ~NotFinal /\ rd >= txLength /\ ~cont)
<1>1. CoreReacts(pending)
  BY DEF SendSample
<1>2. pending \in BOOLEAN
  BY Registers DEF TypeInv
<1> HIDE DEF pending
<1>3. (irq' <=> pending \/ (~Wanted /\ Wanted')) /\ (err' <=> err \/ RunDry')
  BY <1>1, <1>2, Reacts
<1> QED
  BY <1>3, Zenon DEF pending

\* The next sample, when the waveform goes on or starts over.
LEMMA CoreSend ==
    ASSUME CoreInv, TypeInv', Ordinary, SendSample
    PROVE  CoreInv'
<1> DEFINE final == rd >= txLength
<1>1. /\ running /\ (irq => lag < MaxLag)
      /\ rd' = IF final THEN 0 ELSE rd + 1
      /\ running' = ~(final /\ ~cont)
      /\ lag' = IF irq THEN lag + 1 ELSE 0
      /\ UNCHANGED <<useDram, txLength, cont, txEn, wr, armed, looped>>
  BY DEF SendSample, config
<1>2. TypeInv
  BY DEF CoreInv
<1>3. /\ irq' <=> \/ irq \/ (~Wanted /\ Wanted')
                  \/ LargeTx /\ ~NotFinal /\ final /\ ~cont
      /\ err' <=> err \/ RunDry'
  BY <1>2, SendReacts
<1>4. LargeTx' <=> LargeTx
  BY <1>1 DEF LargeTx
<1>5. /\ txEn # {} /\ armed \subseteq txEn /\ (cont => looped)
      /\ (~LargeTx => wr \in {Chunk, BramSize}) /\ (irq => LargeTx)
  BY <1>1 DEF CoreInv, Control
<1>6. /\ txLength \in Nat /\ rd \in Nat /\ wr \in Nat /\ lag \in Nat
      /\ MaxLag \in Nat /\ MaxLag <= Chunk /\ rd <= txLength
      /\ Chunk \in Nat /\ Chunk >= 2
  BY Facts DEF Ordinary
<1>7. Length'
  BY <1>1 DEF CoreInv, Length
<1>8. CASE ~LargeTx
  <2>1. ~irq'
    BY <1>3, <1>4, <1>5, <1>8 DEF Wanted
  <2>2. Control'
    BY <1>1, <1>4, <1>5, <1>8, <2>1 DEF Control, Quiet
  <2>3. Window'
    BY <1>4, <1>8 DEF Window
  <2> QED
    BY <1>7, <2>2, <2>3 DEF CoreInv
<1>9. ASSUME LargeTx
      PROVE  /\ txLength > 2 * Chunk
             /\ Wanted <=> IF wr < txLength THEN rd <= wr /\ wr - rd < Chunk
                                            ELSE cont /\ txLength - rd < Chunk
             /\ Wanted' <=> IF wr < txLength THEN rd' <= wr /\ wr - rd' < Chunk
                                             ELSE cont /\ txLength - rd' < Chunk
             /\ RunDry' <=> IF wr < txLength THEN rd' = wr
                                             ELSE cont /\ rd' = txLength
             /\ NotFinal <=> wr < txLength \/ cont
  BY <1>1, <1>4, <1>5, <1>9, Facts
     DEF Wanted, RunDry, NotFinal, WriteNotDone
<1>10. CASE LargeTx /\ Filling
  <2>1. /\ wr < txLength /\ wr >= Chunk /\ wr % Chunk = 0
        /\ (irq => rd = wr - Chunk + 1 + lag) /\ (~irq => rd <= wr - Chunk)
        /\ err \/ rd < wr
    BY <1>10 DEF Filling
  <2>2. ~final
    BY <1>1, <1>6, <2>1
  <2>3. rd' = rd + 1 /\ running'
    BY <1>1, <2>2
  <2>4. Wanted <=> rd <= wr /\ wr - rd < Chunk
    BY <1>9, <1>10, <2>1
  <2>5. Wanted' <=> rd + 1 <= wr /\ wr - (rd + 1) < Chunk
    BY <1>9, <1>10, <2>1, <2>3
  <2>6. RunDry' <=> rd + 1 = wr
    BY <1>9, <1>10, <2>1, <2>3
  <2>7. irq' <=> irq \/ (~Wanted /\ Wanted')
    BY <1>3, <2>2
  <2>8. irq' => rd' = wr - Chunk + 1 + lag'
    <3>1. CASE irq
      BY <1>1, <1>6, <2>1, <2>3, <3>1
    <3>2. CASE ~irq
      BY <1>1, <1>6, <2>1, <2>3, <2>4, <2>5, <2>7, <3>2
    <3> QED
      BY <3>1, <3>2
  <2>9. ~irq' => rd' <= wr - Chunk
    BY <1>6, <2>1, <2>3, <2>4, <2>5, <2>7
  <2>10. err' \/ rd' < wr
    BY <1>3, <1>6, <2>1, <2>3, <2>6
  <2>11. Filling'
    BY <1>1, <2>1, <2>8, <2>9, <2>10 DEF Filling
  <2>12. Control'
    BY <1>1, <1>4, <1>5, <1>10, <2>3 DEF Control, Quiet
  <2> QED
    BY <1>7, <2>11, <2>12 DEF CoreInv, Window
<1>11. CASE LargeTx /\ Filled
  <2>1. /\ wr > txLength /\ wr <= txLength + Chunk /\ wr % Chunk = 0
        /\ irq => cont /\ (Late(0) \/ (err /\ Late(1)))
        /\ ~irq /\ cont => err \/ rd <= txLength - Chunk
        /\ ~err /\ cont => rd < txLength
    BY <1>11 DEF Filled
  <2>2. /\ Wanted <=> cont /\ txLength - rd < Chunk
        /\ Wanted' <=> cont /\ txLength - rd' < Chunk
        /\ RunDry' <=> cont /\ rd' = txLength
        /\ NotFinal <=> cont
    BY <1>6, <1>9, <1>11, <2>1
  <2>3. CASE ~cont
    <3>1. ~irq /\ (irq' <=> final) /\ (err' <=> err)
      BY <1>3, <1>11, <2>1, <2>2, <2>3
    <3>2. running' => Filled'
      <4>1. irq' => ~running'
        BY <1>1, <2>3, <3>1
      <4> QED
        BY <1>1, <2>1, <2>3, <3>1, <4>1 DEF Filled
    <3>3. Control'
      <4>1. irq' => final
        BY <3>1
      <4>2. ~Quiet'
        BY <1>1, <3>1 DEF Quiet
      <4>3. ~WriteNotDone'
        BY <1>1, <1>6, <2>1 DEF WriteNotDone
      <4> QED
        BY <1>1, <1>4, <1>5, <1>11, <2>3, <4>2, <4>3 DEF Control
    <3> QED
      BY <1>7, <3>2, <3>3 DEF CoreInv, Window
  <2>4. CASE cont
    <3>0. running'
      BY <1>1, <2>4
    <3>1. irq' <=> irq \/ (txLength - rd >= Chunk /\ txLength - rd' < Chunk)
      BY <1>1, <1>3, <1>6, <2>2, <2>4
    <3>2. err' <=> err \/ rd' = txLength
      BY <1>3, <2>2, <2>4
    <3>3. Control'
      BY <1>1, <1>4, <1>5, <1>11, <2>4, <3>0 DEF Control, Quiet
    <3>4. CASE final
      <4>1. rd = txLength /\ rd' = 0 /\ err /\ err'
        BY <1>1, <1>6, <2>1, <2>4, <3>2, <3>4
      <4>2. irq' <=> irq
        BY <1>6, <1>9, <1>11, <3>1, <4>1
      <4>3. ASSUME irq, NEW d \in {0, 1}, Late(d) PROVE Late(d)'
        BY <1>1, <1>6, <1>9, <1>11, <4>1, <4>3 DEF Late
      <4>4. irq' => Late(0)' \/ Late(1)'
        BY <2>1, <4>2, <4>3
      <4>5. Filled'
        BY <1>1, <2>1, <2>4, <4>1, <4>4 DEF Filled
      <4> QED
        BY <1>7, <3>3, <4>5 DEF CoreInv, Window
    <3>5. CASE ~final
      <4>1. rd' = rd + 1 /\ rd' <= txLength
        BY <1>1, <1>6, <3>5
      <4>2. CASE irq
        <5>1. irq' /\ lag' = lag + 1 /\ (err => err')
          BY <1>1, <3>1, <3>2, <4>2
        <5>2. ASSUME NEW d \in {0, 1}, Late(d) PROVE Late(d)'
          BY <1>1, <1>6, <4>1, <5>1, <5>2 DEF Late
        <5>3. Late(0)' \/ (err' /\ Late(1)')
          BY <2>1, <4>2, <5>1, <5>2
        <5>4. ~err' => rd' < txLength
          BY <1>6, <3>2, <4>1
        <5> QED
          BY <1>1, <1>7, <2>1, <2>4, <3>3, <5>1, <5>3, <5>4
             DEF CoreInv, Window, Filled
      <4>3. CASE ~irq
        <5>1. irq' => Late(0)'
          BY <1>1, <1>6, <3>1, <4>1, <4>3 DEF Late
        <5>2. ~irq' => err' \/ rd' <= txLength - Chunk
          BY <1>1, <1>6, <2>1, <2>4, <3>1, <3>2, <4>1, <4>3
        <5>3. ~err' => rd' < txLength
          BY <1>6, <3>2, <4>1
        <5> QED
          BY <1>1, <1>7, <2>1, <2>4, <3>3, <5>1, <5>2, <5>3
             DEF CoreInv, Window, Filled
      <4> QED
        BY <4>2, <4>3
    <3> QED
      BY <3>4, <3>5
  <2> QED
    BY <2>3, <2>4
<1>12. CASE LargeTx /\ Wrapped
  <2>1. /\ wr = Chunk /\ ~irq /\ looped /\ rd > txLength - Chunk
        /\ (txLength + 1) % BramSize = 0
    BY <1>12 DEF Wrapped
  <2>2. ~irq'
    <3>1. rd' = 0 \/ rd' = rd + 1
      BY <1>1
    <3>2. ~Wanted' /\ NotFinal
      BY <1>6, <1>9, <1>12, <2>1, <3>1
    <3> QED
      BY <1>3, <2>1, <3>2
  <2>3. Control'
    BY <1>1, <1>4, <1>5, <1>12, <2>1, <2>2 DEF Control, Quiet
  <2>4. CASE final
    <3>1. rd' = 0
      BY <1>1, <2>4
    <3>2. Filling'
      <4>1. wr < txLength /\ wr % Chunk = 0 /\ 0 < wr /\ 0 <= wr - Chunk
        BY <1>6, <1>9, <1>12, <2>1, WholeBram
      <4> QED
        BY <1>1, <1>6, <2>1, <2>2, <3>1, <4>1 DEF Filling
    <3> QED
      BY <1>7, <2>3, <3>2 DEF CoreInv, Window
  <2>5. CASE ~final
    <3>1. Wrapped'
      BY <1>1, <1>6, <2>1, <2>2, <2>5 DEF Wrapped
    <3> QED
      BY <1>7, <2>3, <3>1 DEF CoreInv, Window
  <2> QED
    BY <2>4, <2>5
<1> QED
  BY <1>1, <1>8, <1>10, <1>11, <1>12 DEF CoreInv, Window

\* The interrupt: the next chunk, the first one of the next lap, or both
\* chunks of the next transmission.
LEMMA CoreIsr ==
    ASSUME CoreInv, TypeInv', Ordinary, Isr
    PROVE  CoreInv'
<1>1. /\ irq /\ lag' = 0
      /\ UNCHANGED <<useDram, txLength, cont, txEn, rd, running, armed, looped>>
  BY DEF Isr, config, history
<1>2. TypeInv
  BY DEF CoreInv
<1>3. (irq' <=> ~Wanted /\ Wanted') /\ (err' <=> err \/ RunDry')
  <2>1. CoreReacts(FALSE)
    BY DEF Isr
  <2>2. (irq' <=> FALSE \/ (~Wanted /\ Wanted')) /\ (err' <=> err \/ RunDry')
    BY <1>2, <2>1, Reacts
  <2> QED
    BY <2>2
<1>4. LargeTx /\ LargeTx' /\ useDram /\ txEn # {} /\ txLength > 2 * Chunk
  BY <1>1, Facts DEF CoreInv, Control, LargeTx
<1>5. wr' = NextOffset + XferLength
  BY <1>4 DEF Isr, TxIqError
<1>6. /\ txLength \in Nat /\ rd \in Nat /\ wr \in Nat /\ wr' \in Nat /\ lag \in Nat
      /\ lag <= MaxLag /\ MaxLag \in Nat /\ MaxLag <= Chunk /\ rd <= txLength
      /\ Chunk \in Nat /\ Chunk >= 2 /\ BramSize = 2 * Chunk
      /\ txLength % Chunk # 0
  <2>1. wr' \in Nat
    BY Sizes DEF TypeInv, TypeOK
  <2> QED
    BY <1>4, <2>1, Facts DEF Ordinary
<1>7. Length'
  BY <1>1 DEF CoreInv, Length
<1>8. running => armed \subseteq txEn /\ (cont => looped)
  BY DEF CoreInv, Control
<1>9. ASSUME irq' => LargeTx, ~running => ~irq' /\ wr' \in {Chunk, BramSize}
      PROVE  Control'
  BY <1>1, <1>4, <1>8, <1>9 DEF Control, Quiet, LargeTx
<1>10. /\ Wanted <=> IF wr < txLength THEN rd <= wr /\ wr - rd < Chunk
                                      ELSE cont /\ txLength - rd < Chunk
       /\ Wanted' <=> IF wr' < txLength THEN rd <= wr' /\ wr' - rd < Chunk
                                        ELSE cont /\ txLength - rd < Chunk
       /\ RunDry' <=> IF wr' < txLength THEN rd = wr' ELSE cont /\ rd = txLength
  BY <1>1, <1>4 DEF Wanted, RunDry
<1>11. CASE ~running
  <2>1. ~WriteNotDone /\ ~cont
    BY <1>1, <1>11 DEF CoreInv, Control
  <2>2. wr' = BramSize
    BY <1>5, <1>6, <2>1 DEF NextOffset, XferLength
  <2>3. rd = 0
    BY <1>11, Facts
  <2>4. ~irq'
    BY <1>3, <1>4, <1>6, <1>10, <2>2, <2>3
  <2>5. Control'
    BY <1>9, <2>2, <2>4
  <2>6. Window'
    BY <1>1, <1>11 DEF Window
  <2> QED
    BY <1>7, <2>5, <2>6 DEF CoreInv
<1>12. CASE running /\ Filling
  <2>1. /\ wr < txLength /\ wr >= Chunk /\ wr % Chunk = 0
        /\ rd = wr - Chunk + 1 + lag /\ (err \/ rd < wr)
    BY <1>1, <1>12 DEF Filling
  <2>2. /\ wr' = wr + Chunk /\ (wr + Chunk) % Chunk = 0 /\ wr + Chunk # txLength
    <3>0. Chunk \in Nat \ {0} /\ wr \in Int
      BY <1>6
    <3>1. Chunk * (wr \div Chunk) = wr /\ (wr + Chunk) % Chunk = 0
      BY <2>1, <3>0, Multiples
    <3>2. wr' = wr + Chunk
      BY <1>5, <2>1, <3>1 DEF NextOffset, XferLength, WriteNotDone
    <3> QED
      BY <1>6, <3>1, <3>2
  <2>3. Wanted <=> rd <= wr
    BY <1>6, <1>10, <2>1
  <2>4. Control'
    BY <1>4, <1>9, <1>12
  <2>5. CASE wr + Chunk < txLength
    <3>1. Wanted' <=> lag = Chunk
      BY <1>6, <1>10, <2>1, <2>2, <2>5
    <3>2. irq' <=> lag = Chunk
      BY <1>3, <1>6, <2>1, <2>3, <3>1
    <3>3. Filling'
      BY <1>1, <1>6, <2>1, <2>2, <2>5, <3>2 DEF Filling
    <3> QED
      BY <1>7, <2>4, <3>3 DEF CoreInv, Window
  <2>6. CASE wr + Chunk > txLength
    <3>1. (Wanted' <=> cont /\ txLength - rd < Chunk) /\ ((cont /\ rd = txLength) => err')
      BY <1>3, <1>10, <1>6, <2>2, <2>6
    <3>2. CASE ~cont
      <4>1. ~irq'
        BY <1>3, <3>1, <3>2
      <4> QED
        BY <1>1, <1>6, <1>7, <2>1, <2>2, <2>4, <2>6, <3>2, <4>1
           DEF CoreInv, Window, Filled
    <3>3. CASE cont
      <4>1. txLength + 1 = wr + Chunk
        <5>1. (txLength + 1) % BramSize = 0
          BY <1>4, <1>6, <3>3 DEF CoreInv, Length
        <5> QED
          BY <1>6, <2>1, <2>6, <5>1, LastChunk
      <4>2. rd = txLength + 2 - 2 * Chunk + lag
        BY <1>6, <2>1, <4>1
      <4>3. irq' <=> lag = Chunk
        BY <1>3, <1>6, <2>1, <2>3, <3>1, <3>3, <4>1
      <4>4. err => err'
        BY <1>3
      <4>5. irq' => err' /\ Late(1)'
        BY <1>1, <1>6, <2>1, <4>1, <4>2, <4>3, <4>4 DEF Late
      <4>6. ~irq' => err' \/ rd <= txLength - Chunk
        BY <1>6, <2>1, <4>1, <4>2, <4>3, <4>4
      <4>7. ~err' => rd < txLength
        BY <1>6, <3>1, <3>3
      <4>8. Filled'
        BY <1>1, <1>6, <2>1, <2>2, <2>6, <3>3, <4>5, <4>6, <4>7 DEF Filled
      <4> QED
        BY <1>7, <2>4, <4>8 DEF CoreInv, Window
    <3> QED
      BY <3>2, <3>3
  <2> QED
    BY <1>6, <2>1, <2>2, <2>5, <2>6
<1>13. CASE running /\ Filled
  <2>1. wr > txLength /\ cont /\ (Late(0) \/ (err /\ Late(1)))
    BY <1>1, <1>13 DEF Filled
  <2>2. wr' = Chunk /\ Chunk < txLength /\ Chunk % Chunk = 0
    BY <1>4, <1>5, <1>6, <2>1, WholeBram DEF NextOffset, XferLength, WriteNotDone
  <2>3. /\ Wanted <=> txLength - rd < Chunk
        /\ Wanted' <=> rd <= Chunk /\ Chunk - rd < Chunk
    BY <1>6, <1>10, <2>1, <2>2
  <2>4. Control'
    BY <1>4, <1>9, <1>13
  <2>5. (txLength + 1) % BramSize = 0
    BY <1>4, <1>6, <2>1 DEF CoreInv, Length
  <2>6. CASE rd > txLength - Chunk
    <3>1. ~irq'
      BY <1>3, <1>4, <1>6, <2>3, <2>6
    <3>2. Wrapped'
      BY <1>1, <1>8, <1>13, <2>1, <2>2, <2>5, <2>6, <3>1 DEF Wrapped
    <3> QED
      BY <1>7, <2>4, <3>2 DEF CoreInv, Window
  <2>7. CASE ~ (rd > txLength - Chunk)
    <3>1. err /\ rd \in {0, 1}
      BY <1>6, <2>1, <2>7 DEF Late
    <3>2. irq' <=> rd = 1
      BY <1>3, <1>4, <1>6, <2>3, <3>1
    <3>3. err'
      BY <1>3, <3>1
    <3>4. Filling'
      BY <1>1, <1>6, <2>2, <3>1, <3>2, <3>3 DEF Filling
    <3> QED
      BY <1>7, <2>4, <3>4 DEF CoreInv, Window
  <2> QED
    BY <2>6, <2>7
<1>14. ~ Wrapped
  BY <1>1 DEF Wrapped
<1> QED
  BY <1>4, <1>11, <1>12, <1>13, <1>14 DEF CoreInv, Window

(* Between transmissions the core asks for nothing. *)
LEMMA QuietCore ==
    ASSUME CoreInv, Quiet
    PROVE  ~Wanted
  BY Facts DEF CoreInv, Control, Wanted, Quiet

LEMMA CoreLength ==
    ASSUME CoreInv, TypeInv', Ordinary, NEW n \in Lengths \cup ContLengths, TxLength(n)
    PROVE  CoreInv'
<1>1. /\ Quiet /\ n \in Nat
      /\ txLength' = CASE n = 0 -> 0 [] n > Supported -> Supported - 1
                       [] OTHER -> n - 1
      /\ (cont => n \in ContLengths)
      /\ UNCHANGED <<useDram, cont, txEn, core, memory, history>>
  BY PlaybackAssumption DEF TxLength
<1>2. n <= BramSize \/ (n - 1) % Chunk # 0
  BY DEF Ordinary, WholeChunks
<1>3. cont => n <= BramSize \/ (n % BramSize = 0 /\ n <= MaxSamples)
  BY <1>1 DEF Ordinary, WholeChunks
<1>4. /\ BramSize \in Nat \ {0} /\ MaxSamples \in Nat /\ BramSize <= MaxSamples
      /\ Supported \in {BramSize, MaxSamples}
  BY Sizes DEF Supported
<1>5. CASE n = 0
  <2>1. txLength' = 0
    BY <1>1, <1>4, <1>5
  <2> QED
    BY <1>1, <1>4, <2>1
       DEF CoreInv, Length, Control, Window, Quiet, LargeTx, core, history
<1>6. CASE n > Supported
  <2>1. txLength' = Supported - 1
    BY <1>1, <1>4, <1>6
  <2>2. txLength' < BramSize \/ txLength' % Chunk # 0
    BY <1>4, <2>1, WholeBram
  <2>3. cont => txLength' < BramSize
    BY <1>1, <1>3, <1>4, <1>6, <2>1
  <2>4. Length'
    BY <1>1, <2>2, <2>3 DEF Length
  <2> QED
    BY <1>1, <2>4 DEF CoreInv, Control, Window, Quiet, LargeTx, core, history
<1>7. CASE n # 0 /\ n <= Supported
  <2>1. txLength' = n - 1 /\ n - 1 + 1 = n
    BY <1>1, <1>4, <1>7
  <2>2. Length'
    BY <1>1, <1>2, <1>3, <1>4, <2>1 DEF Length
  <2> QED
    BY <1>1, <2>2 DEF CoreInv, Control, Window, Quiet, LargeTx, core, history
<1> QED
  BY <1>1, <1>4, <1>5, <1>6, <1>7

LEMMA CoreMode ==
    ASSUME CoreInv, TypeInv', Ordinary, NEW mode \in BOOLEAN, TxMode(mode)
    PROVE  CoreInv'
<1>1. /\ ~irq /\ cont' = mode
      /\ (mode => Quiet /\ txLength + 1 \in ContLengths)
      /\ UNCHANGED <<useDram, txLength, txEn, rd, wr, running, lag, armed, looped>>
  BY DEF TxMode, history
<1>2. (irq' <=> ~Wanted /\ Wanted') /\ (err' <=> err \/ RunDry')
  <2>1. CoreReacts(irq) /\ irq \in BOOLEAN /\ TypeInv
    BY Registers DEF TxMode, CoreInv, TypeInv
  <2>2. (irq' <=> irq \/ (~Wanted /\ Wanted')) /\ (err' <=> err \/ RunDry')
    BY <2>1, Reacts
  <2> QED
    BY <1>1, <2>2
<1>3. LargeTx' <=> LargeTx
  BY <1>1 DEF LargeTx
<1>4. ~irq'
  <2>1. CASE Quiet
    <3>1. ~Wanted'
      BY <1>1, <1>3, <2>1, Facts DEF CoreInv, Control, Wanted, Quiet
    <3> QED
      BY <1>2, <3>1
  <2>2. CASE ~Quiet
    <3>1. ~mode /\ running
      BY <1>1, <2>2 DEF Quiet
    <3>2. Wanted' => Wanted
      BY <1>1, <1>3, <3>1 DEF Wanted
    <3> QED
      BY <1>2, <3>2
  <2> QED
    BY <2>1, <2>2
<1>5. Length'
  <2>1. CASE mode
    <3>1. /\ txLength + 1 \in ContLengths /\ txLength \in Nat /\ BramSize \in Nat
          /\ txLength' = txLength
      BY <1>1, <2>1, Facts
    <3>2. txLength < BramSize \/ (txLength + 1) % BramSize = 0
      BY <3>1 DEF Ordinary, WholeChunks
    <3> QED
      BY <1>1, <3>2 DEF CoreInv, Length
  <2>2. CASE ~mode
    BY <1>1, <2>2 DEF CoreInv, Length
  <2> QED
    BY <2>1, <2>2
<1>6. Control'
  BY <1>1, <1>3, <1>4 DEF CoreInv, Control, Quiet
<1>7. Window'
  <2> SUFFICES ASSUME running, LargeTx PROVE (Filling \/ Filled \/ Wrapped)'
    BY <1>1, <1>3 DEF Window
  <2>1. ~mode /\ (err => err')
    BY <1>1, <1>2 DEF Quiet
  <2>2. Filling => Filling'
    BY <1>1, <1>4, <2>1 DEF Filling
  <2>3. Filled => Filled'
    BY <1>1, <1>4, <2>1 DEF Filled
  <2>4. Wrapped => Wrapped'
    BY <1>1, <1>4 DEF Wrapped
  <2> QED
    BY <2>2, <2>3, <2>4 DEF CoreInv, Window
<1> QED
  BY <1>5, <1>6, <1>7 DEF CoreInv

LEMMA CoreEnables ==
    ASSUME CoreInv, TypeInv', Ordinary, NEW sel \in SUBSET RF,
           TxBuffEn(sel) \/ RxBuffEn(sel) \/ TxRxBuffDis(sel)
    PROVE  CoreInv'
<1>1. /\ ~irq
      /\ UNCHANGED <<useDram, txLength, cont, rd, wr, running, lag, looped>>
      /\ armed' \subseteq armed
      /\ running => txEn' # {} /\ (armed \subseteq txEn => armed' \subseteq txEn')
  <2>1. CASE TxBuffEn(sel)
    <3>1. txEn' = txEn \cup sel /\ armed' = armed /\ (running => txEn # {})
      BY <2>1 DEF TxBuffEn, history, CoreInv, Control
    <3> QED
      BY <2>1, <3>1 DEF TxBuffEn, history
  <2>2. CASE RxBuffEn(sel) \/ TxRxBuffDis(sel)
    <3>1. /\ txEn' = txEn \ sel /\ armed' = armed \ sel
          /\ (running => txEn \ sel # {})
      BY <2>2 DEF RxBuffEn, TxRxBuffDis, MayDisable, Ordinary
    <3> QED
      BY <2>2, <3>1 DEF RxBuffEn, TxRxBuffDis
  <2> QED
    BY <2>1, <2>2
<1>2. (irq' <=> ~Wanted /\ Wanted') /\ (err' <=> err \/ RunDry')
  <2>1. CoreReacts(irq) /\ irq \in BOOLEAN /\ TypeInv
    BY Registers DEF TxBuffEn, RxBuffEn, TxRxBuffDis, CoreInv, TypeInv
  <2>2. (irq' <=> irq \/ (~Wanted /\ Wanted')) /\ (err' <=> err \/ RunDry')
    BY <2>1, Reacts
  <2> QED
    BY <1>1, <2>2
<1>3. LargeTx' <=> LargeTx
  BY <1>1 DEF LargeTx
<1>4. ~irq'
  <2>1. CASE Quiet
    <3>1. ~Wanted'
      BY <1>1, <1>3, <2>1, Facts DEF CoreInv, Control, Wanted, Quiet
    <3> QED
      BY <1>2, <3>1
  <2>2. CASE ~Quiet
    <3>1. running /\ txEn # {}
      BY <1>1, <2>2 DEF Quiet, CoreInv, Control
    <3>2. Wanted' => Wanted
      BY <1>1, <1>3, <3>1 DEF Wanted
    <3> QED
      BY <1>2, <3>2
  <2> QED
    BY <2>1, <2>2
<1>5. Length'
  BY <1>1 DEF CoreInv, Length
<1>6. Control'
  BY <1>1, <1>3, <1>4 DEF CoreInv, Control, Quiet
<1>7. Window'
  <2> SUFFICES ASSUME running, LargeTx PROVE (Filling \/ Filled \/ Wrapped)'
    BY <1>1, <1>3 DEF Window
  <2>1. err => err'
    BY <1>2
  <2>2. Filling => Filling'
    BY <1>1, <1>4, <2>1 DEF Filling
  <2>3. Filled => Filled'
    BY <1>1, <1>4, <2>1 DEF Filled
  <2>4. Wrapped => Wrapped'
    BY <1>1, <1>4 DEF Wrapped
  <2> QED
    BY <2>2, <2>3, <2>4 DEF CoreInv, Window
<1> QED
  BY <1>5, <1>6, <1>7 DEF CoreInv

LEMMA CoreSame ==
    ASSUME CoreInv, TypeInv', UNCHANGED <<config, core>>, UNCHANGED <<armed, looped>>
    PROVE  CoreInv'
<1> USE DEF config, core
<1>1. Length' /\ Control'
  BY DEF CoreInv, Length, Control, Quiet, LargeTx, WriteNotDone
<1>2. Window'
  BY DEF CoreInv, Window, Filling, Filled, Wrapped, Late, LargeTx
<1> QED
  BY <1>1, <1>2 DEF CoreInv

LEMMA CoreReset == ASSUME CoreInv, TypeInv', BasebandReset PROVE CoreInv'
<1>1. /\ Quiet /\ cont' = FALSE /\ wr' = BramSize
      /\ UNCHANGED <<useDram, txLength, rd, running, irq>>
  BY DEF BasebandReset
<1>2. Length'
  BY <1>1 DEF CoreInv, Length
<1>3. Control' /\ Window'
  BY <1>1 DEF CoreInv, Control, Window, Quiet
<1> QED
  BY <1>2, <1>3 DEF CoreInv

LEMMA CoreStep == Ordinary /\ CoreInv /\ [Next]_vars => CoreInv'
<1> SUFFICES ASSUME Ordinary, CoreInv, [Next]_vars PROVE CoreInv'
  OBVIOUS
<1>1. TypeInv'
  BY TypeStep DEF CoreInv
<1>2. CASE StartTx \/ SendSample \/ Isr
  BY <1>1, <1>2, CoreStart, CoreSend, CoreIsr
<1>3. ASSUME NEW b \in RF, NEW s \in Starts, NEW isLast \in BOOLEAN, WriteIq(b, s, isLast)
      PROVE  CoreInv'
  BY <1>1, <1>3, CoreSame DEF WriteIq, history
<1>4. CASE Host
  BY <1>1, <1>3, <1>4, CoreLength, CoreMode, CoreEnables, CoreReset DEF Host
<1>5. CASE UNCHANGED vars
  BY <1>1, <1>5, CoreSame DEF vars, history
<1> QED
  BY <1>2, <1>4, <1>5 DEF Next

-----------------------------------------------------------------------------
(* What the radio sends.                                                   *)

LEMMA InitPlay == Init => PlayInv
<1> SUFFICES ASSUME Init PROVE PlayInv
  OBVIOUS
<1>1. CoreInv
  BY InitCore
<1>2. Data /\ Kept /\ Played
  BY DEF Init, Data, Kept, Played
<1>3. Dry
  BY DEF Init, Dry
<1> QED
  BY <1>1, <1>2, <1>3 DEF PlayInv

(* Without an underflow the radio is never where the handler writes next. *)
Clear == running /\ LargeTx /\ ~err => rd # wr

LEMMA NotOn == CoreInv => Clear
<1> SUFFICES ASSUME CoreInv, running, LargeTx, ~err PROVE rd # wr
  BY DEF Clear
<1>1. CASE Filling
  BY <1>1, Facts DEF Filling
<1>2. CASE Filled
  BY <1>2, Facts DEF Filled
<1>3. CASE Wrapped
  BY <1>3, Facts DEF Wrapped
<1> QED
  BY <1>1, <1>2, <1>3 DEF CoreInv, Window

LEMMA NotOnNext == CoreInv' => Clear'
  BY NotOn, PTL

LEMMA PopulatedBram ==
    ASSUME NEW sel, NEW offset, NEW len, Populate(sel, offset, len), NEW b \in RF
    PROVE  bram'[b] = IF useDram /\ b \in sel THEN Populated(b, offset, len)
                                              ELSE bram[b]
  BY DEF Populate

(* A preload of the whole BRAM. *)
LEMMA Preloaded ==
    ASSUME NEW b, NEW i \in 0 .. BramSize - 1
    PROVE  Populated(b, 0, BramSize)[i] = <<ddr[b][i], i>>
<1>1. i \in 0 .. 0 + BramSize - 1 /\ BramSize \in Nat /\ i < 0 + BramSize
  BY Sizes
<1>2. Populated(b, 0, BramSize)[i % BramSize] = <<ddr[b][i], i>>
  BY <1>1, PopulatedAt
<1> QED
  BY <1>2, Low

LEMMA PlayStart ==
    ASSUME PlayInv, CoreInv', StartTx
    PROVE  PlayInv'
<1>1. /\ Quiet /\ running' = TRUE /\ err' = FALSE /\ wrong' = {}
      /\ armed' = txEn \ unloaded /\ looped' = cont
      /\ wave' = [b \in RF |-> IF useDram THEN ddr[b]
                     ELSE [i \in 0 .. MaxSamples - 1 |-> bram[b][i % BramSize][1]]]
      /\ UNCHANGED <<useDram, txLength, cont, txEn, rd, wr, irq, lag, bram, ddr,
                     unloaded>>
  BY DEF StartTx, Quiet, config, memory
<1>2. Played' /\ Dry'
  BY <1>1 DEF PlayInv, Played, Dry
<1>3. Kept'
  BY <1>1 DEF PlayInv, Kept, Settled, Loaded
<1>4. /\ rd = 0 /\ wr \in {Chunk, BramSize} /\ txLength \in Nat
      /\ txLength < MaxSamples /\ Chunk \in Nat /\ Chunk >= 2
      /\ BramSize = 2 * Chunk /\ MaxSamples \in Nat /\ BramSize <= MaxSamples
      /\ ~LargeTx => txLength < BramSize
      /\ ~useDram => ~LargeTx
  <2>1. TypeOK
    BY DEF PlayInv, CoreInv, TypeInv
  <2> QED
    BY <1>1, <2>1, Facts, Sizes, Registers DEF PlayInv, CoreInv, Control, Quiet
<1>5. ASSUME NEW b \in armed' PROVE Ahead(b)'
  <2>1. b \in txEn \ unloaded /\ b \in RF
    BY <1>1, <1>5 DEF PlayInv, CoreInv, TypeInv, TypeOK
  <2>2. /\ \A j \in 0 .. BramSize - 1 :
               bram[b][j][2] = j /\ bram[b][j][1] = wave'[b][j]
        /\ useDram => wave'[b] = ddr[b]
    <3>1. CASE useDram
      <4>1. wave'[b] = ddr[b]
        BY <1>1, <2>1, <3>1
      <4>2. Loaded(b)
        BY <1>1, <2>1, <3>1 DEF PlayInv, Kept, Settled
      <4> QED
        BY <4>1, <4>2 DEF Loaded
    <3>2. CASE ~useDram
      <4>1. \A j \in 0 .. BramSize - 1 : bram[b][j][2] = j
        BY <2>1, <3>2 DEF PlayInv, Dry
      <4>2. wave'[b] = [i \in 0 .. MaxSamples - 1 |-> bram[b][i % BramSize][1]]
        BY <1>1, <2>1, <3>2
      <4>3. ASSUME NEW j \in 0 .. BramSize - 1 PROVE wave'[b][j] = bram[b][j][1]
        <5>1. j \in 0 .. MaxSamples - 1 /\ j % BramSize = j
          BY <1>4, Low
        <5> QED
          BY <4>2, <5>1
      <4> QED
        BY <3>2, <4>1, <4>3
    <3> QED
      BY <3>1, <3>2
  <2>3. ASSUME NEW j \in 0 .. BramSize - 1 PROVE Good(b, j)'
    <3>1. j % BramSize = j
      BY Low
    <3> QED
      BY <1>1, <2>2, <3>1 DEF Good
  <2>4. CASE LargeTx
    <3>1. useDram /\ rd' = 0 /\ wr' = wr /\ ~ (0 >= wr) /\ LargeTx'
      BY <1>1, <1>4, <2>4 DEF LargeTx
    <3>2. \A j \in rd' .. txLength' : rd' >= wr' \/ j < wr' => Good(b, j)'
      <4>1. ASSUME NEW j \in 0 .. txLength, j < wr PROVE j \in 0 .. BramSize - 1
        BY <1>4, <4>1
      <4> QED
        BY <1>1, <2>3, <3>1, <4>1
    <3>3. \A j \in wr' .. txLength' : ddr'[b][j] = wave'[b][j]
      BY <1>1, <2>2, <3>1
    <3> QED
      BY <3>1, <3>2, <3>3 DEF Ahead
  <2>5. CASE ~LargeTx
    <3>1. ~LargeTx' /\ rd' = 0 /\ txLength' = txLength /\ txLength < BramSize
      BY <1>1, <1>4, <2>5 DEF LargeTx
    <3>2. \A j \in 0 .. txLength : j \in 0 .. BramSize - 1
      BY <1>4, <3>1
    <3> QED
      BY <1>1, <2>2, <2>3, <3>1, <3>2 DEF Ahead
  <2> QED
    BY <2>4, <2>5
<1>6. Data'
  BY <1>5 DEF Data
<1> QED
  BY <1>2, <1>3, <1>6 DEF PlayInv

LEMMA PlaySend ==
    ASSUME PlayInv, CoreInv', SendSample
    PROVE  PlayInv'
<1> DEFINE final == rd >= txLength
<1>1. /\ running
      /\ rd' = IF final THEN 0 ELSE rd + 1
      /\ running' = ~(final /\ ~cont)
      /\ wrong' = wrong \cup {b \in armed \cap txEn : SendsWrong(b)}
      /\ UNCHANGED <<useDram, txLength, cont, txEn, wr, bram, ddr, unloaded,
                     armed, looped, wave>>
  BY DEF SendSample, config, memory
<1>2. (err' <=> err \/ RunDry')
      /\ (irq' <=> \/ irq \/ (~Wanted /\ Wanted')
                   \/ LargeTx /\ ~NotFinal /\ rd >= txLength /\ ~cont)
  BY SendReacts DEF PlayInv, CoreInv
<1>3. (LargeTx' <=> LargeTx) /\ \A b, j : Good(b, j)' <=> Good(b, j)
  BY <1>1 DEF LargeTx, Good
<1>4. /\ txLength \in Nat /\ rd \in Nat /\ wr \in Nat /\ rd <= txLength
      /\ Chunk \in Nat /\ Chunk >= 2 /\ BramSize = 2 * Chunk
      /\ LargeTx => txLength > 2 * Chunk
      /\ ~LargeTx => txLength < 2 * Chunk
      /\ cont => looped
  BY <1>1, Facts DEF PlayInv, CoreInv, Control
<1>5. Dry'
  BY <1>1 DEF PlayInv, Dry
<1>6. Played'
  <2> SUFFICES ASSUME ~err' PROVE wrong' = {}
    BY DEF Played
  <2>1. ~err /\ wrong = {}
    BY <1>2 DEF PlayInv, Played
  <2>2. ASSUME NEW b \in armed PROVE ~SendsWrong(b)
    <3>1. Ahead(b) /\ rd \in rd .. txLength /\ (rd >= wr \/ rd < wr)
      BY <1>1, <1>4, <2>1 DEF PlayInv, Data
    <3>2. Good(b, rd)
      BY <3>1 DEF Ahead
    <3> QED
      BY <3>2 DEF Good, SendsWrong, Sent
  <2> QED
    BY <1>1, <2>1, <2>2
<1>7. Data'
  <2> SUFFICES ASSUME running', ~err', NEW b \in armed PROVE Ahead(b)'
    BY <1>1 DEF Data
  <2>1. ~err /\ Ahead(b)
    BY <1>1, <1>2 DEF PlayInv, Data
  <2>2. CASE LargeTx
    <3>1. /\ \A j \in rd .. txLength : rd >= wr \/ j < wr => Good(b, j)
          /\ rd < wr /\ ~looped => \A j \in wr .. txLength : ddr[b][j] = wave[b][j]
          /\ rd >= wr => \A j \in 0 .. Chunk - 1 : bram[b][j][2] = j
      BY <2>1, <2>2 DEF Ahead
    <3>2. CASE ~final
      <4>1. rd' = rd + 1 /\ rd' # wr
        BY <1>1, <1>3, <2>2, <3>2, NotOnNext DEF Clear
      <4>2. (rd' >= wr <=> rd >= wr) /\ (rd' < wr <=> rd < wr)
        BY <1>4, <4>1
      <4>3. \A j \in rd + 1 .. txLength : j \in rd .. txLength
        BY <1>4
      <4>4. \A j \in rd' .. txLength : rd' >= wr \/ j < wr => Good(b, j)
        BY <3>1, <4>1, <4>2, <4>3
      <4> QED
        BY <1>1, <1>3, <2>2, <3>1, <4>2, <4>4 DEF Ahead
    <3>3. CASE final
      <4>0. cont
        BY <1>1, <3>3, Zenon
      <4>1. cont /\ looped /\ rd' = 0 /\ rd = txLength
        BY <1>1, <1>4, <3>3, <4>0
      <4>2. wr = Chunk
        BY <1>1, <1>4, <2>1, <2>2, <4>1
           DEF PlayInv, CoreInv, Window, Filling, Filled, Wrapped
      <4>3. \A j \in 0 .. Chunk - 1 : bram[b][j][2] = j
        BY <1>4, <2>2, <3>1, <4>1, <4>2
      <4>4. ASSUME NEW j \in 0 .. txLength, j < Chunk PROVE Good(b, j)
        <5>1. j \in 0 .. Chunk - 1 /\ j \in 0 .. BramSize - 1
          BY <1>4, <4>4
        <5> QED
          BY <4>1, <4>3, <5>1, Low DEF Good
      <4>5. ~ (rd' >= wr) /\ looped'
        BY <1>1, <1>4, <4>1, <4>2
      <4>6. \A j \in rd' .. txLength' : rd' >= wr' \/ j < wr' => Good(b, j)'
        BY <1>1, <1>3, <1>4, <4>1, <4>2, <4>4, <4>5
      <4> QED
        BY <1>1, <1>3, <2>2, <4>5, <4>6 DEF Ahead
    <3> QED
      BY <3>2, <3>3
  <2>3. CASE ~LargeTx
    <3>1. /\ \A j \in rd .. txLength : Good(b, j)
          /\ looped => \A j \in 0 .. txLength : bram[b][j][2] = j
      BY <2>1, <2>3 DEF Ahead
    <3>2. \A j \in rd' .. txLength : Good(b, j)
      <4>1. CASE ~final
        <5>1. \A j \in rd + 1 .. txLength : j \in rd .. txLength
          BY <1>4
        <5> QED
          BY <1>1, <3>1, <4>1, <5>1
      <4>2. CASE final
        <5>1. looped /\ rd' = 0
          BY <1>1, <1>4, <4>2
        <5>2. ASSUME NEW j \in 0 .. txLength PROVE Good(b, j)
          <6>1. j \in 0 .. BramSize - 1
            BY <1>4, <2>3
          <6> QED
            BY <3>1, <5>1, <6>1, Low DEF Good
        <5> QED
          BY <5>1, <5>2
      <4> QED
        BY <4>1, <4>2
    <3> QED
      BY <1>1, <1>3, <2>3, <3>1, <3>2 DEF Ahead
  <2> QED
    BY <2>2, <2>3
<1>8. Kept'
  <2> SUFFICES ASSUME useDram, Settled', LargeTx PROVE Settled
    BY <1>1, <1>3 DEF PlayInv, Kept, Loaded, Settled
  <2>1. ~cont
    BY <1>1, <1>3 DEF Settled, Quiet
  <2>2. wr < txLength
    <3>1. CASE Quiet'
      <4>1. wr \in {Chunk, BramSize}
        BY <1>1, <3>1 DEF CoreInv, Control
      <4> QED
        BY <1>4, <4>1
    <3>2. CASE Wrapped'
      BY <1>1, <1>4, <3>2 DEF Wrapped
    <3> QED
      BY <1>3, <3>1, <3>2 DEF Settled
  <2>3. ~Filling
    <3> SUFFICES ASSUME Filling PROVE FALSE
      OBVIOUS
    <3>1. CASE Quiet'
      <4>1. final /\ ~irq
        BY <1>1, <1>2, <3>1 DEF Quiet
      <4> QED
        BY <1>4, <4>1 DEF Filling
    <3>2. CASE Wrapped'
      <4>1. wr = Chunk /\ ~irq' /\ rd' > txLength - Chunk
        BY <1>1, <3>2 DEF Wrapped
      <4>2. ~irq
        BY <1>2, <4>1
      <4> QED
        BY <1>1, <1>4, <4>1, <4>2 DEF Filling
    <3> QED
      BY <1>3, <3>1, <3>2 DEF Settled
  <2>4. ~Filled
    BY <1>4, <2>2 DEF Filled
  <2> QED
    BY <1>1, <2>1, <2>3, <2>4 DEF PlayInv, CoreInv, Window, Settled
<1> QED
  BY <1>5, <1>6, <1>7, <1>8 DEF PlayInv

\* A copy of one chunk leaves the other half of the BRAM alone.
LEMMA CopiedChunk ==
    ASSUME NEW b, NEW w \in Nat
    PROVE  /\ \A j \in w .. w + Chunk - 1 :
                  Populated(b, w, Chunk)[j % BramSize] = <<ddr[b][j], j>>
           /\ \A j \in Nat : w - Chunk <= j /\ j < w =>
                  Populated(b, w, Chunk)[j % BramSize] = bram[b][j % BramSize]
<1>1. Chunk \in Nat /\ BramSize = 2 * Chunk
  BY Sizes
<1>2. ASSUME NEW j \in w .. w + Chunk - 1
      PROVE  Populated(b, w, Chunk)[j % BramSize] = <<ddr[b][j], j>>
  <2>1. j \in w .. w + BramSize - 1 /\ j < w + Chunk
    BY <1>1
  <2> QED
    BY <1>1, <2>1, PopulatedAt
<1>3. ASSUME NEW j \in Nat, w - Chunk <= j, j < w
      PROVE  Populated(b, w, Chunk)[j % BramSize] = bram[b][j % BramSize]
  <2> DEFINE k == j + BramSize
  <2>1. k \in w .. w + BramSize - 1 /\ ~ (k < w + Chunk)
    BY <1>1, <1>3
  <2>2. k % BramSize = j % BramSize
    BY InBram
  <2> HIDE DEF k
  <2>3. Populated(b, w, Chunk)[k % BramSize] = bram[b][k % BramSize]
    BY <1>1, <2>1, PopulatedAt
  <2> QED
    BY <2>2, <2>3
<1> QED
  BY <1>2, <1>3

LEMMA PlayIsr ==
    ASSUME PlayInv, CoreInv', Ordinary, Isr
    PROVE  PlayInv'
<1>1. /\ irq
      /\ UNCHANGED <<useDram, txLength, cont, txEn, rd, running, ddr, unloaded,
                     armed, looped, wave, wrong>>
  BY DEF Isr, config, history
<1>2. err => err'
  <2>1. CoreReacts(FALSE) /\ TypeInv /\ TypeInv'
    BY DEF Isr, PlayInv, CoreInv
  <2> QED
    BY <2>1, Reacts
<1>3. /\ LargeTx /\ useDram /\ txEn # {} /\ txLength > 2 * Chunk
      /\ Chunk \in Nat /\ Chunk >= 2 /\ BramSize = 2 * Chunk
      /\ txLength \in Nat /\ rd \in Nat /\ wr \in Nat /\ rd <= txLength
      /\ lag \in Nat
  BY <1>1, Facts DEF PlayInv, CoreInv, Control
<1>4. /\ Populate(txEn, NextOffset, XferLength) /\ wr' = NextOffset + XferLength
      /\ LargeTx'
  BY <1>1, <1>3 DEF Isr, TxIqError, LargeTx
<1>5. Played' /\ Dry'
  BY <1>1, <1>2, <1>3 DEF PlayInv, Played, Dry
<1>6. CASE ~running
  <2>1. Data'
    BY <1>1, <1>6 DEF Data
  <2>2. NextOffset = 0 /\ XferLength = BramSize
    BY <1>1, <1>6 DEF PlayInv, CoreInv, Control, NextOffset, XferLength
  <2>3. ASSUME NEW b \in txEn \ unloaded PROVE Loaded(b)'
    <3>1. b \in RF /\ b \in txEn
      BY DEF PlayInv, CoreInv, TypeInv, TypeOK
    <3>2. bram'[b] = Populated(b, 0, BramSize)
      BY <1>3, <1>4, <2>2, <3>1, PopulatedBram
    <3> QED
      BY <1>1, <3>2, Preloaded DEF Loaded
  <2>4. Kept'
    BY <1>1, <2>3 DEF Kept
  <2> QED
    BY <1>5, <2>1, <2>4 DEF PlayInv
<1>7. CASE running /\ Filling
  <2>1. /\ wr < txLength /\ wr >= Chunk /\ wr % Chunk = 0
        /\ rd = wr - Chunk + 1 + lag /\ (err \/ rd < wr)
    BY <1>1, <1>7 DEF Filling
  <2>2. NextOffset = wr /\ XferLength = Chunk /\ wr' = wr + Chunk
    <3>1. Chunk \in Nat \ {0} /\ wr \in Int
      BY <1>3
    <3>2. Chunk * (wr \div Chunk) = wr
      BY <2>1, <3>1, Multiples
    <3> QED
      BY <1>4, <2>1, <3>2 DEF NextOffset, XferLength, WriteNotDone
  <2>3. Kept'
    <3>1. wr' # Chunk
      BY <1>3, <2>1, <2>2
    <3> QED
      BY <1>1, <1>4, <1>7, <3>1 DEF Kept, Settled, Quiet, Wrapped
  <2>4. ASSUME ~err', NEW b \in armed PROVE Ahead(b)'
    <3>1. /\ ~err /\ rd < wr
          /\ \A j \in rd .. txLength : j < wr => Good(b, j)
          /\ ~looped => \A j \in wr .. txLength : ddr[b][j] = wave[b][j]
      <4>1. ~err /\ Ahead(b) /\ rd < wr
        BY <1>2, <1>7, <2>1, <2>4 DEF PlayInv, Data
      <4> QED
        BY <1>3, <4>1 DEF Ahead
    <3>2. b \in RF /\ b \in txEn
      BY <1>7, <2>4 DEF PlayInv, CoreInv, TypeInv, TypeOK, Control
    <3>3. bram'[b] = Populated(b, wr, Chunk)
      BY <1>3, <1>4, <2>2, <3>2, PopulatedBram
    <3>4. ASSUME NEW j \in rd .. txLength, j < wr + Chunk PROVE Good(b, j)'
      <4>1. CASE j < wr
        <5>1. j \in Nat /\ wr - Chunk <= j
          BY <1>3, <2>1
        <5>2. Populated(b, wr, Chunk)[j % BramSize] = bram[b][j % BramSize]
          <6>1. wr \in Nat
            BY <1>3
          <6> QED
            BY <4>1, <5>1, <6>1, CopiedChunk
        <5>3. bram'[b][j % BramSize] = bram[b][j % BramSize]
          BY <3>3, <5>2
        <5> QED
          BY <1>1, <3>1, <4>1, <5>3 DEF Good
      <4>2. CASE j >= wr
        <5>1. j \in wr .. wr + Chunk - 1 /\ j \in wr .. txLength
          BY <1>3, <3>4, <4>2
        <5>2. bram'[b][j % BramSize] = <<ddr[b][j], j>>
          BY <1>3, <3>3, <5>1, CopiedChunk
        <5> QED
          BY <1>1, <3>1, <5>1, <5>2 DEF Good
      <4> QED
        BY <1>3, <4>1, <4>2
    <3>5. ~ (rd >= wr + Chunk) /\ \A j \in wr + Chunk .. txLength : j \in wr .. txLength
      BY <1>3, <3>1
    <3>6. \A j \in rd' .. txLength' : rd' >= wr' \/ j < wr' => Good(b, j)'
      BY <1>1, <2>2, <3>4, <3>5
    <3>7. ~looped' => \A j \in wr' .. txLength' : ddr'[b][j] = wave'[b][j]
      BY <1>1, <2>2, <3>1, <3>5
    <3> QED
      BY <1>1, <1>4, <2>2, <3>5, <3>6, <3>7 DEF Ahead
  <2>5. Data'
    BY <1>1, <2>4 DEF Data
  <2> QED
    BY <1>5, <2>3, <2>5 DEF PlayInv
<1>8. CASE running /\ Filled
  <2>1. wr > txLength /\ cont /\ (Late(0) \/ (err /\ Late(1)))
    BY <1>1, <1>8 DEF Filled
  <2>2. NextOffset = 0 /\ XferLength = Chunk /\ wr' = Chunk
    BY <1>3, <1>4, <2>1 DEF NextOffset, XferLength, WriteNotDone
  <2>3. Kept'
    BY <1>1, <1>4, <1>8, <2>1 DEF Kept, Settled, Quiet
  <2>4. ASSUME ~err', NEW b \in armed PROVE Ahead(b)'
    <3>1. ~err /\ rd > txLength - Chunk /\ rd < wr
      BY <1>2, <1>3, <2>1, <2>4 DEF Late
    <3>2. \A j \in rd .. txLength : Good(b, j)
      <4>1. Ahead(b)
        BY <1>8, <2>4, <3>1 DEF PlayInv, Data
      <4>2. \A j \in rd .. txLength : j < wr
        BY <1>3, <2>1
      <4> QED
        BY <1>3, <4>1, <4>2 DEF Ahead
    <3>3. b \in RF /\ b \in txEn
      BY <1>8, <2>4 DEF PlayInv, CoreInv, TypeInv, TypeOK, Control
    <3>4. bram'[b] = Populated(b, 0, Chunk)
      BY <1>3, <1>4, <2>2, <3>3, PopulatedBram
    <3>5. ASSUME NEW i \in 0 .. BramSize - 1
          PROVE  bram'[b][i] = IF i < Chunk THEN <<ddr[b][i], i>> ELSE bram[b][i]
      <4>1. i \in 0 .. 0 + BramSize - 1 /\ (i < 0 + Chunk <=> i < Chunk)
        BY <1>3
      <4>2. i % BramSize = i
        BY Low
      <4>3. bram'[b][i % BramSize] =
                IF i < 0 + Chunk THEN <<ddr[b][i], i>> ELSE bram[b][i % BramSize]
        BY <1>3, <3>4, <4>1, PopulatedAt
      <4> QED
        BY <4>1, <4>2, <4>3
    <3>6. ASSUME NEW j \in rd .. txLength PROVE Good(b, j)'
      <4>1. (txLength + 1) % BramSize = 0 /\ j \in txLength + 1 - Chunk .. txLength
        BY <1>3, <2>1, <3>1 DEF PlayInv, CoreInv, Length
      <4>2. j % BramSize \in Chunk .. BramSize - 1
        BY <1>3, <4>1, SecondHalf
      <4>3. bram'[b][j % BramSize] = bram[b][j % BramSize]
        <5> DEFINE i == j % BramSize
        <5>1. i \in 0 .. BramSize - 1 /\ ~ (i < Chunk)
          BY <1>3, <4>2
        <5> HIDE DEF i
        <5>2. bram'[b][i] = bram[b][i]
          BY <3>5, <5>1
        <5> QED
          BY <5>2 DEF i
      <4> QED
        BY <1>1, <3>2, <4>3 DEF Good
    <3>7. \A i \in 0 .. Chunk - 1 : bram'[b][i][2] = i
      <4> SUFFICES ASSUME NEW i \in 0 .. Chunk - 1 PROVE bram'[b][i][2] = i
        OBVIOUS
      <4>1. i \in 0 .. BramSize - 1 /\ i < Chunk
        BY <1>3
      <4>2. bram'[b][i] = <<ddr[b][i], i>>
        BY <3>5, <4>1
      <4> QED
        BY <4>2
    <3>8. ~ (rd < Chunk)
      BY <1>3, <3>1
    <3> QED
      BY <1>1, <1>4, <2>2, <3>6, <3>7, <3>8 DEF Ahead
  <2>5. Data'
    BY <1>1, <2>4 DEF Data
  <2> QED
    BY <1>5, <2>3, <2>5 DEF PlayInv
<1>9. ~Wrapped
  BY <1>1 DEF Wrapped
<1> QED
  BY <1>3, <1>6, <1>7, <1>8, <1>9 DEF PlayInv, CoreInv, Window

LEMMA PlayLength ==
    ASSUME PlayInv, CoreInv', NEW n, TxLength(n)
    PROVE  PlayInv'
<1>1. Quiet /\ UNCHANGED <<useDram, cont, txEn, core, memory, history>>
  BY DEF TxLength
<1>2. Data' /\ Dry' /\ Played'
  BY <1>1 DEF PlayInv, Data, Dry, Played, Quiet, core, memory, history
<1>3. Kept'
  BY <1>1 DEF PlayInv, Kept, Settled, Loaded, core, memory
<1> QED
  BY <1>2, <1>3 DEF PlayInv

LEMMA PlayMode ==
    ASSUME PlayInv, CoreInv', NEW mode \in BOOLEAN, TxMode(mode)
    PROVE  PlayInv'
<1>1. /\ ~irq /\ cont' = mode /\ (mode => Quiet)
      /\ unloaded' = IF cont /\ running /\ LargeTx THEN unloaded \cup txEn ELSE unloaded
      /\ UNCHANGED <<useDram, txLength, txEn, rd, wr, running, lag, bram, ddr,
                     armed, looped, wave, wrong>>
  BY DEF TxMode, history
<1>2. err => err'
  <2>1. CoreReacts(irq) /\ irq \in BOOLEAN /\ TypeInv /\ TypeInv'
    BY Registers DEF TxMode, PlayInv, CoreInv, TypeInv
  <2> QED
    BY <2>1, Reacts
<1>3. LargeTx' <=> LargeTx
  BY <1>1 DEF LargeTx
<1>4. ASSUME NEW b PROVE (Ahead(b)' <=> Ahead(b)) /\ (Loaded(b)' <=> Loaded(b))
  BY <1>1, <1>3 DEF Ahead, Good, Loaded
<1>5. Data' /\ Dry' /\ Played'
  BY <1>1, <1>2, <1>4 DEF PlayInv, Data, Dry, Played
<1>6. Kept'
  <2> SUFFICES ASSUME useDram, Settled', NEW b \in txEn \ unloaded'
               PROVE  Loaded(b)
    BY <1>1, <1>4 DEF Kept
  <2>1. ~ (cont /\ running /\ LargeTx) /\ b \in txEn \ unloaded
    BY <1>1
  <2>2. Settled
    <3>1. CASE running /\ LargeTx
      <4>1. ~cont /\ Wrapped'
        BY <1>1, <1>3, <2>1, <3>1 DEF Settled, Quiet
      <4>2. Wrapped
        BY <1>1, <4>1 DEF Wrapped
      <4> QED
        BY <3>1, <4>1, <4>2 DEF Settled
    <3>2. CASE ~ (running /\ LargeTx)
      BY <1>1, <3>2 DEF Settled, Quiet
    <3> QED
      BY <3>1, <3>2
  <2> QED
    BY <2>1, <2>2 DEF PlayInv, Kept
<1> QED
  BY <1>5, <1>6 DEF PlayInv

(* The buffer commands: what they load is not being sent. *)
LEMMA PlayEnables ==
    ASSUME PlayInv, CoreInv', NEW sel \in SUBSET RF,
           TxBuffEn(sel) \/ RxBuffEn(sel) \/ TxRxBuffDis(sel)
    PROVE  PlayInv'
<1>1. /\ ~irq
      /\ UNCHANGED <<useDram, txLength, cont, rd, wr, running, lag, ddr, looped,
                     wave, wrong>>
      /\ armed' \subseteq armed
  BY DEF TxBuffEn, RxBuffEn, TxRxBuffDis, memory, history
<1>2. err => err'
  <2>1. CoreReacts(irq) /\ irq \in BOOLEAN /\ TypeInv /\ TypeInv'
    BY Registers DEF TxBuffEn, RxBuffEn, TxRxBuffDis, PlayInv, CoreInv, TypeInv
  <2> QED
    BY <2>1, Reacts
<1>3. LargeTx' <=> LargeTx
  BY <1>1 DEF LargeTx
<1>4. ASSUME NEW b \in RF
      PROVE  /\ \/ bram'[b] = bram[b]
                \/ useDram /\ b \in sel /\ bram'[b] = Populated(b, 0, BramSize)
             /\ b \notin sel => bram'[b] = bram[b]
  <2>1. CASE RxBuffEn(sel)
    BY <2>1 DEF RxBuffEn, memory
  <2>2. CASE TxBuffEn(sel) \/ TxRxBuffDis(sel)
    <3>1. Populate(sel, 0, BramSize)
      BY <2>2 DEF TxBuffEn, TxRxBuffDis
    <3> QED
      BY <3>1, PopulatedBram
  <2> QED
    BY <2>1, <2>2
<1>5. ASSUME NEW b \in armed', running PROVE b \in RF /\ b \notin sel
  <2>1. b \in RF /\ b \in txEn
    BY <1>1, <1>5 DEF PlayInv, CoreInv, TypeInv, TypeOK, Control
  <2> QED
    BY <1>5, <2>1 DEF TxBuffEn, RxBuffEn, TxRxBuffDis, history
<1>6. Data'
  <2> SUFFICES ASSUME running, ~err', NEW b \in armed' PROVE Ahead(b)'
    BY <1>1 DEF Data
  <2>1. bram'[b] = bram[b]
    BY <1>4, <1>5
  <2>2. Ahead(b)
    BY <1>1, <1>2 DEF PlayInv, Data
  <2> QED
    BY <1>1, <1>3, <2>1, <2>2 DEF Ahead, Good
<1>7. Dry' /\ Played'
  BY <1>1, <1>2, <1>4 DEF PlayInv, Dry, Played
<1>8. Kept'
  <2> SUFFICES ASSUME useDram, Settled', NEW b \in (txEn \ unloaded)' PROVE Loaded(b)'
    BY <1>1 DEF Kept
  <2>1. b \in RF
    BY DEF CoreInv, TypeInv, TypeOK
  <2>2. CASE bram'[b] # bram[b]
    <3>1. bram'[b] = Populated(b, 0, BramSize)
      BY <1>4, <2>1, <2>2
    <3> QED
      BY <1>1, <3>1, Preloaded DEF Loaded
  <2>3. CASE bram'[b] = bram[b] /\ b \in sel /\ ~RxBuffEn(sel)
    <3>1. Populate(sel, 0, BramSize)
      BY <2>3 DEF TxBuffEn, TxRxBuffDis
    <3>2. bram'[b] = Populated(b, 0, BramSize)
      BY <2>1, <2>3, <3>1, PopulatedBram
    <3> QED
      BY <1>1, <3>2, Preloaded DEF Loaded
  <2>4. CASE bram'[b] = bram[b] /\ (b \notin sel \/ RxBuffEn(sel))
    <3>1. b \in txEn \ unloaded
      BY <2>4 DEF TxBuffEn, RxBuffEn, TxRxBuffDis, memory
    <3>2. Wrapped' => Wrapped
      BY <1>1 DEF Wrapped
    <3>3. Settled
      BY <1>1, <1>3, <3>2 DEF Settled, Quiet
    <3>4. Loaded(b)
      BY <3>1, <3>3 DEF PlayInv, Kept
    <3> QED
      BY <1>1, <2>4, <3>4 DEF Loaded
  <2> QED
    BY <2>2, <2>3, <2>4
<1> QED
  BY <1>6, <1>7, <1>8 DEF PlayInv

LEMMA PlayReset == ASSUME PlayInv, CoreInv', BasebandReset PROVE PlayInv'
<1>1. /\ Quiet /\ txEn' = {}
      /\ UNCHANGED <<useDram, running, err, memory, history>>
  BY DEF BasebandReset
<1> QED
  BY <1>1 DEF PlayInv, Data, Dry, Kept, Played, Quiet, memory, history

(* A packet is put where the radio has been, or where it does not send. *)
LEMMA PutAt ==
    ASSUME NEW buf, NEW start, NEW new, NEW i \in DOMAIN buf
    PROVE  Put(buf, start, new)[i] =
               IF i \in start .. start + PacketLen - 1 THEN new[i] ELSE buf[i]
  BY DEF Put

LEMMA PlayWrite ==
    ASSUME PlayInv, CoreInv', Ordinary, NEW c \in RF, NEW start \in Starts,
           NEW isLast \in BOOLEAN, WriteIq(c, start, isLast)
    PROVE  PlayInv'
<1> DEFINE sending == running /\ c \in txEn
           v == writes + 1
           new == Put(ddr[c], start, [i \in DOMAIN ddr[c] |-> v])
<1>1. /\ sending => ~ (rd + 1 < start + Chunk)
      /\ c \notin unloaded' => isLast /\ (useDram /\ sending => LargeTx /\ ~looped)
      /\ unloaded \subseteq unloaded' \cup {c}
      /\ UNCHANGED <<config, core, history>>
  BY DEF WriteIq, NotReady, FinalInterrupt
<1>2. /\ bram \in [RF -> [0 .. BramSize - 1 -> Cell]]
      /\ ddr \in [RF -> [0 .. MaxSamples - 1 -> 0 .. MaxWrites]]
      /\ DOMAIN bram[c] = 0 .. BramSize - 1 /\ DOMAIN ddr[c] = 0 .. MaxSamples - 1
      /\ BramSize \in Nat /\ MaxSamples \in Nat /\ BramSize <= MaxSamples
      /\ armed \subseteq RF /\ txEn \subseteq RF
  BY Sizes DEF PlayInv, CoreInv, TypeInv, TypeOK
<1>3. /\ txLength \in Nat /\ txLength < MaxSamples /\ rd \in Nat /\ wr \in Nat
      /\ Chunk \in Nat /\ PacketLen \in Nat /\ PacketLen < Chunk /\ start \in Nat
      /\ LargeTx => useDram
      /\ ~useDram => txLength < BramSize
  <2>1. TypeOK
    BY DEF PlayInv, CoreInv, TypeInv
  <2> QED
    BY <2>1, Registers, Limits, Sizes, PlaybackAssumption DEF Ordinary
<1>4. (LargeTx' <=> LargeTx) /\ (Wrapped' <=> Wrapped) /\ (Quiet' <=> Quiet)
  BY <1>1 DEF LargeTx, Wrapped, Quiet, config, core, history
<1>5. Played'
  BY <1>1 DEF PlayInv, Played, core, history
\* A buffer that is sent is overwritten only behind the radio.
<1>6. ASSUME NEW i \in Nat, i >= rd, sending
      PROVE  i \notin start .. start + PacketLen - 1
  BY <1>1, <1>3, <1>6
<1>7. ASSUME NEW b \in RF, b # c PROVE bram'[b] = bram[b] /\ ddr'[b] = ddr[b]
  BY <1>2, <1>7 DEF WriteIq
<1>8. CASE useDram
  <2>1. /\ ddr' = [ddr EXCEPT ![c] = new]
        /\ bram' = IF isLast /\ ~sending
                   THEN [bram EXCEPT ![c] = [i \in DOMAIN bram[c] |-> <<new[i], i>>]]
                   ELSE bram
    BY <1>8 DEF WriteIq
  <2>2. ddr'[c] = new
    BY <1>2, <2>1
  <2>3. Dry'
    BY <1>1, <1>8 DEF Dry, config
  <2>4. ASSUME running, ~err, NEW b \in armed PROVE Ahead(b)'
    <3>1. Ahead(b) /\ b \in RF /\ b \in txEn
      BY <1>2, <2>4 DEF PlayInv, Data, CoreInv, Control
    <3>2. bram'[b] = bram[b]
      BY <1>7, <2>1, <2>4, <3>1
    <3>3. ASSUME rd < wr, ~looped, LargeTx, NEW j \in wr .. txLength
          PROVE  ddr'[b][j] = wave[b][j]
      <4>1. ddr[b][j] = wave[b][j]
        BY <3>1, <3>3 DEF Ahead
      <4>2. CASE b = c
        <5>1. j \in DOMAIN ddr[c] /\ j \in Nat /\ j >= rd /\ sending
          BY <1>2, <1>3, <2>4, <3>1, <3>3, <4>2
        <5>2. j \notin start .. start + PacketLen - 1
          BY <1>6, <5>1
        <5>3. new[j] = ddr[c][j]
          BY <5>1, <5>2, PutAt
        <5> HIDE DEF new
        <5> QED
          BY <2>2, <4>1, <4>2, <5>3
      <4>3. CASE b # c
        BY <1>7, <3>1, <4>1, <4>3
      <4> QED
        BY <4>2, <4>3
    <3> HIDE DEF new
    <3> QED
      BY <1>1, <1>4, <3>1, <3>2, <3>3 DEF Ahead, Good, config, core, history
  <2>5. Data'
    BY <1>1, <2>4 DEF Data, core, history
  <2>6. ASSUME Settled', NEW b \in (txEn \ unloaded)' PROVE Loaded(b)'
    <3>1. b \in txEn /\ b \in RF /\ Settled
      BY <1>1, <1>2, <1>4, <2>6 DEF Settled, config, core
    <3>2. CASE b = c
      <4>1. isLast /\ ~sending
        <5>1. isLast
          BY <1>1, <2>6, <3>2
        <5>2. ~sending
          BY <1>1, <1>8, <2>6, <3>1, <3>2 DEF Settled, Quiet, Wrapped
        <5> QED
          BY <5>1, <5>2
      <4> HIDE DEF new
      <4>2. bram'[c] = [i \in DOMAIN bram[c] |-> <<new[i], i>>]
        BY <1>2, <2>1, <4>1
      <4> QED
        BY <1>2, <2>2, <3>2, <4>2 DEF Loaded
    <3>3. CASE b # c
      <4>1. Loaded(b)
        BY <1>1, <1>8, <2>6, <3>1, <3>3 DEF PlayInv, Kept, config
      <4> QED
        BY <1>7, <3>1, <3>3, <4>1 DEF Loaded
    <3> QED
      BY <3>2, <3>3
  <2>7. Kept'
    BY <2>6 DEF Kept
  <2> QED
    BY <1>5, <2>3, <2>5, <2>7 DEF PlayInv
<1>9. CASE ~useDram
  <2> DEFINE cells == [i \in DOMAIN bram[c] |-> <<v, i>>]
  <2>1. bram' = [bram EXCEPT ![c] = Put(bram[c], start, cells)]
    BY <1>9 DEF WriteIq
  <2>2. ASSUME NEW i \in 0 .. BramSize - 1
        PROVE  bram'[c][i] = IF i \in start .. start + PacketLen - 1
                             THEN <<v, i>> ELSE bram[c][i]
    <3>1. cells[i] = <<v, i>> /\ i \in DOMAIN bram[c]
      BY <1>2
    <3> HIDE DEF cells
    <3>2. bram'[c] = Put(bram[c], start, cells)
      BY <1>2, <2>1
    <3> QED
      BY <3>1, <3>2, PutAt
  <2>3. Dry'
    <3> SUFFICES ASSUME NEW b \in RF, NEW i \in 0 .. BramSize - 1
                 PROVE  bram'[b][i][2] = i
      BY DEF Dry
    <3>1. bram[b][i][2] = i
      BY <1>9 DEF PlayInv, Dry
    <3>2. CASE b = c
      <4>1. bram'[b][i] = <<v, i>> \/ bram'[b][i] = bram[b][i]
        BY <2>2, <3>2
      <4> QED
        BY <3>1, <4>1
    <3> QED
      BY <1>7, <3>1, <3>2
  <2>4. ASSUME running, ~err, NEW b \in armed PROVE Ahead(b)'
    <3>1. Ahead(b) /\ b \in RF /\ b \in txEn /\ ~LargeTx
      BY <1>2, <1>3, <1>9, <2>4 DEF PlayInv, Data, CoreInv, Control
    <3>2. ASSUME NEW j \in rd .. txLength PROVE Good(b, j)'
      <4>1. Good(b, j)
        BY <3>1, <3>2 DEF Ahead
      <4>2. j \in 0 .. BramSize - 1 /\ j % BramSize = j
        <5>1. j \in 0 .. BramSize - 1
          BY <1>2, <1>3, <1>9
        <5> QED
          BY <5>1, Low
      <4>3. bram'[b][j] = bram[b][j]
        <5>1. CASE b = c
          <6>1. j \notin start .. start + PacketLen - 1
            BY <1>3, <1>6, <2>4, <3>1, <5>1
          <6> QED
            BY <2>2, <4>2, <5>1, <6>1
        <5> QED
          BY <1>7, <3>1, <5>1
      <4> QED
        BY <1>1, <4>1, <4>2, <4>3 DEF Good, history
    <3>3. \A j \in 0 .. txLength : bram'[b][j][2] = j
      <4>1. \A j \in 0 .. txLength : j \in 0 .. BramSize - 1
        BY <1>2, <1>3, <1>9
      <4> QED
        BY <1>1, <1>9, <2>3, <3>1, <4>1 DEF Dry, config
    <3> QED
      BY <1>1, <1>4, <3>1, <3>2, <3>3 DEF Ahead, config, core, history
  <2>5. Data'
    BY <1>1, <2>4 DEF Data, core, history
  <2>6. Kept'
    BY <1>1, <1>9 DEF Kept, config
  <2> QED
    BY <1>5, <2>3, <2>5, <2>6 DEF PlayInv
<1> QED
  BY <1>8, <1>9

-----------------------------------------------------------------------------
LEMMA PlayStep == Ordinary /\ PlayInv /\ [Next]_vars => PlayInv'
<1> SUFFICES ASSUME Ordinary, PlayInv, [Next]_vars PROVE PlayInv'
  OBVIOUS
<1>1. CoreInv'
  BY CoreStep DEF PlayInv
<1>2. CASE StartTx \/ SendSample \/ Isr
  BY <1>1, <1>2, PlayStart, PlaySend, PlayIsr
<1>3. CASE Host
  BY <1>1, <1>3, PlayLength, PlayMode, PlayEnables, PlayWrite, PlayReset DEF Host
<1>4. CASE UNCHANGED vars
  <2>1. Data' /\ Dry' /\ Played'
    BY <1>4 DEF PlayInv, Data, Ahead, Good, Dry, Played, LargeTx,
                vars, config, core, memory, history
  <2>2. Kept'
    BY <1>4 DEF PlayInv, Kept, Settled, Wrapped, Quiet, Loaded, LargeTx,
                vars, config, core, memory, history
  <2> QED
    BY <1>1, <2>1, <2>2 DEF PlayInv
<1> QED
  BY <1>2, <1>3, <1>4 DEF Next

LEMMA TypeInvariant == Spec => []TypeInv
  BY InitType, TypeStep, PTL DEF Spec

(* The registers, the two memories and the ghosts keep their types, for     *)
(* every length, lag and history of commands: no condition but the ones on *)
(* the constants.                                                          *)
THEOREM TypeCorrect == Spec => []TypeOK
<1>1. TypeInv => TypeOK
  BY DEF TypeInv
<1> QED
  BY <1>1, TypeInvariant, PTL

(* At every moment the write offset and the read address stand as Window   *)
(* says, and what is sent before the next copy is in the BRAM or the DDR.  *)
THEOREM PlayInvariant == Ordinary => (Spec => []PlayInv)
<1> SUFFICES ASSUME Ordinary PROVE Spec => []PlayInv
  OBVIOUS
<1>1. PlayInv /\ [Next]_vars => PlayInv'
  BY PlayStep
<1> QED
  BY <1>1, InitPlay, PTL DEF Spec

(* While the handler has recorded no underflow, every sample a radio sent   *)
(* was the sample of its waveform at that place: not what an earlier lap   *)
(* or an earlier transmission left in the BRAM.                            *)
THEOREM SendsWaveform == Ordinary => (Spec => []Played)
<1> SUFFICES ASSUME Ordinary PROVE Spec => []Played
  OBVIOUS
<1>1. PlayInv => Played
  BY DEF PlayInv
<1> QED
  BY <1>1, PlayInvariant, PTL

(* When the radios have stopped and the handler is done, the BRAM of each   *)
(* loaded buffer holds the start of its waveform up to the write offset:    *)
(* after an underflow, and after a Write IQ that ended under way, if the    *)
(* transmission was one with a final interrupt.  Buffers that the code      *)
(* leaves to the host (unloaded) are not covered.                           *)
THEOREM ReadyAgain == Ordinary => (Spec => []Reloaded)
<1> SUFFICES ASSUME Ordinary PROVE Spec => []Reloaded
  OBVIOUS
<1>1. PlayInv => Reloaded
  BY DEF PlayInv, Kept, Settled, Loaded, Reloaded
<1> QED
  BY <1>1, PlayInvariant, PTL

-----------------------------------------------------------------------------
(***************************************************************************)
(* CdmaSharing, for any number of copies and errors: its type invariant,   *)
(* NoneForgotten, and that it implements TransferService.                  *)
(*                                                                         *)
(* The argument.  While a handler runs the main loop does not, so a        *)
(* handler that saw the engine idle starts its copy on an idle engine,     *)
(* while the main loop may have been interrupted between its look and its  *)
(* start and then finds a handler's copy in the engine (SafeStart).  That  *)
(* a copy is in progress, settled, still to be started or not yet asked    *)
(* for, and only one of these (NoneForgotten, EngineOpen), makes the       *)
(* status of a copy move as TransferService allows.                        *)
(***************************************************************************)

(* A call in progress is for a copy of the calling context, and the main   *)
(* loop's calls are for boot copies until interrupts are on.               *)
CallsLegal ==
    /\ Calling("isr") => last.isr > NumBoot + NumMain
    /\ Calling("main") => last.main > 0
    /\ Calling("main") /\ enabled => last.main > NumBoot
    /\ enabled => last.main >= NumBoot
    /\ ~enabled => last.main <= NumBoot /\ last.isr = NumBoot + NumMain

(* Handlers run only once interrupts are on, and only inside the handler. *)
HandlerInside ==
    /\ inIsr => enabled
    /\ ~inIsr => pc.isr = "out"

(* What the engine may hold when a context is about to start a copy. *)
SafeStart ==
    /\ pc.isr = "start" => engine = None
    /\ pc.main = "start" => engine = None \/ engine \in Urgent

(* The copy in the engine is not settled. *)
EngineOpen == engine # None => outcome[engine] = "none"

(* An error, or a reset about to be made for one, has a copy that failed. *)
ErrorHasCause ==
    error \/ (\E c \in Contexts : pc[c] = "reset")
        => \E t \in Copies : outcome[t] = "failed"

CdmaInv ==
    /\ CdmaTypeOK /\ CallsLegal /\ HandlerInside /\ SafeStart
    /\ EngineOpen /\ ErrorHasCause /\ NoneForgotten

-----------------------------------------------------------------------------
(* The copies of the two contexts are apart, and None is not a copy. *)
LEMMA CopyRanges ==
    /\ Copies = 1 .. NumBoot + NumMain + NumIsr
    /\ \A t \in Copies : t \in Nat /\ t # None
    /\ \A t \in Copies : t \in Urgent <=> t > NumBoot + NumMain
    /\ \A t \in Copies : t \in Main <=> t \notin Urgent /\ t > NumBoot
BY CdmaAssumption DEF Copies, Boot, Main, Urgent, None

(* The copy a call in progress is for: one of the calling context's, of    *)
(* nobody else's, and the one it counts as issued.                         *)
LEMMA CallOwn ==
    ASSUME CdmaTypeOK, CallsLegal, NEW c \in Contexts, Calling(c)
    PROVE  /\ last[c] \in Copies
           /\ last[c] \in Urgent <=> c = "isr"
           /\ Issued(last[c])
BY CopyRanges, CdmaAssumption DEF CdmaTypeOK, CallsLegal, Contexts, Issued

(* Only the context a copy belongs to can be asking for it. *)
LEMMA AskedOwn ==
    ASSUME CdmaTypeOK, CallsLegal, NEW t \in Copies
    PROVE  Asked(t) <=> IF t \in Urgent THEN Calling("isr") /\ last.isr = t
                                        ELSE Calling("main") /\ last.main = t
BY CallOwn DEF Asked, Contexts

-----------------------------------------------------------------------------
LEMMA InitCdmaInv == CdmaInit => CdmaInv
<1> SUFFICES ASSUME CdmaInit PROVE CdmaInv
  OBVIOUS
<1> USE CdmaAssumption DEF CdmaInit
<1>1. last \in [Contexts -> Nat] /\ last.main = 0 /\ last.isr = NumBoot + NumMain
  BY DEF Contexts
<1>2. CdmaTypeOK
  <2>1. pc \in [Contexts -> Places] /\ outcome \in [Copies -> Outcomes]
    BY DEF Places, Outcomes
  <2>2. enabled \in BOOLEAN /\ inIsr \in BOOLEAN /\ error \in BOOLEAN
    OBVIOUS
  <2>3. errors \in 0 .. MaxErrors /\ engine \in Copies \cup {None}
    OBVIOUS
  <2>4. last.main <= NumBoot + NumMain
        /\ last.isr \in NumBoot + NumMain .. NumBoot + NumMain + NumIsr
    BY <1>1
  <2> QED
    BY <1>1, <2>1, <2>2, <2>3, <2>4 DEF CdmaTypeOK
<1>3. CallsLegal /\ HandlerInside /\ SafeStart /\ EngineOpen /\ ErrorHasCause
  BY <1>1 DEF CallsLegal, Calling, HandlerInside, SafeStart, EngineOpen,
              ErrorHasCause, Contexts
<1>4. NoneForgotten
  <2> SUFFICES ASSUME NEW t \in Copies PROVE ~Issued(t) /\ engine # t
    BY DEF NoneForgotten
  <2> QED
    BY <1>1, CopyRanges DEF Issued
<1> QED
  BY <1>2, <1>3, <1>4 DEF CdmaInv

(* A context calls wl_cdma_transfer() for its next copy. *)
LEMMA CallStep ==
    ASSUME CdmaInv, NEW c \in Contexts, Call(c), HasCpu(c)', pc[c] = "out",
           inIsr' => enabled, (c = "isr") => enabled,
           inIsr => inIsr',
           c = "main" => last.main < NumBoot
                          \/ (enabled /\ last.main < NumBoot + NumMain),
           c = "isr" => last.isr < NumBoot + NumMain + NumIsr
    PROVE  CdmaInv'
<1> USE CdmaAssumption DEF CdmaInv, Call, Goto
<1>1. last' \in [Contexts -> Nat] /\ last'[c] = last[c] + 1
      /\ \A d \in Contexts : d # c => last'[d] = last[d]
  BY DEF CdmaTypeOK
<1>2. pc' \in [Contexts -> Places] /\ pc'[c] = "check"
      /\ \A d \in Contexts : d # c => pc'[d] = pc[d]
  BY DEF CdmaTypeOK, Places
<1>3. CdmaTypeOK'
  <2>1. last'.main <= NumBoot + NumMain
        /\ last'.isr \in NumBoot + NumMain .. NumBoot + NumMain + NumIsr
    BY <1>1 DEF CdmaTypeOK, Contexts
  <2>2. inIsr' \in BOOLEAN
    BY DEF HasCpu, CdmaTypeOK
  <2> QED
    BY <1>1, <1>2, <2>1, <2>2 DEF CdmaTypeOK
<1>4. CallsLegal'
  BY <1>1, <1>2 DEF CallsLegal, Calling, Contexts, CdmaTypeOK
<1>5. HandlerInside' /\ SafeStart' /\ EngineOpen'
  BY <1>2 DEF HandlerInside, SafeStart, EngineOpen, Contexts, HasCpu, CdmaTypeOK
<1>6. ErrorHasCause'
  BY <1>2 DEF ErrorHasCause
<1>7. NoneForgotten'
  <2> SUFFICES ASSUME NEW t \in Copies
               PROVE  (Issued(t) /\ ~Asked(t))' = (Issued(t) /\ ~Asked(t))
    BY DEF NoneForgotten
  <2>1. \A d \in Contexts :
           Calling(d)' /\ last'[d] = t => (t \in Urgent <=> d = "isr")
    BY <1>3, <1>4, CopyRanges DEF Contexts, CdmaTypeOK, CallsLegal
  <2>2. Asked(t)' <=> IF t \in Urgent THEN Calling("isr")' /\ last'.isr = t
                                      ELSE Calling("main")' /\ last'.main = t
    BY <2>1 DEF Asked, Contexts
  <2> QED
    BY <1>1, <1>2, <2>2, AskedOwn, CopyRanges DEF Issued, Calling, Contexts, CdmaTypeOK
<1> QED
  BY <1>3, <1>4, <1>5, <1>6, <1>7

(* A call that neither starts nor ends, and leaves the engine alone. *)
LEMMA WithinCallStep ==
    ASSUME CdmaInv, NEW c \in Contexts, CheckError(c) \/ WaitIdle(c)
    PROVE  CdmaInv'
<1> USE DEF CdmaInv, CheckError, WaitIdle, At, Goto
<1>1. UNCHANGED <<enabled, inIsr, last, engine, error, errors, outcome>>
      /\ pc' \in [Contexts -> Places] /\ Calling(c)
      /\ pc'[c] \in Places \ {"out"}
      /\ \A d \in Contexts : d # c => pc'[d] = pc[d]
  BY DEF CdmaTypeOK, Places, Calling
<1>2. \A d \in Contexts : Calling(d)' <=> Calling(d)
  BY <1>1 DEF Calling
<1>3. CdmaTypeOK' /\ CallsLegal' /\ EngineOpen'
  BY <1>1, <1>2 DEF CdmaTypeOK, CallsLegal, EngineOpen, Contexts
<1>4. HandlerInside'
  BY <1>1 DEF HandlerInside, Contexts, HasCpu
<1>5. SafeStart'
  <2>1. pc'[c] = "start" => engine = None
    BY DEF CdmaTypeOK, Contexts, Places
  <2> QED
    BY <1>1, <2>1 DEF SafeStart, Contexts
<1>6. ErrorHasCause'
  <2>1. pc'[c] = "reset" => error
    BY DEF CdmaTypeOK
  <2> QED
    BY <1>1, <2>1 DEF ErrorHasCause
<1>7. NoneForgotten'
  BY <1>1, <1>2 DEF NoneForgotten, Issued, Asked
<1> QED
  BY <1>3, <1>4, <1>5, <1>6, <1>7

LEMMA ResetStep ==
    ASSUME CdmaInv, NEW c \in Contexts, ResetEngine(c)
    PROVE  CdmaInv'
<1> USE DEF CdmaInv, ResetEngine, At, Goto
<1>1. pc' \in [Contexts -> Places] /\ Calling(c) /\ pc'[c] = "wait"
      /\ \A d \in Contexts : d # c => pc'[d] = pc[d]
  BY DEF CdmaTypeOK, Places, Calling
<1>2. \A d \in Contexts : Calling(d)' <=> Calling(d)
  BY <1>1 DEF Calling
<1>3. outcome' \in [Copies -> Outcomes]
      /\ \A t \in Copies : outcome'[t] = IF t = engine THEN "aborted"
                                         ELSE outcome[t]
  BY CopyRanges DEF CdmaTypeOK, Outcomes
<1>4. CdmaTypeOK'
  BY <1>1, <1>3 DEF CdmaTypeOK
<1>5. CallsLegal' /\ EngineOpen' /\ SafeStart'
  BY <1>1, <1>2 DEF CallsLegal, EngineOpen, SafeStart, Contexts
<1>6. HandlerInside'
  BY <1>1 DEF HandlerInside, Contexts, HasCpu
<1>7. ErrorHasCause'
  <2>1. PICK t \in Copies : outcome[t] = "failed"
    BY DEF ErrorHasCause
  <2>2. t # engine
    BY <2>1, CopyRanges DEF EngineOpen
  <2> QED
    BY <1>3, <2>1, <2>2 DEF ErrorHasCause
<1>8. NoneForgotten'
  <2> SUFFICES ASSUME NEW t \in Copies
               PROVE  (outcome[t] # "none" \/ engine = t)'
                        = (outcome[t] # "none" \/ engine = t)
    BY <1>2 DEF NoneForgotten, Issued, Asked
  <2> QED
    BY <1>3, CopyRanges DEF EngineOpen
<1> QED
  BY <1>4, <1>5, <1>6, <1>7, <1>8

LEMMA StartStep ==
    ASSUME CdmaInv, NEW c \in Contexts, StartCopy(c)
    PROVE  CdmaInv'
<1> USE DEF CdmaInv, StartCopy, At, Goto
<1> DEFINE own == last[c]
<1>1. pc' \in [Contexts -> Places] /\ Calling(c) /\ ~Calling(c)'
      /\ pc'[c] = "out" /\ \A d \in Contexts : d # c => pc'[d] = pc[d]
  BY DEF CdmaTypeOK, Places, Calling
<1>2. own \in Copies /\ (own \in Urgent <=> c = "isr") /\ Issued(own)
  BY <1>1, CallOwn
<1>3. outcome[own] = "none" /\ engine # own
  BY <1>1, <1>2 DEF NoneForgotten, Asked
<1>4. outcome' \in [Copies -> Outcomes]
      /\ \A t \in Copies : t # own => outcome'[t] = outcome[t]
      /\ engine' \in {engine, own}
      /\ (outcome'[own] # "none" \/ engine' = own)
  BY <1>2, <1>3 DEF CdmaTypeOK, Outcomes
<1>5. CdmaTypeOK'
  BY <1>1, <1>2, <1>4 DEF CdmaTypeOK
<1>6. CallsLegal'
  BY <1>1 DEF CallsLegal, Calling, Contexts
<1>7. HandlerInside'
  BY <1>1 DEF HandlerInside, Contexts, HasCpu
<1>8. EngineOpen'
  BY <1>2, <1>3, CopyRanges DEF EngineOpen, Refused, CdmaTypeOK
<1>9. SafeStart'
  <2>1. CASE c = "isr"
    BY <1>1, <1>2, <2>1 DEF SafeStart, Contexts
  <2>2. CASE c = "main"
    BY <1>1, <2>2 DEF SafeStart, HandlerInside, HasCpu, Contexts
  <2> QED
    BY <2>1, <2>2 DEF Contexts
<1>10. ErrorHasCause'
  <2>1. (\E d \in Contexts : pc'[d] = "reset")
           => (\E d \in Contexts : pc[d] = "reset")
    BY <1>1
  <2>2. \A t \in Copies : outcome[t] = "failed" => outcome'[t] = "failed"
    BY <1>3, <1>4
  <2> QED
    BY <2>1, <2>2 DEF ErrorHasCause
<1>11. NoneForgotten'
  <2> SUFFICES ASSUME NEW t \in Copies
               PROVE  (Issued(t) /\ ~Asked(t))'
                        = (outcome[t] # "none" \/ engine = t)'
    BY DEF NoneForgotten
  <2>1. CASE t = own
    <3>1. ~Asked(own)'
      <4> SUFFICES ASSUME NEW d \in Contexts, Calling(d), d # c PROVE last[d] # own
        BY <1>1 DEF Asked, Calling
      <4> QED
        BY <1>2, CallOwn DEF Contexts
    <3> QED
      BY <1>2, <1>4, <2>1, <3>1 DEF Issued
  <2>2. CASE t # own
    <3>1. Asked(t)' <=> Asked(t)
      BY <1>1, <2>2 DEF Asked, Calling
    <3>2. (outcome'[t] # "none" \/ engine' = t) <=> (outcome[t] # "none" \/ engine = t)
      BY <1>4, <2>2, CopyRanges DEF Refused
    <3> QED
      BY <3>1, <3>2 DEF NoneForgotten, Issued
  <2> QED
    BY <2>1, <2>2
<1> QED
  BY <1>5, <1>6, <1>7, <1>8, <1>9, <1>10, <1>11

(* The engine ends a copy, well or with an error. *)
LEMMA EngineStep ==
    ASSUME CdmaInv, EngineDone \/ EngineError
    PROVE  CdmaInv'
<1> USE CdmaAssumption DEF CdmaInv, EngineDone, EngineError
<1>1. engine \in Copies /\ engine' = None
      /\ UNCHANGED <<enabled, inIsr, pc, last>>
  BY DEF CdmaTypeOK
<1>2. outcome' \in [Copies -> Outcomes] /\ outcome'[engine] # "none"
      /\ \A t \in Copies : t # engine => outcome'[t] = outcome[t]
  BY <1>1 DEF CdmaTypeOK, Outcomes
<1>3. CdmaTypeOK'
  <2>1. error' \in BOOLEAN
    BY DEF CdmaTypeOK
  <2>2. errors' \in 0 .. MaxErrors
    BY DEF CdmaTypeOK
  <2> QED
    BY <1>1, <1>2, <2>1, <2>2 DEF CdmaTypeOK
<1>4. CallsLegal' /\ HandlerInside' /\ SafeStart' /\ EngineOpen'
  BY <1>1 DEF CallsLegal, Calling, HandlerInside, SafeStart, EngineOpen
<1>5. ErrorHasCause'
  <2>1. \A t \in Copies : outcome[t] = "failed" => outcome'[t] = "failed"
    BY <1>1, <1>2, CopyRanges DEF EngineOpen
  <2>2. CASE EngineDone
    BY <2>1, <2>2 DEF ErrorHasCause
  <2>3. CASE EngineError
    BY <1>1, <2>3 DEF ErrorHasCause, CdmaTypeOK
  <2> QED
    BY <2>2, <2>3
<1>6. NoneForgotten'
  BY <1>1, <1>2, CopyRanges DEF NoneForgotten, Issued, Asked, Calling
<1> QED
  BY <1>3, <1>4, <1>5, <1>6

(* Interrupts are turned on, or a handler returns. *)
LEMMA SwitchStep ==
    ASSUME CdmaInv, EnableInterrupts \/ HandlerReturns
    PROVE  CdmaInv'
<1> USE CdmaAssumption DEF CdmaInv, EnableInterrupts, HandlerReturns, At, HasCpu
<1>1. UNCHANGED <<pc, last, engine, error, errors, outcome>>
  OBVIOUS
<1>2. CdmaTypeOK'
  BY <1>1 DEF CdmaTypeOK
<1>3. CallsLegal'
  BY <1>1 DEF CallsLegal, Calling, CdmaTypeOK
<1>4. HandlerInside' /\ SafeStart' /\ EngineOpen' /\ ErrorHasCause'
  BY <1>1 DEF HandlerInside, SafeStart, EngineOpen, ErrorHasCause
<1>5. NoneForgotten'
  BY <1>1 DEF NoneForgotten, Issued, Asked, Calling
<1> QED
  BY <1>2, <1>3, <1>4, <1>5

LEMMA NextCdmaInv == CdmaInv /\ [CdmaNext]_cdmaVars => CdmaInv'
<1> SUFFICES ASSUME CdmaInv, [CdmaNext]_cdmaVars PROVE CdmaInv'
  OBVIOUS
<1>1. CASE ClearDdr \/ CommandCopy
  <2>1. HasCpu("main")' /\ pc["main"] = "out" /\ Call("main")
        /\ ~inIsr /\ UNCHANGED <<inIsr, enabled>>
    BY <1>1 DEF ClearDdr, CommandCopy, At, HasCpu, Call
  <2>2. last.main < NumBoot \/ (enabled /\ last.main < NumBoot + NumMain)
    BY <1>1 DEF ClearDdr, CommandCopy
  <2>3. "main" \in Contexts /\ "main" # "isr"
    BY DEF Contexts
  <2> QED
    BY <2>1, <2>2, <2>3, CallStep
<1>2. CASE Interrupt \/ HandlerCopy
  <2>1. HasCpu("isr")' /\ Call("isr") /\ inIsr' /\ UNCHANGED enabled
    BY <1>2 DEF Interrupt, HandlerCopy, At, HasCpu, Call, CdmaInv, CdmaTypeOK
  <2>2. enabled /\ pc["isr"] = "out"
    BY <1>2 DEF Interrupt, HandlerCopy, At, HasCpu, CdmaInv, HandlerInside
  <2> QED
    BY <1>2, <2>1, <2>2, CallStep DEF Interrupt, HandlerCopy, Contexts
<1>3. CASE EnableInterrupts \/ HandlerReturns
  BY <1>3, SwitchStep
<1>4. ASSUME NEW c \in Contexts, CheckError(c) \/ WaitIdle(c) PROVE CdmaInv'
  BY <1>4, WithinCallStep
<1>5. ASSUME NEW c \in Contexts, ResetEngine(c) PROVE CdmaInv'
  BY <1>5, ResetStep
<1>6. ASSUME NEW c \in Contexts, StartCopy(c) PROVE CdmaInv'
  BY <1>6, StartStep
<1>7. CASE EngineDone \/ EngineError
  BY <1>7, EngineStep
<1>8. CASE UNCHANGED cdmaVars
  BY <1>8 DEF cdmaVars, CdmaInv, CdmaTypeOK, CallsLegal, Calling, HandlerInside,
              SafeStart, EngineOpen, ErrorHasCause, NoneForgotten, Issued, Asked
<1> QED
  BY <1>1, <1>2, <1>3, <1>4, <1>5, <1>6, <1>7, <1>8 DEF CdmaNext, Cpu

(* The state of the two contexts and of the engine, at every moment. *)
THEOREM Invariance == CdmaSpec => []CdmaInv
BY InitCdmaInv, NextCdmaInv, PTL DEF CdmaSpec

(* The variables keep their types. *)
THEOREM CdmaTypeCorrect == CdmaSpec => []CdmaTypeOK
BY Invariance, PTL DEF CdmaInv

(* No copy is forgotten, and none is made twice. *)
THEOREM NothingForgotten == CdmaSpec => []NoneForgotten
BY Invariance, PTL DEF CdmaInv

-----------------------------------------------------------------------------
(***************************************************************************)
(* The code implements TransferService.                                    *)
(***************************************************************************)

(* A copy's status under the mapping, from the invariant. *)
LEMMA StatusIs ==
    ASSUME CdmaInv, NEW t \in Copies
    PROVE  /\ Issued(t) /\ ~Asked(t) /\ engine # t => Status(t) \in Service!Settled
           /\ engine = t => Status(t) = "running"
           /\ Asked(t) => Status(t) = "asked"
           /\ ~Issued(t) => Status(t) = "idle"
           /\ Status(t) = "running" => engine = t
           /\ Status(t) = "failed" <=> outcome[t] = "failed"
<1>1. outcome[t] \in Outcomes
  BY DEF CdmaInv, CdmaTypeOK
<1>2. (Issued(t) /\ ~Asked(t)) = (outcome[t] # "none" \/ engine = t)
  BY DEF CdmaInv, NoneForgotten
<1>3. engine = t => outcome[t] = "none"
  BY CopyRanges DEF CdmaInv, EngineOpen
<1>4. Asked(t) => Issued(t)
  BY CallOwn DEF Asked, CdmaInv
<1> QED
  BY <1>1, <1>2, <1>3, <1>4 DEF Status, Outcomes, Service!Settled

(* A step that moves the status of one copy only. *)
LEMMA Becomes ==
    ASSUME NEW t \in Copies, NEW s, Status(t)' = s,
           \A u \in Copies : u # t => Status(u)' = Status(u)
    PROVE  Service!Become(t, s)
BY DEF Service!Become, StatusMap

LEMMA Stutters ==
    ASSUME \A t \in Copies : Status(t)' = Status(t)
    PROVE  UNCHANGED StatusMap
BY DEF StatusMap

LEMMA InitRefines == CdmaInit => Service!Init
<1> SUFFICES ASSUME CdmaInit PROVE Service!Init
  OBVIOUS
<1>1. \A t \in Copies : Status(t) = "idle"
  BY CopyRanges DEF CdmaInit, Status, Asked, Calling
<1> QED
  BY <1>1 DEF Service!Init, StatusMap, Service!Copies, Copies

LEMMA AskRefines ==
    ASSUME CdmaInv, CdmaInv', NEW c \in Contexts, Call(c), pc[c] = "out",
           last[c] + 1 \in Copies, last[c] + 1 \in Urgent <=> c = "isr"
    PROVE  Service!Next
<1> PICK t \in Copies : t = last[c] + 1
  OBVIOUS
<1> USE DEF Call, Goto
<1>1. last'[c] = t /\ pc'[c] = "check"
      /\ \A d \in Contexts : d # c => last'[d] = last[d] /\ pc'[d] = pc[d]
  BY DEF CdmaInv, CdmaTypeOK
<1>2. ~Issued(t)
  BY CopyRanges DEF Issued, Contexts, CdmaInv, CdmaTypeOK
<1>3. Status(t) = "idle" /\ outcome[t] = "none" /\ engine # t
  BY <1>2, StatusIs DEF CdmaInv, NoneForgotten
<1>4. Status(t)' = "asked"
  BY <1>1, <1>3 DEF Status, Asked, Calling
<1>5. \A u \in Copies : u # t => Status(u)' = Status(u)
  <2> SUFFICES ASSUME NEW u \in Copies, u # t PROVE Asked(u)' <=> Asked(u)
    BY DEF Status
  <2> QED
    BY <1>1 DEF Asked, Calling
<1>6. \A u \in Service!Earlier(t) :
         StatusMap[u] # "idle" /\ StatusMap[u] # "asked"
  <2> SUFFICES ASSUME NEW u \in Service!Earlier(t)
               PROVE  Status(u) # "idle" /\ Status(u) # "asked"
    BY DEF Service!Earlier, StatusMap, Copies
  <2>1. u \in Copies /\ u < t /\ (u \in Urgent <=> t \in Urgent)
    <3>1. Urgent \cap (Boot \cup Main) = {}
      BY CdmaAssumption DEF Urgent, Boot, Main
    <3> QED
      BY <3>1 DEF Service!Earlier, Copies
  <2>2. Issued(u)
    BY <2>1, CopyRanges DEF Issued, Contexts, CdmaInv, CdmaTypeOK
  <2>3. ~Asked(u)
    BY <2>1, AskedOwn DEF Calling, CdmaInv, Contexts
  <2> QED
    BY <2>1, <2>2, <2>3, StatusIs DEF Service!Settled
<1>7. Service!Ask(t)
  BY <1>3, <1>4, <1>5, <1>6, Becomes DEF Service!Ask, StatusMap
<1> QED
  BY <1>7 DEF Service!Next, Service!Copies, Copies

(* Steps inside a call, and switches, move no status. *)
LEMMA QuietRefines ==
    ASSUME CdmaInv, UNCHANGED <<last, engine, outcome>>,
           \A c \in Contexts : Calling(c)' <=> Calling(c)
    PROVE  UNCHANGED StatusMap
BY Stutters DEF Status, Asked

LEMMA ResetRefines ==
    ASSUME CdmaInv, NEW c \in Contexts, ResetEngine(c)
    PROVE  Service!Next \/ UNCHANGED StatusMap
<1> USE DEF ResetEngine, At, Goto
<1>1. \A d \in Contexts : Calling(d)' <=> Calling(d)
  BY DEF Calling, CdmaInv, CdmaTypeOK, Contexts, Places
<1>2. CASE engine = None
  BY <1>1, <1>2, QuietRefines
<1>3. CASE engine # None
  <2> PICK e \in Copies : e = engine
    BY <1>3 DEF CdmaInv, CdmaTypeOK
  <2>1. Status(e) = "running"
    BY StatusIs
  <2>2. \E t \in Copies : Status(t) = "failed"
    BY StatusIs DEF CdmaInv, ErrorHasCause
  <2>3. outcome'[e] = "aborted"
        /\ \A u \in Copies : u # e => outcome'[u] = outcome[u]
    BY <1>3 DEF CdmaInv, CdmaTypeOK
  <2>4. Status(e)' = "aborted"
    BY <2>3 DEF Status
  <2>5. \A u \in Copies : u # e => Status(u)' = Status(u)
    BY <1>1, <2>3, CopyRanges DEF Status, Asked
  <2>6. Service!Become(e, "aborted")
    BY <2>4, <2>5, Becomes
  <2> QED
    BY <2>1, <2>2, <2>6
       DEF Service!Next, Service!Abort, Service!Has, Service!Copies, Copies, StatusMap
<1> QED
  BY <1>2, <1>3

LEMMA StartRefines ==
    ASSUME CdmaInv, CdmaInv', NEW c \in Contexts, StartCopy(c)
    PROVE  Service!Next
<1> USE DEF StartCopy, At, Goto
<1>1. Calling(c) /\ ~Calling(c)' /\ UNCHANGED <<inIsr, enabled, last>>
      /\ \A d \in Contexts : d # c => pc'[d] = pc[d]
  BY DEF CdmaInv, CdmaTypeOK, Calling
<1> PICK t \in Copies : t = last[c]
  BY <1>1, CallOwn DEF CdmaInv
<1>2. (t \in Urgent <=> c = "isr") /\ Status(t) = "asked" /\ engine # t
  BY <1>1, CallOwn, StatusIs DEF Asked, CdmaInv
<1>3. \A u \in Copies : u # t => (Asked(u)' <=> Asked(u))
  BY <1>1 DEF Asked, Calling
<1>4. \A u \in Copies : u # t => outcome'[u] = outcome[u]
  BY DEF CdmaInv, CdmaTypeOK
<1>5. \A u \in Copies : u # t => (engine' = u <=> engine = u)
  BY CopyRanges DEF Refused
<1>6. \A u \in Copies : u # t => Status(u)' = Status(u)
  BY <1>3, <1>4, <1>5 DEF Status
<1>7. CASE Refused
  <2>1. Status(t)' = "refused"
    BY <1>7 DEF Status, CdmaInv, CdmaTypeOK
  <2>2. engine \in Urgent /\ c = "main"
    BY <1>7 DEF CdmaInv, SafeStart, Refused, Contexts
  <2>3. Issued(engine)
    BY <2>2, <1>7 DEF CdmaInv, NoneForgotten, Refused, Copies
  <2>4. enabled
    BY <2>2, <2>3, CopyRanges, CdmaAssumption DEF Issued, CdmaInv, CallsLegal, Urgent
  <2>5. t \in Main
    BY <1>1, <1>2, <2>2, <2>4, CopyRanges DEF CdmaInv, CallsLegal
  <2>6. Status(engine) = "running"
    BY <2>2, StatusIs DEF Copies
  <2> QED
    BY <1>2, <1>6, <2>1, <2>2, <2>5, <2>6, Becomes
       DEF Service!Next, Service!Refuse, Service!Copies, Copies, StatusMap
<1>8. CASE ~Refused /\ error
  <2>1. Status(t)' = "failed"
    BY <1>8 DEF Status, CdmaInv, CdmaTypeOK
  <2>2. \E u \in Copies : Status(u) = "failed"
    BY <1>8, StatusIs DEF CdmaInv, ErrorHasCause
  <2> QED
    BY <1>2, <1>6, <2>1, <2>2, Becomes
       DEF Service!Next, Service!Fail, Service!Has, Service!Copies, Copies, StatusMap
<1>9. CASE ~Refused /\ ~error
  <2>1. engine' = t /\ engine = None
    BY <1>9 DEF Refused
  <2>2. Status(t)' = "running"
    BY <2>1, <1>9, StatusIs, CopyRanges DEF CdmaInv, EngineOpen, Status
  <2>3. \A u \in Copies : Status(u) # "running"
    BY <2>1, StatusIs, CopyRanges
  <2>4. \A u \in Service!Earlier(t) : StatusMap[u] \in Service!Settled
    <3> SUFFICES ASSUME NEW u \in Service!Earlier(t)
                 PROVE  Status(u) \in Service!Settled
      BY DEF Service!Earlier, StatusMap, Copies
    <3>1. u \in Copies /\ u < t /\ (u \in Urgent <=> t \in Urgent)
      <4>1. Urgent \cap (Boot \cup Main) = {}
        BY CdmaAssumption DEF Urgent, Boot, Main
      <4> QED
        BY <4>1 DEF Service!Earlier, Copies
    <3>2. Issued(u) /\ ~Asked(u)
      BY <1>1, <1>2, <3>1, AskedOwn, CopyRanges
         DEF Issued, Contexts, CdmaInv, CdmaTypeOK
    <3> QED
      BY <2>1, <3>1, <3>2, StatusIs, CopyRanges
  <2> QED
    BY <1>2, <1>6, <2>2, <2>3, <2>4, Becomes
       DEF Service!Next, Service!Start, Service!Has, Service!Copies, Copies, StatusMap
<1> QED
  BY <1>7, <1>8, <1>9

LEMMA EngineRefines ==
    ASSUME CdmaInv, EngineDone \/ EngineError
    PROVE  Service!Next
<1> USE DEF EngineDone, EngineError
<1> PICK e \in Copies : e = engine
  BY DEF CdmaInv, CdmaTypeOK
<1>1. Status(e) = "running"
  BY StatusIs
<1>2. \A u \in Copies : u # e => outcome'[u] = outcome[u]
  BY DEF CdmaInv, CdmaTypeOK
<1>3. \A u \in Copies : u # e => Status(u)' = Status(u)
  BY <1>2, CopyRanges DEF Status, Asked, Calling
<1>4. CASE EngineDone
  <2>1. Status(e)' = "copied"
    BY <1>4 DEF Status, CdmaInv, CdmaTypeOK
  <2> QED
    BY <1>1, <1>3, <2>1, Becomes
       DEF Service!Next, Service!Finish, Service!Copies, Copies, StatusMap
<1>5. CASE EngineError
  <2>1. Status(e)' = "failed"
    BY <1>5 DEF Status, CdmaInv, CdmaTypeOK
  <2> QED
    BY <1>1, <1>3, <2>1, Becomes
       DEF Service!Next, Service!Fail, Service!Copies, Copies, StatusMap
<1> QED
  BY <1>4, <1>5

LEMMA StepRefines ==
    CdmaInv /\ CdmaInv' /\ [CdmaNext]_cdmaVars => [Service!Next]_StatusMap
<1> SUFFICES ASSUME CdmaInv, CdmaInv', [CdmaNext]_cdmaVars
             PROVE  Service!Next \/ UNCHANGED StatusMap
  OBVIOUS
<1>1. CASE ClearDdr \/ CommandCopy
  <2>1. Call("main") /\ pc["main"] = "out" /\ "main" \in Contexts
        /\ last["main"] < NumBoot + NumMain
    BY <1>1, CdmaAssumption
       DEF ClearDdr, CommandCopy, At, Contexts, CdmaInv, CdmaTypeOK
  <2>2. last["main"] + 1 \in Copies /\ last["main"] + 1 \notin Urgent
    BY <2>1, CopyRanges, CdmaAssumption DEF CdmaInv, CdmaTypeOK
  <2> QED
    BY <2>1, <2>2, AskRefines
<1>2. CASE Interrupt \/ HandlerCopy
  <2>1. Call("isr") /\ pc["isr"] = "out" /\ "isr" \in Contexts
        /\ last["isr"] < NumBoot + NumMain + NumIsr
    BY <1>2 DEF Interrupt, HandlerCopy, At, Contexts, CdmaInv, HandlerInside
  <2>2. last["isr"] + 1 \in Urgent
    BY <2>1, CdmaAssumption DEF CdmaInv, CdmaTypeOK, Urgent
  <2> QED
    BY <2>1, <2>2, AskRefines DEF Copies
<1>3. CASE EnableInterrupts \/ HandlerReturns
  BY <1>3, QuietRefines DEF EnableInterrupts, HandlerReturns, Calling
<1>4. ASSUME NEW c \in Contexts, CheckError(c) \/ WaitIdle(c)
      PROVE  UNCHANGED StatusMap
  <2>1. \A d \in Contexts : Calling(d)' <=> Calling(d)
    BY <1>4 DEF CheckError, WaitIdle, At, Goto, Calling, CdmaInv, CdmaTypeOK
  <2> QED
    BY <1>4, <2>1, QuietRefines DEF CheckError, WaitIdle
<1>5. ASSUME NEW c \in Contexts, ResetEngine(c)
      PROVE  Service!Next \/ UNCHANGED StatusMap
  BY <1>5, ResetRefines
<1>6. ASSUME NEW c \in Contexts, StartCopy(c) PROVE Service!Next
  BY <1>6, StartRefines
<1>7. CASE EngineDone \/ EngineError
  BY <1>7, EngineRefines
<1>8. CASE UNCHANGED cdmaVars
  BY <1>8, QuietRefines DEF cdmaVars, Calling
<1> QED
  BY <1>1, <1>2, <1>3, <1>4, <1>5, <1>6, <1>7, <1>8 DEF CdmaNext, Cpu

(* The code that shares the engine implements TransferService. *)
THEOREM Refinement == CdmaSpec => KeepsPromise
BY InitRefines, StepRefines, Invariance, PTL DEF CdmaSpec, KeepsPromise, Service!Spec
=============================================================================
