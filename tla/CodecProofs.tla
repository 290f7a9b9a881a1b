---------------------------- MODULE CodecProofs ----------------------------
(***************************************************************************)
(* The wire: Codec's properties for every layout that fits together,       *)
(* whatever the widths of byte, coordinate and subtype are; and those of   *)
(* vt_map_coord (CoordSweep) for every resolution and every output range:  *)
(* both ends are exact, what lies between is rounded to nearest, the map   *)
(* never turns back, and an axis flip mirrors it.  And the expanders       *)
(* (ExtDecode) for every shape that fits its fields, whatever their size:  *)
(* a payload that is all there is drawn as the shape its sender meant.     *)
(***************************************************************************)
EXTENDS Codec, CoordSweep, ExtDecode, SequenceTheorems, WellFoundedInduction, TLAPS

-----------------------------------------------------------------------------
(* Quotient and remainder of a field and what is below it.                 *)

LEMMA DivRange ==
    ASSUME NEW u \in Nat \ {0}, NEW w \in Nat
    PROVE  /\ w \div u \in Nat /\ w % u \in 0 .. u - 1
           /\ w = u * (w \div u) + (w % u)
  OBVIOUS

LEMMA Product ==
    ASSUME NEW a \in Nat, NEW b \in Nat, NEW u \in Nat \ {0}, a < b
    PROVE  u * a + u <= u * b
<1>1. PICK k \in Nat : b = a + 1 + k
  <2>1. b - a - 1 \in Nat /\ b = a + 1 + (b - a - 1)
    OBVIOUS
  <2> QED BY <2>1
<1>2. u * b = u * a + u + u * k
  BY <1>1
<1>3. u * k >= 0
  OBVIOUS
<1> QED BY <1>2, <1>3

LEMMA DivMod ==
    ASSUME NEW u \in Nat \ {0}, NEW q \in Nat, NEW r \in 0 .. u - 1
    PROVE  (q * u + r) \div u = q /\ (q * u + r) % u = r
<1> DEFINE w == q * u + r
<1>1. w \in Nat
  OBVIOUS
<1> DEFINE d == w \div u
           m == w % u
<1>2. d \in Nat /\ m \in 0 .. u - 1 /\ w = u * d + m
  BY <1>1, DivRange
<1>3. w = u * q + r
  OBVIOUS
<1> HIDE DEF w, d, m
<1>4. ~(d < q)
  BY <1>2, <1>3, Product
<1>5. ~(q < d)
  BY <1>2, <1>3, Product
<1>6. d = q
  BY <1>2, <1>4, <1>5
<1> QED BY <1>2, <1>3, <1>6 DEF w, d, m

LEMMA DivDiv ==
    ASSUME NEW u \in Nat \ {0}, NEW v \in Nat \ {0}, NEW w \in Nat
    PROVE  w \div (v * u) = (w \div u) \div v
<1> DEFINE a == w \div u
           r == w % u
           b == a \div v
           s == a % v
<1>1. a \in Nat /\ r \in 0 .. u - 1 /\ w = u * a + r
  BY DivRange
<1>2. b \in Nat /\ s \in 0 .. v - 1 /\ a = v * b + s
  BY <1>1, DivRange
<1> HIDE DEF a, r, b, s
<1>3. v * u \in Nat \ {0}
  OBVIOUS
<1>4. w = b * (v * u) + (u * s + r)
  <2>1. u * (v * b + s) = b * (v * u) + u * s
    BY <1>2
  <2> QED BY <1>1, <1>2, <2>1
<1>5. u * s + r \in 0 .. (v * u) - 1
  <2>1. u * s + u <= u * v
    BY <1>2, Product
  <2>2. u * s >= 0 /\ u * v = v * u
    BY <1>2
  <2> QED BY <1>1, <1>2, <2>1, <2>2
<1>6. w \div (v * u) = b
  BY <1>2, <1>3, <1>4, <1>5, DivMod
<1> QED BY <1>6 DEF a, b

-----------------------------------------------------------------------------
(* The layout.                                                             *)

LEMMA Layout ==
    /\ BYTE \in Nat \ {0} /\ COORD \in Nat \ {0} /\ SUBTYPES \in Nat \ {0}
    /\ BYTE * BYTE \in Nat \ {0} /\ BLANK \in Nat \ {0}
    /\ LENGTHS \in Nat \ {0} /\ FLAG \in Nat \ {0}
    /\ FLAG = 2 * BLANK /\ FLAG = SUBTYPES * LENGTHS
    /\ LENGTHS = BYTE * (BYTE * BYTE)
    /\ 8 * FLAG = BYTE * LENGTHS
<1>1. BYTE \in Nat \ {0} /\ COORD \in Nat \ {0} /\ SUBTYPES \in Nat \ {0}
  BY LayoutAssumption
<1>2. BYTE * BYTE \in Nat \ {0} /\ COORD * COORD \in Nat \ {0}
  BY <1>1
<1>3. BYTE * (BYTE * BYTE) \in Nat \ {0} /\ BYTE * (BYTE * BYTE) = BYTE * BYTE * BYTE
  BY <1>1, <1>2
<1>4. LENGTHS = BYTE * (BYTE * BYTE) /\ LENGTHS \in Nat \ {0}
  BY <1>3 DEF LENGTHS
<1>5. BLANK \in Nat \ {0} /\ FLAG = 2 * BLANK /\ FLAG \in Nat \ {0}
  BY <1>2 DEF BLANK, FLAG
<1> QED BY <1>1, <1>2, <1>4, <1>5, LayoutAssumption

\* What a flag and a payload below it make is the flag and the payload.
LEMMA FlagAndPayload ==
    ASSUME NEW f \in 0 .. 7, NEW p \in 0 .. FLAG - 1
    PROVE  /\ f * FLAG + p \in UInt32
           /\ vt_word_flag(f * FLAG + p) = f
           /\ (f * FLAG + p) % FLAG = p
<1>1. (f * FLAG + p) \div FLAG = f /\ (f * FLAG + p) % FLAG = p
  BY Layout, DivMod
<1>2. f % 8 = f
  OBVIOUS
<1>3. FLAG * f + FLAG <= FLAG * 8
  BY Layout, Product
<1>4. f * FLAG + p \in 0 .. 8 * FLAG - 1
  BY <1>3, Layout
<1> QED BY <1>1, <1>2, <1>4, Layout DEF vt_word_flag, UInt32

\* Four bytes bring a word across.
LEMMA PackUnpack == \A w \in UInt32 : vt_unpack_be(vt_pack_be(w)) = w
<1> SUFFICES ASSUME NEW w \in UInt32 PROVE vt_unpack_be(vt_pack_be(w)) = w
  OBVIOUS
<1>1. w \in Nat
  BY Layout DEF UInt32
<1> DEFINE a == w \div BYTE
           b == w \div (BYTE * BYTE)
           c == w \div LENGTHS
<1>2. a \in Nat /\ b \in Nat /\ c \in Nat
  BY <1>1, Layout, DivRange
<1>3. w = BYTE * a + (w % BYTE)
  BY <1>1, Layout, DivRange
<1>4. b = a \div BYTE /\ c = b \div BYTE
  BY <1>1, Layout, DivDiv
<1>5. a = BYTE * b + (a % BYTE)
  BY <1>2, <1>4, Layout, DivRange
<1>6. b = BYTE * c + (b % BYTE)
  BY <1>2, <1>4, Layout, DivRange
<1>7. w % BYTE \in Nat /\ a % BYTE \in Nat /\ b % BYTE \in Nat
  BY <1>1, <1>2, Layout, DivRange
<1>8. vt_unpack_be(vt_pack_be(w))
        = c * LENGTHS + (b % BYTE) * (BYTE * BYTE) + (a % BYTE) * BYTE + (w % BYTE)
  BY DEF vt_unpack_be, vt_pack_be
<1> HIDE DEF a, b, c
<1>9. b * (BYTE * BYTE) = c * LENGTHS + (b % BYTE) * (BYTE * BYTE)
  <2> DEFINE m == b % BYTE
             q == BYTE * BYTE
  <2>1. b = BYTE * c + m /\ m \in Nat /\ q \in Nat /\ LENGTHS = BYTE * q
    BY <1>6, <1>7, Layout
  <2> HIDE DEF m, q
  <2>2. (BYTE * c + m) * q = c * (BYTE * q) + m * q
    BY <2>1, <1>2, Layout
  <2> QED BY <2>1, <2>2 DEF m, q
<1>10. a * BYTE = b * (BYTE * BYTE) + (a % BYTE) * BYTE
  <2> DEFINE m == a % BYTE
  <2>1. a = BYTE * b + m /\ m \in Nat
    BY <1>5, <1>7
  <2> HIDE DEF m
  <2>2. (BYTE * b + m) * BYTE = b * (BYTE * BYTE) + m * BYTE
    BY <2>1, <1>2, Layout
  <2> QED BY <2>1, <2>2 DEF m
<1>11. w = a * BYTE + (w % BYTE)
  BY <1>3, <1>2, Layout
<1> DEFINE x == b % BYTE
           y == a % BYTE
           z == w % BYTE
           q == BYTE * BYTE
<1>12. /\ x \in Nat /\ y \in Nat /\ z \in Nat /\ q \in Nat
       /\ b * q = c * LENGTHS + x * q /\ a * BYTE = b * q + y * BYTE /\ w = a * BYTE + z
       /\ vt_unpack_be(vt_pack_be(w)) = c * LENGTHS + x * q + y * BYTE + z
  BY <1>7, <1>8, <1>9, <1>10, <1>11, Layout
<1> HIDE DEF x, y, z, q
<1>13. x * q \in Nat /\ c * LENGTHS \in Nat /\ y * BYTE \in Nat
  BY <1>12, <1>2, Layout
<1> QED BY <1>12, <1>13

-----------------------------------------------------------------------------
(* One lemma per kind of word: its flag and its fields.                    *)

\* The last field of a number.
LEMMA Below ==
    ASSUME NEW u \in Nat \ {0}, NEW q \in Nat, NEW r \in 0 .. u - 1,
           NEW w, w = q * u + r
    PROVE  w \div u = q /\ w % u = r
  BY DivMod

LEMMA Small ==
    ASSUME NEW u \in Nat \ {0}, NEW r \in 0 .. u - 1
    PROVE  r % u = r
<1>1. 0 * u + r = r
  OBVIOUS
<1> QED BY <1>1, DivMod

LEMMA ColourWord ==
    ASSUME NEW r \in UInt8, NEW g \in UInt8, NEW b \in UInt8,
           NEW w, w = vt_encode_rgb(r, g, b)
    PROVE  /\ w \in UInt32 /\ vt_word_flag(w) = RGB
           /\ (w \div (BYTE * BYTE)) % BYTE = r
           /\ (w \div BYTE) % BYTE = g
           /\ w % BYTE = b
<1> DEFINE q == BYTE * BYTE
           h == RGB * SUBTYPES
<1>0. /\ r \in 0 .. BYTE - 1 /\ g \in 0 .. BYTE - 1 /\ b \in 0 .. BYTE - 1
      /\ BYTE \in Nat \ {0} /\ q \in Nat \ {0} /\ h \in Nat /\ q = BYTE * BYTE
      /\ LENGTHS = BYTE * q
  BY Layout DEF UInt8, RGB
<1>1. RGB * FLAG = (h * BYTE) * q
  <2>1. FLAG = SUBTYPES * (BYTE * q)
    BY Layout
  <2>2. RGB * (SUBTYPES * (BYTE * q)) = ((RGB * SUBTYPES) * BYTE) * q
    BY Layout, <1>0 DEF RGB
  <2> QED BY <2>1, <2>2
<1>2. w = (h * BYTE) * q + r * q + g * BYTE + b
  BY <1>1 DEF vt_encode_rgb
<1> DEFINE p == r * q + g * BYTE + b
<1>3. w = RGB * FLAG + p
  BY Layout, <1>0 DEF vt_encode_rgb, RGB
<1> HIDE DEF q, h
<1>4. g * BYTE + b \in 0 .. q - 1
  <2>1. BYTE * g + BYTE <= BYTE * BYTE
    BY <1>0, Product
  <2> QED BY <2>1, <1>0
<1>5. p \in 0 .. LENGTHS - 1
  <2>1. q * r + q <= q * BYTE
    BY <1>0, Product
  <2>2. r * q = q * r /\ r * q \in Nat /\ q * BYTE = BYTE * q
    BY <1>0
  <2> QED BY <2>1, <2>2, <1>4, <1>0
<1>6. p \in 0 .. FLAG - 1
  <2>1. LENGTHS * 0 + LENGTHS <= LENGTHS * SUBTYPES
    BY Layout, Product
  <2> QED BY <2>1, <1>5, Layout
<1>7. w \in UInt32 /\ vt_word_flag(w) = RGB
  <2> HIDE DEF p
  <2> QED BY <1>3, <1>6, FlagAndPayload DEF RGB
<1>8. h * BYTE \in Nat /\ h * BYTE + r \in Nat
  BY <1>0
<1>9. w = (h * BYTE + r) * q + (g * BYTE + b)
  <2>1. (h * BYTE + r) * q = (h * BYTE) * q + r * q
    BY <1>0, <1>8
  <2> QED BY <2>1, <1>2, <1>0
<1>10. w \div q = h * BYTE + r
  <2> DEFINE k == h * BYTE + r
             m == g * BYTE + b
  <2>1. w = k * q + m /\ k \in Nat /\ m \in 0 .. q - 1
    BY <1>9, <1>8, <1>4
  <2> HIDE DEF k, m
  <2>2. w \div q = k
    BY <2>1, <1>0, Below
  <2> QED BY <2>2 DEF k
<1>11. (h * BYTE + r) % BYTE = r
  BY <1>0, DivMod
<1> DEFINE e == (h * BYTE + r) * BYTE
<1>12. e \in Nat /\ e + g \in Nat
  BY <1>8, <1>0
<1>13. w = (e + g) * BYTE + b
  <2>1. (h * BYTE + r) * q = e * BYTE
    BY <1>0, <1>8
  <2> HIDE DEF e
  <2>2. (e + g) * BYTE = e * BYTE + g * BYTE
    BY <1>0, <1>12
  <2> QED BY <2>1, <2>2, <1>9, <1>0, <1>12
<1>14. w \div BYTE = e + g /\ w % BYTE = b
  <2> HIDE DEF e
  <2> QED BY <1>13, <1>12, <1>0, Below
<1>15. (e + g) % BYTE = g
  BY <1>8, <1>0, DivMod
<1> QED BY <1>7, <1>10, <1>11, <1>14, <1>15 DEF q

LEMMA PointWord ==
    ASSUME NEW x \in UInt16, NEW y \in UInt16, NEW blank \in BOOLEAN,
           NEW w, w = vt_encode_xy(x, y, blank)
    PROVE  /\ w \in UInt32 /\ vt_word_flag(w) = XY
           /\ (w \div BLANK) % 2 = (IF blank THEN 1 ELSE 0)
           /\ (w \div COORD) % COORD = x % COORD
           /\ w % COORD = y % COORD
<1> DEFINE t == IF blank THEN 1 ELSE 0
           u == x % COORD
           v == y % COORD
           p == u * COORD + v
<1>0. /\ COORD \in Nat \ {0} /\ BLANK \in Nat \ {0} /\ FLAG = 2 * BLANK
      /\ BLANK = COORD * COORD
      /\ u \in 0 .. COORD - 1 /\ v \in 0 .. COORD - 1 /\ t \in 0 .. 1
  <2>1. x \in Nat /\ y \in Nat
    BY Layout DEF UInt16
  <2>2. u \in 0 .. COORD - 1 /\ v \in 0 .. COORD - 1
    BY <2>1, Layout, DivRange
  <2> QED BY <2>2, Layout DEF BLANK
<1>1. w = XY * FLAG + t * BLANK + p
  <2>1. (IF blank THEN BLANK ELSE 0) = t * BLANK
    BY <1>0
  <2>2. w = XY * FLAG + (IF blank THEN BLANK ELSE 0) + u * COORD + v
    BY DEF vt_encode_xy
  <2> HIDE DEF t, u, v
  <2> QED BY <2>1, <2>2, <1>0 DEF XY
<1> HIDE DEF t, u, v
<1>2. p \in 0 .. BLANK - 1
  <2>1. COORD * u + COORD <= COORD * COORD
    BY <1>0, Product
  <2> QED BY <2>1, <1>0
<1>3. w \in UInt32 /\ vt_word_flag(w) = XY
  <2> DEFINE m == t * BLANK + p
  <2>1. m \in 0 .. FLAG - 1
    <3> HIDE DEF p
    <3>1. t * BLANK = 0 \/ t * BLANK = BLANK
      BY <1>0
    <3> QED BY <3>1, <1>0, <1>2
  <2>2. w = XY * FLAG + m
    <3> HIDE DEF p
    <3>1. t * BLANK \in Nat /\ XY * FLAG \in Nat
      BY <1>0 DEF XY
    <3> QED BY <3>1, <1>1, <1>2
  <2> HIDE DEF m
  <2> QED BY <2>1, <2>2, FlagAndPayload DEF XY
<1> DEFINE k == 2 * XY + t
<1>4. k \in Nat /\ k % 2 = t
  BY <1>0 DEF XY
<1>5. w = k * BLANK + p
  <2> HIDE DEF p
  <2>1. k * BLANK = XY * FLAG + t * BLANK
    BY <1>0 DEF XY
  <2> QED BY <2>1, <1>1, <1>0, <1>2 DEF XY
<1>6. w \div BLANK = k
  <2> HIDE DEF k, p
  <2> QED BY <1>5, <1>4, <1>2, <1>0, Below
<1> DEFINE n == k * COORD + u
<1>7. n \in Nat /\ n % COORD = u
  <2> HIDE DEF k
  <2> QED BY <1>4, <1>0, DivMod
<1>8. w = n * COORD + v
  <2> HIDE DEF k
  <2>1. (k * COORD + u) * COORD = k * BLANK + u * COORD
    BY <1>0, <1>4
  <2> QED BY <2>1, <1>5, <1>0, <1>4
<1>9. w \div COORD = n /\ w % COORD = v
  <2> HIDE DEF n
  <2> QED BY <1>8, <1>7, <1>0, Below
<1> QED BY <1>3, <1>4, <1>6, <1>7, <1>9 DEF t, u, v

LEMMA ContainerWord ==
    ASSUME NEW s \in UInt8, NEW l \in UInt32, NEW w, w = vt_encode_ext(s, l)
    PROVE  /\ w \in UInt32 /\ vt_word_flag(w) = EXT
           /\ vt_ext_subtype(w) = s % SUBTYPES
           /\ vt_ext_length(w) = l % LENGTHS
<1> DEFINE u == s % SUBTYPES
           v == l % LENGTHS
           p == u * LENGTHS + v
<1>0. /\ SUBTYPES \in Nat \ {0} /\ LENGTHS \in Nat \ {0} /\ FLAG = SUBTYPES * LENGTHS
      /\ u \in 0 .. SUBTYPES - 1 /\ v \in 0 .. LENGTHS - 1
  <2>1. s \in Nat /\ l \in Nat
    BY Layout DEF UInt8, UInt32
  <2> QED BY <2>1, Layout, DivRange
<1>1. w = EXT * FLAG + u * LENGTHS + v
  BY DEF vt_encode_ext
<1> HIDE DEF u, v
<1>2. p \in 0 .. FLAG - 1
  <2>1. LENGTHS * u + LENGTHS <= LENGTHS * SUBTYPES
    BY <1>0, Product
  <2> QED BY <2>1, <1>0
<1>3. w \in UInt32 /\ vt_word_flag(w) = EXT
  <2>1. w = EXT * FLAG + p
    BY <1>1, <1>0, Layout DEF EXT
  <2> HIDE DEF p
  <2> QED BY <2>1, <1>2, FlagAndPayload DEF EXT
<1> DEFINE k == (EXT * SUBTYPES) + u
<1>4. k \in Nat /\ k % SUBTYPES = u
  BY <1>0, DivMod DEF EXT
<1>5. w = k * LENGTHS + v
  <2>1. (EXT * SUBTYPES + u) * LENGTHS = EXT * FLAG + u * LENGTHS
    BY <1>0 DEF EXT
  <2> QED BY <2>1, <1>1, <1>0
<1>6. w \div LENGTHS = k /\ w % LENGTHS = v
  <2> HIDE DEF k
  <2> QED BY <1>5, <1>4, <1>0, Below
<1> QED BY <1>3, <1>4, <1>6 DEF vt_ext_subtype, vt_ext_length, u, v

LEMMA ValueWord ==
    ASSUME NEW f \in 0 .. 7, NEW n \in UInt32, NEW w, w = f * FLAG + (n % FLAG)
    PROVE  w \in UInt32 /\ vt_word_flag(w) = f /\ w % FLAG = n % FLAG
<1>1. n \in Nat
  BY Layout DEF UInt32
<1>2. n % FLAG \in 0 .. FLAG - 1
  BY <1>1, Layout, DivRange
<1> QED BY <1>2, FlagAndPayload

LEMMA CompleteWord ==
    ASSUME NEW m \in BOOLEAN, NEW w, w = vt_encode_complete(m)
    PROVE  /\ w \in UInt32 /\ vt_word_flag(w) = COMPLETE
           /\ (w \div BLANK) % 2 = (IF m THEN 1 ELSE 0)
<1> DEFINE t == IF m THEN 1 ELSE 0
           p == IF m THEN BLANK ELSE 0
<1>1. p \in 0 .. FLAG - 1 /\ w = COMPLETE * FLAG + p /\ t \in 0 .. 1
  BY Layout DEF vt_encode_complete
<1>2. w = t * BLANK + 0
  BY Layout DEF vt_encode_complete, COMPLETE
<1> HIDE DEF p, t
<1>3. w \in UInt32 /\ vt_word_flag(w) = COMPLETE
  BY <1>1, FlagAndPayload DEF COMPLETE
<1>4. w \div BLANK = t
  <2>1. 0 \in 0 .. BLANK - 1 /\ BLANK \in Nat \ {0} /\ t \in Nat
    BY Layout, <1>1
  <2> QED BY <1>2, <2>1, Below
<1>5. t % 2 = t
  BY <1>1
<1> QED BY <1>3, <1>4, <1>5 DEF t

LEMMA ShortWord ==
    ASSUME NEW k \in UInt8, NEW w, w = CMD * FLAG + k
    PROVE  w \in UInt32 /\ vt_word_flag(w) = CMD /\ w % BYTE = k
<1>1. k \in 0 .. FLAG - 1
  <2>1. BYTE * BYTE \in Nat \ {0} /\ BYTE \in Nat \ {0} /\ SUBTYPES \in Nat \ {0}
    BY Layout
  <2>2. BYTE * 0 + BYTE <= BYTE * (BYTE * BYTE)
    BY <2>1, Product
  <2>3. LENGTHS * 0 + LENGTHS <= LENGTHS * SUBTYPES
    BY Layout, Product
  <2> QED BY <2>1, <2>2, <2>3, Layout DEF UInt8
<1> DEFINE q == (CMD * SUBTYPES) * (BYTE * BYTE)
<1>2. w = q * BYTE + k /\ q \in Nat
  <2>1. FLAG = SUBTYPES * (BYTE * (BYTE * BYTE))
    BY Layout
  <2>2. CMD * (SUBTYPES * (BYTE * (BYTE * BYTE))) = q * BYTE /\ q \in Nat
    BY Layout DEF CMD
  <2> QED BY <2>1, <2>2
<1> HIDE DEF q
<1>3. w % BYTE = k
  <2>1. k \in 0 .. BYTE - 1 /\ BYTE \in Nat \ {0}
    BY Layout DEF UInt8
  <2>2. (q * BYTE + k) % BYTE = k
    BY <1>2, <2>1, DivMod
  <2> QED BY <1>2, <2>2
<1> QED BY <1>1, <1>3, FlagAndPayload DEF CMD

-----------------------------------------------------------------------------
(* Every command arrives as meant.                                         *)

LEMMA Learns == \A c \in Arguments : Word(c) \in UInt32 /\ Learned(Word(c)) = Meant(c)
<1> SUFFICES ASSUME NEW c \in Arguments
             PROVE  Word(c) \in UInt32 /\ Learned(Word(c)) = Meant(c)
  OBVIOUS
<1> DEFINE w == Word(c)
<1> USE DEF COMPLETE, RGB, XY, QUALITY, FRAME, CMD, EXT, EXIT
<1>1. CASE c \in [flag : {RGB}, r : UInt8, g : UInt8, b : UInt8]
  <2>1. c.flag = RGB /\ c.r \in UInt8 /\ c.g \in UInt8 /\ c.b \in UInt8
    BY <1>1
  <2>2. w = vt_encode_rgb(c.r, c.g, c.b)
    BY <2>1 DEF Word
  <2> HIDE DEF w
  <2>3. /\ w \in UInt32 /\ vt_word_flag(w) = RGB /\ w % BYTE = c.b
        /\ (w \div (BYTE * BYTE)) % BYTE = c.r /\ (w \div BYTE) % BYTE = c.g
    BY <2>1, <2>2, ColourWord
  <2>4. vt_decode_word(w) = Fields(c)
    BY <2>1, <2>3 DEF vt_decode_word, Fields, OnlyIf
  <2>5. Learned(w) = Meant(c)
    BY <2>1, <2>3, <2>4 DEF Learned, Meant, OnlyIf, vt_is_hello, vt_is_keepalive
  <2> QED BY <2>3, <2>5 DEF w
<1>2. CASE c \in [flag : {XY}, x : UInt16, y : UInt16, blank : BOOLEAN]
  <2>1. c.flag = XY /\ c.x \in UInt16 /\ c.y \in UInt16 /\ c.blank \in BOOLEAN
    BY <1>2
  <2>2. w = vt_encode_xy(c.x, c.y, c.blank)
    BY <2>1 DEF Word
  <2> HIDE DEF w
  <2>3. /\ w \in UInt32 /\ vt_word_flag(w) = XY
        /\ (w \div BLANK) % 2 = (IF c.blank THEN 1 ELSE 0)
        /\ (w \div COORD) % COORD = c.x % COORD /\ w % COORD = c.y % COORD
    BY <2>1, <2>2, PointWord
  <2>4. ((w \div BLANK) % 2 = 1) <=> c.blank
    BY <2>1, <2>3
  <2>5. vt_decode_word(w) = Fields(c)
    BY <2>1, <2>3, <2>4 DEF vt_decode_word, Fields, OnlyIf
  <2>6. Learned(w) = Meant(c)
    BY <2>1, <2>3, <2>5 DEF Learned, Meant, OnlyIf, vt_is_hello, vt_is_keepalive
  <2> QED BY <2>3, <2>6 DEF w
<1>3. CASE c \in [flag : {FRAME, QUALITY}, value : UInt32]
  <2>1. c.flag \in {FRAME, QUALITY} /\ c.value \in UInt32
    BY <1>3
  <2>2. w = c.flag * FLAG + (c.value % FLAG)
    BY <2>1 DEF Word, vt_encode_frame, vt_encode_quality
  <2> HIDE DEF w
  <2>3. w \in UInt32 /\ vt_word_flag(w) = c.flag /\ w % FLAG = c.value % FLAG
    BY <2>1, <2>2, ValueWord
  <2>4. vt_decode_word(w) = Fields(c)
    BY <2>1, <2>3 DEF vt_decode_word, Fields, OnlyIf
  <2>5. Learned(w) = Meant(c)
    BY <2>1, <2>3, <2>4 DEF Learned, Meant, OnlyIf, vt_is_hello, vt_is_keepalive
  <2> QED BY <2>3, <2>5 DEF w
<1>4. CASE c \in [flag : {COMPLETE}, monochrome : BOOLEAN]
  <2>1. c.flag = COMPLETE /\ c.monochrome \in BOOLEAN
    BY <1>4
  <2>2. w = vt_encode_complete(c.monochrome)
    BY <2>1 DEF Word
  <2> HIDE DEF w
  <2>3. /\ w \in UInt32 /\ vt_word_flag(w) = COMPLETE
        /\ (w \div BLANK) % 2 = (IF c.monochrome THEN 1 ELSE 0)
    BY <2>1, <2>2, CompleteWord
  <2>4. ((w \div BLANK) % 2 = 1) <=> c.monochrome
    BY <2>1, <2>3
  <2>5. vt_decode_word(w) = Fields(c)
    BY <2>1, <2>3, <2>4 DEF vt_decode_word, Fields, OnlyIf
  <2>6. Learned(w) = Meant(c)
    BY <2>1, <2>3, <2>5 DEF Learned, Meant, OnlyIf, vt_is_hello, vt_is_keepalive
  <2> QED BY <2>3, <2>6 DEF w
<1>5. CASE c \in [flag : {EXT}, subtype : UInt8, length : UInt32]
  <2>1. c.flag = EXT /\ c.subtype \in UInt8 /\ c.length \in UInt32
    BY <1>5
  <2>2. w = vt_encode_ext(c.subtype, c.length)
    BY <2>1 DEF Word
  <2> HIDE DEF w
  <2>3. /\ w \in UInt32 /\ vt_word_flag(w) = EXT
        /\ vt_ext_subtype(w) = c.subtype % SUBTYPES /\ vt_ext_length(w) = c.length % LENGTHS
    BY <2>1, <2>2, ContainerWord
  <2>4. vt_decode_word(w) = Fields(c)
    BY <2>1, <2>3 DEF vt_decode_word, Fields, OnlyIf
  <2>5. Learned(w) = Meant(c)
    BY <2>1, <2>3, <2>4 DEF Learned, Meant, OnlyIf, vt_is_hello, vt_is_keepalive
  <2> QED BY <2>3, <2>5 DEF w
<1>6. CASE c \in [flag : {CMD}, cmd : {HELLO, KEEPALIVE}]
  <2>1. c.flag = CMD /\ c.cmd \in {HELLO, KEEPALIVE}
    BY <1>6
  <2>2. w = CMD * FLAG + c.cmd
    BY <2>1 DEF Word, Probe, vt_encode_keepalive
  <2>3. c.cmd \in UInt8 /\ HELLO # KEEPALIVE
    BY <2>1, LayoutAssumption
  <2> HIDE DEF w
  <2>4. w \in UInt32 /\ vt_word_flag(w) = CMD /\ w % BYTE = c.cmd
    BY <2>2, <2>3, ShortWord
  <2>5. vt_decode_word(w) = Fields(c)
    BY <2>1, <2>4 DEF vt_decode_word, Fields, OnlyIf
  <2>6. Learned(w) = Meant(c)
    BY <2>1, <2>4, <2>5 DEF Learned, Meant, OnlyIf, vt_is_hello, vt_is_keepalive
  <2> QED BY <2>4, <2>6 DEF w
<1>7. CASE c \in [flag : {EXIT}]
  <2>1. c.flag = EXIT
    BY <1>7
  <2>2. w = EXIT * FLAG + 0
    BY <2>1, Layout DEF Word, vt_encode_exit
  <2> HIDE DEF w
  <2>3. w \in UInt32 /\ vt_word_flag(w) = EXIT
    BY <2>2, Layout, FlagAndPayload
  <2>4. vt_decode_word(w) = Fields(c)
    BY <2>1, <2>3 DEF vt_decode_word, Fields, OnlyIf
  <2>5. Learned(w) = Meant(c)
    BY <2>1, <2>3, <2>4 DEF Learned, Meant, OnlyIf, vt_is_hello, vt_is_keepalive
  <2> QED BY <2>3, <2>5 DEF w
<1> QED BY <1>1, <1>2, <1>3, <1>4, <1>5, <1>6, <1>7 DEF Arguments

-----------------------------------------------------------------------------
(* Any word at all, from any four bytes.                                   *)

LEMMA Unpacks ==
    ASSUME NEW b \in [1 .. 4 -> UInt8]
    PROVE  vt_unpack_be(b) \in UInt32
<1> DEFINE q == BYTE * BYTE
           b1 == b[1]
           b2 == b[2]
           b3 == b[3]
           b4 == b[4]
<1>1. /\ b1 \in 0 .. BYTE - 1 /\ b2 \in 0 .. BYTE - 1 /\ b3 \in 0 .. BYTE - 1
      /\ b4 \in 0 .. BYTE - 1
  BY DEF UInt8
<1>2. /\ q \in Nat \ {0} /\ q = BYTE * BYTE /\ LENGTHS = BYTE * q
      /\ BYTE \in Nat \ {0} /\ LENGTHS \in Nat \ {0}
  BY Layout
<1>3. vt_unpack_be(b) = b1 * LENGTHS + b2 * q + b3 * BYTE + b4
  BY DEF vt_unpack_be
<1> HIDE DEF q, b1, b2, b3, b4
<1>4. BYTE * b3 + BYTE <= BYTE * BYTE
  BY <1>1, <1>2, Product
<1>5. q * b2 + q <= q * BYTE
  BY <1>1, <1>2, Product
<1>6. LENGTHS * b1 + LENGTHS <= LENGTHS * BYTE
  BY <1>1, <1>2, Product
<1> DEFINE s == b1 * LENGTHS
           t == b2 * q
           u == b3 * BYTE
<1>7. s = LENGTHS * b1 /\ t = q * b2 /\ u = BYTE * b3 /\ s \in Nat /\ t \in Nat /\ u \in Nat
  BY <1>1, <1>2
<1>8. q * BYTE = LENGTHS /\ LENGTHS * BYTE = BYTE * LENGTHS
  BY <1>2
<1> HIDE DEF s, t, u
<1>9. s + t + u + b4 \in 0 .. LENGTHS * BYTE - 1
  BY <1>1, <1>2, <1>4, <1>5, <1>6, <1>7, <1>8
<1> QED BY <1>3, <1>8, <1>9 DEF s, t, u, UInt32

LEMMA OneCommand == \A w \in UInt32 : Learned(w) = Meant(CommandOf(Learned(w)))
<1> SUFFICES ASSUME NEW w \in UInt32
             PROVE  Learned(w) = Meant(CommandOf(Learned(w)))
  OBVIOUS
<1> DEFINE f == vt_word_flag(w)
           l == Learned(w)
           c == CommandOf(l)
<1> USE DEF COMPLETE, RGB, XY, QUALITY, FRAME, CMD, EXT, EXIT
<1>0. w \in Nat /\ HELLO # KEEPALIVE /\ HELLO \in UInt8 /\ KEEPALIVE \in UInt8
  BY Layout, LayoutAssumption DEF UInt32
<1>1. l.cmd = vt_decode_word(w) /\ l.cmd.flag = f
  BY DEF Learned, vt_decode_word
<1>2. CASE f = EXT
  <2> DEFINE s == vt_ext_subtype(w)
             n == vt_ext_length(w)
  <2>1. s % SUBTYPES = s /\ n % LENGTHS = n
    <3>1. w \div LENGTHS \in Nat
      BY <1>0, Layout, DivRange
    <3>2. s \in 0 .. SUBTYPES - 1 /\ n \in 0 .. LENGTHS - 1
      BY <1>0, <3>1, Layout, DivRange DEF vt_ext_subtype, vt_ext_length
    <3> HIDE DEF s, n
    <3> QED BY <3>2, Layout, Small
  <2>2. c = [flag |-> EXT, subtype |-> s, length |-> n]
    <3>1. l.subtype = s /\ l.length = n
      BY <1>2 DEF Learned, OnlyIf
    <3> QED BY <1>1, <1>2, <3>1 DEF CommandOf
  <2> HIDE DEF c, s, n
  <2>3. vt_decode_word(w) = Fields(c)
    BY <1>2, <2>2 DEF vt_decode_word, Fields, OnlyIf
  <2>4. Meant(c) = [cmd |-> Fields(c), subtype |-> s % SUBTYPES, length |-> n % LENGTHS,
                    hello |-> FALSE, keepalive |-> FALSE]
    <3>1. c.flag = EXT /\ c.subtype = s /\ c.length = n
      BY <2>2
    <3>2. OnlyIf(c.flag = EXT, c.subtype % SUBTYPES) = s % SUBTYPES
      BY <3>1 DEF OnlyIf
    <3>3. OnlyIf(c.flag = EXT, c.length % LENGTHS) = n % LENGTHS
      BY <3>1 DEF OnlyIf
    <3>4. (c.flag = CMD /\ c.cmd = HELLO) = FALSE /\ (c.flag = CMD /\ c.cmd = KEEPALIVE) = FALSE
      BY <3>1
    <3> QED BY <3>2, <3>3, <3>4 DEF Meant
  <2>5. l = [cmd |-> vt_decode_word(w), subtype |-> s, length |-> n,
             hello |-> FALSE, keepalive |-> FALSE]
    <3>1. OnlyIf(f = EXT, vt_ext_subtype(w)) = s /\ OnlyIf(f = EXT, vt_ext_length(w)) = n
      BY <1>2 DEF OnlyIf, s, n
    <3>2. vt_is_hello(w) = FALSE /\ vt_is_keepalive(w) = FALSE
      BY <1>2 DEF vt_is_hello, vt_is_keepalive
    <3> QED BY <3>1, <3>2 DEF Learned
  <2> QED BY <2>1, <2>3, <2>4, <2>5 DEF c
<1>3. CASE f = CMD
  <2> DEFINE k == IF w % BYTE = HELLO THEN HELLO
                  ELSE IF w % BYTE = KEEPALIVE THEN KEEPALIVE ELSE BYTE
  <2>1. l.hello = (w % BYTE = HELLO) /\ l.keepalive = (w % BYTE = KEEPALIVE)
    BY <1>3 DEF Learned, vt_is_hello, vt_is_keepalive
  <2>2. c = [flag |-> CMD, cmd |-> k]
    <3>1. c = [flag |-> CMD, cmd |-> IF l.hello THEN HELLO ELSE IF l.keepalive THEN KEEPALIVE
                                     ELSE BYTE]
      BY <1>1, <1>3 DEF CommandOf
    <3> HIDE DEF c, l
    <3> QED BY <2>1, <3>1
  <2>3. (k = HELLO <=> w % BYTE = HELLO) /\ (k = KEEPALIVE <=> w % BYTE = KEEPALIVE)
    BY <1>0, Layout DEF UInt8
  <2> HIDE DEF c, k
  <2>4. vt_decode_word(w) = Fields(c)
    BY <1>3, <2>2 DEF vt_decode_word, Fields, OnlyIf
  <2>5. Meant(c) = [cmd |-> Fields(c), subtype |-> 0, length |-> 0,
                    hello |-> k = HELLO, keepalive |-> k = KEEPALIVE]
    BY <2>2 DEF Meant, OnlyIf
  <2>6. l = [cmd |-> vt_decode_word(w), subtype |-> 0, length |-> 0,
             hello |-> w % BYTE = HELLO, keepalive |-> w % BYTE = KEEPALIVE]
    BY <1>3 DEF Learned, OnlyIf, vt_is_hello, vt_is_keepalive
  <2> QED BY <2>3, <2>4, <2>5, <2>6 DEF c
<1>4. CASE f # EXT /\ f # CMD
  <2>1. c = vt_decode_word(w)
    BY <1>1, <1>4 DEF CommandOf
  <2> DEFINE x == (w \div COORD) % COORD
             y == w % COORD
             v == w % FLAG
  <2>2. x % COORD = x /\ y % COORD = y /\ v % FLAG = v
    <3>1. w \div COORD \in Nat
      BY <1>0, Layout, DivRange
    <3>2. x \in 0 .. COORD - 1 /\ y \in 0 .. COORD - 1 /\ v \in 0 .. FLAG - 1
      BY <1>0, <3>1, Layout, DivRange
    <3> HIDE DEF x, y, v
    <3> QED BY <3>2, Layout, Small
  <2>3. /\ c.flag = f
        /\ c.x = OnlyIf(f = XY, x) /\ c.y = OnlyIf(f = XY, y)
        /\ c.value = OnlyIf(f = FRAME \/ f = QUALITY, v)
        /\ c.r = OnlyIf(f = RGB, (w \div (BYTE * BYTE)) % BYTE)
        /\ c.g = OnlyIf(f = RGB, (w \div BYTE) % BYTE) /\ c.b = OnlyIf(f = RGB, w % BYTE)
        /\ c.blank = (f = XY /\ (w \div BLANK) % 2 = 1)
        /\ c.monochrome = (f = COMPLETE /\ (w \div BLANK) % 2 = 1)
    BY <2>1 DEF vt_decode_word
  <2> HIDE DEF c, x, y, v
  <2>4. /\ OnlyIf(f = XY, c.x % COORD) = OnlyIf(f = XY, x)
        /\ OnlyIf(f = XY, c.y % COORD) = OnlyIf(f = XY, y)
        /\ OnlyIf(f = FRAME \/ f = QUALITY, c.value % FLAG)
             = OnlyIf(f = FRAME \/ f = QUALITY, v)
    BY <2>2, <2>3 DEF OnlyIf
  <2>5. Fields(c) = vt_decode_word(w)
    BY <2>3, <2>4 DEF Fields, vt_decode_word, OnlyIf, x, y, v
  <2>6. Meant(c) = [cmd |-> Fields(c), subtype |-> 0, length |-> 0,
                    hello |-> FALSE, keepalive |-> FALSE]
    BY <1>4, <2>3 DEF Meant, OnlyIf
  <2>7. l = [cmd |-> vt_decode_word(w), subtype |-> 0, length |-> 0,
             hello |-> FALSE, keepalive |-> FALSE]
    BY <1>4 DEF Learned, OnlyIf, vt_is_hello, vt_is_keepalive
  <2> QED BY <2>5, <2>6, <2>7 DEF c
<1> QED BY <1>2, <1>3, <1>4

\* The descriptor's limits, read back, are the receiver's.
LEMMA DescriptorKept ==
    LET d == vt_encode_hello_descriptor
    IN  /\ d[1] * BYTE + d[2] = MAX_PIPELINE /\ d[3] * BYTE + d[4] = EXT_MAX
        /\ vt_ext_length(vt_encode_ext(1, EXT_MAX)) = EXT_MAX
<1>1. MAX_PIPELINE \in Nat /\ EXT_MAX \in Nat /\ EXT_MAX \in UInt16
  BY LayoutAssumption, Layout DEF UInt16
<1>2. /\ (MAX_PIPELINE \div BYTE) * BYTE + (MAX_PIPELINE % BYTE) = MAX_PIPELINE
      /\ (EXT_MAX \div BYTE) * BYTE + (EXT_MAX % BYTE) = EXT_MAX
  <2>1. /\ MAX_PIPELINE \div BYTE \in Nat /\ EXT_MAX \div BYTE \in Nat
        /\ MAX_PIPELINE = BYTE * (MAX_PIPELINE \div BYTE) + (MAX_PIPELINE % BYTE)
        /\ EXT_MAX = BYTE * (EXT_MAX \div BYTE) + (EXT_MAX % BYTE)
    BY <1>1, Layout, DivRange
  <2>2. \A k \in Nat : BYTE * k = k * BYTE
    BY Layout
  <2> QED BY <2>1, <2>2
<1>3. EXT_MAX \in 0 .. LENGTHS - 1 /\ EXT_MAX \in UInt32 /\ 1 \in UInt8
  <2>1. BYTE > 1 /\ 1 \in UInt8
    BY LayoutAssumption, Layout DEF UInt8
  <2> DEFINE q == BYTE * BYTE
  <2>2. q \in Nat \ {0} /\ LENGTHS = BYTE * q /\ EXT_MAX \in 0 .. q - 1
    BY Layout, <1>1 DEF UInt16
  <2> HIDE DEF q
  <2>3. q * 1 + q <= q * BYTE
    BY <2>1, <2>2, Layout, Product
  <2>4. LENGTHS * 1 + LENGTHS <= LENGTHS * BYTE
    BY <2>1, Layout, Product
  <2>5. q * BYTE = LENGTHS /\ LENGTHS * BYTE = BYTE * LENGTHS
    BY <2>2, Layout
  <2> QED BY <2>1, <2>2, <2>3, <2>4, <2>5, Layout DEF UInt32
<1>4. vt_ext_length(vt_encode_ext(1, EXT_MAX)) = EXT_MAX
  BY <1>3, Layout, ContainerWord, Small
<1> QED BY <1>2, <1>4 DEF vt_encode_hello_descriptor

-----------------------------------------------------------------------------
(* The specification's invariants.                                         *)

Actual == [pipeline |-> MAX_PIPELINE, payload |-> EXT_MAX]

\* A word is on the wire as it was packed, or it is not there and what was
\* learned of it is known.
CodecInv ==
    /\ \/ sent = Nothing /\ wire = <<>> /\ got = Nothing
       \/ sent \in Commands /\ wire = vt_pack_be(Word(sent)) /\ got = Nothing
       \/ sent \in Commands /\ wire = <<>> /\ got = Learned(Word(sent))
       \/ sent = Damage /\ wire \in [1 .. 4 -> NoisyBytes] /\ got = Nothing
       \/ sent = Damage /\ wire = <<>> /\ \E w \in UInt32 : got = Learned(w)
    /\ limits \in {Unknown, Actual}

LEMMA NothingElse ==
    /\ Nothing # Damage
    /\ \A c \in Commands : c # Nothing /\ c # Damage
<1>1. \A c \in Arguments : "flag" \in DOMAIN c
  BY DEF Arguments
<1>2. "flag" \notin DOMAIN Nothing /\ "flag" \notin DOMAIN Damage
  BY DEF Nothing, Damage
<1>3. "nothing" \in DOMAIN Nothing /\ "nothing" \notin DOMAIN Damage
  BY DEF Nothing, Damage
<1> QED BY <1>1, <1>2, <1>3, CommandsAssumption

LEMMA CodecInvInit == Init => CodecInv
  BY DEF Init, CodecInv

LEMMA CodecInvNext == CodecInv /\ [Next]_vars => CodecInv'
<1> SUFFICES ASSUME CodecInv, [Next]_vars PROVE CodecInv'
  OBVIOUS
<1>1. CASE Send
  BY <1>1, NothingElse DEF CodecInv, Send
<1>2. CASE Disturb
  BY <1>2, NothingElse DEF CodecInv, Disturb
<1>3. CASE Receive
  <2> DEFINE w == vt_unpack_be(wire)
  <2>1. wire' = <<>> /\ got' = Learned(w) /\ sent' = sent
    BY <1>3 DEF Receive
  <2>2. limits' \in {Unknown, Actual}
    <3>1. limits' = limits \/ limits' = Actual
      BY <1>3, DescriptorKept DEF Receive, Actual
    <3> QED BY <3>1 DEF CodecInv
  <2>3. CASE sent \in Commands /\ wire = vt_pack_be(Word(sent))
    <3>1. Word(sent) \in UInt32
      BY <2>3, CommandsAssumption, Learns
    <3>2. w = Word(sent)
      BY <2>3, <3>1, PackUnpack
    <3> QED BY <2>1, <2>2, <2>3, <3>2 DEF CodecInv
  <2>4. CASE sent = Damage /\ wire \in [1 .. 4 -> NoisyBytes]
    <3>1. wire \in [1 .. 4 -> UInt8]
      BY <2>4, NoiseAssumption
    <3>2. w \in UInt32
      BY <3>1, Unpacks
    <3> QED BY <2>1, <2>2, <2>4, <3>2 DEF CodecInv
  <2>5. wire # <<>>
    BY <1>3 DEF Receive
  <2> QED BY <2>3, <2>4, <2>5 DEF CodecInv
<1>4. CASE Settle
  BY <1>4 DEF CodecInv, Settle
<1>5. CASE UNCHANGED vars
  BY <1>5 DEF CodecInv, vars
<1> QED BY <1>1, <1>2, <1>3, <1>4, <1>5 DEF Next

THEOREM CodecInvariant == Spec => []CodecInv
<1> QED BY CodecInvInit, CodecInvNext, PTL DEF Spec

\* Whatever the widths, a receiver learns the command that was meant
\* (vt_encode_* and vt_pack_be against vt_unpack_be and vt_decode_word).
THEOREM EveryCommandArrives == Spec => []ArrivesAsMeant
<1>1. CodecInv => ArrivesAsMeant
  <2> SUFFICES ASSUME CodecInv, got # Nothing, sent # Damage PROVE got = Meant(sent)
    BY DEF ArrivesAsMeant
  <2>1. sent \in Commands /\ got = Learned(Word(sent))
    BY DEF CodecInv
  <2> QED BY <2>1, CommandsAssumption, Learns
<1> QED BY <1>1, CodecInvariant, PTL

\* Every word, damaged or not, is taken for one command (vt_decode_word's
\* switch, vt_is_hello and vt_is_keepalive).
THEOREM EveryWordIsOneCommand == Spec => []TakenForOneCommand
<1>1. CodecInv => TakenForOneCommand
  <2> SUFFICES ASSUME CodecInv, got # Nothing PROVE got = Meant(CommandOf(got))
    BY DEF TakenForOneCommand
  <2>1. \E w \in UInt32 : got = Learned(w)
    BY CommandsAssumption, Learns DEF CodecInv
  <2> QED BY <2>1, OneCommand
<1> QED BY <1>1, CodecInvariant, PTL

\* What a prober reads in the descriptor is what the receiver allows, and an
\* EXT word can say it (vt_encode_hello_descriptor, vt_encode_ext).
THEOREM ProberKnowsLimits == Spec => []LimitsKnown
<1>1. CodecInv => LimitsKnown
  BY DescriptorKept DEF CodecInv, LimitsKnown, Actual
<1> QED BY <1>1, CodecInvariant, PTL

-----------------------------------------------------------------------------
(* The coordinates.                                                        *)

SweepInv ==
    /\ out_lo \in Int /\ out_hi \in Int /\ dev \in Int
    /\ mapped = vt_map_coord(dev, RES, out_lo, out_hi)

-----------------------------------------------------------------------------
(* The arithmetic.                                                         *)

\* A multiple of u that is less than another is less by u at least.
LEMMA NextMultiple ==
    ASSUME NEW a \in Int, NEW b \in Int, NEW u \in Nat \ {0}, a < b
    PROVE  a * u + u <= b * u
<1>1. PICK k \in Nat : b = a + 1 + k
  <2>1. b - a - 1 \in Nat /\ b = a + 1 + (b - a - 1)
    OBVIOUS
  <2> QED BY <2>1
<1>2. b * u = a * u + u + k * u
  BY <1>1
<1>3. k * u >= 0
  OBVIOUS
<1>4. a * u \in Int /\ k * u \in Int
  OBVIOUS
<1> QED BY <1>2, <1>3, <1>4

\* What Rounded returns, by the sign of num.
LEMMA RoundedUp ==
    ASSUME NEW r \in Nat \ {0}, NEW n \in Nat
    PROVE  /\ Rounded(n, r) \in Nat
           /\ Rounded(n, r) * r <= n + r \div 2
           /\ n + r \div 2 < Rounded(n, r) * r + r
<1> DEFINE w == n + r \div 2
           q == w \div r
<1>1. w \in Nat
  OBVIOUS
<1>2. q \in Nat /\ w % r \in 0 .. r - 1 /\ w = r * q + (w % r)
  BY <1>1
<1>3. Rounded(n, r) = q
  BY <1>1 DEF Rounded, Quotient
<1>4. q * r <= w /\ w < q * r + r
  <2> DEFINE p == r * q
             m == w % r
  <2>1. p \in Nat /\ m \in 0 .. r - 1 /\ w = p + m /\ q * r = p
    BY <1>2
  <2> HIDE DEF p, m, w, q
  <2> QED BY <2>1
<1> QED BY <1>2, <1>3, <1>4

LEMMA RoundedDown ==
    ASSUME NEW r \in Nat \ {0}, NEW n \in Nat \ {0}
    PROVE  Rounded(-n, r) = -Rounded(n, r)
<1>1. ~(-n >= 0) /\ -n - r \div 2 = -(n + r \div 2) /\ ~(-n - r \div 2 >= 0)
  OBVIOUS
<1> QED BY <1>1 DEF Rounded, Quotient

LEMMA Half ==
    ASSUME NEW r \in Nat \ {0}
    PROVE  /\ r \div 2 \in Nat
           /\ 2 * (r \div 2) <= r /\ r <= 2 * (r \div 2) + 1
OBVIOUS

LEMMA RoundedZero ==
    ASSUME NEW r \in Nat \ {0}
    PROVE  Rounded(0, r) = 0
<1> DEFINE q == Rounded(0, r)
           h == r \div 2
<1>1. q \in Nat /\ q * r <= 0 + h
  BY RoundedUp
<1>2. h \in Nat /\ 2 * h <= r
  BY Half
<1>3. q > 0 => 0 * r + r <= q * r
  BY <1>1, NextMultiple
<1>4. 0 * r = 0 /\ q * r \in Int
  BY <1>1
<1> HIDE DEF q, h
<1>5. q = 0
  <2> DEFINE p == q * r
  <2>1. p \in Int /\ p <= h /\ (q > 0 => r <= p)
    BY <1>1, <1>2, <1>3, <1>4
  <2> HIDE DEF p
  <2> QED BY <2>1, <1>1, <1>2
<1> QED BY <1>5 DEF q

LEMMA RoundedOdd ==
    ASSUME NEW r \in Nat \ {0}, NEW n \in Int
    PROVE  Rounded(n, r) \in Int /\ Rounded(-n, r) = -Rounded(n, r)
<1>1. CASE n = 0
  BY <1>1, RoundedZero
<1>2. CASE n > 0
  <2>1. n \in Nat \ {0}
    BY <1>2
  <2> QED BY <2>1, RoundedUp, RoundedDown
<1>3. CASE n < 0
  <2>1. PICK m \in Nat \ {0} : n = -m
    <3>1. -n \in Nat \ {0} /\ n = -(-n)
      BY <1>3
    <3> QED BY <3>1
  <2>2. Rounded(-m, r) = -Rounded(m, r) /\ Rounded(m, r) \in Nat
    BY <2>1, RoundedUp, RoundedDown
  <2>3. -n = m
    BY <2>1
  <2> QED BY <2>1, <2>2, <2>3
<1> QED BY <1>1, <1>2, <1>3

\* It is the nearest integer.
LEMMA RoundedNearestUp ==
    ASSUME NEW r \in Nat \ {0}, NEW n \in Nat
    PROVE  /\ 2 * (Rounded(n, r) * r - n) <= r
           /\ -r <= 2 * (Rounded(n, r) * r - n)
<1> DEFINE h == r \div 2
           p == Rounded(n, r) * r
<1>1. h \in Nat /\ 2 * h <= r /\ r <= 2 * h + 1
  BY Half
<1>2. p \in Int /\ p <= n + h /\ n + h < p + r
  BY RoundedUp
<1> HIDE DEF h, p
<1>3. 2 * (p - n) <= r /\ -r <= 2 * (p - n)
  BY <1>1, <1>2
<1> QED BY <1>3 DEF p

LEMMA RoundedNearest ==
    ASSUME NEW r \in Nat \ {0}, NEW n \in Int
    PROVE  /\ 2 * (Rounded(n, r) * r - n) <= r
           /\ -r <= 2 * (Rounded(n, r) * r - n)
<1>1. CASE n >= 0
  BY <1>1, RoundedNearestUp
<1>2. CASE n < 0
  <2>1. PICK m \in Nat \ {0} : n = -m
    <3>1. -n \in Nat \ {0} /\ n = -(-n)
      BY <1>2
    <3> QED BY <3>1
  <2> DEFINE q == Rounded(m, r)
             p == q * r
  <2>2. q \in Int /\ Rounded(n, r) = -q
    BY <2>1, RoundedUp, RoundedDown
  <2>3. 2 * (p - m) <= r /\ -r <= 2 * (p - m)
    BY <2>1, RoundedNearestUp
  <2>4. p \in Int /\ (-q) * r = -p
    BY <2>2
  <2> HIDE DEF q, p
  <2>5. 2 * (-p - n) <= r /\ -r <= 2 * (-p - n)
    BY <2>1, <2>3, <2>4
  <2>6. Rounded(n, r) * r = -p
    BY <2>2, <2>4
  <2> QED BY <2>5, <2>6
<1> QED BY <1>1, <1>2

\* Nearest to a multiple of r is that multiple.
LEMMA RoundedExact ==
    ASSUME NEW r \in Nat \ {0}, NEW s \in Int
    PROVE  Rounded(s * r, r) = s
<1> DEFINE q == Rounded(s * r, r)
           p == q * r
           t == s * r
<1>1. t \in Int
  OBVIOUS
<1>2. q \in Int
  BY <1>1, RoundedOdd
<1>3. 2 * (p - t) <= r /\ -r <= 2 * (p - t)
  BY <1>1, RoundedNearest
<1>4. (q < s => p + r <= t) /\ (s < q => t + r <= p)
  BY <1>2, NextMultiple
<1>5. p \in Int
  BY <1>2
<1> HIDE DEF p, t, q
<1>6. q = s
  BY <1>1, <1>2, <1>3, <1>4, <1>5
<1> QED BY <1>6 DEF q

\* It grows with what is rounded.
LEMMA RoundedGrowsUp ==
    ASSUME NEW r \in Nat \ {0}, NEW m \in Nat, NEW n \in Nat, m <= n
    PROVE  Rounded(m, r) <= Rounded(n, r)
<1> DEFINE a == Rounded(m, r)
           b == Rounded(n, r)
           h == r \div 2
           p == a * r
           q == b * r
<1>1. a \in Nat /\ b \in Nat /\ p <= m + h /\ n + h < q + r /\ h \in Nat
  BY RoundedUp, Half
<1>2. b < a => q + r <= p
  BY <1>1, NextMultiple
<1>3. p \in Int /\ q \in Int
  BY <1>1
<1> HIDE DEF a, b, h, p, q
<1>4. a <= b
  BY <1>1, <1>2, <1>3
<1> QED BY <1>4 DEF a, b

LEMMA RoundedGrows ==
    ASSUME NEW r \in Nat \ {0}, NEW m \in Int, NEW n \in Int, m <= n
    PROVE  Rounded(m, r) <= Rounded(n, r)
<1>1. CASE m >= 0
  BY <1>1, RoundedGrowsUp
<1>2. CASE n <= 0
  <2>1. PICK i \in Nat, j \in Nat : m = -i /\ n = -j /\ j <= i
    <3>1. -m \in Nat /\ -n \in Nat /\ m = -(-m) /\ n = -(-n) /\ -n <= -m
      BY <1>2
    <3> QED BY <3>1
  <2>2. Rounded(j, r) <= Rounded(i, r)
    BY <2>1, RoundedGrowsUp
  <2>3. /\ Rounded(i, r) \in Int /\ Rounded(j, r) \in Int
        /\ Rounded(-i, r) = -Rounded(i, r) /\ Rounded(-j, r) = -Rounded(j, r)
    BY RoundedOdd
  <2> QED BY <2>1, <2>2, <2>3
<1>3. CASE m < 0 /\ n > 0
  <2>1. PICK i \in Nat : m = -i
    <3>1. -m \in Nat /\ m = -(-m)
      BY <1>3
    <3> QED BY <3>1
  <2>2. Rounded(i, r) \in Nat /\ Rounded(n, r) \in Nat
    BY <1>3, RoundedUp
  <2>3. Rounded(-i, r) = -Rounded(i, r)
    BY RoundedOdd
  <2> QED BY <2>1, <2>2, <2>3
<1> QED BY <1>1, <1>2, <1>3

\* A product grows with its factor when the other is not negative.
LEMMA ProductGrows ==
    ASSUME NEW s \in Nat, NEW a \in Int, NEW b \in Int, a <= b
    PROVE  s * a <= s * b
<1>1. PICK k \in Nat : b = a + k
  <2>1. b - a \in Nat /\ b = a + (b - a)
    OBVIOUS
  <2> QED BY <2>1
<1>2. s * b = s * a + s * k /\ s * k >= 0 /\ s * a \in Int /\ s * k \in Int
  BY <1>1
<1> QED BY <1>2

-----------------------------------------------------------------------------
(* vt_map_coord.                                                           *)

\* It does what Rounded does to the product of span and clamped coordinate.
LEMMA Mapping ==
    ASSUME NEW d \in Int, NEW lo \in Int, NEW hi \in Int
    PROVE  LET on == IF d < 0 THEN 0 ELSE IF d > RES THEN RES ELSE d
           IN  /\ on \in 0 .. RES
               /\ (hi - lo) * on \in Int
               /\ Rounded((hi - lo) * on, RES) \in Int
               /\ vt_map_coord(d, RES, lo, hi) = lo + Rounded((hi - lo) * on, RES)
<1> DEFINE on == IF d < 0 THEN 0 ELSE IF d > RES THEN RES ELSE d
<1>1. on \in 0 .. RES
  BY SweepAssumption
<1>2. (hi - lo) * on \in Int
  BY <1>1
<1>3. Rounded((hi - lo) * on, RES) \in Int
  BY <1>2, SweepAssumption, RoundedOdd
<1>4. vt_map_coord(d, RES, lo, hi) = lo + Rounded((hi - lo) * on, RES)
  BY DEF vt_map_coord
<1> QED BY <1>1, <1>2, <1>3, <1>4

LEMMA MapEnds ==
    ASSUME NEW d \in Int, NEW lo \in Int, NEW hi \in Int
    PROVE  /\ d <= 0 => vt_map_coord(d, RES, lo, hi) = lo
           /\ d >= RES => vt_map_coord(d, RES, lo, hi) = hi
<1>1. CASE d <= 0
  <2>1. (IF d < 0 THEN 0 ELSE IF d > RES THEN RES ELSE d) = 0
    BY <1>1, SweepAssumption
  <2>2. (hi - lo) * 0 = 0
    OBVIOUS
  <2>3. vt_map_coord(d, RES, lo, hi) = lo + Rounded(0, RES)
    <3> DEFINE on == IF d < 0 THEN 0 ELSE IF d > RES THEN RES ELSE d
    <3>1. vt_map_coord(d, RES, lo, hi) = lo + Rounded((hi - lo) * on, RES)
      BY Mapping
    <3>2. on = 0
      BY <2>1
    <3> HIDE DEF on
    <3> QED BY <3>1, <3>2, <2>2
  <2>4. Rounded(0, RES) = 0
    BY SweepAssumption, RoundedZero
  <2>5. ~(d >= RES)
    BY <1>1, SweepAssumption
  <2> QED BY <2>3, <2>4, <2>5
<1>2. CASE d >= RES
  <2>1. (IF d < 0 THEN 0 ELSE IF d > RES THEN RES ELSE d) = RES
    BY <1>2, SweepAssumption
  <2>2. vt_map_coord(d, RES, lo, hi) = lo + Rounded((hi - lo) * RES, RES)
    <3> DEFINE on == IF d < 0 THEN 0 ELSE IF d > RES THEN RES ELSE d
    <3>1. vt_map_coord(d, RES, lo, hi) = lo + Rounded((hi - lo) * on, RES)
      BY Mapping
    <3>2. on = RES
      BY <2>1
    <3> HIDE DEF on
    <3> QED BY <3>1, <3>2
  <2>3. Rounded((hi - lo) * RES, RES) = hi - lo
    BY SweepAssumption, RoundedExact
  <2>4. ~(d <= 0)
    BY <1>2, SweepAssumption
  <2> QED BY <2>2, <2>3, <2>4
<1>3. CASE d > 0 /\ d < RES
  BY <1>3, SweepAssumption
<1> QED BY <1>1, <1>2, <1>3, SweepAssumption

LEMMA MapGrows ==
    ASSUME NEW d \in Int, NEW lo \in Int, NEW hi \in Int, lo <= hi
    PROVE  vt_map_coord(d, RES, lo, hi) <= vt_map_coord(d + 1, RES, lo, hi)
<1> DEFINE a == IF d < 0 THEN 0 ELSE IF d > RES THEN RES ELSE d
           b == IF d + 1 < 0 THEN 0 ELSE IF d + 1 > RES THEN RES ELSE d + 1
           m == (hi - lo) * a
           n == (hi - lo) * b
<1>1. a \in Int /\ b \in Int /\ a <= b /\ hi - lo \in Nat
  BY SweepAssumption
<1>2. m <= n
  <2> HIDE DEF a, b
  <2> QED BY <1>1, ProductGrows
<1>3. /\ m \in Int /\ Rounded(m, RES) \in Int
      /\ vt_map_coord(d, RES, lo, hi) = lo + Rounded(m, RES)
  BY Mapping
<1>4. /\ n \in Int /\ Rounded(n, RES) \in Int
      /\ vt_map_coord(d + 1, RES, lo, hi) = lo + Rounded(n, RES)
  BY d + 1 \in Int, Mapping
<1> HIDE DEF m, n
<1>5. Rounded(m, RES) <= Rounded(n, RES)
  BY <1>2, <1>3, <1>4, SweepAssumption, RoundedGrows
<1> QED BY <1>3, <1>4, <1>5

LEMMA MapMirrors ==
    ASSUME NEW d \in Int, NEW lo \in Int, NEW hi \in Int
    PROVE  /\ vt_map_coord(d, RES, lo, hi) \in Int
           /\ vt_map_coord(d, RES, hi, lo) = lo + hi - vt_map_coord(d, RES, lo, hi)
<1> DEFINE on == IF d < 0 THEN 0 ELSE IF d > RES THEN RES ELSE d
           m == (hi - lo) * on
           k == (lo - hi) * on
<1>1. on \in Int
  BY SweepAssumption
<1>2. k = -m
  BY <1>1
<1>3. /\ m \in Int /\ Rounded(m, RES) \in Int
      /\ vt_map_coord(d, RES, lo, hi) = lo + Rounded(m, RES)
  BY Mapping
<1>4. vt_map_coord(d, RES, hi, lo) = hi + Rounded(k, RES)
  BY Mapping
<1> HIDE DEF m, k
<1>5. Rounded(-m, RES) = -Rounded(m, RES)
  BY <1>3, SweepAssumption, RoundedOdd
<1> QED BY <1>2, <1>3, <1>4, <1>5

-----------------------------------------------------------------------------
LEMMA SweepInvInit == SweepInit => SweepInv
BY SweepAssumption DEF SweepInit, SweepInv

LEMMA SweepInvNext == SweepInv /\ [Sweep]_sweep_vars => SweepInv'
<1> SUFFICES ASSUME SweepInv, [Sweep]_sweep_vars PROVE SweepInv'
  OBVIOUS
<1>1. CASE Sweep
  BY <1>1 DEF SweepInv, Sweep
<1>2. CASE UNCHANGED sweep_vars
  BY <1>2 DEF SweepInv, sweep_vars
<1> QED BY <1>1, <1>2

LEMMA SweepInvNearest == SweepInv => Nearest
<1> SUFFICES ASSUME SweepInv PROVE Nearest
  OBVIOUS
<1> DEFINE m == Span * OnGrid
           q == Rounded(m, RES)
           p == q * RES
<1>1. m \in Int /\ q \in Int /\ mapped = out_lo + q
  BY Mapping DEF SweepInv, Span, OnGrid
<1>2. 2 * (p - m) <= RES /\ -RES <= 2 * (p - m)
  <2> HIDE DEF m
  <2> QED BY <1>1, SweepAssumption, RoundedNearest
<1>3. (mapped - out_lo) * RES = p
  <2> HIDE DEF q
  <2>1. mapped - out_lo = q
    BY <1>1 DEF SweepInv
  <2> QED BY <2>1
<1>4. p \in Int
  <2> HIDE DEF q
  <2> QED BY <1>1, SweepAssumption
<1>5. 2 * Distance(p - m) <= RES
  <2> HIDE DEF p, m
  <2> QED BY <1>1, <1>2, <1>4, SweepAssumption DEF Distance
<1> QED BY <1>3, <1>5 DEF Nearest

\* What is shown is what vt_map_coord returns for the coordinate at hand.
THEOREM SweepInvariant == SweepSpec => []SweepInv
<1> QED BY SweepInvInit, SweepInvNext, PTL DEF SweepSpec

\* Both ends of every output range are met exactly.
THEOREM EndsAreExact == SweepSpec => []EndsExact
<1>1. SweepInv => EndsExact
  BY MapEnds DEF SweepInv, EndsExact
<1> QED BY <1>1, SweepInvariant, PTL

\* vt_map_coord rounds to the nearest integer.
THEOREM IsNearest == SweepSpec => []Nearest
<1> QED BY SweepInvNearest, SweepInvariant, PTL

\* vt_map_coord mirrors under an axis flip.
THEOREM IsMirrored == SweepSpec => []Mirrored
<1>1. SweepInv => Mirrored
  BY MapMirrors DEF SweepInv, Mirrored
<1> QED BY <1>1, SweepInvariant, PTL

\* vt_map_coord is monotone, whichever way the output range runs.
THEOREM IsMonotone == SweepSpec => NeverTurns
<1>1. SweepInv /\ [Sweep]_sweep_vars
        => [IF out_lo <= out_hi THEN mapped <= mapped' ELSE mapped' <= mapped]_sweep_vars
  <2> SUFFICES ASSUME SweepInv, Sweep
               PROVE  IF out_lo <= out_hi THEN mapped <= mapped' ELSE mapped' <= mapped
    OBVIOUS
  <2>1. /\ out_lo \in Int /\ out_hi \in Int /\ dev \in Int
        /\ mapped = vt_map_coord(dev, RES, out_lo, out_hi)
        /\ mapped' = vt_map_coord(dev + 1, RES, out_lo, out_hi)
    BY DEF SweepInv, Sweep
  <2>2. CASE out_lo <= out_hi
    BY <2>1, <2>2, MapGrows
  <2>3. CASE ~(out_lo <= out_hi)
    <3>1. vt_map_coord(dev, RES, out_hi, out_lo) <= vt_map_coord(dev + 1, RES, out_hi, out_lo)
      BY <2>1, <2>3, MapGrows
    <3>2. /\ vt_map_coord(dev, RES, out_hi, out_lo) \in Int
          /\ mapped = out_hi + out_lo - vt_map_coord(dev, RES, out_hi, out_lo)
      <4>1. /\ dev \in Int /\ out_lo \in Int /\ out_hi \in Int
            /\ mapped = vt_map_coord(dev, RES, out_lo, out_hi)
        BY <2>1
      <4>2. /\ vt_map_coord(dev, RES, out_hi, out_lo) \in Int
            /\ vt_map_coord(dev, RES, out_lo, out_hi)
                 = out_hi + out_lo - vt_map_coord(dev, RES, out_hi, out_lo)
        BY <4>1, MapMirrors
      <4> QED BY <4>1, <4>2
    <3>3. /\ vt_map_coord(dev + 1, RES, out_hi, out_lo) \in Int
          /\ mapped' = out_hi + out_lo - vt_map_coord(dev + 1, RES, out_hi, out_lo)
      <4>1. /\ dev + 1 \in Int /\ out_lo \in Int /\ out_hi \in Int
            /\ mapped' = vt_map_coord(dev + 1, RES, out_lo, out_hi)
        BY <2>1
      <4>2. /\ vt_map_coord(dev + 1, RES, out_hi, out_lo) \in Int
            /\ vt_map_coord(dev + 1, RES, out_lo, out_hi)
                 = out_hi + out_lo - vt_map_coord(dev + 1, RES, out_hi, out_lo)
        BY <4>1, MapMirrors
      <4> QED BY <4>1, <4>2
    <3> QED BY <2>1, <2>3, <3>1, <3>2, <3>3
  <2> QED BY <2>2, <2>3
<1> QED BY <1>1, SweepInvariant, PTL DEF SweepSpec, NeverTurns

-----------------------------------------------------------------------------
(* The expanders (ExtDecode): induction, and sequences laid end to end.    *)

(* Induction over the natural numbers, with a set for the predicate.       *)
Less == {ss \in Nat \X Nat : ss[1] < ss[2]}

LEMMA LessIsWellFounded == IsWellFoundedOn(Less, Nat)
  BY NatLessThanWellFounded DEF OpToRel, Less

LEMMA Induction ==
    ASSUME NEW S, 0 \in S, \A n \in Nat : n \in S => n + 1 \in S
    PROVE  Nat \subseteq S
<1> DEFINE T == Nat \ S
<1> SUFFICES ASSUME T # {} PROVE FALSE
  OBVIOUS
<1>1. \E x \in T : \A y \in T : ~(<<y, x>> \in Less)
  <2>1. T \subseteq Nat
    OBVIOUS
  <2> HIDE DEF T
  <2> QED
    BY LessIsWellFounded, <2>1, WFMin
<1>2. PICK x \in T : \A y \in T : ~(<<y, x>> \in Less)
  BY <1>1
<1>3. x \in Nat /\ x # 0 /\ x - 1 \in Nat
  OBVIOUS
<1>4. x - 1 \in T /\ <<x - 1, x>> \in Less
  BY <1>3 DEF Less
<1> QED
  BY <1>2, <1>4

-----------------------------------------------------------------------------
(* Items one more at a time: what they compose and what they spell.  The   *)

Flattened(s, n, f) == f = [i \in 1 .. n |-> IF i = 1 THEN s[i] ELSE f[i - 1] \o s[i]]

LEMMA FlatteningExists ==
    ASSUME NEW s
    PROVE  \A n \in Nat : \E f : Flattened(s, n, f)
<1> DEFINE S == {n \in Nat : \E f : Flattened(s, n, f)}
<1>1. 0 \in S
  <2> DEFINE f == [i \in 1 .. 0 |-> <<>>]
  <2>1. f = [i \in 1 .. 0 |-> IF i = 1 THEN s[i] ELSE f[i - 1] \o s[i]]
    OBVIOUS
  <2> QED
    BY <2>1 DEF Flattened
<1>2. ASSUME NEW n \in Nat, n \in S PROVE n + 1 \in S
  <2>1. PICK f : Flattened(s, n, f)
    BY <1>2
  <2> DEFINE g == [i \in 1 .. n + 1 |->
                     IF i = n + 1 THEN IF i = 1 THEN s[i] ELSE f[i - 1] \o s[i] ELSE f[i]]
  <2>2. \A i \in 1 .. n : f[i] = IF i = 1 THEN s[i] ELSE f[i - 1] \o s[i]
    BY <2>1 DEF Flattened
  <2>3. ASSUME NEW i \in 1 .. n + 1
        PROVE  g[i] = IF i = 1 THEN s[i] ELSE g[i - 1] \o s[i]
    <3>1. i # 1 => i - 1 \in 1 .. n + 1 /\ i - 1 # n + 1
      OBVIOUS
    <3>2. i # 1 => g[i - 1] = f[i - 1]
      BY <3>1
    <3>3. i # n + 1 => i \in 1 .. n
      OBVIOUS
    <3> QED
      BY <2>2, <3>2, <3>3
  <2>4. g = [i \in 1 .. n + 1 |-> IF i = 1 THEN s[i] ELSE g[i - 1] \o s[i]]
    BY <2>3
  <2> HIDE DEF g
  <2>5. Flattened(s, n + 1, g)
    BY <2>4 DEF Flattened
  <2> QED
    BY <2>5
<1>3. Nat \subseteq S
  <2> HIDE DEF S
  <2> QED
    BY <1>1, <1>2, Induction
<1> QED
  BY <1>3

-----------------------------------------------------------------------------
(* A sequence of sequences, flattened along its prefixes.                  *)
LEMMA FlattenPrefixes ==
    ASSUME NEW S, NEW n \in Nat, NEW q \in [1 .. n -> Seq(S)]
    PROVE  \E f \in [0 .. n -> Seq(S)] :
              /\ f[0] = <<>>
              /\ \A i \in 1 .. n : f[i] = f[i - 1] \o q[i]
              /\ FlattenSeq(q) = f[n]
<1>1. q \in Seq(Seq(S)) /\ Len(q) = n
  OBVIOUS
<1> DEFINE g == CHOOSE g : Flattened(q, n, g)
<1>2. n # 0 => FlattenSeq(q) = g[n]
  BY <1>1 DEF FlattenSeq, Flattened
<1>3. Flattened(q, n, g)
  BY FlatteningExists
<1>4. n = 0 => FlattenSeq(q) = <<>>
  BY <1>1 DEF FlattenSeq
<1> HIDE DEF g
<1>5. \A i \in 1 .. n : g[i] = IF i = 1 THEN q[i] ELSE g[i - 1] \o q[i]
  BY <1>3 DEF Flattened
<1> DEFINE f == [i \in 0 .. n |-> IF i = 0 THEN <<>> ELSE g[i]]
<1>6. f[0] = <<>> /\ \A i \in 1 .. n : f[i] = g[i]
  OBVIOUS
<1>7. DOMAIN f = 0 .. n
  OBVIOUS
<1>8. FlattenSeq(q) = f[n]
  BY <1>2, <1>4, <1>6
<1>9. f = [i \in 0 .. n |-> f[i]]
  OBVIOUS
<1> HIDE DEF f
<1>10. ASSUME NEW i \in 1 .. n PROVE f[i] = f[i - 1] \o q[i]
  <2>1. q[i] \in Seq(S)
    OBVIOUS
  <2>2. g[i] = IF i = 1 THEN q[i] ELSE g[i - 1] \o q[i]
    BY <1>5
  <2>3. i = 1 => f[i - 1] = <<>>
    BY <1>6
  <2>4. i # 1 => i - 1 \in 1 .. n
    OBVIOUS
  <2>5. i # 1 => f[i - 1] = g[i - 1]
    BY <1>6, <2>4
  <2>6. f[i] = g[i]
    BY <1>6
  <2>7. <<>> \o q[i] = q[i]
    BY <2>1
  <2> QED BY <2>2, <2>3, <2>5, <2>6, <2>7
<1> DEFINE T == {i \in Nat : i <= n => f[i] \in Seq(S)}
<1>11. 0 \in T
  <2>1. <<>> \in Seq(S)
    OBVIOUS
  <2> QED BY <1>6, <2>1
<1>12. ASSUME NEW i \in Nat, i \in T PROVE i + 1 \in T
  <2> SUFFICES ASSUME i + 1 <= n PROVE f[i + 1] \in Seq(S)
    OBVIOUS
  <2> DEFINE k == i + 1
  <2>1. k \in 1 .. n /\ k - 1 = i /\ f[i] \in Seq(S)
    BY <1>12
  <2> HIDE DEF k
  <2>2. f[k] = f[i] \o q[k] /\ q[k] \in Seq(S)
    BY <1>10, <2>1
  <2>3. f[k] \in Seq(S)
    BY <2>1, <2>2
  <2> QED BY <2>3 DEF k
<1>13. Nat \subseteq T
  <2> HIDE DEF T
  <2> QED BY <1>11, <1>12, Induction
<1>14. \A i \in 0 .. n : f[i] \in Seq(S)
  BY <1>13
<1>15. f \in [0 .. n -> Seq(S)]
  BY <1>9, <1>14
<1> QED BY <1>6, <1>8, <1>10, <1>15

-----------------------------------------------------------------------------
(* The fields of a payload.                                                *)
LEMMA Octets ==
    /\ OCTET \in Nat /\ OCTET >= 8 /\ OCTET * OCTET \in Nat /\ OCTET * OCTET >= 8 * OCTET
    /\ 2 * OCTET <= OCTET * OCTET /\ GRID_MAX \in Nat
  BY ExtAssumption

\* A field read back: what it is modulo the number of its values.
LEMMA WordReadBack ==
    ASSUME NEW n \in Int
    PROVE  /\ Hi(n) \in Byte /\ Lo(n) \in Byte
           /\ Hi(n) * OCTET + Lo(n) = n % (OCTET * OCTET)
<1> DEFINE q == n \div OCTET
           m == n % OCTET
           a == q \div OCTET
           c == q % OCTET
<1>1. OCTET \in Nat \ {0}
  BY Octets
<1>2. q \in Int /\ m \in 0 .. OCTET - 1 /\ n = OCTET * q + m
  BY <1>1
<1>3. a \in Int /\ c \in 0 .. OCTET - 1 /\ q = OCTET * a + c
  BY <1>1, <1>2
<1> DEFINE w == OCTET * OCTET
           d == n \div w
           e == n % w
<1>4. w \in Nat \ {0} /\ w = OCTET * OCTET
  BY <1>1
<1> HIDE DEF w
<1>5. d \in Int /\ e \in 0 .. w - 1 /\ n = w * d + e
  BY <1>4
<1> HIDE DEF q, m, a, c, d, e
<1>6. n = w * a + (c * OCTET + m)
  <2>1. OCTET * (OCTET * a + c) = w * a + c * OCTET
    BY <1>1, <1>3, <1>4
  <2>2. c * OCTET \in Nat /\ w * a \in Int
    BY <1>1, <1>3, <1>4
  <2> QED BY <2>1, <2>2, <1>2, <1>3
<1>7. c * OCTET + m \in 0 .. w - 1
  <2>1. OCTET * c + OCTET <= OCTET * OCTET
    BY <1>1, <1>3, Product
  <2>2. OCTET * c = c * OCTET /\ c * OCTET \in Nat
    BY <1>1, <1>3
  <2> QED BY <2>1, <2>2, <1>1, <1>2, <1>4
<1> DEFINE f == c * OCTET + m
<1>8. f \in 0 .. w - 1 /\ n = w * a + f
  BY <1>6, <1>7
<1> HIDE DEF f
<1>9. a = d
  <2>1. w * (a - d) = e - f /\ a - d \in Int
    <3>1. w * (a - d) = w * a - w * d /\ w * a \in Int /\ w * d \in Int
      BY <1>3, <1>4, <1>5
    <3> QED BY <3>1, <1>3, <1>5, <1>8
  <2>2. w * (a - d) < w /\ w * (a - d) > -w
    BY <2>1, <1>4, <1>5, <1>8
  <2> DEFINE t == a - d
  <2>3. t \in Int /\ w * t < w /\ w * t > -w
    BY <2>1, <2>2
  <2> HIDE DEF t
  <2>4. t >= 1 => w * t >= w
    <3> SUFFICES ASSUME t >= 1 PROVE w * t >= w
      OBVIOUS
    <3>1. t - 1 \in Nat /\ w * t = w + w * (t - 1) /\ w * (t - 1) >= 0
      BY <1>4, <2>3
    <3> QED BY <3>1, <1>4
  <2>5. t <= -1 => w * t <= -w
    <3> SUFFICES ASSUME t <= -1 PROVE w * t <= -w
      OBVIOUS
    <3>1. -1 - t \in Nat /\ w * t = -w - w * (-1 - t) /\ w * (-1 - t) >= 0
      BY <1>4, <2>3
    <3> QED BY <3>1, <1>4
  <2>6. t = 0
    BY <2>3, <2>4, <2>5, <1>4
  <2> QED BY <2>6, <1>3, <1>5 DEF t
<1>10. f = e
  <2>1. n = w * d + f /\ w * d \in Int /\ e \in Int /\ f \in Int
    BY <1>4, <1>5, <1>8, <1>9
  <2>2. n = w * d + e
    BY <1>5
  <2> DEFINE p == w * d
  <2> HIDE DEF p
  <2>3. p + f = p + e /\ p \in Int
    BY <2>1, <2>2 DEF p
  <2> QED BY <2>1, <2>3
<1>11. Hi(n) = c /\ Lo(n) = m
  BY DEF Hi, Lo, c, m, q
<1> QED BY <1>2, <1>3, <1>10, <1>11, <1>4 DEF Byte, Unsigned, f, e, w

LEMMA SignedReadBack ==
    ASSUME NEW u \in Nat \ {0}, NEW n \in TwosComplement(u)
    PROVE  n \in Int /\ Signed(n % u, u) = n
<1> DEFINE h == u \div 2
           k == (u - 1) \div 2
<1>1. n \in -h .. k /\ h \in Nat /\ k \in Nat /\ 2 * h <= u /\ 2 * k <= u - 1
  BY DEF TwosComplement
<1>2. n \in Int /\ 2 * n < u /\ 2 * n >= -u
  <2> HIDE DEF h, k
  <2> QED BY <1>1
<1>3. CASE n >= 0
  <2>1. n \in 0 .. u - 1
    BY <1>2, <1>3
  <2>2. n % u = n
    BY <2>1, Small
  <2> QED BY <2>2, <1>2 DEF Signed
<1>4. CASE n < 0
  <2>1. n + u \in 0 .. u - 1 /\ n = u * (-1) + (n + u)
    BY <1>2, <1>4
  <2>2. n % u = n + u
    BY <2>1
  <2> QED BY <2>2, <1>2, <1>4 DEF Signed
<1> QED BY <1>2, <1>3, <1>4

\* A 16-bit field of a payload, unsigned and signed.
HoldsWord(b, off, n) == b[off + 1] = Hi(n) /\ b[off + 2] = Lo(n)

LEMMA ReadUnsigned ==
    ASSUME NEW b, NEW off \in Nat, NEW n \in Word16, HoldsWord(b, off, n)
    PROVE  rd_u16(b, off) = n
<1> DEFINE u == OCTET * OCTET
<1>1. u \in Nat \ {0} /\ n \in 0 .. u - 1
  BY Octets DEF Word16, Unsigned
<1>2. n % u = n
  <2> HIDE DEF u
  <2> QED BY <1>1, Small
<1>3. n \in Int
  BY <1>1
<1> QED BY <1>2, <1>3, WordReadBack DEF HoldsWord, rd_u16

LEMMA ReadSigned ==
    ASSUME NEW b, NEW off \in Nat, NEW n \in Int16, HoldsWord(b, off, n)
    PROVE  rd_i16(b, off) = n
<1> DEFINE u == OCTET * OCTET
<1>1. u \in Nat \ {0} /\ n \in TwosComplement(u)
  BY Octets DEF Int16
<1>2. Signed(n % u, u) = n /\ n \in Int
  <2> HIDE DEF u
  <2> QED BY <1>1, SignedReadBack
<1>3. rd_u16(b, off) = n % u
  BY <1>2, WordReadBack DEF HoldsWord, rd_u16
<1> QED BY <1>2, <1>3 DEF rd_i16

LEMMA ReadSignedByte ==
    ASSUME NEW b, NEW off \in Nat, NEW n \in TwosComplement(OCTET), b[off + 1] = Lo(n)
    PROVE  rd_i8(b, off) = n
<1>1. OCTET \in Nat \ {0}
  BY Octets
<1>2. Signed(n % OCTET, OCTET) = n
  BY <1>1, SignedReadBack
<1> QED BY <1>2 DEF rd_i8, rd_u8, Lo

LEMMA FlagTable ==
    ASSUME NEW b, NEW f \in 0 .. 7, b[1] = f
    PROVE  /\ FlagSet(b, 1) <=> f \in {1, 3, 5, 7}
           /\ FlagSet(b, 2) <=> f \in {2, 3, 6, 7}
           /\ FlagSet(b, 4) <=> f \in {4, 5, 6, 7}
  BY DEF FlagSet

LEMMA Flags ==
    ASSUME NEW b, NEW one \in BOOLEAN, NEW two \in BOOLEAN, NEW four \in BOOLEAN,
           b[1] = Bit(one, 1) + Bit(two, 2) + Bit(four, 4)
    PROVE  /\ FlagSet(b, 1) = one /\ FlagSet(b, 2) = two /\ FlagSet(b, 4) = four
<1> DEFINE f == Bit(one, 1) + Bit(two, 2) + Bit(four, 4)
<1>1. /\ f \in 0 .. 7
      /\ one <=> f \in {1, 3, 5, 7}
      /\ two <=> f \in {2, 3, 6, 7}
      /\ four <=> f \in {4, 5, 6, 7}
  BY DEF Bit
<1> HIDE DEF f
<1>2. /\ FlagSet(b, 1) <=> one
      /\ FlagSet(b, 2) <=> two
      /\ FlagSet(b, 4) <=> four
  <2>1. b[1] = f
    BY DEF f
  <2> QED BY <1>1, <2>1, FlagTable
<1> QED BY <1>2, Zenon DEF FlagSet

\* The header of a payload that has all of it.
LEMMA GridHeadRead ==
    ASSUME NEW s \in Grids, NEW b, \A j \in 1 .. 16 : b[j] = GridHeader(s)[j]
    PROVE  GridHead(b) =
              [has_intensity |-> s.inten # <<>>, serpentine |-> s.serpentine, cols |-> s.cols, rows |-> s.rows,
               x0 |-> s.x0, x_step |-> s.x_step, y0 |-> s.y0, y_step |-> s.y_step,
               y_scale |-> s.y_scale, bright |-> s.bright]
<1> DEFINE hd == GridHeader(s)
<1>1. /\ b[1] = hd[1] /\ b[2] = hd[2] /\ b[3] = hd[3] /\ b[4] = hd[4] /\ b[5] = hd[5]
      /\ b[6] = hd[6] /\ b[7] = hd[7] /\ b[8] = hd[8] /\ b[9] = hd[9] /\ b[10] = hd[10]
      /\ b[11] = hd[11] /\ b[12] = hd[12] /\ b[13] = hd[13] /\ b[14] = hd[14] /\ b[15] = hd[15]
      /\ b[16] = hd[16]
  <2> HIDE DEF hd
  <2>1. \A j \in 1 .. 16 : b[j] = hd[j]
    BY DEF hd
  <2> QED BY <2>1
<1>2. /\ HoldsWord(b, 1, s.cols) /\ HoldsWord(b, 3, s.rows) /\ HoldsWord(b, 5, s.x0)
      /\ HoldsWord(b, 7, s.x_step) /\ HoldsWord(b, 9, s.y0) /\ HoldsWord(b, 11, s.y_step)
      /\ HoldsWord(b, 13, s.y_scale) /\ b[16] = s.bright
  BY <1>1 DEF HoldsWord, GridHeader
<1>3. /\ s.cols \in Word16 /\ s.rows \in Word16 /\ s.y_scale \in Word16
      /\ s.x0 \in Int16 /\ s.x_step \in Int16 /\ s.y0 \in Int16 /\ s.y_step \in Int16
      /\ s.serpentine \in BOOLEAN
  BY DEF Grids
<1>4. /\ rd_u16(b, 1) = s.cols /\ rd_u16(b, 3) = s.rows /\ rd_u16(b, 13) = s.y_scale
  BY <1>2, <1>3, ReadUnsigned
<1>5. /\ rd_i16(b, 5) = s.x0 /\ rd_i16(b, 7) = s.x_step /\ rd_i16(b, 9) = s.y0 /\ rd_i16(b, 11) = s.y_step
  BY <1>2, <1>3, ReadSigned
<1>6. FlagSet(b, 1) = (s.inten # <<>>) /\ FlagSet(b, 2) = s.serpentine
  <2>1. b[1] = Bit(s.inten # <<>>, 1) + Bit(s.serpentine, 2) + Bit(FALSE, 4)
    <3>1. b[1] = Bit(s.inten # <<>>, 1) + Bit(s.serpentine, 2)
      BY <1>1 DEF GridHeader
    <3> QED BY <3>1 DEF Bit
  <2> QED BY <2>1, <1>3, Flags
<1>7. rd_u8(b, 15) = s.bright
  BY <1>2 DEF rd_u8
<1> QED BY <1>4, <1>5, <1>6, <1>7 DEF GridHead

LEMMA PathHeadRead ==
    ASSUME NEW s \in Paths, NEW b, \A j \in 1 .. 8 : b[j] = PathHeader(s)[j]
    PROVE  PathHead(b) =
              [has_intensity |-> s.inten # <<>>, closed |-> s.closed, wide |-> s.wide, bright |-> s.bright,
               x0 |-> s.x0, y0 |-> s.y0, count |-> s.count]
<1> DEFINE hd == PathHeader(s)
<1>1. /\ b[1] = hd[1] /\ b[2] = hd[2] /\ b[3] = hd[3] /\ b[4] = hd[4] /\ b[5] = hd[5]
      /\ b[6] = hd[6] /\ b[7] = hd[7] /\ b[8] = hd[8]
  <2> HIDE DEF hd
  <2>1. \A j \in 1 .. 8 : b[j] = hd[j]
    BY DEF hd
  <2> QED BY <2>1
<1>2. /\ HoldsWord(b, 2, s.x0) /\ HoldsWord(b, 4, s.y0) /\ HoldsWord(b, 6, s.count) /\ b[2] = s.bright
  BY <1>1 DEF HoldsWord, PathHeader
<1>3. /\ s.x0 \in Word16 /\ s.y0 \in Word16 /\ s.count \in Word16
      /\ s.closed \in BOOLEAN /\ s.wide \in BOOLEAN
  BY DEF Paths
<1>4. /\ rd_u16(b, 2) = s.x0 /\ rd_u16(b, 4) = s.y0 /\ rd_u16(b, 6) = s.count
  BY <1>2, <1>3, ReadUnsigned
<1>5. FlagSet(b, 1) = (s.inten # <<>>) /\ FlagSet(b, 2) = s.closed /\ FlagSet(b, 4) = s.wide
  <2>1. b[1] = Bit(s.inten # <<>>, 1) + Bit(s.closed, 2) + Bit(s.wide, 4)
    BY <1>1 DEF PathHeader
  <2> QED BY <2>1, <1>3, Flags
<1>6. rd_u8(b, 1) = s.bright
  BY <1>2 DEF rd_u8
<1> QED BY <1>4, <1>5, <1>6 DEF PathHead

-----------------------------------------------------------------------------
(* What a payload holds of a grid.                                         *)
GridShapes ==
    {s \in Grids : /\ Len(s.disp) = s.cols * s.rows /\ Len(s.inten) \in {0, Len(s.disp)}
                   /\ 16 + Len(s.disp) + Len(s.inten) < UINT32_VALUES}
PathShapes == {s \in Paths : /\ s.count \in {0, Len(s.steps) + 1} /\ Len(s.inten) \in {0, Len(s.steps)}
                             /\ ~s.wide => s.steps \in Seq(TwosComplement(OCTET) \X TwosComplement(OCTET))}

LEMMA ShapeKinds ==
    ASSUME NEW s \in Shapes
    PROVE  \/ s \in GridShapes /\ s.kind = "heightfield"
           \/ s \in PathShapes /\ s.kind = "polyline"
<1>1. s \in GridShapes \/ s \in PathShapes
  BY ExtAssumption DEF GridShapes, PathShapes
<1>2. s \in Grids => s.kind = "heightfield"
  BY DEF Grids
<1>3. s \in Paths => s.kind = "polyline"
  BY DEF Paths
<1> QED BY <1>1, <1>2, <1>3 DEF GridShapes, PathShapes

LEMMA SeqOfMore ==
    ASSUME NEW S, NEW T, S \subseteq T, NEW q \in Seq(S)
    PROVE  q \in Seq(T)
<1>1. q \in [1 .. Len(q) -> S] /\ Len(q) \in Nat
  OBVIOUS
<1>2. q \in [1 .. Len(q) -> T]
  BY <1>1
<1> QED BY <1>1, <1>2

LEMMA Concatenated ==
    ASSUME NEW S, NEW a \in Seq(S), NEW b \in Seq(S)
    PROVE  /\ a \o b \in Seq(S) /\ Len(a \o b) = Len(a) + Len(b)
           /\ \A j \in 1 .. Len(a) : (a \o b)[j] = a[j]
           /\ \A j \in 1 .. Len(b) : (a \o b)[Len(a) + j] = b[j]
  OBVIOUS

\* Three parts of a payload.
LEMMA InThree ==
    ASSUME NEW S, NEW a \in Seq(S), NEW b \in Seq(S), NEW c \in Seq(S)
    PROVE  /\ a \o b \o c \in Seq(S)
           /\ Len(a \o b \o c) = Len(a) + Len(b) + Len(c)
           /\ \A j \in 1 .. Len(a) : (a \o b \o c)[j] = a[j]
           /\ \A j \in 1 .. Len(b) : (a \o b \o c)[Len(a) + j] = b[j]
           /\ \A j \in 1 .. Len(c) : (a \o b \o c)[Len(a) + Len(b) + j] = c[j]
<1> DEFINE m == a \o b
           e == m \o c
<1>1. /\ m \in Seq(S) /\ Len(m) = Len(a) + Len(b)
      /\ \A j \in 1 .. Len(a) : m[j] = a[j]
      /\ \A j \in 1 .. Len(b) : m[Len(a) + j] = b[j]
  BY Concatenated
<1> HIDE DEF m
<1>2. /\ e \in Seq(S) /\ Len(e) = Len(m) + Len(c)
      /\ \A j \in 1 .. Len(m) : e[j] = m[j]
      /\ \A j \in 1 .. Len(c) : e[Len(m) + j] = c[j]
  <2>1. m \in Seq(S)
    BY <1>1
  <2> QED BY <2>1, Concatenated
<1> HIDE DEF e
<1> DEFINE i == Len(a)
           k == Len(b)
           n == Len(m)
<1>3. i \in Nat /\ k \in Nat /\ n \in Nat /\ n = i + k
  BY <1>1
<1> HIDE DEF i, k, n
<1>4. /\ \A j \in 1 .. i : j \in 1 .. n
      /\ \A j \in 1 .. k : i + j \in 1 .. n
  BY <1>3
<1>5. /\ \A j \in 1 .. i : e[j] = a[j]
      /\ \A j \in 1 .. k : e[i + j] = b[j]
  BY <1>1, <1>2, <1>4 DEF i, k, n
<1> QED BY <1>1, <1>2, <1>5 DEF e, m, i, k

LEMMA GridTypes ==
    ASSUME NEW s \in GridShapes
    PROVE  /\ s \in Grids /\ s.kind = "heightfield"
           /\ s.cols \in Nat /\ s.rows \in Nat /\ s.cols * s.rows \in Nat
           /\ s.x0 \in Int /\ s.x_step \in Int /\ s.y0 \in Int /\ s.y_step \in Int /\ s.y_scale \in Nat
           /\ s.bright \in Nat /\ s.serpentine \in BOOLEAN
           /\ s.disp \in Seq(Nat) /\ Len(s.disp) = s.cols * s.rows
           /\ s.inten \in Seq(Nat) /\ (s.inten # <<>> => Len(s.inten) = s.cols * s.rows)
<1>1. s \in Grids /\ Len(s.disp) = s.cols * s.rows /\ Len(s.inten) \in {0, Len(s.disp)}
  BY DEF GridShapes
<1>2. /\ s.kind = "heightfield" /\ s.cols \in Word16 /\ s.rows \in Word16 /\ s.y_scale \in Word16
      /\ s.x0 \in Int16 /\ s.x_step \in Int16 /\ s.y0 \in Int16 /\ s.y_step \in Int16
      /\ s.bright \in Byte /\ s.serpentine \in BOOLEAN /\ s.disp \in Seq(Byte) /\ s.inten \in Seq(Byte)
  BY <1>1 DEF Grids
<1>3. Word16 \subseteq Nat /\ Byte \subseteq Nat
  BY Octets DEF Word16, Byte, Unsigned
<1>4. Int16 \subseteq Int
  BY Octets DEF Int16, TwosComplement
<1>5. s.disp \in Seq(Nat) /\ s.inten \in Seq(Nat)
  BY <1>2, <1>3, SeqOfMore
<1>6. s.cols \in Nat /\ s.rows \in Nat
  BY <1>2, <1>3
<1>7. s.cols * s.rows \in Nat
  BY <1>6
<1>8. s.inten # <<>> => Len(s.inten) = s.cols * s.rows
  BY <1>1, <1>5
<1> QED BY <1>1, <1>2, <1>3, <1>4, <1>5, <1>6, <1>7, <1>8

LEMMA HeaderBytes ==
    /\ \A s \in GridShapes : GridHeader(s) \in Seq(Byte) /\ Len(GridHeader(s)) = 16
    /\ \A s \in PathShapes : PathHeader(s) \in Seq(Byte) /\ Len(PathHeader(s)) = 8
<1>1. ASSUME NEW one \in BOOLEAN, NEW two \in BOOLEAN, NEW four \in BOOLEAN
      PROVE  Bit(one, 1) + Bit(two, 2) \in Byte /\ Bit(one, 1) + Bit(two, 2) + Bit(four, 4) \in Byte
  BY Octets DEF Bit, Byte, Unsigned
<1>2. ASSUME NEW s \in GridShapes
      PROVE  GridHeader(s) \in Seq(Byte) /\ Len(GridHeader(s)) = 16
  <2>1. /\ s.cols \in Int /\ s.rows \in Int /\ s.x0 \in Int /\ s.x_step \in Int
        /\ s.y0 \in Int /\ s.y_step \in Int /\ s.y_scale \in Int /\ s.serpentine \in BOOLEAN
    BY GridTypes
  <2>2. s.bright \in Byte
    BY DEF GridShapes, Grids
  <2>3. /\ Hi(s.cols) \in Byte /\ Lo(s.cols) \in Byte /\ Hi(s.rows) \in Byte /\ Lo(s.rows) \in Byte
        /\ Hi(s.x0) \in Byte /\ Lo(s.x0) \in Byte /\ Hi(s.x_step) \in Byte /\ Lo(s.x_step) \in Byte
        /\ Hi(s.y0) \in Byte /\ Lo(s.y0) \in Byte /\ Hi(s.y_step) \in Byte /\ Lo(s.y_step) \in Byte
        /\ Hi(s.y_scale) \in Byte /\ Lo(s.y_scale) \in Byte
    BY <2>1, WordReadBack
  <2>4. Bit(s.inten # <<>>, 1) + Bit(s.serpentine, 2) \in Byte
    BY <1>1, <2>1
  <2> QED BY <2>2, <2>3, <2>4 DEF GridHeader
<1>3. ASSUME NEW s \in PathShapes
      PROVE  PathHeader(s) \in Seq(Byte) /\ Len(PathHeader(s)) = 8
  <2>1. /\ s.x0 \in Word16 /\ s.y0 \in Word16 /\ s.count \in Word16 /\ s.bright \in Byte
        /\ s.closed \in BOOLEAN /\ s.wide \in BOOLEAN
    BY DEF PathShapes, Paths
  <2>2. Word16 \subseteq Int
    BY Octets DEF Word16, Unsigned
  <2>3. /\ Hi(s.x0) \in Byte /\ Lo(s.x0) \in Byte /\ Hi(s.y0) \in Byte /\ Lo(s.y0) \in Byte
        /\ Hi(s.count) \in Byte /\ Lo(s.count) \in Byte
    BY <2>1, <2>2, WordReadBack
  <2>4. Bit(s.inten # <<>>, 1) + Bit(s.closed, 2) + Bit(s.wide, 4) \in Byte
    BY <1>1, <2>1
  <2> QED BY <2>1, <2>3, <2>4 DEF PathHeader
<1> QED BY <1>2, <1>3

\* The bytes of a grid: its header, the displacements, the intensities.
LEMMA GridBytes ==
    ASSUME NEW s \in GridShapes
    PROVE  LET cells == s.cols * s.rows
           IN  /\ Encoded(s) \in Seq(Byte)
               /\ Len(Encoded(s)) = 16 + cells + (IF s.inten # <<>> THEN cells ELSE 0)
               /\ \A j \in 1 .. 16 : Encoded(s)[j] = GridHeader(s)[j]
               /\ \A j \in 1 .. cells : Encoded(s)[16 + j] = s.disp[j]
               /\ s.inten # <<>> => \A j \in 1 .. cells : Encoded(s)[16 + cells + j] = s.inten[j]
<1> DEFINE hd == GridHeader(s)
           d == s.disp
           t == s.inten
           cells == s.cols * s.rows
<1>1. hd \in Seq(Byte) /\ Len(hd) = 16
  BY HeaderBytes
<1>2. /\ d \in Seq(Byte) /\ t \in Seq(Byte) /\ Len(d) = cells /\ cells \in Nat
      /\ Len(t) = (IF t # <<>> THEN cells ELSE 0)
  <2>1. d \in Seq(Byte) /\ t \in Seq(Byte)
    BY DEF GridShapes, Grids
  <2> QED BY <2>1, GridTypes
<1>3. Encoded(s) = hd \o d \o t
  BY GridTypes DEF Encoded
<1> HIDE DEF hd, d, t, cells
<1> DEFINE e == Encoded(s)
           head == Len(hd)
           lights == Len(t)
<1>4. /\ e \in Seq(Byte)
      /\ Len(e) = head + Len(d) + lights
      /\ \A j \in 1 .. head : e[j] = hd[j]
      /\ \A j \in 1 .. Len(d) : e[head + j] = d[j]
      /\ \A j \in 1 .. lights : e[head + Len(d) + j] = t[j]
  <2>1. hd \in Seq(Byte) /\ d \in Seq(Byte) /\ t \in Seq(Byte)
    BY <1>1, <1>2
  <2>2. e = hd \o d \o t
    BY <1>3
  <2> HIDE DEF e
  <2> QED BY <2>1, <2>2, InThree
<1>5. head = 16 /\ lights = (IF t # <<>> THEN cells ELSE 0) /\ Len(d) = cells
  BY <1>1, <1>2
<1> HIDE DEF e, head, lights
<1>6. /\ Len(e) = 16 + cells + (IF t # <<>> THEN cells ELSE 0)
      /\ \A j \in 1 .. 16 : e[j] = hd[j]
      /\ \A j \in 1 .. cells : e[16 + j] = d[j]
      /\ t # <<>> => \A j \in 1 .. cells : e[16 + cells + j] = t[j]
  BY <1>4, <1>5
<1> QED BY <1>4, <1>6 DEF e, hd, d, t, cells

-----------------------------------------------------------------------------
(* A scan line is the row's cells in the order of the scan.                *)
PlaceOf(s, row, c) ==
    OnScreen(s.x0 + c * s.x_step,
             s.y0 + row * s.y_step + ((s.disp[row * s.cols + c + 1] * s.y_scale) \div OCTET))
LightOf(s, row, c) == IF s.inten = <<>> THEN s.bright ELSE s.inten[row * s.cols + c + 1]
Reversed(s, row) == s.serpentine /\ row % 2 = 1

LEMMA ScanLineCells ==
    ASSUME NEW s \in GridShapes, NEW row \in Nat
    PROVE  /\ Len(ScanLine(s, row)) = s.cols
           /\ \A k \in 0 .. s.cols - 1 :
                 LET c == column(s.cols, Reversed(s, row), k)
                 IN  /\ c \in 0 .. s.cols - 1
                     /\ ScanLine(s, row)[k + 1] = [place |-> PlaceOf(s, row, c), z |-> LightOf(s, row, c)]
<1> DEFINE At(c) == [place |-> PlaceOf(s, row, c), z |-> LightOf(s, row, c)]
           line == [i \in 1 .. s.cols |-> At(i - 1)]
<1>1. ScanLine(s, row) = IF Reversed(s, row) THEN Reverse(line) ELSE line
  BY DEF ScanLine, Reversed, PlaceOf, LightOf
<1>2. s.cols \in Nat
  BY GridTypes
<1> HIDE DEF At
<1>3. Len(line) = s.cols
  BY <1>2
<1>4. Reverse(line) = [i \in 1 .. s.cols |-> line[s.cols - i + 1]]
  <2> HIDE DEF line
  <2> QED BY <1>3 DEF Reverse
<1>5. Len(ScanLine(s, row)) = s.cols
  BY <1>1, <1>2, <1>3, <1>4
<1>6. ASSUME NEW k \in 0 .. s.cols - 1
      PROVE  LET c == column(s.cols, Reversed(s, row), k)
             IN  c \in 0 .. s.cols - 1 /\ ScanLine(s, row)[k + 1] = At(c)
  <2>1. k + 1 \in 1 .. s.cols /\ s.cols - (k + 1) + 1 \in 1 .. s.cols
    BY <1>2
  <2>2. CASE Reversed(s, row)
    <3>1. Reverse(line)[k + 1] = line[s.cols - (k + 1) + 1]
      BY <1>4, <2>1
    <3>2. line[s.cols - (k + 1) + 1] = At((s.cols - (k + 1) + 1) - 1)
      BY <2>1
    <3>3. (s.cols - (k + 1) + 1) - 1 = s.cols - 1 - k
      BY <1>2
    <3> QED BY <1>1, <1>2, <2>2, <3>1, <3>2, <3>3 DEF column
  <2>3. CASE ~Reversed(s, row)
    <3>1. line[k + 1] = At((k + 1) - 1)
      BY <2>1
    <3>2. (k + 1) - 1 = k
      OBVIOUS
    <3> QED BY <1>1, <1>2, <2>3, <3>1, <3>2 DEF column
  <2> QED BY <2>2, <2>3
<1> QED BY <1>5, <1>6 DEF At

-----------------------------------------------------------------------------
(* The scan of a grid that has all of its bytes.                           *)
Whole(s, b) == \A j \in 1 .. Len(Encoded(s)) : b[j] = Encoded(s)[j]

HeldGrid(s) ==
    [has_intensity |-> s.inten # <<>>, serpentine |-> s.serpentine, cols |-> s.cols, rows |-> s.rows,
     x0 |-> s.x0, x_step |-> s.x_step, y0 |-> s.y0, y_step |-> s.y_step,
     y_scale |-> s.y_scale, bright |-> s.bright]

LEMMA GridHeld ==
    ASSUME NEW s \in GridShapes, NEW b, Whole(s, b)
    PROVE  /\ GridHead(b) = HeldGrid(s)
           /\ \A j \in 1 .. s.cols * s.rows : b[16 + j] = s.disp[j]
           /\ s.inten # <<>> => \A j \in 1 .. s.cols * s.rows : b[16 + s.cols * s.rows + j] = s.inten[j]
<1> DEFINE cells == s.cols * s.rows
           e == Encoded(s)
           n == 16 + cells + (IF s.inten # <<>> THEN cells ELSE 0)
<1>1. cells \in Nat
  BY GridTypes
<1>2. /\ Len(e) = n
      /\ \A j \in 1 .. 16 : e[j] = GridHeader(s)[j]
      /\ \A j \in 1 .. cells : e[16 + j] = s.disp[j]
      /\ s.inten # <<>> => \A j \in 1 .. cells : e[16 + cells + j] = s.inten[j]
  BY GridBytes
<1>3. \A j \in 1 .. n : b[j] = e[j]
  BY <1>2 DEF Whole
<1> HIDE DEF e, cells
<1>4. /\ \A j \in 1 .. 16 : j \in 1 .. n
      /\ \A j \in 1 .. cells : 16 + j \in 1 .. n
      /\ s.inten # <<>> => \A j \in 1 .. cells : 16 + cells + j \in 1 .. n
  BY <1>1
<1> HIDE DEF n
<1>5. \A j \in 1 .. 16 : b[j] = GridHeader(s)[j]
  BY <1>2, <1>3, <1>4
<1>6. \A j \in 1 .. cells : b[16 + j] = s.disp[j]
  BY <1>2, <1>3, <1>4
<1>7. s.inten # <<>> => \A j \in 1 .. cells : b[16 + cells + j] = s.inten[j]
  BY <1>2, <1>3, <1>4
<1>8. GridHead(b) = HeldGrid(s)
  BY <1>5, GridHeadRead, GridTypes DEF HeldGrid
<1> QED BY <1>6, <1>7, <1>8 DEF cells

\* The place of a row's cell among all cells.
LEMMA CellIndex ==
    ASSUME NEW rows \in Nat, NEW cols \in Nat, NEW r \in 0 .. rows - 1, NEW c \in 0 .. cols - 1
    PROVE  /\ r * cols + c \in Nat /\ r * cols + c + 1 \in 1 .. cols * rows
           /\ (r * cols + c) \div cols = r /\ (r * cols + c) % cols = c
<1>1. cols \in Nat \ {0} /\ r \in Nat
  OBVIOUS
<1>2. cols * r + cols <= cols * rows
  BY <1>1, Product
<1>3. cols * r = r * cols /\ r * cols \in Nat
  BY <1>1
<1>4. r * cols + c \in Nat /\ r * cols + c + 1 \in 1 .. cols * rows
  <2> DEFINE p == r * cols
             q == cols * rows
  <2>1. p \in Nat /\ p + cols <= q /\ q \in Nat
    BY <1>2, <1>3
  <2> HIDE DEF p, q
  <2>2. p + c \in Nat /\ p + c + 1 \in 1 .. q
    BY <2>1
  <2> QED BY <2>2 DEF p, q
<1>5. (r * cols + c) \div cols = r /\ (r * cols + c) % cols = c
  BY <1>1, DivMod
<1> QED BY <1>4, <1>5

\* What a scan is after a row's k-th cell.
After(run, cell, k) ==
    IF cell.z = 0 THEN [run EXCEPT !.have = FALSE]
    ELSE [have |-> TRUE, pen |-> cell.place,
          added |-> IF k > 0 /\ run.have
                    THEN Append(run.added, Call(run.pen, cell.place, cell.z)) ELSE run.added]

\* A cell is read as the scan line it is in has it.
LEMMA CellRead ==
    ASSUME NEW s \in GridShapes, NEW b, Whole(s, b),
           NEW row \in 0 .. s.rows - 1, NEW k \in 0 .. s.cols - 1, NEW run
    PROVE  Cell(b, HeldGrid(s), run, row * s.cols + k) = After(run, ScanLine(s, row)[k + 1], k)
<1> DEFINE h == HeldGrid(s)
           i == row * s.cols + k
           c == column(s.cols, Reversed(s, row), k)
           idx == row * s.cols + c
           cells == s.cols * s.rows
<1>1. s.cols \in Nat /\ s.rows \in Nat /\ row \in Nat
  BY GridTypes
<1>2. i \div s.cols = row /\ i % s.cols = k
  <2> DEFINE cols == s.cols
             rows == s.rows
  <2>1. cols \in Nat /\ rows \in Nat /\ row \in 0 .. rows - 1 /\ k \in 0 .. cols - 1
    BY <1>1
  <2> HIDE DEF cols, rows
  <2>2. (row * cols + k) \div cols = row /\ (row * cols + k) % cols = k
    BY <2>1, CellIndex
  <2> QED BY <2>2 DEF cols
<1>3. c \in 0 .. s.cols - 1 /\ ScanLine(s, row)[k + 1] = [place |-> PlaceOf(s, row, c), z |-> LightOf(s, row, c)]
  BY <1>1, ScanLineCells
<1> HIDE DEF c
<1>4. idx \in Nat /\ idx + 1 \in 1 .. cells /\ cells \in Nat
  BY <1>1, <1>3, CellIndex
<1> HIDE DEF idx, cells
<1>5. b[16 + (idx + 1)] = s.disp[idx + 1]
  BY <1>4, GridHeld DEF cells
<1>6. s.inten # <<>> => b[16 + cells + (idx + 1)] = s.inten[idx + 1]
  BY <1>4, GridHeld DEF cells
<1>7. rd_u8(b, 16 + idx) = s.disp[idx + 1]
  <2>1. 16 + idx + 1 = 16 + (idx + 1)
    BY <1>4
  <2> QED BY <1>5, <2>1 DEF rd_u8
<1>8. (IF h.has_intensity THEN rd_u8(b, 16 + h.cols * h.rows + idx) ELSE h.bright) = LightOf(s, row, c)
  <2>1. 16 + cells + idx + 1 = 16 + cells + (idx + 1)
    BY <1>4
  <2>2. s.inten # <<>> => rd_u8(b, 16 + cells + idx) = s.inten[idx + 1]
    BY <1>6, <2>1 DEF rd_u8
  <2>3. h.has_intensity = (s.inten # <<>>) /\ h.cols * h.rows = cells /\ h.bright = s.bright
    BY DEF HeldGrid, cells
  <2>4. LightOf(s, row, c) = IF s.inten = <<>> THEN s.bright ELSE s.inten[idx + 1]
    BY DEF LightOf, idx
  <2> HIDE DEF h
  <2> QED BY <2>2, <2>3, <2>4
<1>9. OnScreen(h.x0 + c * h.x_step, h.y0 + row * h.y_step + ((rd_u8(b, 16 + idx) * h.y_scale) \div OCTET))
        = PlaceOf(s, row, c)
  BY <1>7 DEF PlaceOf, HeldGrid, idx
<1>10. column(h.cols, h.serpentine /\ row % 2 = 1, k) = c
  BY DEF HeldGrid, Reversed, c
<1>11. h.cols = s.cols
  BY DEF HeldGrid
<1> DEFINE cell == [place |-> PlaceOf(s, row, c), z |-> LightOf(s, row, c)]
<1>12. cell.z = LightOf(s, row, c) /\ cell.place = PlaceOf(s, row, c)
  OBVIOUS
<1>13. ASSUME NEW j, j \div h.cols = row, j % h.cols = k
       PROVE Cell(b, h, run, j) = After(run, cell, k)
  <2>1. row * h.cols + c = idx
    BY <1>11 DEF idx
  <2> HIDE DEF h, cell
  <2> QED BY <1>8, <1>9, <1>10, <1>12, <1>13, <2>1, ZenonT(30) DEF Cell, After
<1>14. Cell(b, h, run, i) = After(run, cell, k)
  <2> HIDE DEF h, cell, i
  <2> QED BY <1>2, <1>11, <1>13
<1> HIDE DEF h
<1> QED BY <1>3, <1>14 DEF h

\* The states of a scan, cell by cell.
LEMMA ScanRuns ==
    ASSUME NEW b, NEW h, NEW n \in Nat
    PROVE  \E run : /\ run[0] = GridStart
                    /\ \A i \in 0 .. n - 1 : run[i + 1] = Cell(b, h, run[i], i)
                    /\ Scan(b, h, n) = run[n]
<1> DEFINE Runs(m, f) == f = [i \in 0 .. m |-> IF i = 0 THEN GridStart ELSE Cell(b, h, f[i - 1], i - 1)]
           S == {m \in Nat : \E f : Runs(m, f)}
<1>1. 0 \in S
  <2> DEFINE f == [i \in 0 .. 0 |-> GridStart]
  <2>1. Runs(0, f)
    OBVIOUS
  <2> QED BY <2>1
<1>2. ASSUME NEW m \in Nat, m \in S PROVE m + 1 \in S
  <2>1. PICK f : Runs(m, f)
    BY <1>2
  <2>2. \A i \in 0 .. m : f[i] = IF i = 0 THEN GridStart ELSE Cell(b, h, f[i - 1], i - 1)
    BY <2>1
  <2> DEFINE g == [i \in 0 .. m + 1 |-> IF i = m + 1 THEN Cell(b, h, f[m], m) ELSE f[i]]
  <2>3. ASSUME NEW i \in 0 .. m + 1
        PROVE  g[i] = IF i = 0 THEN GridStart ELSE Cell(b, h, g[i - 1], i - 1)
    <3>1. CASE i = m + 1
      <4>1. i # 0 /\ i - 1 = m /\ g[m] = f[m]
        BY <3>1
      <4> QED BY <3>1, <4>1
    <3>2. CASE i # m + 1
      <4>1. i \in 0 .. m /\ g[i] = f[i]
        BY <3>2
      <4>2. i # 0 => i - 1 \in 0 .. m + 1 /\ i - 1 # m + 1
        BY <3>2
      <4>3. i # 0 => g[i - 1] = f[i - 1]
        BY <4>2
      <4> HIDE DEF g
      <4> QED BY <2>2, <4>1, <4>3
    <3> QED BY <3>1, <3>2
  <2>4. Runs(m + 1, g)
    BY <2>3
  <2> HIDE DEF g, Runs
  <2> QED BY <2>4
<1>3. Nat \subseteq S
  <2> HIDE DEF S
  <2> QED BY <1>1, <1>2, Induction
<1>4. \E f : Runs(n, f)
  BY <1>3
<1> DEFINE run == CHOOSE f : Runs(n, f)
<1>5. Runs(n, run)
  <2> HIDE DEF Runs
  <2> QED BY <1>4
<1>6. Scan(b, h, n) = run[n]
  BY DEF Scan
<1> HIDE DEF run
<1>7. \A i \in 0 .. n : run[i] = IF i = 0 THEN GridStart ELSE Cell(b, h, run[i - 1], i - 1)
  BY <1>5
<1>8. ASSUME NEW i \in 0 .. n - 1 PROVE run[i + 1] = Cell(b, h, run[i], i)
  <2>1. i + 1 \in 0 .. n /\ i + 1 # 0 /\ (i + 1) - 1 = i
    OBVIOUS
  <2> QED BY <1>7, <2>1
<1> QED BY <1>6, <1>7, <1>8

-----------------------------------------------------------------------------
(* A scan adds its lines' vectors, line by line.                           *)
Spots == [x : Int, y : Int]
Calls == [from : Spots, to : Spots, z : Nat]
GridRuns == [have : BOOLEAN, pen : Spots, added : Seq(Calls)]

LEMMA OnScreenType ==
    ASSUME NEW x \in Int, NEW y \in Int
    PROVE  OnScreen(x, y) \in Spots
  BY Octets DEF OnScreen, clamp_dev_int, Spots

LEMMA ScanLineType ==
    ASSUME NEW s \in GridShapes, NEW row \in 0 .. s.rows - 1, NEW k \in 0 .. s.cols - 1
    PROVE  ScanLine(s, row)[k + 1].place \in Spots /\ ScanLine(s, row)[k + 1].z \in Nat
<1> DEFINE c == column(s.cols, Reversed(s, row), k)
           i == row * s.cols + c + 1
           d == s.disp[i]
<1>1. /\ s.cols \in Nat /\ s.rows \in Nat /\ row \in Nat
      /\ s.x0 \in Int /\ s.x_step \in Int /\ s.y0 \in Int /\ s.y_step \in Int /\ s.y_scale \in Nat
      /\ s.bright \in Nat
  BY GridTypes
<1>2. c \in 0 .. s.cols - 1 /\ ScanLine(s, row)[k + 1] = [place |-> PlaceOf(s, row, c), z |-> LightOf(s, row, c)]
  BY <1>1, ScanLineCells
<1> HIDE DEF c
<1>3. i \in 1 .. s.cols * s.rows
  BY <1>1, <1>2, CellIndex
<1> HIDE DEF i
<1>4. d \in Nat /\ (s.inten # <<>> => s.inten[i] \in Nat)
  <2>1. Len(s.disp) = s.cols * s.rows /\ s.disp \in Seq(Nat)
    BY GridTypes
  <2>2. s.inten # <<>> => Len(s.inten) = s.cols * s.rows /\ s.inten \in Seq(Nat)
    BY GridTypes
  <2> QED BY <1>3, <2>1, <2>2
<1>5. LightOf(s, row, c) \in Nat
  BY <1>1, <1>4 DEF LightOf, i
<1>6. PlaceOf(s, row, c) = OnScreen(s.x0 + c * s.x_step, s.y0 + row * s.y_step + ((d * s.y_scale) \div OCTET))
  BY DEF PlaceOf, i
<1> HIDE DEF d
<1>7. s.x0 + c * s.x_step \in Int
  <2>1. c * s.x_step \in Int
    BY <1>1, <1>2
  <2> QED BY <1>1, <2>1
<1>8. s.y0 + row * s.y_step + ((d * s.y_scale) \div OCTET) \in Int
  <2>1. d * s.y_scale \in Nat
    BY <1>1, <1>4
  <2>2. (d * s.y_scale) \div OCTET \in Nat
    BY <2>1, Octets, DivRange
  <2>3. row * s.y_step \in Int
    BY <1>1
  <2> QED BY <1>1, <2>2, <2>3
<1>9. PlaceOf(s, row, c) \in Spots
  BY <1>6, <1>7, <1>8, OnScreenType
<1> QED BY <1>2, <1>5, <1>9

LEMMA AppendAfter ==
    ASSUME NEW S, NEW a \in Seq(S), NEW p \in Seq(S), NEW e \in S
    PROVE  Append(a \o p, e) = a \o (p \o <<e>>)
<1> DEFINE b == a \o p
<1>1. b \in Seq(S) /\ <<e>> \in Seq(S)
  OBVIOUS
<1>2. b \o <<e>> = a \o (p \o <<e>>)
  <2> DEFINE d == <<e>>
  <2>1. d \in Seq(S)
    BY <1>1
  <2> HIDE DEF d
  <2>2. (a \o p) \o d = a \o (p \o d)
    BY <2>1
  <2> QED BY <2>2 DEF d
<1> HIDE DEF b
<1>3. Append(b, e) = b \o <<e>>
  BY <1>1
<1> QED BY <1>2, <1>3 DEF b

\* A line's vectors, cell by cell.
Joining(line, k) ==
    IF line[k].z > 0 /\ line[k + 1].z > 0
    THEN <<Call(line[k].place, line[k + 1].place, line[k + 1].z)>> ELSE <<>>

LEMMA JoiningType ==
    ASSUME NEW s \in GridShapes, NEW row \in 0 .. s.rows - 1, NEW k \in 1 .. s.cols - 1
    PROVE  Joining(ScanLine(s, row), k) \in Seq(Calls)
<1> DEFINE line == ScanLine(s, row)
<1>1. s.cols \in Nat /\ k - 1 \in 0 .. s.cols - 1 /\ k \in 0 .. s.cols - 1 /\ (k - 1) + 1 = k
  BY GridTypes
<1>2. line[k].place \in Spots /\ line[k + 1].place \in Spots /\ line[k + 1].z \in Nat
  BY <1>1, ScanLineType
<1> HIDE DEF line
<1>3. Call(line[k].place, line[k + 1].place, line[k + 1].z) \in Calls
  BY <1>2 DEF Call, Calls
<1> QED BY <1>3 DEF Joining, line

LEMMA JoinedPrefixes ==
    ASSUME NEW s \in GridShapes, NEW row \in 0 .. s.rows - 1, s.cols > 0
    PROVE  \E g \in [0 .. s.cols - 1 -> Seq(Calls)] :
              /\ g[0] = <<>>
              /\ \A k \in 1 .. s.cols - 1 : g[k] = g[k - 1] \o Joining(ScanLine(s, row), k)
              /\ Joined(ScanLine(s, row)) = g[s.cols - 1]
<1> DEFINE line == ScanLine(s, row)
           n == s.cols - 1
           q == [k \in 1 .. n |-> Joining(line, k)]
<1>1. n \in Nat
  BY GridTypes
<1>2. q \in [1 .. n -> Seq(Calls)] /\ \A k \in 1 .. n : q[k] = Joining(line, k)
  BY JoiningType
<1>3. Joined(line) = FlattenSeq(q)
  <2>1. Len(line) = s.cols
    BY GridTypes, ScanLineCells
  <2> HIDE DEF line
  <2> QED BY <2>1 DEF Joined, Joining
<1> HIDE DEF q, n, line
<1>4. PICK g \in [0 .. n -> Seq(Calls)] :
              /\ g[0] = <<>>
              /\ \A k \in 1 .. n : g[k] = g[k - 1] \o q[k]
              /\ FlattenSeq(q) = g[n]
  BY <1>1, <1>2, FlattenPrefixes, ZenonT(30)
<1>5. \A k \in 1 .. n : g[k] = g[k - 1] \o Joining(line, k)
  BY <1>2, <1>4
<1> QED BY <1>3, <1>4, <1>5 DEF n, line

\* How far a scan is that has seen k cells of a line, `before' it added a.
InLine(run, line, g, a, k) ==
    /\ run \in GridRuns
    /\ k = 0 => run.added = a
    /\ k > 0 => /\ run.added = a \o g[k - 1]
                /\ run.have <=> line[k].z > 0
                /\ run.have => run.pen = line[k].place

LEMMA AfterCell ==
    ASSUME NEW run \in GridRuns, NEW cell, cell.place \in Spots, cell.z \in Nat, NEW k \in Nat
    PROVE  /\ After(run, cell, k) \in GridRuns
           /\ After(run, cell, k).have <=> cell.z > 0
           /\ cell.z > 0 => After(run, cell, k).pen = cell.place
           /\ After(run, cell, k).added =
                 IF cell.z > 0 /\ k > 0 /\ run.have
                 THEN Append(run.added, Call(run.pen, cell.place, cell.z)) ELSE run.added
<1> DEFINE e == Call(run.pen, cell.place, cell.z)
<1>1. run.have \in BOOLEAN /\ run.pen \in Spots /\ run.added \in Seq(Calls)
  BY DEF GridRuns
<1>2. e \in Calls
  BY <1>1 DEF Call, Calls
<1>3. Append(run.added, e) \in Seq(Calls)
  BY <1>1, <1>2
<1> HIDE DEF e
<1>4. CASE cell.z = 0
  <2>1. After(run, cell, k) = [run EXCEPT !.have = FALSE]
    BY <1>4 DEF After
  <2>2. /\ [run EXCEPT !.have = FALSE] \in GridRuns
        /\ [run EXCEPT !.have = FALSE].have = FALSE /\ [run EXCEPT !.have = FALSE].added = run.added
    BY DEF GridRuns
  <2> QED BY <1>4, <2>1, <2>2
<1>5. CASE cell.z # 0
  <2>1. After(run, cell, k) =
          [have |-> TRUE, pen |-> cell.place, added |-> IF k > 0 /\ run.have THEN Append(run.added, e) ELSE run.added]
    BY <1>5 DEF After, e
  <2>2. cell.z > 0
    BY <1>5
  <2>3. After(run, cell, k).added = IF k > 0 /\ run.have THEN Append(run.added, e) ELSE run.added
    BY <2>1
  <2>4. After(run, cell, k) \in GridRuns
    BY <1>1, <1>3, <2>1 DEF GridRuns
  <2> QED BY <2>1, <2>2, <2>3, <2>4 DEF e
<1> QED BY <1>4, <1>5

LEMMA CellTraced ==
    ASSUME NEW s \in GridShapes, NEW b, Whole(s, b),
           NEW row \in 0 .. s.rows - 1, NEW k \in 0 .. s.cols - 1,
           NEW a \in Seq(Calls), NEW g \in [0 .. s.cols - 1 -> Seq(Calls)], g[0] = <<>>,
           \A j \in 1 .. s.cols - 1 : g[j] = g[j - 1] \o Joining(ScanLine(s, row), j),
           NEW run, InLine(run, ScanLine(s, row), g, a, k)
    PROVE  InLine(Cell(b, HeldGrid(s), run, row * s.cols + k), ScanLine(s, row), g, a, k + 1)
<1> DEFINE line == ScanLine(s, row)
           cell == line[k + 1]
           next == Cell(b, HeldGrid(s), run, row * s.cols + k)
           e == Call(run.pen, cell.place, cell.z)
<1>1. s.cols \in Nat /\ k \in Nat
  BY GridTypes
<1>2. next = After(run, cell, k)
  BY CellRead
<1>3. cell.place \in Spots /\ cell.z \in Nat
  BY ScanLineType
<1>4. run \in GridRuns /\ run.added \in Seq(Calls) /\ run.pen \in Spots /\ run.have \in BOOLEAN
  BY DEF InLine, GridRuns
<1>5. k > 0 => g[k] = g[k - 1] \o Joining(line, k) /\ g[k - 1] \in Seq(Calls)
  <2>1. k > 0 => k \in 1 .. s.cols - 1 /\ k - 1 \in 0 .. s.cols - 1
    BY <1>1
  <2> QED BY <2>1
<1>6. (k = 0 => run.added = a) /\ (k > 0 => run.added = a \o g[k - 1])
  BY DEF InLine
<1>7. k > 0 => (run.have <=> line[k].z > 0) /\ (run.have => run.pen = line[k].place)
  BY DEF InLine
<1>8. k > 0 => Joining(line, k) = IF cell.z > 0 /\ run.have THEN <<e>> ELSE <<>>
  BY <1>7 DEF Joining
<1>9. e \in Calls
  BY <1>3, <1>4 DEF Call, Calls
<1> HIDE DEF next, cell, line
<1>10. /\ next \in GridRuns
       /\ next.have <=> cell.z > 0
       /\ cell.z > 0 => next.pen = cell.place
       /\ next.added = IF cell.z > 0 /\ k > 0 /\ run.have THEN Append(run.added, e) ELSE run.added
  <2>1. /\ After(run, cell, k) \in GridRuns
        /\ After(run, cell, k).have <=> cell.z > 0
        /\ cell.z > 0 => After(run, cell, k).pen = cell.place
        /\ After(run, cell, k).added = IF cell.z > 0 /\ k > 0 /\ run.have THEN Append(run.added, e) ELSE run.added
    <3>1. run \in GridRuns /\ cell.place \in Spots /\ cell.z \in Nat /\ k \in Nat
      BY <1>1, <1>3, <1>4
    <3> QED BY <3>1, AfterCell, Zenon
  <2> QED BY <1>2, <2>1
<1> HIDE DEF e
<1>11. next.added = a \o g[k]
  <2>1. CASE k = 0
    <3>1. next.added = a
      BY <1>6, <1>10, <2>1
    <3>2. a \o <<>> = a
      OBVIOUS
    <3> QED BY <2>1, <3>1, <3>2
  <2>2. CASE k > 0 /\ cell.z > 0 /\ run.have
    <3> DEFINE p == g[k - 1]
    <3>1. g[k] = p \o <<e>> /\ p \in Seq(Calls)
      BY <1>5, <1>8, <2>2
    <3>2. next.added = Append(run.added, e)
      <4>1. cell.z > 0 /\ k > 0 /\ run.have
        BY <2>2
      <4> QED BY <1>10, <4>1, Zenon
    <3>3. run.added = a \o p
      BY <1>6, <2>2
    <3> HIDE DEF p
    <3>4. Append(a \o p, e) = a \o (p \o <<e>>)
      BY <1>9, <3>1, AppendAfter
    <3> QED BY <3>1, <3>2, <3>3, <3>4
  <2>3. CASE k > 0 /\ ~(cell.z > 0 /\ run.have)
    <3>1. Joining(line, k) = <<>>
      BY <1>8, <2>3
    <3>2. g[k] = g[k - 1]
      BY <1>5, <2>3, <3>1
    <3> QED BY <1>1, <1>6, <1>10, <2>3, <3>2
  <2> QED BY <1>1, <2>1, <2>2, <2>3
<1>12. k + 1 > 0 /\ (k + 1) - 1 = k /\ k + 1 # 0
  BY <1>1
<1> QED BY <1>10, <1>11, <1>12 DEF InLine, next, cell, line

LEMMA LineTraced ==
    ASSUME NEW s \in GridShapes, NEW b, Whole(s, b), NEW row \in 0 .. s.rows - 1, s.cols > 0,
           NEW run, run[row * s.cols] \in GridRuns,
           \A k \in 0 .. s.cols - 1 :
              run[row * s.cols + k + 1] = Cell(b, HeldGrid(s), run[row * s.cols + k], row * s.cols + k)
    PROVE  /\ run[row * s.cols + s.cols] \in GridRuns
           /\ run[row * s.cols + s.cols].added = run[row * s.cols].added \o Joined(ScanLine(s, row))
<1> DEFINE n == s.cols
           m == row * n
           line == ScanLine(s, row)
           a == run[m].added
<1>1. n \in Nat /\ n > 0 /\ m \in Nat
  BY GridTypes
<1>2. a \in Seq(Calls)
  BY DEF GridRuns
<1>3. PICK g \in [0 .. n - 1 -> Seq(Calls)] :
              /\ g[0] = <<>>
              /\ \A k \in 1 .. n - 1 : g[k] = g[k - 1] \o Joining(line, k)
              /\ Joined(line) = g[n - 1]
  BY <1>1, JoinedPrefixes
<1> HIDE DEF a, m, n, line
<1> DEFINE S == {k \in Nat : k <= n => InLine(run[m + k], line, g, a, k)}
<1>4. 0 \in S
  <2>1. m + 0 = m
    BY <1>1
  <2>2. InLine(run[m], line, g, a, 0)
    BY DEF InLine, a, m, n
  <2> QED BY <2>1, <2>2
<1>5. ASSUME NEW k \in Nat, k \in S PROVE k + 1 \in S
  <2> SUFFICES ASSUME k + 1 <= n PROVE InLine(run[m + (k + 1)], line, g, a, k + 1)
    OBVIOUS
  <2>1. k \in 0 .. n - 1 /\ m + (k + 1) = m + k + 1
    BY <1>1
  <2>2. InLine(run[m + k], line, g, a, k)
    BY <1>1, <1>5, <2>1
  <2>3. run[m + k + 1] = Cell(b, HeldGrid(s), run[m + k], m + k)
    BY <2>1 DEF m, n
  <2>4. InLine(Cell(b, HeldGrid(s), run[m + k], m + k), line, g, a, k + 1)
    <3>1. /\ g \in [0 .. s.cols - 1 -> Seq(Calls)] /\ g[0] = <<>>
          /\ \A j \in 1 .. s.cols - 1 : g[j] = g[j - 1] \o Joining(ScanLine(s, row), j)
          /\ k \in 0 .. s.cols - 1
      BY <1>3, <2>1 DEF n, line
    <3>2. InLine(run[m + k], ScanLine(s, row), g, a, k)
      BY <2>2 DEF line
    <3>3. InLine(Cell(b, HeldGrid(s), run[m + k], row * s.cols + k), ScanLine(s, row), g, a, k + 1)
      BY <1>2, <3>1, <3>2, CellTraced
    <3> QED BY <3>3 DEF m, n, line
  <2> QED BY <2>1, <2>3, <2>4
<1>6. Nat \subseteq S
  <2> HIDE DEF S
  <2> QED BY <1>4, <1>5, Induction
<1>7. InLine(run[m + n], line, g, a, n)
  BY <1>1, <1>6
<1>8. run[m + n] \in GridRuns /\ run[m + n].added = a \o Joined(line)
  BY <1>1, <1>3, <1>7 DEF InLine
<1> QED BY <1>8 DEF a, m, n, line

LEMMA NothingJoined ==
    ASSUME NEW s \in GridShapes, NEW row \in Nat, s.cols = 0
    PROVE  Joined(ScanLine(s, row)) = <<>>
<1> DEFINE line == ScanLine(s, row)
<1>1. Len(line) = 0
  BY GridTypes, ScanLineCells
<1> HIDE DEF line
<1> DEFINE p == [i \in 1 .. Len(line) - 1 |->
                   IF line[i].z > 0 /\ line[i + 1].z > 0
                   THEN <<Call(line[i].place, line[i + 1].place, line[i + 1].z)>> ELSE <<>>]
<1>2. p = <<>>
  BY <1>1
<1>3. Joined(line) = FlattenSeq(p)
  BY DEF Joined
<1> HIDE DEF p
<1>4. Joined(line) = <<>>
  BY <1>2, <1>3 DEF FlattenSeq
<1> QED BY <1>4 DEF line

LEMMA GridTraced ==
    ASSUME NEW s \in GridShapes, NEW b, Whole(s, b)
    PROVE  Scan(b, HeldGrid(s), s.cols * s.rows).added = Meaning(s)
<1> DEFINE n == s.cols
           rows == s.rows
           h == HeldGrid(s)
           q == [i \in 1 .. rows |-> Joined(ScanLine(s, i - 1))]
<1>1. n \in Nat /\ rows \in Nat /\ n * rows \in Nat
  BY GridTypes
<1>2. Meaning(s) = FlattenSeq(q)
  BY GridTypes DEF Meaning
<1>3. ASSUME NEW row \in 0 .. rows - 1 PROVE Joined(ScanLine(s, row)) \in Seq(Calls)
  <2>1. CASE n > 0
    <3>1. PICK g \in [0 .. n - 1 -> Seq(Calls)] : Joined(ScanLine(s, row)) = g[n - 1]
      BY <2>1, JoinedPrefixes
    <3> QED BY <1>1, <2>1, <3>1
  <2>2. CASE n = 0
    <3>1. row \in Nat
      BY <1>1
    <3>2. Joined(ScanLine(s, row)) = <<>>
      BY <2>2, <3>1, NothingJoined
    <3>3. <<>> \in Seq(Calls)
      OBVIOUS
    <3> QED BY <3>2, <3>3
  <2> QED BY <1>1, <2>1, <2>2
<1>4. q \in [1 .. rows -> Seq(Calls)] /\ \A i \in 1 .. rows : q[i] = Joined(ScanLine(s, i - 1))
  <2>1. \A i \in 1 .. rows : i - 1 \in 0 .. rows - 1
    BY <1>1
  <2> QED BY <1>3, <2>1
<1> HIDE DEF q, rows, n, h
<1>5. PICK f \in [0 .. rows -> Seq(Calls)] :
              /\ f[0] = <<>>
              /\ \A i \in 1 .. rows : f[i] = f[i - 1] \o q[i]
              /\ FlattenSeq(q) = f[rows]
  BY <1>1, <1>4, FlattenPrefixes, ZenonT(30)
<1>6. PICK run : /\ run[0] = GridStart
                 /\ \A i \in 0 .. (n * rows) - 1 : run[i + 1] = Cell(b, h, run[i], i)
                 /\ Scan(b, h, n * rows) = run[n * rows]
  <2> DEFINE all == n * rows
  <2>1. all \in Nat
    BY <1>1
  <2> HIDE DEF all
  <2>2. \E run : /\ run[0] = GridStart
                 /\ \A i \in 0 .. all - 1 : run[i + 1] = Cell(b, h, run[i], i)
                 /\ Scan(b, h, all) = run[all]
    BY <2>1, ScanRuns
  <2> QED BY <2>2 DEF all
<1> DEFINE S == {r \in Nat : r <= rows => run[r * n] \in GridRuns /\ run[r * n].added = f[r]}
<1>7. 0 \in S
  <2>1. 0 * n = 0
    BY <1>1
  <2>2. OnScreen(0, 0) \in Spots
    BY OnScreenType
  <2>3. GridStart \in GridRuns /\ GridStart.added = <<>>
    BY <2>2 DEF GridStart, GridRuns
  <2>4. run[0] \in GridRuns /\ run[0].added = f[0]
    BY <1>5, <1>6, <2>3
  <2> QED BY <2>1, <2>4
<1>8. ASSUME NEW r \in Nat, r \in S PROVE r + 1 \in S
  <2> SUFFICES ASSUME r + 1 <= rows
               PROVE  run[(r + 1) * n] \in GridRuns /\ run[(r + 1) * n].added = f[r + 1]
    OBVIOUS
  <2>1. r \in 0 .. rows - 1 /\ r + 1 \in 1 .. rows /\ (r + 1) - 1 = r
    BY <1>1
  <2>2. run[r * n] \in GridRuns /\ run[r * n].added = f[r] /\ f[r] \in Seq(Calls)
    BY <1>1, <1>5, <1>8, <2>1
  <2>3. f[r + 1] = f[r] \o Joined(ScanLine(s, r))
    BY <1>4, <1>5, <2>1
  <2>4. (r + 1) * n = r * n + n /\ r * n \in Nat
    BY <1>1
  <2>5. CASE n > 0
    <3>1. ASSUME NEW k \in 0 .. n - 1
          PROVE  run[r * n + k + 1] = Cell(b, h, run[r * n + k], r * n + k)
      <4> DEFINE i == r * n + k
                 all == n * rows
      <4>1. i \in Nat /\ i + 1 \in 1 .. all /\ all \in Nat
        BY <1>1, <2>1, CellIndex
      <4>2. \A j \in 0 .. all - 1 : run[j + 1] = Cell(b, h, run[j], j)
        BY <1>6
      <4> HIDE DEF i, all, h
      <4>3. i \in 0 .. all - 1
        BY <4>1
      <4>4. run[i + 1] = Cell(b, h, run[i], i)
        BY <4>2, <4>3
      <4> QED BY <4>4 DEF i
    <3>2. /\ run[r * n + n] \in GridRuns
          /\ run[r * n + n].added = run[r * n].added \o Joined(ScanLine(s, r))
      <4>1. /\ r \in 0 .. s.rows - 1 /\ s.cols > 0 /\ run[r * s.cols] \in GridRuns
            /\ \A k \in 0 .. s.cols - 1 :
                  run[r * s.cols + k + 1] = Cell(b, HeldGrid(s), run[r * s.cols + k], r * s.cols + k)
        BY <2>1, <2>2, <2>5, <3>1 DEF n, rows, h
      <4> QED BY <4>1, LineTraced DEF n
    <3> QED BY <2>2, <2>3, <2>4, <3>2
  <2>6. CASE n = 0
    <3>1. (r + 1) * n = r * n
      BY <2>4, <2>6
    <3>2. Joined(ScanLine(s, r)) = <<>>
      BY <2>6, NothingJoined DEF n
    <3> QED BY <2>2, <2>3, <3>1, <3>2
  <2> QED BY <1>1, <2>5, <2>6
<1>9. Nat \subseteq S
  <2> HIDE DEF S
  <2> QED BY <1>7, <1>8, Induction
<1>10. run[rows * n].added = f[rows]
  BY <1>1, <1>9
<1>11. rows * n = n * rows
  BY <1>1
<1> QED BY <1>2, <1>5, <1>6, <1>10, <1>11 DEF n, rows, h

-----------------------------------------------------------------------------
(* What a payload holds of a path.                                         *)

\* Sequences of one length, one after the other.
LEMMA BlockPlace ==
    ASSUME NEW w \in Nat, NEW m \in Nat, NEW i \in 1 .. m, NEW j \in 1 .. w
    PROVE  (i - 1) * w + j \in 1 .. m * w
<1>1. i - 1 \in Nat /\ i - 1 < m /\ w \in Nat \ {0}
  OBVIOUS
<1>2. w * (i - 1) + w <= w * m
  BY <1>1, Product
<1>3. w * (i - 1) = (i - 1) * w /\ (i - 1) * w \in Nat /\ w * m = m * w /\ m * w \in Nat
  BY <1>1
<1> DEFINE p == (i - 1) * w
           q == m * w
<1>4. p + w <= q /\ p \in Nat /\ q \in Nat
  BY <1>2, <1>3
<1> HIDE DEF p, q
<1>5. p + j \in 1 .. q
  BY <1>4
<1> QED BY <1>5 DEF p, q

Blocked(d, q, n, w) ==
    /\ Len(d) = n * w
    /\ \A i \in 1 .. n : \A j \in 1 .. w : d[(i - 1) * w + j] = q[i][j]

LEMMA Blocks ==
    ASSUME NEW S, NEW n \in Nat, NEW w \in Nat,
           NEW q \in [1 .. n -> {block \in Seq(S) : Len(block) = w}]
    PROVE  FlattenSeq(q) \in Seq(S) /\ Blocked(FlattenSeq(q), q, n, w)
<1>0. q \in [1 .. n -> Seq(S)] /\ \A i \in 1 .. n : Len(q[i]) = w
  OBVIOUS
<1>1. PICK f \in [0 .. n -> Seq(S)] :
              /\ f[0] = <<>>
              /\ \A i \in 1 .. n : f[i] = f[i - 1] \o q[i]
              /\ FlattenSeq(q) = f[n]
  BY <1>0, FlattenPrefixes, ZenonT(30)
<1> DEFINE T == {m \in Nat : m <= n => Blocked(f[m], q, m, w)}
<1>2. 0 \in T
  <2>1. Len(f[0]) = 0 /\ 0 * w = 0
    BY <1>1
  <2> QED BY <2>1 DEF Blocked
<1>3. ASSUME NEW m \in Nat, m \in T PROVE m + 1 \in T
  <2> SUFFICES ASSUME m + 1 <= n PROVE Blocked(f[m + 1], q, m + 1, w)
    OBVIOUS
  <2> DEFINE a == f[m]
             b == q[m + 1]
             k == Len(a)
  <2>1. /\ m + 1 \in 1 .. n /\ (m + 1) - 1 = m /\ a \in Seq(S) /\ b \in Seq(S)
        /\ f[m + 1] = a \o b /\ Len(b) = w
    <3> DEFINE i == m + 1
    <3>1. i \in 1 .. n /\ i - 1 = m /\ m \in 0 .. n
      OBVIOUS
    <3> HIDE DEF i
    <3>2. f[i] = f[m] \o q[i] /\ q[i] \in Seq(S) /\ Len(q[i]) = w /\ f[m] \in Seq(S)
      BY <1>0, <1>1, <3>1
    <3> QED BY <3>1, <3>2 DEF i
  <2>2. k = m * w /\ \A i \in 1 .. m : \A j \in 1 .. w : a[(i - 1) * w + j] = q[i][j]
    <3>1. m <= n
      OBVIOUS
    <3>2. Blocked(a, q, m, w)
      BY <1>3, <3>1
    <3> HIDE DEF a
    <3> QED BY <3>2 DEF Blocked
  <2> HIDE DEF a, b
  <2>3. /\ Len(a \o b) = k + Len(b)
        /\ \A j \in 1 .. k : (a \o b)[j] = a[j]
        /\ \A j \in 1 .. Len(b) : (a \o b)[k + j] = b[j]
    <3>1. a \in Seq(S) /\ b \in Seq(S)
      BY <2>1
    <3> QED BY <3>1, Concatenated
  <2> HIDE DEF k
  <2> DEFINE e == a \o b
  <2> HIDE DEF e
  <2>4. Len(e) = k + w /\ (\A j \in 1 .. k : e[j] = a[j]) /\ \A j \in 1 .. w : e[k + j] = b[j]
    BY <2>1, <2>3 DEF e
  <2>5. Len(e) = (m + 1) * w
    BY <2>2, <2>4
  <2>6. ASSUME NEW i \in 1 .. m + 1, NEW j \in 1 .. w PROVE e[(i - 1) * w + j] = q[i][j]
    <3>1. CASE i \in 1 .. m
      <4>1. (i - 1) * w + j \in 1 .. k
        BY <2>2, <3>1, BlockPlace
      <4>2. e[(i - 1) * w + j] = a[(i - 1) * w + j]
        BY <2>4, <4>1
      <4> QED BY <2>2, <3>1, <4>2
    <3>2. CASE i = m + 1
      <4>1. (i - 1) * w + j = k + j
        BY <2>2, <3>2
      <4> QED BY <2>4, <3>2, <4>1 DEF b
    <3> QED BY <3>1, <3>2
  <2>7. f[m + 1] = e
    BY <2>1 DEF e
  <2> QED BY <2>5, <2>6, <2>7 DEF Blocked
<1>4. Nat \subseteq T
  <2> HIDE DEF T
  <2> QED BY <1>2, <1>3, Induction
<1>5. Blocked(f[n], q, n, w)
  BY <1>4
<1> QED BY <1>1, <1>5

LEMMA PathTypes ==
    ASSUME NEW s \in PathShapes
    PROVE  /\ s \in Paths /\ s.kind = "polyline"
           /\ s.x0 \in Int /\ s.y0 \in Int /\ s.bright \in Nat /\ s.count \in Nat
           /\ s.closed \in BOOLEAN /\ s.wide \in BOOLEAN
           /\ s.steps \in Seq(Int16 \X Int16) /\ s.count \in {0, Len(s.steps) + 1}
           /\ s.inten \in Seq(Nat) /\ (s.inten # <<>> => Len(s.inten) = Len(s.steps))
           /\ ~s.wide => s.steps \in Seq(TwosComplement(OCTET) \X TwosComplement(OCTET))
<1>1. /\ s \in Paths /\ s.count \in {0, Len(s.steps) + 1} /\ Len(s.inten) \in {0, Len(s.steps)}
      /\ ~s.wide => s.steps \in Seq(TwosComplement(OCTET) \X TwosComplement(OCTET))
  BY DEF PathShapes
<1>2. /\ s.kind = "polyline" /\ s.x0 \in Word16 /\ s.y0 \in Word16 /\ s.bright \in Byte
      /\ s.count \in Word16 /\ s.closed \in BOOLEAN /\ s.wide \in BOOLEAN
      /\ s.steps \in Seq(Int16 \X Int16) /\ s.inten \in Seq(Byte)
  BY <1>1 DEF Paths
<1>3. Word16 \subseteq Nat /\ Byte \subseteq Nat
  BY Octets DEF Word16, Byte, Unsigned
<1>4. s.inten \in Seq(Nat)
  BY <1>2, <1>3, SeqOfMore
<1>5. s.inten # <<>> => Len(s.inten) = Len(s.steps)
  BY <1>1, <1>4
<1>6. s.x0 \in Int /\ s.y0 \in Int /\ s.bright \in Nat /\ s.count \in Nat
  <2> DEFINE a == s.x0
             b == s.y0
             c == s.bright
             d == s.count
  <2>1. a \in Word16 /\ b \in Word16 /\ c \in Byte /\ d \in Word16
    BY <1>2
  <2> HIDE DEF a, b, c, d
  <2>2. a \in Nat /\ b \in Nat /\ c \in Nat /\ d \in Nat
    BY <2>1, <1>3
  <2> QED BY <2>2 DEF a, b, c, d
<1> QED BY <1>1, <1>2, <1>4, <1>5, <1>6

HeldPath(s) ==
    [has_intensity |-> s.inten # <<>>, closed |-> s.closed, wide |-> s.wide, bright |-> s.bright,
     x0 |-> s.x0, y0 |-> s.y0, count |-> s.count]

Width(s) == (IF s.wide THEN 4 ELSE 2) + (IF s.inten # <<>> THEN 1 ELSE 0)

LEMMA HeldStride ==
    ASSUME NEW s
    PROVE  stride(HeldPath(s)) = Width(s)
  BY DEF HeldPath, stride, Width

LEMMA WidthType ==
    ASSUME NEW s
    PROVE  Width(s) \in 2 .. 5
  BY DEF Width

\* The bytes of a step.
LEMMA StepType ==
    ASSUME NEW s \in PathShapes, NEW i \in 1 .. Len(s.steps)
    PROVE  /\ s.steps[i][1] \in Int16 /\ s.steps[i][2] \in Int16
           /\ s.steps[i][1] \in Int /\ s.steps[i][2] \in Int
           /\ ~s.wide => s.steps[i][1] \in TwosComplement(OCTET) /\ s.steps[i][2] \in TwosComplement(OCTET)
           /\ s.inten # <<>> => s.inten[i] \in Byte
<1>1. s.steps[i] \in Int16 \X Int16
  BY PathTypes
<1>2. ~s.wide => s.steps[i] \in TwosComplement(OCTET) \X TwosComplement(OCTET)
  BY PathTypes
<1>3. s.inten # <<>> => s.inten[i] \in Byte
  <2>1. s.inten \in Seq(Byte)
    BY DEF PathShapes, Paths
  <2> QED BY <2>1, PathTypes
<1>4. Int16 \subseteq Int
  BY Octets DEF Int16, TwosComplement
<1> QED BY <1>1, <1>2, <1>3, <1>4

LEMMA StepBytes ==
    ASSUME NEW s \in PathShapes, NEW i \in 1 .. Len(s.steps)
    PROVE  LET dx == s.steps[i][1]
               dy == s.steps[i][2]
               e == EncodedStep(s, i)
           IN  /\ e \in Seq(Byte) /\ Len(e) = Width(s)
               /\ s.wide => e[1] = Hi(dx) /\ e[2] = Lo(dx) /\ e[3] = Hi(dy) /\ e[4] = Lo(dy)
               /\ ~s.wide => e[1] = Lo(dx) /\ e[2] = Lo(dy)
               /\ s.inten # <<>> => e[Width(s)] = s.inten[i]
<1> DEFINE dx == s.steps[i][1]
           dy == s.steps[i][2]
           hx == Hi(dx)
           lx == Lo(dx)
           hy == Hi(dy)
           ly == Lo(dy)
           z == s.inten[i]
           wide == s.wide
           bare == s.inten = <<>>
           d == IF wide THEN <<hx, lx, hy, ly>> ELSE <<lx, ly>>
           t == IF bare THEN <<>> ELSE <<z>>
           e == EncodedStep(s, i)
<1>1. e = d \o t
  BY DEF EncodedStep
<1>2. hx \in Byte /\ lx \in Byte /\ hy \in Byte /\ ly \in Byte
  <2>1. dx \in Int /\ dy \in Int
    BY StepType
  <2> QED BY <2>1, WordReadBack
<1>3. wide \in BOOLEAN /\ (~bare => z \in Byte)
  BY PathTypes, StepType
<1>4. Width(s) = (IF wide THEN 4 ELSE 2) + (IF bare THEN 0 ELSE 1)
  BY DEF Width
<1> HIDE DEF e, hx, lx, hy, ly, z, wide, bare
<1>5. d \in Seq(Byte) /\ t \in Seq(Byte)
  BY <1>2, <1>3
<1>6. Len(d) = (IF wide THEN 4 ELSE 2) /\ Len(t) = (IF bare THEN 0 ELSE 1)
  BY <1>2, <1>3
<1>7. /\ wide => d[1] = hx /\ d[2] = lx /\ d[3] = hy /\ d[4] = ly
      /\ ~wide => d[1] = lx /\ d[2] = ly
      /\ ~bare => t[1] = z
  BY <1>2, <1>3
<1> HIDE DEF d, t
<1> DEFINE m == Len(d)
           n == Len(t)
<1>8. /\ e \in Seq(Byte) /\ Len(e) = m + n
      /\ \A j \in 1 .. m : e[j] = d[j]
      /\ \A j \in 1 .. n : e[m + j] = t[j]
  BY <1>1, <1>5, Concatenated
<1>9. m = (IF wide THEN 4 ELSE 2) /\ n = (IF bare THEN 0 ELSE 1)
  BY <1>6
<1> HIDE DEF m, n
<1>10. Len(e) = Width(s)
  BY <1>4, <1>8, <1>9
<1>11. wide => e[1] = hx /\ e[2] = lx /\ e[3] = hy /\ e[4] = ly
  BY <1>7, <1>8, <1>9
<1>12. ~wide => e[1] = lx /\ e[2] = ly
  BY <1>7, <1>8, <1>9
<1>13. ~bare => e[Width(s)] = z
  BY <1>4, <1>7, <1>8, <1>9
<1> QED BY <1>8, <1>10, <1>11, <1>12, <1>13 DEF e, hx, lx, hy, ly, z, wide, bare

LEMMA PathBytes ==
    ASSUME NEW s \in PathShapes
    PROVE  /\ Encoded(s) \in Seq(Byte)
           /\ Len(Encoded(s)) = 8 + Len(s.steps) * Width(s)
           /\ \A j \in 1 .. 8 : Encoded(s)[j] = PathHeader(s)[j]
           /\ \A i \in 1 .. Len(s.steps) : \A j \in 1 .. Width(s) :
                 Encoded(s)[8 + ((i - 1) * Width(s) + j)] = EncodedStep(s, i)[j]
<1> DEFINE hd == PathHeader(s)
           n == Len(s.steps)
           w == Width(s)
           q == [i \in 1 .. n |-> EncodedStep(s, i)]
           d == FlattenSeq(q)
<1>1. hd \in Seq(Byte) /\ Len(hd) = 8
  BY HeaderBytes
<1>2. n \in Nat /\ w \in Nat
  BY PathTypes, WidthType
<1>3. q \in [1 .. n -> Seq(Byte)] /\ \A i \in 1 .. n : q[i] = EncodedStep(s, i) /\ Len(q[i]) = w
  BY StepBytes
<1>4. Encoded(s) = hd \o d
  BY PathTypes DEF Encoded
<1> HIDE DEF hd, q, n, w
<1>5. /\ d \in Seq(Byte) /\ Len(d) = n * w
      /\ \A i \in 1 .. n : \A j \in 1 .. w : d[(i - 1) * w + j] = q[i][j]
  <2>1. q \in [1 .. n -> {block \in Seq(Byte) : Len(block) = w}]
    BY <1>3
  <2>2. FlattenSeq(q) \in Seq(Byte) /\ Blocked(FlattenSeq(q), q, n, w)
    BY <1>2, <2>1, Blocks
  <2> QED BY <2>2 DEF Blocked
<1> HIDE DEF d
<1> DEFINE e == Encoded(s)
           head == Len(hd)
<1>7. /\ e \in Seq(Byte) /\ Len(e) = head + Len(d)
      /\ \A j \in 1 .. head : e[j] = hd[j]
      /\ \A j \in 1 .. Len(d) : e[head + j] = d[j]
  <2>1. hd \in Seq(Byte) /\ d \in Seq(Byte)
    BY <1>1, <1>5
  <2> HIDE DEF e
  <2>2. e = hd \o d
    BY <1>4 DEF e
  <2> QED BY <2>1, <2>2, Concatenated
<1>8. head = 8
  BY <1>1
<1> HIDE DEF e, head
<1>9. Len(e) = 8 + n * w /\ \A j \in 1 .. 8 : e[j] = hd[j]
  BY <1>5, <1>7, <1>8
<1>10. ASSUME NEW i \in 1 .. n, NEW j \in 1 .. w
       PROVE  e[8 + ((i - 1) * w + j)] = EncodedStep(s, i)[j]
  <2>1. (i - 1) * w + j \in 1 .. n * w
    BY <1>2, BlockPlace
  <2>2. e[8 + ((i - 1) * w + j)] = d[(i - 1) * w + j]
    BY <1>5, <1>7, <1>8, <2>1
  <2> QED BY <1>3, <1>5, <2>2
<1> QED BY <1>7, <1>9, <1>10 DEF e, hd, n, w

-----------------------------------------------------------------------------
(* A path that has all of its bytes is followed point by point.            *)
LEMMA PathHeld ==
    ASSUME NEW s \in PathShapes, NEW b, Whole(s, b)
    PROVE  /\ PathHead(b) = HeldPath(s)
           /\ \A i \in 1 .. Len(s.steps) : \A j \in 1 .. Width(s) :
                 b[8 + ((i - 1) * Width(s) + j)] = EncodedStep(s, i)[j]
<1> DEFINE n == Len(s.steps)
           w == Width(s)
           e == Encoded(s)
           all == n * w
<1>1. n \in Nat /\ w \in Nat /\ all \in Nat
  BY PathTypes, WidthType
<1>2. /\ Len(e) = 8 + all
      /\ \A j \in 1 .. 8 : e[j] = PathHeader(s)[j]
      /\ \A i \in 1 .. n : \A j \in 1 .. w : e[8 + ((i - 1) * w + j)] = EncodedStep(s, i)[j]
  BY PathBytes
<1>3. \A j \in 1 .. 8 + all : b[j] = e[j]
  BY <1>2 DEF Whole
<1>4. \A i \in 1 .. n : \A j \in 1 .. w : (i - 1) * w + j \in 1 .. all
  BY <1>1, BlockPlace
<1> HIDE DEF e, all, n, w
<1>5. \A j \in 1 .. 8 : b[j] = PathHeader(s)[j]
  BY <1>1, <1>2, <1>3
<1>6. PathHead(b) = HeldPath(s)
  BY <1>5, PathHeadRead, PathTypes DEF HeldPath
<1>7. ASSUME NEW i \in 1 .. n, NEW j \in 1 .. w
      PROVE  b[8 + ((i - 1) * w + j)] = EncodedStep(s, i)[j]
  <2> DEFINE m == (i - 1) * w + j
  <2>1. m \in 1 .. all /\ e[8 + m] = EncodedStep(s, i)[j]
    BY <1>2, <1>4
  <2> HIDE DEF m
  <2>2. 8 + m \in 1 .. 8 + all
    BY <1>1, <2>1
  <2>3. b[8 + m] = EncodedStep(s, i)[j]
    BY <1>3, <2>1, <2>2
  <2> QED BY <2>3 DEF m
<1> QED BY <1>6, <1>7 DEF n, w

\* A path's run: its last point, as drawn and as meant, and its vectors.
PathRuns == [x : Int, y : Int, pen : Spots, added : Seq(Calls)]
BrightnessOf(s, i) == IF s.inten = <<>> THEN s.bright ELSE s.inten[i]

Moved(s, run, i) ==
    LET x == run.x + s.steps[i][1]
        y == run.y + s.steps[i][2]
        z == BrightnessOf(s, i)
    IN  [x |-> x, y |-> y, pen |-> OnScreen(x, y),
         added |-> IF z > 0 THEN Append(run.added, Call(run.pen, OnScreen(x, y), z)) ELSE run.added]

LEMMA PointRead ==
    ASSUME NEW s \in PathShapes, NEW b, Whole(s, b), NEW i \in 1 .. Len(s.steps), NEW run
    PROVE  Point(b, HeldPath(s), run, i) = Moved(s, run, i)
<1> DEFINE h == HeldPath(s)
           w == Width(s)
           e == EncodedStep(s, i)
           q == (i - 1) * w
           p == 8 + q
           dx == s.steps[i][1]
           dy == s.steps[i][2]
<1>1. i - 1 \in Nat /\ w \in 2 .. 5 /\ q \in Nat
  <2>1. i - 1 \in Nat /\ w \in 2 .. 5 /\ w \in Nat
    BY PathTypes, WidthType
  <2> HIDE DEF w
  <2> QED BY <2>1
<1>2. \A j \in 1 .. w : b[8 + (q + j)] = e[j]
  BY PathHeld
<1>3. /\ s.wide => w >= 4 /\ e[1] = Hi(dx) /\ e[2] = Lo(dx) /\ e[3] = Hi(dy) /\ e[4] = Lo(dy)
      /\ ~s.wide => e[1] = Lo(dx) /\ e[2] = Lo(dy)
      /\ s.inten # <<>> => e[w] = s.inten[i]
  BY StepBytes DEF Width
<1>4. /\ dx \in Int16 /\ dy \in Int16
      /\ ~s.wide => dx \in TwosComplement(OCTET) /\ dy \in TwosComplement(OCTET)
  BY StepType
<1>5. h.wide = s.wide /\ h.has_intensity = (s.inten # <<>>) /\ h.bright = s.bright /\ stride(h) = w
  BY HeldStride DEF HeldPath
<1> HIDE DEF e, q, w, dx, dy, h
<1>6. p \in Nat /\ p + 2 \in Nat /\ p + 1 \in Nat
  BY <1>1
<1>7. /\ b[p + 1] = e[1] /\ b[p + 2] = e[2]
  <2>1. 1 \in 1 .. w /\ 2 \in 1 .. w /\ p + 1 = 8 + (q + 1) /\ p + 2 = 8 + (q + 2)
    BY <1>1
  <2> HIDE DEF p
  <2> QED BY <1>2, <2>1
<1>8. s.wide => b[p + 2 + 1] = e[3] /\ b[p + 2 + 2] = e[4]
  <2>1. s.wide => 3 \in 1 .. w /\ 4 \in 1 .. w /\ p + 2 + 1 = 8 + (q + 3) /\ p + 2 + 2 = 8 + (q + 4)
    BY <1>1, <1>3
  <2> HIDE DEF p
  <2> QED BY <1>2, <2>1
<1>9. b[p + w - 1 + 1] = e[w]
  <2>1. w \in 1 .. w /\ p + w - 1 + 1 = 8 + (q + w)
    BY <1>1
  <2> HIDE DEF p
  <2> QED BY <1>2, <2>1
<1>10. b[p + 1 + 1] = e[2]
  <2>1. p + 1 + 1 = p + 2
    BY <1>6
  <2> HIDE DEF p
  <2> QED BY <1>7, <2>1
<1> HIDE DEF p
<1>11. (IF h.wide THEN rd_i16(b, p) ELSE rd_i8(b, p)) = dx
  <2>1. CASE s.wide
    <3>1. HoldsWord(b, p, dx)
      BY <1>3, <1>7, <2>1 DEF HoldsWord
    <3>2. rd_i16(b, p) = dx
      BY <1>4, <1>6, <3>1, ReadSigned
    <3> QED BY <1>5, <2>1, <3>2
  <2>2. CASE ~s.wide
    <3>1. rd_i8(b, p) = dx
      BY <1>3, <1>4, <1>6, <1>7, <2>2, ReadSignedByte
    <3> QED BY <1>5, <2>2, <3>1
  <2> QED BY <2>1, <2>2
<1>12. (IF h.wide THEN rd_i16(b, p + 2) ELSE rd_i8(b, p + 1)) = dy
  <2>1. CASE s.wide
    <3>1. HoldsWord(b, p + 2, dy)
      BY <1>3, <1>8, <2>1 DEF HoldsWord
    <3>2. rd_i16(b, p + 2) = dy
      BY <1>4, <1>6, <3>1, ReadSigned
    <3> QED BY <1>5, <2>1, <3>2
  <2>2. CASE ~s.wide
    <3>1. rd_i8(b, p + 1) = dy
      BY <1>3, <1>4, <1>6, <1>10, <2>2, ReadSignedByte
    <3> QED BY <1>5, <2>2, <3>1
  <2> QED BY <2>1, <2>2
<1>13. (IF h.has_intensity THEN rd_u8(b, p + w - 1) ELSE h.bright) = BrightnessOf(s, i)
  <2>1. s.inten # <<>> => rd_u8(b, p + w - 1) = s.inten[i]
    BY <1>3, <1>9 DEF rd_u8
  <2> QED BY <1>5, <2>1 DEF BrightnessOf
<1>14. 8 + (i - 1) * stride(h) = p
  BY <1>5 DEF p, q
<1>15. Point(b, h, run, i) = Moved(s, run, i)
  BY <1>5, <1>11, <1>12, <1>13, <1>14 DEF Point, Moved, dx, dy
<1> QED BY <1>15 DEF h

Followed(b, h, n, run) ==
    /\ run[0] = PathStart(h)
    /\ \A i \in 1 .. n : run[i] = Point(b, h, run[i - 1], i)

LEMMA FollowRuns ==
    ASSUME NEW b, NEW h, NEW n \in Nat
    PROVE  \E run : Followed(b, h, n, run) /\ Follow(b, h, n) = run[n]
<1> DEFINE Runs(m, f) == f = [i \in 0 .. m |-> IF i = 0 THEN PathStart(h) ELSE Point(b, h, f[i - 1], i)]
           S == {m \in Nat : \E f : Runs(m, f)}
<1>1. 0 \in S
  <2> DEFINE f == [i \in 0 .. 0 |-> PathStart(h)]
  <2>1. Runs(0, f)
    OBVIOUS
  <2> QED BY <2>1
<1>2. ASSUME NEW m \in Nat, m \in S PROVE m + 1 \in S
  <2>1. PICK f : Runs(m, f)
    BY <1>2
  <2>2. \A i \in 0 .. m : f[i] = IF i = 0 THEN PathStart(h) ELSE Point(b, h, f[i - 1], i)
    BY <2>1
  <2> DEFINE g == [i \in 0 .. m + 1 |-> IF i = m + 1 THEN Point(b, h, f[m], m + 1) ELSE f[i]]
  <2>3. ASSUME NEW i \in 0 .. m + 1
        PROVE  g[i] = IF i = 0 THEN PathStart(h) ELSE Point(b, h, g[i - 1], i)
    <3>1. CASE i = m + 1
      <4>1. i # 0 /\ i - 1 = m /\ g[m] = f[m]
        BY <3>1
      <4> QED BY <3>1, <4>1
    <3>2. CASE i # m + 1
      <4>1. i \in 0 .. m /\ g[i] = f[i]
        BY <3>2
      <4>2. i # 0 => i - 1 \in 0 .. m + 1 /\ i - 1 # m + 1
        BY <3>2
      <4>3. i # 0 => g[i - 1] = f[i - 1]
        BY <4>2
      <4> HIDE DEF g
      <4> QED BY <2>2, <4>1, <4>3
    <3> QED BY <3>1, <3>2
  <2>4. Runs(m + 1, g)
    BY <2>3
  <2> HIDE DEF g, Runs
  <2> QED BY <2>4
<1>3. Nat \subseteq S
  <2> HIDE DEF S
  <2> QED BY <1>1, <1>2, Induction
<1>4. \E f : Runs(n, f)
  BY <1>3
<1> DEFINE run == CHOOSE f : Runs(n, f)
<1>5. Runs(n, run)
  <2> HIDE DEF Runs
  <2> QED BY <1>4
<1>6. Follow(b, h, n) = run[n]
  BY DEF Follow
<1> HIDE DEF run
<1>7. \A i \in 0 .. n : run[i] = IF i = 0 THEN PathStart(h) ELSE Point(b, h, run[i - 1], i)
  BY <1>5
<1>8. Followed(b, h, n, run)
  <2>1. \A i \in 1 .. n : i \in 0 .. n /\ i # 0
    OBVIOUS
  <2>2. 0 \in 0 .. n
    OBVIOUS
  <2> QED BY <1>7, <2>1, <2>2 DEF Followed
<1> QED BY <1>6, <1>8

LEMMA PointsFollow ==
    ASSUME NEW s
    PROVE  \A n \in Nat : Len(s.steps) = n =>
              /\ Points(s)[0] = <<s.x0, s.y0>>
              /\ \A i \in 1 .. n :
                    Points(s)[i] = <<Points(s)[i - 1][1] + s.steps[i][1], Points(s)[i - 1][2] + s.steps[i][2]>>
<1> DEFINE Onward(i, v) == <<v[1] + s.steps[i][1], v[2] + s.steps[i][2]>>
           Runs(m, f) == f = [i \in 0 .. m |-> IF i = 0 THEN <<s.x0, s.y0>> ELSE Onward(i, f[i - 1])]
           S == {m \in Nat : \E f : Runs(m, f)}
<1> HIDE DEF Onward
<1>1. 0 \in S
  <2> DEFINE f == [i \in 0 .. 0 |-> <<s.x0, s.y0>>]
  <2>1. Runs(0, f)
    OBVIOUS
  <2> QED BY <2>1
<1>2. ASSUME NEW m \in Nat, m \in S PROVE m + 1 \in S
  <2>1. PICK f : Runs(m, f)
    BY <1>2
  <2>2. \A i \in 0 .. m : f[i] = IF i = 0 THEN <<s.x0, s.y0>> ELSE Onward(i, f[i - 1])
    BY <2>1
  <2> DEFINE g == [i \in 0 .. m + 1 |-> IF i = m + 1 THEN Onward(m + 1, f[m]) ELSE f[i]]
  <2>3. ASSUME NEW i \in 0 .. m + 1
        PROVE  g[i] = IF i = 0 THEN <<s.x0, s.y0>> ELSE Onward(i, g[i - 1])
    <3>1. CASE i = m + 1
      <4>1. i # 0 /\ i - 1 = m /\ g[m] = f[m]
        BY <3>1
      <4> QED BY <3>1, <4>1
    <3>2. CASE i # m + 1
      <4>1. i \in 0 .. m /\ g[i] = f[i]
        BY <3>2
      <4>2. i # 0 => i - 1 \in 0 .. m + 1 /\ i - 1 # m + 1
        BY <3>2
      <4>3. i # 0 => g[i - 1] = f[i - 1]
        BY <4>2
      <4> HIDE DEF g
      <4> QED BY <2>2, <4>1, <4>3
    <3> QED BY <3>1, <3>2
  <2>4. Runs(m + 1, g)
    BY <2>3
  <2> HIDE DEF g, Runs
  <2> QED BY <2>4
<1>3. Nat \subseteq S
  <2> HIDE DEF S
  <2> QED BY <1>1, <1>2, Induction
<1> SUFFICES ASSUME NEW n \in Nat, Len(s.steps) = n
             PROVE  /\ Points(s)[0] = <<s.x0, s.y0>>
                    /\ \A i \in 1 .. n : Points(s)[i] = Onward(i, Points(s)[i - 1])
  BY DEF Onward
<1>4. \E f : Runs(n, f)
  BY <1>3
<1> DEFINE run == CHOOSE f : Runs(n, f)
<1>5. Runs(n, run)
  <2> HIDE DEF Runs
  <2> QED BY <1>4
<1>6. Points(s) = run
  BY DEF Points, Onward
<1> HIDE DEF run
<1>7. \A i \in 0 .. n : run[i] = IF i = 0 THEN <<s.x0, s.y0>> ELSE Onward(i, run[i - 1])
  BY <1>5
<1> QED BY <1>6, <1>7

\* Where the points of a path are, and the vectors to them.
PlaceAt(s, i) == OnScreen(Points(s)[i][1], Points(s)[i][2])
DrawnTo(s, i) ==
    IF BrightnessOf(s, i) > 0 THEN <<Call(PlaceAt(s, i - 1), PlaceAt(s, i), BrightnessOf(s, i))>> ELSE <<>>

LEMMA PointsType ==
    ASSUME NEW s \in PathShapes
    PROVE  \A i \in 0 .. Len(s.steps) :
              Points(s)[i][1] \in Int /\ Points(s)[i][2] \in Int /\ PlaceAt(s, i) \in Spots
<1> DEFINE n == Len(s.steps)
           at == Points(s)
           S == {i \in Nat : i <= n => at[i][1] \in Int /\ at[i][2] \in Int}
<1>1. n \in Nat /\ s.x0 \in Int /\ s.y0 \in Int
  BY PathTypes
<1>2. /\ at[0] = <<s.x0, s.y0>>
      /\ \A i \in 1 .. n : at[i] = <<at[i - 1][1] + s.steps[i][1], at[i - 1][2] + s.steps[i][2]>>
  BY <1>1, PointsFollow
<1>3. \A i \in 1 .. n : s.steps[i][1] \in Int /\ s.steps[i][2] \in Int
  BY StepType
<1> HIDE DEF n, at
<1>4. 0 \in S
  BY <1>1, <1>2
<1>5. ASSUME NEW i \in Nat, i \in S PROVE i + 1 \in S
  <2> SUFFICES ASSUME i + 1 <= n PROVE at[i + 1][1] \in Int /\ at[i + 1][2] \in Int
    OBVIOUS
  <2> DEFINE k == i + 1
  <2>1. k \in 1 .. n /\ k - 1 = i
    BY <1>1
  <2>2. at[i][1] \in Int /\ at[i][2] \in Int
    BY <1>1, <1>5
  <2> HIDE DEF k
  <2>3. at[k][1] \in Int /\ at[k][2] \in Int
    BY <1>2, <1>3, <2>1, <2>2
  <2> QED BY <2>3 DEF k
<1>6. Nat \subseteq S
  <2> HIDE DEF S
  <2> QED BY <1>4, <1>5, Induction
<1>7. \A i \in 0 .. n : at[i][1] \in Int /\ at[i][2] \in Int
  BY <1>1, <1>6
<1>8. \A i \in 0 .. n : PlaceAt(s, i) \in Spots
  BY <1>7, OnScreenType DEF PlaceAt, at
<1> QED BY <1>7, <1>8 DEF n, at

LEMMA BrightnessType ==
    ASSUME NEW s \in PathShapes, NEW i \in 1 .. Len(s.steps)
    PROVE  BrightnessOf(s, i) \in Nat
<1>1. s.bright \in Nat /\ (s.inten # <<>> => s.inten \in Seq(Nat) /\ Len(s.inten) = Len(s.steps))
  BY PathTypes
<1> QED BY <1>1 DEF BrightnessOf

LEMMA DrawnToType ==
    ASSUME NEW s \in PathShapes, NEW i \in 1 .. Len(s.steps)
    PROVE  DrawnTo(s, i) \in Seq(Calls)
<1>1. i - 1 \in 0 .. Len(s.steps) /\ i \in 0 .. Len(s.steps)
  BY PathTypes
<1>2. PlaceAt(s, i - 1) \in Spots /\ PlaceAt(s, i) \in Spots
  BY <1>1, PointsType
<1>3. Call(PlaceAt(s, i - 1), PlaceAt(s, i), BrightnessOf(s, i)) \in Calls
  BY <1>2, BrightnessType DEF Call, Calls
<1> QED BY <1>3 DEF DrawnTo

LEMMA PathTraced ==
    ASSUME NEW s \in PathShapes, NEW b, Whole(s, b)
    PROVE  LET n == Len(s.steps)
               drawn == Follow(b, HeldPath(s), n)
           IN  /\ drawn.added \in Seq(Calls) /\ drawn.pen = PlaceAt(s, n)
               /\ drawn.added = FlattenSeq([i \in 1 .. n |-> DrawnTo(s, i)])
<1> DEFINE n == Len(s.steps)
           h == HeldPath(s)
           at == Points(s)
           q == [i \in 1 .. n |-> DrawnTo(s, i)]
<1>1. n \in Nat /\ s.x0 \in Int /\ s.y0 \in Int
  BY PathTypes
<1>2. /\ at[0] = <<s.x0, s.y0>>
      /\ \A i \in 1 .. n : at[i] = <<at[i - 1][1] + s.steps[i][1], at[i - 1][2] + s.steps[i][2]>>
  BY <1>1, PointsFollow
<1>3. \A i \in 0 .. n : at[i][1] \in Int /\ at[i][2] \in Int /\ PlaceAt(s, i) \in Spots
  BY PointsType
<1>4. q \in [1 .. n -> Seq(Calls)] /\ \A i \in 1 .. n : q[i] = DrawnTo(s, i)
  BY DrawnToType
<1> HIDE DEF q
<1>5. PICK f \in [0 .. n -> Seq(Calls)] :
              /\ f[0] = <<>>
              /\ \A i \in 1 .. n : f[i] = f[i - 1] \o q[i]
              /\ FlattenSeq(q) = f[n]
  BY <1>1, <1>4, FlattenPrefixes, ZenonT(30)
<1>6. PICK run : Followed(b, h, n, run) /\ Follow(b, h, n) = run[n]
  BY <1>1, FollowRuns
<1>7. \A i \in 1 .. n : run[i] = Moved(s, run[i - 1], i)
  BY <1>6, PointRead DEF Followed
<1> DEFINE Kept(i) == /\ run[i].x = at[i][1] /\ run[i].y = at[i][2]
                      /\ run[i].pen = PlaceAt(s, i) /\ run[i].added = f[i]
           S == {i \in Nat : i <= n => Kept(i)}
<1>8. 0 \in S
  <2>1. PathStart(h) = [x |-> s.x0, y |-> s.y0, pen |-> OnScreen(s.x0, s.y0), added |-> <<>>]
    BY DEF PathStart, HeldPath
  <2>2. at[0][1] = s.x0 /\ at[0][2] = s.y0
    BY <1>2
  <2>3. PlaceAt(s, 0) = OnScreen(s.x0, s.y0)
    BY <2>2 DEF PlaceAt
  <2> HIDE DEF n, h, at
  <2>4. Kept(0)
    BY <1>5, <1>6, <2>1, <2>2, <2>3 DEF Followed
  <2> QED BY <2>4
<1>9. ASSUME NEW i \in Nat, i \in S PROVE i + 1 \in S
  <2> SUFFICES ASSUME i + 1 <= n PROVE Kept(i + 1)
    OBVIOUS
  <2> DEFINE k == i + 1
             old == run[i]
             z == BrightnessOf(s, k)
             x == old.x + s.steps[k][1]
             y == old.y + s.steps[k][2]
  <2>1. k \in 1 .. n /\ k - 1 = i /\ i \in 0 .. n /\ k \in 0 .. n
    BY <1>1
  <2>2. old.x = at[i][1] /\ old.y = at[i][2] /\ old.pen = PlaceAt(s, i) /\ old.added = f[i]
    BY <1>1, <1>9
  <2> HIDE DEF k
  <2>3. run[k] = Moved(s, old, k)
    BY <1>7, <2>1
  <2>4. /\ run[k].x = x /\ run[k].y = y /\ run[k].pen = OnScreen(x, y)
        /\ run[k].added = IF z > 0 THEN Append(old.added, Call(old.pen, OnScreen(x, y), z)) ELSE old.added
    BY <2>3 DEF Moved
  <2>5. at[k][1] = x /\ at[k][2] = y
    BY <1>2, <2>1, <2>2
  <2>6. PlaceAt(s, k) = OnScreen(x, y)
    BY <2>5 DEF PlaceAt
  <2> DEFINE e == Call(PlaceAt(s, i), PlaceAt(s, k), z)
  <2> HIDE DEF x, y, old, z, n, at, h
  <2>7. f[k] = f[i] \o q[k] /\ q[k] = DrawnTo(s, k) /\ f[i] \in Seq(Calls)
    BY <1>4, <1>5, <2>1
  <2>8. DrawnTo(s, k) = IF z > 0 THEN <<e>> ELSE <<>>
    BY <2>1 DEF DrawnTo, z
  <2>9. e \in Calls
    <3>1. PlaceAt(s, i) \in Spots /\ PlaceAt(s, k) \in Spots
      BY <1>3, <2>1
    <3>2. z \in Nat
      BY <2>1, BrightnessType DEF n, z
    <3> QED BY <3>1, <3>2 DEF Call, Calls
  <2>10. run[k].added = IF z > 0 THEN Append(f[i], e) ELSE f[i]
    BY <2>2, <2>4, <2>6
  <2> HIDE DEF e
  <2>11. run[k].added = f[k]
    <3> DEFINE a == f[i]
    <3>1. a \in Seq(Calls)
      BY <2>7
    <3> HIDE DEF a
    <3>2. Append(a, e) = a \o <<e>> /\ a \o <<>> = a
      BY <2>9, <3>1
    <3>3. CASE z > 0
      BY <2>7, <2>8, <2>10, <3>2, <3>3 DEF a
    <3>4. CASE ~(z > 0)
      BY <2>7, <2>8, <2>10, <3>2, <3>4 DEF a
    <3> QED BY <3>3, <3>4
  <2>12. Kept(k)
    BY <2>4, <2>5, <2>6, <2>11
  <2> QED BY <2>12 DEF k
<1>10. Nat \subseteq S
  <2> HIDE DEF S
  <2> QED BY <1>8, <1>9, Induction
<1>11. Kept(n)
  BY <1>1, <1>10
<1>12. f[n] \in Seq(Calls)
  BY <1>1, <1>5
<1> QED BY <1>5, <1>6, <1>11, <1>12 DEF q

-----------------------------------------------------------------------------
(* What an expander makes of a payload, all there or not.                  *)
Held(s, b) == \A j \in 1 .. Len(b) : j <= Len(Encoded(s)) => b[j] = Encoded(s)[j]

LEMMA HeldWhole ==
    ASSUME NEW s, Len(Encoded(s)) \in Nat, NEW b, Len(b) \in Nat, Held(s, b), Len(b) >= Len(Encoded(s))
    PROVE  Whole(s, b)
  BY DEF Held, Whole

\* What is less than 2^32 is what it is in 32 bits.
LEMMA NotWrapped ==
    ASSUME NEW w \in Nat, w < UINT32_VALUES
    PROVE  w % UINT32_VALUES = w
<1> DEFINE u == UINT32_VALUES
<1>1. u \in Int
  <2> DEFINE p == OCTET * OCTET
  <2>1. p \in Nat /\ OCTET \in Nat
    BY Octets
  <2>2. u = p * OCTET * OCTET
    BY DEF UINT32_VALUES
  <2> HIDE DEF p, u
  <2> QED BY <2>1, <2>2
<1>2. u \in Nat \ {0} /\ w \in 0 .. u - 1 /\ 0 \in Nat
  <2> HIDE DEF u
  <2>1. w < u
    BY DEF u
  <2> QED BY <1>1, <2>1
<1> HIDE DEF u
<1>3. (0 * u + w) % u = w
  BY <1>2, DivMod
<1>4. 0 * u + w = w
  BY <1>2
<1> QED BY <1>3, <1>4 DEF u

\* The 32-bit count of the bytes a grid needs is their number.
LEMMA GridNeeds ==
    ASSUME NEW s \in GridShapes
    PROVE  LET n == s.cols * s.rows
               need == 16 + n + (IF s.inten # <<>> THEN n ELSE 0)
           IN  n \in Nat /\ need \in Nat /\ need % UINT32_VALUES = need
<1> DEFINE n == s.cols * s.rows
           need == 16 + n + (IF s.inten # <<>> THEN n ELSE 0)
<1>1. /\ s.disp \in Seq(Byte) /\ s.inten \in Seq(Byte)
      /\ Len(s.disp) = n /\ Len(s.inten) \in {0, n} /\ 16 + n + Len(s.inten) < UINT32_VALUES
  BY DEF GridShapes, Grids
<1>2. n \in Nat
  <2>1. Len(s.disp) \in Nat
    BY <1>1
  <2> QED BY <1>1, <2>1
<1> HIDE DEF n
<1>3. Len(s.inten) = (IF s.inten # <<>> THEN n ELSE 0)
  BY <1>1, <1>2, EmptySeq
<1>4. need \in Nat /\ need < UINT32_VALUES
  BY <1>1, <1>2, <1>3
<1> HIDE DEF need
<1>5. need % UINT32_VALUES = need
  BY <1>4, NotWrapped
<1> QED BY <1>2, <1>4, <1>5 DEF n, need

LEMMA GridDispatched ==
    ASSUME NEW s \in GridShapes, NEW b, Len(b) \in Nat, Held(s, b)
    PROVE  dispatch_heightfield(b) = IF Len(b) >= Len(Encoded(s)) THEN Meaning(s) ELSE <<>>
<1> DEFINE cells == s.cols * s.rows
           n == Len(Encoded(s))
           h == GridHead(b)
           has == s.inten # <<>>
<1>1. /\ cells \in Nat /\ n = 16 + cells + (IF has THEN cells ELSE 0)
      /\ \A j \in 1 .. 16 : Encoded(s)[j] = GridHeader(s)[j]
  BY GridTypes, GridBytes
<1>2. n \in Nat /\ n >= 16
  <2> HIDE DEF n, cells
  <2> QED BY <1>1
<1>3. CASE Len(b) < 16
  <2>1. dispatch_heightfield(b) = <<>>
    BY <1>3 DEF dispatch_heightfield
  <2> QED BY <1>2, <1>3, <2>1
<1>4. CASE ~(Len(b) < 16)
  <2>1. \A j \in 1 .. 16 : b[j] = GridHeader(s)[j]
    <3>1. \A j \in 1 .. 16 : j \in 1 .. Len(b) /\ j <= n
      <4> HIDE DEF n
      <4> QED BY <1>2, <1>4
    <3>2. \A j \in 1 .. 16 : b[j] = Encoded(s)[j]
      BY <3>1 DEF Held
    <3> QED BY <1>1, <3>2
  <2>2. h = HeldGrid(s)
    BY <2>1, GridHeadRead, GridTypes DEF HeldGrid
  <2>3. h.cols = s.cols /\ h.rows = s.rows /\ h.has_intensity = has
    BY <2>2 DEF HeldGrid
  <2> DEFINE need == 16 + cells + (IF has THEN cells ELSE 0)
  <2>4. dispatch_heightfield(b) = IF Len(b) < need THEN <<>> ELSE Scan(b, h, cells).added
    <3>1. need % UINT32_VALUES = need
      BY GridNeeds
    <3>2. dispatch_heightfield(b) = IF Len(b) < need % UINT32_VALUES THEN <<>> ELSE Scan(b, h, cells).added
      BY <1>4, <2>3 DEF dispatch_heightfield
    <3> HIDE DEF need
    <3> QED BY <3>1, <3>2
  <2>5. CASE Len(b) >= n
    <3>1. Whole(s, b)
      BY <1>2, <2>5, HeldWhole
    <3>2. Scan(b, h, cells).added = Meaning(s)
      BY <2>2, <3>1, GridTraced
    <3>3. dispatch_heightfield(b) = Scan(b, h, cells).added
      <4> HIDE DEF n, cells, h, has
      <4> QED BY <1>1, <1>2, <2>4, <2>5
    <3> QED BY <2>5, <3>2, <3>3
  <2>6. CASE Len(b) < n
    <3>1. dispatch_heightfield(b) = <<>>
      <4> HIDE DEF n, cells, h, has
      <4> QED BY <1>1, <1>2, <2>4, <2>6
    <3>2. ~(Len(b) >= n)
      BY <1>2, <2>6
    <3> QED BY <3>1, <3>2
  <2> QED BY <1>2, <2>5, <2>6
<1> QED BY <1>3, <1>4

LEMMA PathMeaning ==
    ASSUME NEW s \in PathShapes
    PROVE  /\ s.count = 0 => Meaning(s) = <<>>
           /\ s.count # 0 =>
                 Meaning(s) = FlattenSeq([i \in 1 .. Len(s.steps) |-> DrawnTo(s, i)])
                        \o (IF s.closed /\ Len(s.steps) >= 1 /\ s.bright > 0
                            THEN <<Call(PlaceAt(s, Len(s.steps)), PlaceAt(s, 0), s.bright)>> ELSE <<>>)
<1>1. s.kind = "polyline"
  BY PathTypes
<1>2. s.steps # <<>> <=> Len(s.steps) >= 1
  BY PathTypes
<1>3. Meaning(s) = IF s.count = 0 THEN <<>> ELSE PathVectors(s)
  BY <1>1 DEF Meaning
<1>4. PathVectors(s) = FlattenSeq([i \in 1 .. Len(s.steps) |-> DrawnTo(s, i)])
                        \o (IF s.closed /\ Len(s.steps) >= 1 /\ s.bright > 0
                            THEN <<Call(PlaceAt(s, Len(s.steps)), PlaceAt(s, 0), s.bright)>> ELSE <<>>)
  BY <1>2 DEF PathVectors, DrawnTo, PlaceAt, BrightnessOf
<1> QED BY <1>3, <1>4

LEMMA PathDispatched ==
    ASSUME NEW s \in PathShapes, NEW b, Len(b) \in Nat, Held(s, b)
    PROVE  dispatch_polyline(b) = IF Len(b) >= Len(Encoded(s)) THEN Meaning(s) ELSE <<>>
<1> DEFINE steps == Len(s.steps)
           w == Width(s)
           n == Len(Encoded(s))
           h == PathHead(b)
<1>1. /\ steps \in Nat /\ w \in Nat /\ n = 8 + steps * w
      /\ \A j \in 1 .. 8 : Encoded(s)[j] = PathHeader(s)[j]
  <2>1. steps \in Nat
    BY PathTypes
  <2>2. w \in Nat
    BY WidthType
  <2> QED BY <2>1, <2>2, PathBytes
<1>2. n \in Nat /\ n >= 8
  <2> HIDE DEF n, steps, w
  <2>1. steps * w \in Nat
    BY <1>1
  <2> QED BY <1>1, <2>1
<1>3. CASE Len(b) < 8
  <2>1. dispatch_polyline(b) = <<>>
    BY <1>3 DEF dispatch_polyline
  <2> QED BY <1>2, <1>3, <2>1
<1>4. CASE ~(Len(b) < 8)
  <2>1. \A j \in 1 .. 8 : b[j] = PathHeader(s)[j]
    <3>1. \A j \in 1 .. 8 : j \in 1 .. Len(b) /\ j <= n
      <4> HIDE DEF n
      <4> QED BY <1>2, <1>4
    <3>2. \A j \in 1 .. 8 : b[j] = Encoded(s)[j]
      BY <3>1 DEF Held
    <3> QED BY <1>1, <3>2
  <2>2. h = HeldPath(s)
    BY <2>1, PathHeadRead, PathTypes DEF HeldPath
  <2>3. /\ h.count = s.count /\ h.closed = s.closed /\ h.bright = s.bright
        /\ h.x0 = s.x0 /\ h.y0 = s.y0 /\ stride(h) = w
    BY <2>2, HeldStride DEF HeldPath
  <2>4. s.count = 0 => dispatch_polyline(b) = <<>> /\ Meaning(s) = <<>>
    <3>1. s.count = 0 => Meaning(s) = <<>>
      BY PathMeaning, Zenon
    <3> HIDE DEF h
    <3>2. ASSUME s.count = 0 PROVE dispatch_polyline(b) = <<>>
      <4>1. PathHead(b).count = 0
        BY <2>3, <3>2 DEF h
      <4> QED BY <4>1 DEF dispatch_polyline
    <3> QED BY <3>1, <3>2
  <2>5. s.count # 0 => s.count - 1 = steps
    <3>1. s.count \in {0, steps + 1}
      BY PathTypes, ZenonT(30)
    <3> HIDE DEF steps
    <3> QED BY <1>1, <3>1
  <2> DEFINE drawn == Follow(b, h, steps)
             closes == s.closed /\ steps >= 1 /\ s.bright > 0
  <2>6. ASSUME s.count # 0
        PROVE  dispatch_polyline(b) =
                  IF Len(b) < 8 + steps * w THEN <<>>
                  ELSE IF closes THEN Append(drawn.added, Call(drawn.pen, OnScreen(s.x0, s.y0), s.bright))
                  ELSE drawn.added
    <3> HIDE DEF h, steps, w
    <3> QED BY <1>4, <2>3, <2>5, <2>6 DEF dispatch_polyline, h
  <2>7. CASE Len(b) >= n /\ s.count # 0
    <3>1. Whole(s, b)
      BY <1>2, <2>7, HeldWhole
    <3> DEFINE a == FlattenSeq([i \in 1 .. steps |-> DrawnTo(s, i)])
               e == Call(PlaceAt(s, steps), PlaceAt(s, 0), s.bright)
    <3>2. drawn.added \in Seq(Calls) /\ drawn.pen = PlaceAt(s, steps) /\ drawn.added = a
      BY <2>2, <3>1, PathTraced
    <3>3. Meaning(s) = a \o (IF closes THEN <<e>> ELSE <<>>)
      BY <2>7, PathMeaning, Zenon
    <3>4. PlaceAt(s, 0) = OnScreen(s.x0, s.y0)
      <4>1. Points(s)[0] = <<s.x0, s.y0>>
        BY <1>1, PointsFollow, ZenonT(30)
      <4> QED BY <4>1 DEF PlaceAt
    <3>5. dispatch_polyline(b) = IF closes THEN Append(a, e) ELSE a
      <4>1. ~(Len(b) < 8 + steps * w)
        BY <1>1, <1>2, <2>7
      <4>2. s.count # 0
        BY <2>7
      <4> HIDE DEF closes, a, drawn, steps, w
      <4>3. dispatch_polyline(b) =
               IF closes THEN Append(drawn.added, Call(drawn.pen, OnScreen(s.x0, s.y0), s.bright))
               ELSE drawn.added
        BY <2>6, <4>1, <4>2
      <4> QED BY <3>2, <3>4, <4>3
    <3>6. a \in Seq(Calls)
      BY <3>2
    <3> HIDE DEF closes, a
    <3>7. e \in Calls
      <4>1. \A i \in 0 .. steps : PlaceAt(s, i) \in Spots
        BY PointsType, ZenonT(30)
      <4>2. s.bright \in Nat
        BY PathTypes, ZenonT(30)
      <4> HIDE DEF steps
      <4>3. PlaceAt(s, steps) \in Spots /\ PlaceAt(s, 0) \in Spots
        BY <1>1, <4>1
      <4> QED BY <4>2, <4>3 DEF Call, Calls
    <3> HIDE DEF e
    <3>8. Append(a, e) = a \o <<e>> /\ a \o <<>> = a
      BY <3>6, <3>7
    <3>9. dispatch_polyline(b) = Meaning(s)
      BY <3>3, <3>5, <3>8
    <3> QED BY <2>7, <3>9
  <2>8. CASE Len(b) < n /\ s.count # 0
    <3>1. Len(b) < 8 + steps * w /\ ~(Len(b) >= n)
      BY <1>1, <1>2, <2>8
    <3> QED BY <2>6, <2>8, <3>1
  <2>9. CASE s.count = 0
    BY <2>4, <2>9
  <2> QED BY <1>2, <2>7, <2>8, <2>9
<1> QED BY <1>3, <1>4

-----------------------------------------------------------------------------
(* The payloads that come and what is made of them.                        *)
LEMMA EncodedType ==
    ASSUME NEW s \in Shapes
    PROVE  Encoded(s) \in Seq(Byte) /\ Len(Encoded(s)) \in Nat
<1>1. Encoded(s) \in Seq(Byte)
  BY ShapeKinds, GridBytes, PathBytes
<1> QED BY <1>1

LEMMA IsDispatched ==
    ASSUME NEW s \in Shapes, NEW b, Len(b) \in Nat, Held(s, b)
    PROVE  Dispatched(s, b) = IF Len(b) >= Len(Encoded(s)) THEN Meaning(s) ELSE <<>>
<1>1. CASE s \in GridShapes /\ s.kind = "heightfield"
  BY <1>1, GridDispatched DEF Dispatched
<1>2. CASE s \in PathShapes /\ s.kind = "polyline"
  BY <1>2, PathDispatched DEF Dispatched
<1> QED BY <1>1, <1>2, ShapeKinds

\* Nothing is gathered, or bytes of a shape are, and its expander has run on
\* them or not.
ExtInv ==
    /\ buf \in Seq(Byte)
    /\ \/ shape = NoShape /\ buf = <<>> /\ added = <<>>
       \/ /\ shape \in Shapes /\ Held(shape, buf)
          /\ added \in {<<>>, <<Dispatched(shape, buf)>>}

LEMMA Gathered ==
    ASSUME NEW s \in Shapes, NEW more \in Int, NEW b,
           b = IF more < 0 THEN SubSeq(Encoded(s), 1, Len(Encoded(s)) + more)
               ELSE Encoded(s) \o [j \in 1 .. more |-> 1]
    PROVE  b \in Seq(Byte) /\ Held(s, b)
<1> DEFINE e == Encoded(s)
           n == Len(e)
<1>1. e \in Seq(Byte) /\ n \in Nat
  BY EncodedType
<1> HIDE DEF e
<1>2. CASE more >= 0
  <2> DEFINE t == [j \in 1 .. more |-> 1]
  <2>1. 1 \in Byte
    BY Octets DEF Byte, Unsigned
  <2>2. t \in Seq(Byte)
    BY <1>2, <2>1
  <2>3. b = e \o t
    BY <1>2 DEF e
  <2> HIDE DEF t
  <2>4. /\ e \o t \in Seq(Byte) /\ Len(e \o t) = n + Len(t)
        /\ \A j \in 1 .. n : (e \o t)[j] = e[j]
    BY <1>1, <2>2, Concatenated
  <2>5. b \in Seq(Byte) /\ \A j \in 1 .. n : b[j] = e[j]
    BY <2>3, <2>4
  <2> HIDE DEF n
  <2>6. \A j \in 1 .. Len(b) : j <= n => j \in 1 .. n
    BY <1>1, <2>5
  <2>7. \A j \in 1 .. Len(b) : j <= n => b[j] = e[j]
    BY <2>5, <2>6
  <2> QED BY <2>5, <2>7 DEF Held, e, n
<1>3. CASE more < 0
  <2> DEFINE m == n + more
  <2>1. b = SubSeq(e, 1, m)
    BY <1>3 DEF e
  <2>2. m \in Int /\ m <= n
    BY <1>1, <1>3
  <2> HIDE DEF m, n
  <2>3. CASE m < 1
    <3>1. b = <<>>
      BY <1>1, <2>1, <2>2, <2>3
    <3>2. b \in Seq(Byte) /\ Held(s, b)
      BY <3>1 DEF Held
    <3> QED BY <3>2
  <2>4. CASE m >= 1
    <3>1. 1 .. m \subseteq 1 .. n
      BY <1>1, <2>2
    <3>2. \A j \in 1 .. m : e[j] \in Byte
      BY <1>1, <3>1 DEF n
    <3>3. /\ SubSeq(e, 1, m) \in Seq(Byte)
          /\ Len(SubSeq(e, 1, m)) = IF 1 <= m THEN m - 1 + 1 ELSE 0
          /\ \A j \in 1 .. m - 1 + 1 : SubSeq(e, 1, m)[j] = e[1 + j - 1]
      BY <2>2, <3>2, SubSeqProperties
    <3>4. m - 1 + 1 = m /\ \A j \in 1 .. m : 1 + j - 1 = j
      BY <2>2
    <3>5. b \in Seq(Byte) /\ Len(b) = m
      BY <2>1, <2>4, <3>3, <3>4
    <3>6. \A j \in 1 .. Len(b) : b[j] = e[j]
      BY <2>1, <3>3, <3>4, <3>5
    <3> QED BY <3>5, <3>6 DEF Held, e
  <2>5. m < 1 \/ m >= 1
    BY <2>2
  <2> QED BY <2>3, <2>4, <2>5
<1>4. more >= 0 \/ more < 0
  OBVIOUS
<1> QED BY <1>2, <1>3, <1>4, Zenon

LEMMA ExtInvInit == ExtInit => ExtInv
  BY DEF ExtInit, ExtInv

LEMMA ExtInvNext == ExtInv /\ [ExtNext]_ext_vars => ExtInv'
<1> SUFFICES ASSUME ExtInv, [ExtNext]_ext_vars PROVE ExtInv'
  OBVIOUS
<1>1. CASE Gather
  <2>1. PICK s \in Shapes, more \in Lengths :
          /\ shape' = s
          /\ buf' = IF more < 0 THEN SubSeq(Encoded(s), 1, Len(Encoded(s)) + more)
                    ELSE Encoded(s) \o [j \in 1 .. more |-> 1]
    BY <1>1 DEF Gather
  <2>2. more \in Int
    BY ExtAssumption
  <2>3. buf' \in Seq(Byte) /\ Held(s, buf')
    BY <2>1, <2>2, Gathered
  <2>4. added' = added /\ shape = NoShape
    BY <1>1 DEF Gather
  <2>5. added = <<>>
    <3>1. ~(NoShape \in Shapes)
      <4> SUFFICES ASSUME NoShape \in Shapes PROVE FALSE
        OBVIOUS
      <4>1. NoShape.kind = "heightfield" \/ NoShape.kind = "polyline"
        BY ShapeKinds
      <4> QED BY <4>1 DEF NoShape
    <3> QED BY <2>4, <3>1 DEF ExtInv
  <2> QED BY <2>1, <2>3, <2>4, <2>5 DEF ExtInv
<1>2. CASE Expand
  <2>1. shape # NoShape /\ added' = <<Dispatched(shape, buf)>> /\ shape' = shape /\ buf' = buf
    BY <1>2 DEF Expand
  <2>2. buf \in Seq(Byte) /\ shape \in Shapes /\ Held(shape, buf)
    BY <2>1 DEF ExtInv
  <2> QED BY <2>1, <2>2 DEF ExtInv
<1>3. CASE Forget
  <2>1. shape' = NoShape /\ buf' = <<>> /\ added' = <<>>
    BY <1>3 DEF Forget
  <2> QED BY <2>1 DEF ExtInv
<1>4. CASE UNCHANGED ext_vars
  BY <1>4 DEF ext_vars, ExtInv
<1> QED BY <1>1, <1>2, <1>3, <1>4 DEF ExtNext

LEMMA ExtInvTraces == ExtInv => TracesTheShape
<1> SUFFICES ASSUME ExtInv, added # <<>>
             PROVE  added[1] = IF Len(buf) >= Len(Encoded(shape)) THEN Meaning(shape) ELSE <<>>
  BY DEF TracesTheShape
<1>1. /\ buf \in Seq(Byte) /\ shape \in Shapes /\ Held(shape, buf)
      /\ added = <<Dispatched(shape, buf)>>
  BY DEF ExtInv
<1>2. added[1] = Dispatched(shape, buf)
  BY <1>1
<1>3. Len(buf) \in Nat
  BY <1>1
<1> QED BY <1>1, <1>2, <1>3, IsDispatched

\* What is gathered is bytes of the shape the sender means, in their places,
\* and what has been drawn of them is what an expander makes of them.
THEOREM ExtInvariant == ExtSpec => []ExtInv
  BY ExtInvInit, ExtInvNext, PTL DEF ExtSpec

\* Every grid and every path that fits in its fields is drawn as its sender
\* meant it, when all of it came, and not at all when some is missing: for
\* every scan order, pattern of blanks, step width and screen, and every size
\* whose count of bytes fits in 32 bits.
THEOREM ShapesAreTraced == ExtSpec => []TracesTheShape
  BY ExtInvariant, ExtInvTraces, PTL
=============================================================================
