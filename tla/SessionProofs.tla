--------------------------- MODULE SessionProofs ---------------------------
(***************************************************************************)
(* Proofs about what src/vekterm_baremetal.c keeps and shows.  Of Session: *)
(* its types, that a frame is held exactly while its sender is heard       *)
(* although the counter wraps, and that one press of a button steps the    *)
(* rate once.  Of Splash: that the lines it puts together fit their buffer *)
(* and say the build and the rate, and that a text is drawn as its glyphs' *)
(* strokes, zeroed where they should be, for any font.                     *)
(***************************************************************************)
EXTENDS Session, Splash, SequenceTheorems, WellFoundedInduction, TLAPS

\* While a frame is held the unsigned difference is the time that passed.
ClockRight == g_have_frame => since < IDLE_TIMEOUT /\ Minus(now, last_activity) = since

\* A button that is down and has not been seen was pressed since the last step.
PressRight == down \ prev \subseteq fresh

IInv == TypeOK /\ HeldWhileAlive /\ ClockRight /\ PressRight

\* The counter advanced by dt and read again gives the difference plus dt,
\* while that is less than one turn.
LEMMA Wrapping ==
    ASSUME NEW a \in 0 .. WRAP - 1, NEW b \in 0 .. WRAP - 1, NEW dt \in 1 .. PASS_MAX,
           Minus(a, b) < IDLE_TIMEOUT
    PROVE  /\ Plus(a, dt) \in 0 .. WRAP - 1
           /\ Minus(Plus(a, dt), b) = Minus(a, b) + dt
  BY SessionAssumption DEF Plus, Minus

LEMMA PlusType ==
    ASSUME NEW a \in 0 .. WRAP - 1, NEW dt \in 1 .. PASS_MAX
    PROVE  Plus(a, dt) \in 0 .. WRAP - 1
  BY SessionAssumption DEF Plus

LEMMA CycleIndex ==
    ASSUME NEW i \in Nat
    PROVE  i % Len(BAUD_OPTIONS) \in 0 .. Len(BAUD_OPTIONS) - 1
<1> DEFINE n == Len(BAUD_OPTIONS)
<1>1. n \in Nat /\ n > 0
  BY BaudAssumption
<1> HIDE DEF n
<1>2. i % n \in 0 .. n - 1
  BY <1>1
<1> QED
  BY <1>2 DEF n

LEMMA InitInv == Init => IInv
<1> SUFFICES ASSUME Init PROVE IInv
  OBVIOUS
<1>1. g_baud_idx \in 0 .. Len(BAUD_OPTIONS) - 1
  BY BaudAssumption DEF Init
<1>2. TypeOK
  <2>1. /\ pc = "wait" /\ reply = "sync" /\ peer = "none"
        /\ now \in 0 .. WRAP - 1 /\ last_activity = now
        /\ g_have_frame = FALSE /\ g_peer_v2 = FALSE /\ image = FALSE
        /\ prev = {} /\ down = {} /\ fresh = {} /\ since = 0
    BY DEF Init
  <2>2. g_cur_baud \in Nat
    BY BaudAssumption DEF Init
  <2>3. 0 \in 0 .. IDLE_TIMEOUT
    BY SessionAssumption
  <2> QED
    BY <1>1, <2>1, <2>2, <2>3 DEF TypeOK
<1>3. HeldWhileAlive /\ ClockRight /\ PressRight
  BY DEF Init, HeldWhileAlive, ClockRight, PressRight
<1> QED
  BY <1>2, <1>3 DEF IInv

LEMMA StepInv == IInv /\ [Next]_vars => IInv'
<1> SUFFICES ASSUME IInv, [Next]_vars PROVE IInv'
  OBVIOUS
<1> USE DEF IInv
<1>1. ASSUME NEW what \in {"frame", "keepalive", "nothing"}, NEW dt \in 1 .. PASS_MAX,
             Wait(what, Plus(now, dt)), Passing(what, dt)
      PROVE  IInv'
  <2> DEFINE t == Plus(now, dt)
  <2>1. t \in 0 .. WRAP - 1
    BY PlusType DEF TypeOK
  <2>2. /\ now' = t
        /\ last_activity' = IF what = "nothing" THEN last_activity ELSE t
        /\ g_have_frame' = (what = "frame" \/ (g_have_frame /\ ~(what = "nothing" /\ Silent(t))))
        /\ pc' = "draw"
        /\ UNCHANGED <<dial, g_peer_v2, down, peer, reply, fresh>>
    BY <1>1 DEF Wait
  <2>3. g_have_frame => /\ since < IDLE_TIMEOUT
                        /\ Minus(t, last_activity) = since + dt
    BY Wrapping DEF TypeOK, ClockRight
  <2> HIDE DEF t
  <2>4. TypeOK'
    <3>1. since' \in 0 .. IDLE_TIMEOUT
      BY <1>1, SessionAssumption DEF Passing, TypeOK
    <3>2. g_have_frame' \in BOOLEAN /\ image' \in BOOLEAN
      BY <1>1, <2>2 DEF Passing
    <3> QED
      BY <2>1, <2>2, <3>1, <3>2 DEF TypeOK, dial
  <2>5. HeldWhileAlive' /\ ClockRight'
    <3>1. CASE what # "nothing"
      <4>1. since' = 0 /\ last_activity' = t /\ now' = t /\ since' < IDLE_TIMEOUT
        BY <1>1, <2>2, <3>1, SessionAssumption DEF Passing
      <4>2. Minus(t, t) = 0
        BY <2>1 DEF Minus
      <4>3. (g_have_frame' <=> (what = "frame" \/ g_have_frame))
            /\ (image' <=> (what = "frame" \/ image))
        BY <1>1, <2>2, <3>1, <4>1 DEF Passing
      <4> QED
        BY <4>1, <4>2, <4>3 DEF HeldWhileAlive, ClockRight
    <3>2. CASE what = "nothing"
      <4>1. since' = IF since + dt < IDLE_TIMEOUT THEN since + dt ELSE IDLE_TIMEOUT
        BY <1>1, <3>2 DEF Passing
      <4>2. since + dt \in Nat
        BY DEF TypeOK
      <4>3. g_have_frame => (Silent(t) <=> ~(since' < IDLE_TIMEOUT))
        BY <2>3, <4>1, <4>2, SessionAssumption DEF Silent
      <4>4. (g_have_frame' <=> (g_have_frame /\ ~Silent(t)))
            /\ (image' <=> (image /\ since' < IDLE_TIMEOUT))
        BY <1>1, <2>2, <3>2 DEF Passing
      <4>5. HeldWhileAlive'
        BY <4>3, <4>4 DEF HeldWhileAlive
      <4>6. ASSUME g_have_frame' PROVE since' < IDLE_TIMEOUT /\ Minus(now', last_activity') = since'
        <5>1. g_have_frame /\ since' < IDLE_TIMEOUT
          BY <4>3, <4>4, <4>6
        <5>2. since' = since + dt
          BY <4>1, <5>1
        <5>3. now' = t /\ last_activity' = last_activity
          BY <2>2, <3>2
        <5> QED
          BY <2>3, <5>1, <5>2, <5>3
      <4> QED
        BY <4>5, <4>6 DEF ClockRight, Minus
    <3> QED
      BY <3>1, <3>2
  <2>6. PressRight'
    BY <2>2 DEF PressRight, dial
  <2> QED
    BY <2>4, <2>5, <2>6
<1>2. CASE Show
  <2>1. UNCHANGED <<now, last_activity, g_have_frame, since, image>>
    BY <1>2 DEF Show, clock
  <2>2. /\ g_baud_idx' \in 0 .. Len(BAUD_OPTIONS) - 1
        /\ g_cur_baud' \in Nat
        /\ fresh' \subseteq Buttons /\ prev' \subseteq Buttons
        /\ down' \ prev' \subseteq fresh'
    <3>1. CASE g_have_frame
      BY <1>2, <3>1 DEF Show, dial, TypeOK, PressRight
    <3>2. CASE ~g_have_frame
      <4>1. Cycle /\ prev' = down /\ down' = down
        BY <1>2, <3>2 DEF Show
      <4>2. CASE Pressed(prev) = {}
        BY <4>1, <4>2 DEF Cycle, TypeOK
      <4>3. CASE Pressed(prev) # {}
        <5>1. (g_baud_idx + 1) % Len(BAUD_OPTIONS) \in 0 .. Len(BAUD_OPTIONS) - 1
          <6>1. g_baud_idx + 1 \in Nat
            BY BaudAssumption DEF TypeOK
          <6> QED
            BY <6>1, CycleIndex
        <5> DEFINE i == (g_baud_idx + 1) % Len(BAUD_OPTIONS)
        <5>2. /\ g_baud_idx' = i /\ g_cur_baud' = BAUD_OPTIONS[i + 1] /\ fresh' = {}
          BY <4>1, <4>3 DEF Cycle
        <5> HIDE DEF i
        <5>3. i \in 0 .. Len(BAUD_OPTIONS) - 1
          BY <5>1 DEF i
        <5>4. BAUD_OPTIONS[i + 1] \in Nat
          BY <5>3, BaudAssumption
        <5> QED
          BY <4>1, <5>2, <5>3, <5>4 DEF TypeOK
      <4> QED
        BY <4>2, <4>3
    <3> QED
      BY <3>1, <3>2
  <2>3. /\ pc' = "wait" /\ reply' \in {"sync", "record"}
        /\ UNCHANGED <<g_peer_v2, down, peer>>
    BY <1>2 DEF Show
  <2> QED
    BY <2>1, <2>2, <2>3 DEF TypeOK, HeldWhileAlive, ClockRight, PressRight, Minus
<1>3. CASE Hello
  BY <1>3 DEF Hello, clock, dial, TypeOK, HeldWhileAlive, ClockRight, PressRight, Minus
<1>4. CASE Plug
  BY <1>4 DEF Plug, clock, dial, TypeOK, HeldWhileAlive, ClockRight, PressRight, Minus
<1>5. ASSUME NEW b \in Buttons, Press(b) PROVE IInv'
  BY <1>5 DEF Press, clock, dial, TypeOK, HeldWhileAlive, ClockRight, PressRight, Minus
<1>6. ASSUME NEW b \in Buttons, Release(b) PROVE IInv'
  BY <1>6 DEF Release, clock, dial, TypeOK, HeldWhileAlive, ClockRight, PressRight, Minus
<1>7. CASE UNCHANGED vars
  BY <1>7 DEF vars, clock, dial, TypeOK, HeldWhileAlive, ClockRight, PressRight, Minus
<1> QED
  BY <1>1, <1>2, <1>3, <1>4, <1>5, <1>6, <1>7 DEF Next, Receive

LEMMA Inductive == Spec => []IInv
  BY InitInv, StepInv, PTL DEF Spec

\* The types, the cycler's index within its table among them.
THEOREM SessionTypes == Spec => []TypeOK
<1>1. IInv => TypeOK
  BY DEF IInv
<1> QED
  BY Inductive, <1>1, PTL

\* vekterm_baremetal.c:423-430: the timeout is exact for every width of the
\* counter that the timeout and one pass fit into.
THEOREM HeldExactlyWhileAlive == Spec => []HeldWhileAlive
<1>1. IInv => HeldWhileAlive
  BY DEF IInv
<1> QED
  BY Inductive, <1>1, PTL

\* vekterm_baremetal.c:310-320: one press steps the rate once.
THEOREM OneStepPerPress == Spec => OnePressOneStep
<1>1. IInv /\ [Next]_vars => [g_baud_idx' # g_baud_idx => fresh # {}]_vars
  <2> SUFFICES ASSUME IInv, Next, g_baud_idx' # g_baud_idx PROVE fresh # {}
    BY DEF vars, dial
  <2>1. CASE Show
    <3>1. Cycle
      BY <2>1 DEF Show, dial
    <3>2. Pressed(prev) # {}
      BY <3>1 DEF Cycle
    <3> QED
      BY <3>2 DEF Pressed, IInv, PressRight
  <2>2. ASSUME ~Show PROVE FALSE
    BY <2>2 DEF Next, Receive, Wait, Hello, Plug, Press, Release, dial
  <2> QED
    BY <2>1, <2>2
<1> QED
  BY Inductive, <1>1, PTL DEF Spec, OnePressOneStep

-----------------------------------------------------------------------------
(* The splash's lines.  What append_u32 divides a number into: c[j] is     *)
(* what is left after j digits, and digit j is what the division drops.    *)
Quotients(n, k, c) ==
    /\ k \in 0 .. TMP /\ c \in [0 .. k -> Nat] /\ c[0] = n
    /\ \A j \in 1 .. k : c[j - 1] - 10 * c[j] \in 0 .. 9
    /\ k = 0 => c[0] > 0
    /\ k > 1 => c[k - 1] > 0

Place(c, j) == ZERO + (c[j - 1] - 10 * c[j])

\* Dividing: the digits so far, lowest first.
Dividing(k, c) ==
    /\ v = c[k] /\ Len(tmp) = k /\ line = <<>> /\ text = BaudText
    /\ \A j \in 1 .. k : tmp[j] = Place(c, j)

\* Copying them: those in the line are the highest, highest first.
Copying(k, c) ==
    /\ v = 0 /\ k > 0 /\ c[k] = 0 /\ Len(line) + Len(tmp) = k /\ text = BaudText
    /\ \A j \in 1 .. Len(tmp) : tmp[j] = Place(c, j)
    /\ \A i \in 1 .. Len(line) : line[i] = Place(c, k + 1 - i)

\* The unit after all of them.
Unit(k, c) ==
    /\ v = 0 /\ k > 0 /\ c[k] = 0 /\ tmp = <<>>
    /\ k <= Len(line) /\ Len(line) + Len(text) = k + Len(BaudText)
    /\ \A i \in 1 .. k : line[i] = Place(c, k + 1 - i)
    /\ \A i \in 1 .. Len(line) - k : line[k + i] = BaudText[i]
    /\ \A i \in 1 .. Len(text) : text[i] = BaudText[Len(line) - k + i]

RateInv ==
    \E n \in Bauds : \E k \in 0 .. TMP : \E c \in [0 .. k -> Nat] :
        /\ meant = [number |-> TRUE, value |-> n]
        /\ Quotients(n, k, c)
        /\ Dividing(k, c) \/ Copying(k, c) \/ Unit(k, c)

BuildInv ==
    \E t \in Seq(Nat) :
        /\ meant = [number |-> FALSE, text |-> t]
        /\ v = 0 /\ tmp = <<>> /\ Len(line) < CAP
        /\ Len(line) + Len(text) = Len(t)
        /\ \A i \in 1 .. Len(line) : line[i] = t[i]
        /\ \A i \in 1 .. Len(text) : text[i] = t[Len(line) + i]

TextType == line \in Seq(Nat) /\ text \in Seq(Nat) /\ v \in Nat /\ tmp \in Seq(Nat)

TextInv == TextType /\ (BuildInv \/ RateInv)

-----------------------------------------------------------------------------
Less == {ss \in Nat \X Nat : ss[1] < ss[2]}

\* Induction over the natural numbers, with a set for the predicate.
LEMMA Induction ==
    ASSUME NEW S, 0 \in S, \A n \in Nat : n \in S => n + 1 \in S
    PROVE  Nat \subseteq S
<1> DEFINE T == Nat \ S
<1> SUFFICES ASSUME T # {} PROVE FALSE
  OBVIOUS
<1>1. \E x \in T : \A y \in T : ~(<<y, x>> \in Less)
  <2>1. T \subseteq Nat
    OBVIOUS
  <2>2. IsWellFoundedOn(Less, Nat)
    BY NatLessThanWellFounded DEF OpToRel, Less
  <2> HIDE DEF T
  <2> QED
    BY <2>1, <2>2, WFMin
<1>2. PICK x \in T : \A y \in T : ~(<<y, x>> \in Less)
  BY <1>1
<1>3. x \in Nat /\ x # 0 /\ x - 1 \in Nat
  OBVIOUS
<1>4. x - 1 \in T /\ <<x - 1, x>> \in Less
  BY <1>3 DEF Less
<1> QED
  BY <1>2, <1>4

\* A function that follows Sum10's recursion ends at Sum10.
LEMMA Sum10Follows ==
    ASSUME NEW d \in Seq(Int), NEW f \in [0 .. Len(d) -> Int], f[0] = 0,
           \A i \in 1 .. Len(d) : f[i] = 10 * f[i - 1] + d[i]
    PROVE  Sum10(d) = f[Len(d)]
<1> DEFINE Follows(g) ==
             g = [i \in 0 .. Len(d) |-> IF i = 0 THEN 0 ELSE 10 * g[i - 1] + d[i]]
           value == CHOOSE g : Follows(g)
<1>1. Len(d) \in Nat
  BY LenProperties
<1>2. Follows(f)
  <2>1. ASSUME NEW i \in 0 .. Len(d)
        PROVE  f[i] = IF i = 0 THEN 0 ELSE 10 * f[i - 1] + d[i]
    <3>1. CASE i = 0
      BY <3>1
    <3>2. CASE i # 0
      <4>1. i \in 1 .. Len(d)
        BY <1>1, <3>2
      <4> QED
        BY <3>2, <4>1
    <3> QED
      BY <3>1, <3>2
  <2> QED
    BY <2>1
<1>3. Follows(value)
  <2> HIDE DEF Follows
  <2> QED
    BY <1>2
<1>4. Sum10(d) = value[Len(d)]
  BY DEF Sum10
<1> HIDE DEF value
<1> DEFINE S == {i \in Nat : i <= Len(d) => value[i] = f[i]}
<1>5. 0 \in S
  <2>1. 0 \in 0 .. Len(d)
    BY <1>1
  <2> QED
    BY <1>3, <2>1
<1>6. ASSUME NEW i \in Nat, i \in S PROVE i + 1 \in S
  <2> SUFFICES ASSUME i + 1 <= Len(d) PROVE value[i + 1] = f[i + 1]
    OBVIOUS
  <2>1. i + 1 \in 0 .. Len(d) /\ i + 1 \in 1 .. Len(d) /\ i + 1 # 0 /\ (i + 1) - 1 = i
    BY <1>1
  <2>2. value[i] = f[i]
    BY <1>1, <1>6
  <2>3. value[i + 1] = 10 * value[i] + d[i + 1]
    BY <1>3, <2>1
  <2>4. f[i + 1] = 10 * f[i] + d[i + 1]
    BY <2>1
  <2> QED
    BY <2>2, <2>3, <2>4
<1>7. Nat \subseteq S
  <2> HIDE DEF S
  <2> QED
    BY <1>5, <1>6, Induction
<1> QED
  BY <1>1, <1>4, <1>7

-----------------------------------------------------------------------------
\* Nine in every place: what n digits can say at most.
LEMMA NinesExist ==
    \A n \in Nat : \E f \in [0 .. n -> Nat] : f[0] = 0 /\ \A i \in 1 .. n : f[i] = 10 * f[i - 1] + 9
<1> DEFINE Nines(n, f) == f[0] = 0 /\ \A i \in 1 .. n : f[i] = 10 * f[i - 1] + 9
           S == {n \in Nat : \E f \in [0 .. n -> Nat] : Nines(n, f)}
<1>1. 0 \in S
  <2> DEFINE f == [i \in 0 .. 0 |-> 0]
  <2>1. f \in [0 .. 0 -> Nat] /\ f[0] = 0
    OBVIOUS
  <2> HIDE DEF f
  <2> QED
    BY <2>1
<1>2. ASSUME NEW n \in Nat, n \in S PROVE n + 1 \in S
  <2>1. PICK f \in [0 .. n -> Nat] : Nines(n, f)
    BY <1>2
  <2> DEFINE g == [i \in 0 .. n + 1 |-> IF i = n + 1 THEN 10 * f[n] + 9 ELSE f[i]]
  <2>2. g \in [0 .. n + 1 -> Nat] /\ g[n + 1] = 10 * f[n] + 9 /\ \A i \in 0 .. n : g[i] = f[i]
    OBVIOUS
  <2> HIDE DEF g
  <2>3. g[0] = 0
    BY <2>1, <2>2
  <2>4. ASSUME NEW i \in 1 .. n + 1 PROVE g[i] = 10 * g[i - 1] + 9
    <3>1. CASE i = n + 1
      BY <2>2, <3>1
    <3>2. CASE i # n + 1
      <4>1. i \in 1 .. n /\ i \in 0 .. n /\ i - 1 \in 0 .. n
        BY <3>2
      <4> QED
        BY <2>1, <2>2, <4>1
    <3> QED
      BY <3>1, <3>2
  <2>5. Nines(n + 1, g)
    BY <2>3, <2>4
  <2>6. g \in [0 .. n + 1 -> Nat]
    BY <2>2
  <2> HIDE DEF Nines
  <2> QED
    BY <2>5, <2>6
<1>3. Nat \subseteq S
  <2> HIDE DEF S
  <2> QED
    BY <1>1, <1>2, Induction
<1> QED
  BY <1>3

LEMMA OneDigitMore ==
    ASSUME NEW a \in Nat, NEW b \in Nat, NEW p \in Nat, NEW q \in Nat,
           a - 10 * b \in 0 .. 9, b > p, q = 10 * p + 9
    PROVE  a > q
  OBVIOUS

\* A number that TMP digits can say has been divided away after TMP digits.
LEMMA DividedAway ==
    ASSUME NEW n \in Bauds, NEW c \in [0 .. TMP -> Nat], Quotients(n, TMP, c)
    PROVE  c[TMP] = 0
<1> DEFINE nines == [i \in 1 .. TMP |-> 9]
<1>1. TMP \in Nat /\ TMP > 0
  BY TextAssumption
<1>2. nines \in Seq(Int) /\ Len(nines) = TMP /\ \A i \in 1 .. TMP : nines[i] = 9
  BY <1>1
<1>3. n \in 0 .. Sum10(nines)
  BY TextAssumption
<1> HIDE DEF nines
<1>4. PICK f \in [0 .. TMP -> Nat] : f[0] = 0 /\ \A i \in 1 .. TMP : f[i] = 10 * f[i - 1] + 9
  BY <1>1, NinesExist
<1>5. Sum10(nines) = f[TMP]
  <2>1. f \in [0 .. Len(nines) -> Int] /\ \A i \in 1 .. Len(nines) : f[i] = 10 * f[i - 1] + nines[i]
    BY <1>2, <1>4
  <2>2. Sum10(nines) = f[Len(nines)]
    BY <1>2, <1>4, <2>1, Sum10Follows
  <2> QED
    BY <1>2, <2>2
<1> SUFFICES ASSUME c[TMP] > 0 PROVE FALSE
  BY <1>1
<1> DEFINE S == {i \in Nat : i <= TMP => c[TMP - i] > f[i]}
<1>6. 0 \in S
  BY <1>1, <1>4
<1>7. ASSUME NEW i \in Nat, i \in S PROVE i + 1 \in S
  <2> SUFFICES ASSUME i + 1 <= TMP PROVE c[TMP - (i + 1)] > f[i + 1]
    OBVIOUS
  <2> DEFINE j == TMP - i
  <2>1. /\ j \in 1 .. TMP /\ TMP - (i + 1) = j - 1 /\ j - 1 \in 0 .. TMP /\ j \in 0 .. TMP
        /\ i + 1 \in 1 .. TMP /\ (i + 1) - 1 = i /\ i \in 0 .. TMP /\ i + 1 \in 0 .. TMP
    BY <1>1
  <2>2. c[j] > f[i]
    BY <1>1, <1>7
  <2> HIDE DEF j
  <2>3. c[j - 1] - 10 * c[j] \in 0 .. 9
    BY <2>1 DEF Quotients
  <2>4. f[i + 1] = 10 * f[i] + 9
    BY <1>4, <2>1
  <2>5. c[j] \in Nat /\ c[j - 1] \in Nat /\ f[i] \in Nat /\ f[i + 1] \in Nat
    BY <2>1
  <2>6. c[j - 1] > f[i + 1]
    BY <2>2, <2>3, <2>4, <2>5, OneDigitMore
  <2> QED
    BY <2>1, <2>6
<1>8. Nat \subseteq S
  <2> HIDE DEF S
  <2> QED
    BY <1>6, <1>7, Induction
<1>9. c[0] > f[TMP]
  BY <1>1, <1>8
<1>10. c[0] = n /\ f[TMP] \in Nat
  BY <1>1 DEF Quotients
<1> QED
  BY <1>3, <1>5, <1>9, <1>10

-----------------------------------------------------------------------------
LEMMA BaudTextType ==
    /\ BaudText \in Seq(Nat) /\ Len(BaudText) \in Nat /\ CAP \in Nat
    /\ TMP \in Nat /\ TMP > 0 /\ TMP + Len(BaudText) < CAP /\ ZERO \in Nat
  BY TextAssumption, LenProperties

LEMMA BaudsAreNat == Bauds \subseteq Nat
<1> SUFFICES ASSUME NEW n \in Bauds PROVE n \in Nat
  OBVIOUS
<1>1. n \in 0 .. Sum10([i \in 1 .. TMP |-> 9])
  BY TextAssumption
<1> HIDE DEF Sum10
<1> QED
  BY <1>1

\* Between two lines there is nothing in the buffer and nothing to copy.
LEMMA NothingWritten ==
    ASSUME TextInv, meant = Nothing
    PROVE  line = <<>> /\ v = 0 /\ tmp = <<>>
<1>1. ~meant.number
  BY DEF Nothing
<1>2. BuildInv
  BY <1>1 DEF TextInv, RateInv
<1>3. PICK u \in Seq(Nat) :
        /\ meant = [number |-> FALSE, text |-> u]
        /\ v = 0 /\ tmp = <<>> /\ Len(line) + Len(text) = Len(u)
  BY <1>2 DEF BuildInv
<1>4. u = <<>>
  BY <1>3 DEF Nothing
<1>5. Len(line) = 0
  BY <1>3, <1>4, LenProperties DEF TextInv, TextType
<1> QED
  BY <1>3, <1>5, EmptySeq DEF TextInv, TextType

LEMMA StartBuildInv ==
    ASSUME TextInv, StartBuild PROVE TextInv'
<1>1. PICK a \in Versions, b \in Commits :
          text' = a \o b /\ meant' = [number |-> FALSE, text |-> a \o b]
  BY DEF StartBuild
<1>2. a \in Seq(Nat) /\ b \in Seq(Nat)
  BY TextAssumption
<1> DEFINE t == a \o b
<1>3. t \in Seq(Nat) /\ Len(t) \in Nat
  BY <1>2, ConcatProperties, LenProperties
<1>4. line = <<>> /\ v = 0 /\ tmp = <<>>
  BY NothingWritten DEF StartBuild
<1>5. line' = <<>> /\ v' = 0 /\ tmp' = <<>>
  BY <1>4 DEF StartBuild
<1> HIDE DEF t
<1>6. text' = t /\ meant' = [number |-> FALSE, text |-> t]
  BY <1>1 DEF t
<1>7. Len(line') = 0 /\ Len(line') < CAP
  BY <1>5, BaudTextType
<1>8. BuildInv'
  <2>1. \A i \in 1 .. Len(text') : text'[i] = t[Len(line') + i]
    BY <1>3, <1>6, <1>7
  <2>2. Len(line') + Len(text') = Len(t) /\ \A i \in 1 .. Len(line') : line'[i] = t[i]
    BY <1>3, <1>6, <1>7
  <2> QED
    BY <1>3, <1>5, <1>6, <1>7, <2>1, <2>2 DEF BuildInv
<1>9. TextType'
  BY <1>3, <1>5, <1>6 DEF TextType
<1> QED
  BY <1>8, <1>9 DEF TextInv

LEMMA StartBaudInv ==
    ASSUME TextInv, StartBaud PROVE TextInv'
<1>1. PICK n \in Bauds :
        /\ v' = n
        /\ line' = IF n = 0 THEN <<ZERO>> ELSE <<>>
        /\ meant' = [number |-> TRUE, value |-> n]
  BY DEF StartBaud
<1>2. text' = BaudText /\ tmp' = <<>> /\ Len(tmp') = 0
  BY NothingWritten DEF StartBaud
<1>3. n \in Nat
  BY BaudsAreNat
<1>4. TextType'
  BY <1>1, <1>2, <1>3, BaudTextType DEF TextType
<1>5. CASE n = 0
  <2> DEFINE c == [j \in 0 .. 1 |-> 0]
  <2>1. 1 \in 0 .. TMP /\ c \in [0 .. 1 -> Nat] /\ c[0] = 0 /\ c[1] = 0
    BY BaudTextType
  <2> HIDE DEF c
  <2>2. \A j \in 1 .. 1 : c[j - 1] - 10 * c[j] = 0
    BY <2>1
  <2>3. Quotients(n, 1, c)
    BY <1>5, <2>1, <2>2 DEF Quotients
  <2>4. line' = <<ZERO>> /\ Len(line') = 1 /\ line'[1] = ZERO
    BY <1>1, <1>5
  <2>5. Place(c, 1) = ZERO
    BY <2>2, BaudTextType DEF Place
  <2>6. \A i \in 1 .. Len(line') : line'[i] = Place(c, 1 + 1 - i)
    BY <2>4, <2>5
  <2>7. Copying(1, c)'
    BY <1>1, <1>2, <1>5, <2>1, <2>4, <2>6 DEF Copying
  <2>8. RateInv'
    BY <1>1, <2>1, <2>3, <2>7 DEF RateInv
  <2> QED
    BY <1>4, <2>8 DEF TextInv
<1>6. CASE n # 0
  <2> DEFINE c == [j \in 0 .. 0 |-> n]
  <2>1. 0 \in 0 .. TMP /\ c \in [0 .. 0 -> Nat] /\ c[0] = n
    BY <1>3, BaudTextType
  <2> HIDE DEF c
  <2>2. Quotients(n, 0, c)
    BY <1>3, <1>6, <2>1 DEF Quotients
  <2>3. Dividing(0, c)'
    BY <1>1, <1>2, <1>6, <2>1 DEF Dividing
  <2>4. RateInv'
    BY <1>1, <2>1, <2>2, <2>3 DEF RateInv
  <2> QED
    BY <1>4, <2>4 DEF TextInv
<1> QED
  BY <1>5, <1>6

\* While a rate is worked on, what it is divided into and how far it is.
LEMMA RatePhases ==
    ASSUME TextInv, v > 0 \/ tmp # <<>>
    PROVE  \E n \in Bauds : \E k \in 0 .. TMP : \E c \in [0 .. k -> Nat] :
             /\ meant = [number |-> TRUE, value |-> n]
             /\ Quotients(n, k, c)
             /\ Dividing(k, c) \/ Copying(k, c)
  BY DEF TextInv, BuildInv, RateInv, Unit

LEMMA DigitInv ==
    ASSUME TextInv, Digit PROVE TextInv'
<1>1. v \in Nat /\ v > 0 /\ tmp \in Seq(Nat) /\ Len(tmp) \in Nat /\ Len(tmp) < TMP
  BY LenProperties DEF Digit, digits_left, TextInv, TextType
<1>2a. PICK n \in Bauds, k \in 0 .. TMP :
         \E c \in [0 .. k -> Nat] :
             /\ meant = [number |-> TRUE, value |-> n]
             /\ Quotients(n, k, c)
             /\ Dividing(k, c) \/ Copying(k, c)
  BY <1>1, RatePhases
<1>2. PICK c \in [0 .. k -> Nat] :
             /\ meant = [number |-> TRUE, value |-> n]
             /\ Quotients(n, k, c)
             /\ Dividing(k, c) \/ Copying(k, c)
  BY <1>2a
<1>3. Dividing(k, c)
  BY <1>1, <1>2 DEF Copying
<1>4. v = c[k] /\ Len(tmp) = k /\ k < TMP /\ k \in Nat
  BY <1>1, <1>3 DEF Dividing
<1>5. PICK d \in 0 .. 9, q \in Nat : d = v % 10 /\ q = v \div 10 /\ v - 10 * q = d
  <2>1. v % 10 \in 0 .. 9 /\ v \div 10 \in Nat /\ v - 10 * (v \div 10) = v % 10
    BY <1>1
  <2> QED
    BY <2>1
<1>6. v' = q /\ tmp' = Append(tmp, ZERO + d) /\ line' = line /\ text' = text /\ meant' = meant
  BY <1>5 DEF Digit
<1> DEFINE g == [j \in 0 .. k + 1 |-> IF j = k + 1 THEN q ELSE c[j]]
<1>7. g \in [0 .. k + 1 -> Nat] /\ g[k + 1] = q /\ \A j \in 0 .. k : g[j] = c[j]
  BY <1>5
<1> HIDE DEF g
<1>8. k + 1 \in 0 .. TMP /\ k \in 0 .. k /\ 0 \in 0 .. k /\ k \in 0 .. k + 1
  BY <1>4, BaudTextType
<1>9. ZERO + d \in Nat
  <2>1. ZERO \in Nat
    BY BaudTextType
  <2> QED
    BY <2>1
<1>10. /\ tmp' \in Seq(Nat) /\ Len(tmp') = k + 1
       /\ \A j \in 1 .. k : tmp'[j] = tmp[j]
       /\ tmp'[k + 1] = ZERO + d
  BY <1>1, <1>4, <1>6, <1>9, AppendProperties
<1>11. g[k] - 10 * g[k + 1] = d
  BY <1>4, <1>5, <1>7, <1>8
<1>12. ASSUME NEW j \in 1 .. k PROVE g[j - 1] = c[j - 1] /\ g[j] = c[j]
  <2>1. j - 1 \in 0 .. k /\ j \in 0 .. k
    BY <1>4
  <2> QED
    BY <1>7, <2>1
<1>13. \A j \in 1 .. k + 1 : j = k + 1 \/ j \in 1 .. k
  BY <1>4
<1>14. \A j \in 1 .. k + 1 : g[j - 1] - 10 * g[j] \in 0 .. 9
  <2>1. \A j \in 1 .. k : g[j - 1] - 10 * g[j] \in 0 .. 9
    BY <1>2, <1>12 DEF Quotients
  <2>2. (k + 1) - 1 = k
    BY <1>4
  <2> QED
    BY <1>5, <1>11, <1>13, <2>1, <2>2
<1>15. Quotients(n, k + 1, g)
  <2>1. g[0] = n
    BY <1>2, <1>7, <1>8 DEF Quotients
  <2>2. g[(k + 1) - 1] > 0
    BY <1>1, <1>4, <1>7, <1>8
  <2> QED
    BY <1>4, <1>7, <1>8, <1>14, <2>1, <2>2 DEF Quotients
<1>16. \A j \in 1 .. k + 1 : tmp'[j] = Place(g, j)
  <2>1. ASSUME NEW j \in 1 .. k PROVE tmp'[j] = Place(g, j)
    BY <1>3, <1>10, <1>12 DEF Dividing, Place
  <2>2. tmp'[k + 1] = Place(g, k + 1)
    <3>1. (k + 1) - 1 = k
      BY <1>4
    <3> QED
      BY <1>10, <1>11, <3>1 DEF Place
  <2> QED
    BY <1>13, <2>1, <2>2
<1>17. Dividing(k + 1, g)'
  BY <1>3, <1>6, <1>7, <1>10, <1>16 DEF Dividing
<1>18. RateInv'
  BY <1>2, <1>6, <1>7, <1>8, <1>15, <1>17 DEF RateInv
<1>19. TextType'
  BY <1>5, <1>6, <1>10 DEF TextInv, TextType
<1> QED
  BY <1>18, <1>19 DEF TextInv

\* The last character, and what is left before it.
LEMMA FrontLast ==
    ASSUME NEW t \in Seq(Nat), t # <<>>
    PROVE  /\ Last(t) \in Nat /\ Last(t) = t[Len(t)] /\ Len(t) \in Nat /\ Len(t) > 0
           /\ Front(t) \in Seq(Nat) /\ Len(Front(t)) = Len(t) - 1
           /\ \A i \in 1 .. Len(t) - 1 : Front(t)[i] = t[i]
<1>1. Len(t) \in Nat /\ Len(t) > 0
  BY EmptySeq
<1>2. Len(t) \in 1 .. Len(t) /\ \A i \in 1 .. Len(t) - 1 : i \in 1 .. Len(t) /\ t[i] \in Nat
  BY <1>1, ElementOfSeq
<1>3. /\ Front(t) \in Seq(Nat)
      /\ Len(Front(t)) = IF 1 <= Len(t) - 1 THEN (Len(t) - 1) - 1 + 1 ELSE 0
      /\ \A i \in 1 .. (Len(t) - 1) - 1 + 1 : Front(t)[i] = t[1 + i - 1]
  <2>1. 1 \in Int /\ Len(t) - 1 \in Int
    BY <1>1
  <2>2. \A i \in 1 .. Len(t) - 1 : t[i] \in Nat
    BY <1>2
  <2> QED
    BY <2>1, <2>2, SubSeqProperties DEF Front
<1>4. Len(Front(t)) = Len(t) - 1
  <2>1. Len(Front(t)) = IF 1 <= Len(t) - 1 THEN (Len(t) - 1) - 1 + 1 ELSE 0
    BY <1>3
  <2> DEFINE m == Len(t)
             l == Len(Front(t))
  <2>2. m \in Nat /\ m > 0 /\ l = IF 1 <= m - 1 THEN (m - 1) - 1 + 1 ELSE 0
    BY <1>1, <2>1
  <2> HIDE DEF m, l
  <2>3. l = m - 1
    BY <2>2
  <2> QED
    BY <2>3 DEF m, l
<1>5. \A i \in 1 .. Len(t) - 1 : Front(t)[i] = t[i]
  <2>1. \A i \in 1 .. (Len(t) - 1) - 1 + 1 : Front(t)[i] = t[1 + i - 1]
    BY <1>3
  <2> QED
    BY <1>1, <2>1
<1> QED
  BY <1>1, <1>2, <1>3, <1>4, <1>5, ElementOfSeq DEF Last

LEMMA CopyDigitInv ==
    ASSUME TextInv, CopyDigit PROVE TextInv'
<1>1. /\ tmp \in Seq(Nat) /\ tmp # <<>> /\ line \in Seq(Nat) /\ v \in Nat
      /\ ~(v > 0 /\ Len(tmp) < TMP)
      /\ line' = Append(line, Last(tmp)) /\ tmp' = Front(tmp)
      /\ v' = 0 /\ text' = text /\ meant' = meant
  BY DEF CopyDigit, digits_left, TextInv, TextType
<1>2a. PICK n \in Bauds, k \in 0 .. TMP :
         \E c \in [0 .. k -> Nat] :
             /\ meant = [number |-> TRUE, value |-> n]
             /\ Quotients(n, k, c)
             /\ Dividing(k, c) \/ Copying(k, c)
  BY <1>1, RatePhases
<1>2. PICK c \in [0 .. k -> Nat] :
             /\ meant = [number |-> TRUE, value |-> n]
             /\ Quotients(n, k, c)
             /\ Dividing(k, c) \/ Copying(k, c)
  BY <1>2a
<1>3. TMP \in Nat
  BY BaudTextType
<1>4. Len(line) \in Nat /\ k \in Nat
  BY <1>1, <1>3, LenProperties
<1>5. /\ Last(tmp) \in Nat /\ Last(tmp) = tmp[Len(tmp)] /\ Len(tmp) \in Nat /\ Len(tmp) > 0
      /\ tmp' \in Seq(Nat) /\ Len(tmp') = Len(tmp) - 1
      /\ \A i \in 1 .. Len(tmp) - 1 : tmp'[i] = tmp[i]
  BY <1>1, FrontLast
<1>6. /\ line' \in Seq(Nat) /\ Len(line') = Len(line) + 1
      /\ \A i \in 1 .. Len(line) : line'[i] = line[i]
      /\ line'[Len(line) + 1] = Last(tmp)
  BY <1>1, <1>5, AppendProperties
\* The division has ended, be it that all the digits there is room for are out.
<1>7. Copying(k, c)
  <2> SUFFICES ASSUME Dividing(k, c) PROVE Copying(k, c)
    BY <1>2
  <2>1. Len(tmp) = k /\ v = c[k] /\ line = <<>> /\ k > 0
    BY <1>5 DEF Dividing
  <2>2. c[k] = 0
    <3>1. CASE k = TMP
      BY <1>2, <3>1, DividedAway
    <3>2. CASE k # TMP
      <4>1. k < TMP
        BY <1>3, <3>2
      <4> QED
        BY <1>1, <2>1, <4>1
    <3> QED
      BY <3>1, <3>2
  <2>3. Len(line) = 0
    BY <2>1
  <2> QED
    BY <1>4, <2>1, <2>2, <2>3 DEF Dividing, Copying
<1>8. Len(line) + Len(tmp) = k
  BY <1>7 DEF Copying
<1>9. \A j \in 1 .. Len(tmp') : tmp'[j] = Place(c, j)
  <2>1. \A j \in 1 .. Len(tmp) : tmp[j] = Place(c, j)
    BY <1>7 DEF Copying
  <2>2. \A j \in 1 .. Len(tmp') : j \in 1 .. Len(tmp) - 1 /\ j \in 1 .. Len(tmp)
    BY <1>5
  <2> QED
    BY <1>5, <2>1, <2>2
<1>10. \A i \in 1 .. Len(line') : line'[i] = Place(c, k + 1 - i)
  <2>1. \A i \in 1 .. Len(line) : line[i] = Place(c, k + 1 - i)
    BY <1>7 DEF Copying
  <2>2. tmp[Len(tmp)] = Place(c, Len(tmp))
    BY <1>5, <1>7 DEF Copying
  <2>3. k + 1 - (Len(line) + 1) = Len(tmp)
    BY <1>4, <1>5, <1>8
  <2>4. \A i \in 1 .. Len(line') : i = Len(line) + 1 \/ i \in 1 .. Len(line)
    BY <1>4, <1>6
  <2> QED
    BY <1>5, <1>6, <2>1, <2>2, <2>3, <2>4
<1>11. Len(line') + Len(tmp') = k
  <2>1. Len(line') = Len(line) + 1 /\ Len(tmp') = Len(tmp) - 1 /\ Len(tmp) \in Nat
    BY <1>5, <1>6
  <2> DEFINE l == Len(line')
             m == Len(tmp')
  <2>2. l = Len(line) + 1 /\ m = Len(tmp) - 1
    BY <2>1
  <2> HIDE DEF l, m
  <2>3. l + m = Len(line) + Len(tmp)
    BY <1>4, <2>1, <2>2
  <2> QED
    BY <1>8, <2>3 DEF l, m
<1>12. Copying(k, c)'
  BY <1>1, <1>7, <1>9, <1>10, <1>11 DEF Copying
<1>13. RateInv'
  BY <1>1, <1>2, <1>12 DEF RateInv
<1>14. TextType'
  BY <1>1, <1>5, <1>6 DEF TextInv, TextType
<1> QED
  BY <1>13, <1>14 DEF TextInv

\* When the digits are copied, they are all of the number's.
LEMMA AllDigits ==
    ASSUME TextInv, RateInv, v = 0, tmp = <<>>
    PROVE  \E n \in Bauds : \E k \in 0 .. TMP : \E c \in [0 .. k -> Nat] :
             /\ meant = [number |-> TRUE, value |-> n]
             /\ Quotients(n, k, c) /\ Unit(k, c)
<1>1a. PICK n \in Bauds, k \in 0 .. TMP :
         \E c \in [0 .. k -> Nat] :
             /\ meant = [number |-> TRUE, value |-> n]
             /\ Quotients(n, k, c)
             /\ Dividing(k, c) \/ Copying(k, c) \/ Unit(k, c)
  BY DEF RateInv
<1>1. PICK c \in [0 .. k -> Nat] :
             /\ meant = [number |-> TRUE, value |-> n]
             /\ Quotients(n, k, c)
             /\ Dividing(k, c) \/ Copying(k, c) \/ Unit(k, c)
  BY <1>1a
<1>2. Len(tmp) = 0 /\ k \in Nat /\ Len(line) \in Nat
  BY BaudTextType, LenProperties DEF TextInv, TextType
<1>3. ~Dividing(k, c)
  <2> SUFFICES ASSUME Dividing(k, c) PROVE FALSE
    OBVIOUS
  <2>1. k = 0 /\ c[k] = 0
    BY <1>2 DEF Dividing
  <2> QED
    BY <1>1, <2>1 DEF Quotients
<1>4. ASSUME Copying(k, c) PROVE Unit(k, c)
  <2>1. Len(line) = k /\ text = BaudText /\ Len(line) - k = 0 /\ k <= Len(line)
    BY <1>2, <1>4 DEF Copying
  <2>2. \A i \in 1 .. k : line[i] = Place(c, k + 1 - i)
    BY <1>4, <2>1 DEF Copying
  <2>3. \A i \in 1 .. Len(text) : i = Len(line) - k + i
    BY <2>1, BaudTextType
  <2>4. Len(line) + Len(text) = k + Len(BaudText)
    BY <2>1
  <2>5. v = 0 /\ k > 0 /\ c[k] = 0
    BY <1>4 DEF Copying
  <2>6. 1 .. Len(line) - k = {}
    BY <2>1
  <2>7. \A i \in 1 .. Len(text) : text[i] = BaudText[Len(line) - k + i]
    BY <2>1, <2>3
  <2> QED
    BY <2>1, <2>2, <2>4, <2>5, <2>6, <2>7 DEF Unit
<1> QED
  BY <1>1, <1>3, <1>4

LEMMA CopyCharInv ==
    ASSUME TextInv, CopyChar PROVE TextInv'
<1>1. /\ text \in Seq(Nat) /\ text # <<>> /\ line \in Seq(Nat) /\ v = 0 /\ tmp = <<>>
      /\ Len(line) < CAP - 1
      /\ line' = Append(line, Head(text)) /\ text' = Tail(text)
      /\ v' = v /\ tmp' = tmp /\ meant' = meant
  BY DEF CopyChar, digits_left, room, TextInv, TextType
<1>2. Len(line) \in Nat /\ Len(text) \in Nat /\ Len(text) > 0
  BY <1>1, LenProperties, EmptySeq
<1>3. /\ Head(text) \in Nat /\ Head(text) = text[1]
      /\ text' \in Seq(Nat) /\ Len(text') = Len(text) - 1
      /\ \A i \in 1 .. Len(text') : text'[i] = text[i + 1]
  <2>1. Head(text) = text[1]
    BY <1>1
  <2> QED
    BY <1>1, <2>1, HeadTailProperties
<1>4. /\ line' \in Seq(Nat) /\ Len(line') = Len(line) + 1
      /\ \A i \in 1 .. Len(line) : line'[i] = line[i]
      /\ line'[Len(line) + 1] = text[1]
  BY <1>1, <1>3, AppendProperties
<1>5. /\ \A i \in 1 .. Len(line') : i = Len(line) + 1 \/ i \in 1 .. Len(line)
      /\ \A i \in 1 .. Len(text') : i + 1 \in 1 .. Len(text) /\ Len(line') + i = Len(line) + (i + 1)
      /\ 1 \in 1 .. Len(text) /\ Len(line') + Len(text') = Len(line) + Len(text)
  <2>1. Len(line') = Len(line) + 1 /\ Len(text') = Len(text) - 1
    BY <1>3, <1>4
  <2> DEFINE a == Len(line)
             b == Len(text)
             p == Len(line')
             q == Len(text')
  <2>2. a \in Nat /\ b \in Nat /\ b > 0 /\ p = a + 1 /\ q = b - 1
    BY <1>2, <2>1
  <2> HIDE DEF a, b, p, q
  <2>3. /\ \A i \in 1 .. p : i = a + 1 \/ i \in 1 .. a
        /\ \A i \in 1 .. q : i + 1 \in 1 .. b /\ p + i = a + (i + 1)
        /\ 1 \in 1 .. b /\ p + q = a + b
    BY <2>2
  <2> QED
    BY <2>3 DEF a, b, p, q
<1>6. TextType'
  BY <1>1, <1>3, <1>4 DEF TextInv, TextType
<1>7. CASE BuildInv
  <2>1. PICK t \in Seq(Nat) :
          /\ meant = [number |-> FALSE, text |-> t]
          /\ Len(line) + Len(text) = Len(t)
          /\ \A i \in 1 .. Len(line) : line[i] = t[i]
          /\ \A i \in 1 .. Len(text) : text[i] = t[Len(line) + i]
    BY <1>7 DEF BuildInv
  <2>2. \A i \in 1 .. Len(line') : line'[i] = t[i]
    BY <1>4, <1>5, <2>1
  <2>3. ASSUME NEW i \in 1 .. Len(text') PROVE text'[i] = t[Len(line') + i]
    <3>1. text'[i] = text[i + 1] /\ i + 1 \in 1 .. Len(text)
      BY <1>3, <1>5
    <3>2. text[i + 1] = t[Len(line) + (i + 1)]
      BY <2>1, <3>1
    <3>3. Len(line') + i = Len(line) + (i + 1)
      BY <1>5
    <3> QED
      BY <3>1, <3>2, <3>3
  <2>4. Len(line') < CAP
    BY <1>1, <1>2, <1>4, BaudTextType
  <2>5. Len(line') + Len(text') = Len(t)
    BY <1>5, <2>1
  <2>6. v' = 0 /\ tmp' = <<>> /\ meant' = [number |-> FALSE, text |-> t]
    BY <1>1, <2>1
  <2>7. BuildInv'
    BY <2>2, <2>3, <2>4, <2>5, <2>6 DEF BuildInv
  <2> QED
    BY <1>6, <2>7 DEF TextInv
<1>8. CASE RateInv
  <2>1a. PICK n \in Bauds, k \in 0 .. TMP :
           \E c \in [0 .. k -> Nat] :
             /\ meant = [number |-> TRUE, value |-> n]
             /\ Quotients(n, k, c) /\ Unit(k, c)
    BY <1>1, <1>8, AllDigits
  <2>1. PICK c \in [0 .. k -> Nat] :
             /\ meant = [number |-> TRUE, value |-> n]
             /\ Quotients(n, k, c) /\ Unit(k, c)
    BY <2>1a
  <2>2. /\ k > 0 /\ c[k] = 0 /\ k <= Len(line)
        /\ Len(line) + Len(text) = k + Len(BaudText)
        /\ \A i \in 1 .. k : line[i] = Place(c, k + 1 - i)
        /\ \A i \in 1 .. Len(line) - k : line[k + i] = BaudText[i]
        /\ \A i \in 1 .. Len(text) : text[i] = BaudText[Len(line) - k + i]
    BY <2>1 DEF Unit
  <2>3. k \in Nat
    BY BaudTextType
  <2>4. /\ k <= Len(line') /\ \A i \in 1 .. k : i \in 1 .. Len(line)
        /\ \A i \in 1 .. Len(line') - k :
              \/ i \in 1 .. Len(line) - k /\ k + i \in 1 .. Len(line)
              \/ i = Len(line) - k + 1 /\ k + i = Len(line) + 1
        /\ \A i \in 1 .. Len(text') :
              i + 1 \in 1 .. Len(text) /\ Len(line') - k + i = Len(line) - k + (i + 1)
    <3>1. Len(line') = Len(line) + 1 /\ Len(text') = Len(text) - 1
      BY <1>3, <1>4
    <3> DEFINE a == Len(line)
               b == Len(text)
               p == Len(line')
               q == Len(text')
    <3>2. a \in Nat /\ b \in Nat /\ b > 0 /\ p = a + 1 /\ q = b - 1 /\ k <= a
      BY <1>2, <2>2, <3>1
    <3> HIDE DEF a, b, p, q
    <3>3. k <= p /\ \A i \in 1 .. k : i \in 1 .. a
      BY <2>3, <3>2
    <3>4. ASSUME NEW i \in 1 .. p - k
          PROVE  \/ i \in 1 .. a - k /\ k + i \in 1 .. a
                 \/ i = a - k + 1 /\ k + i = a + 1
      BY <2>3, <3>2
    <3>5. ASSUME NEW i \in 1 .. q PROVE i + 1 \in 1 .. b /\ p - k + i = a - k + (i + 1)
      BY <2>3, <3>2
    <3> QED
      BY <3>3, <3>4, <3>5 DEF a, b, p, q
  <2>5. \A i \in 1 .. k : line'[i] = Place(c, k + 1 - i)
    BY <1>4, <2>2, <2>4
  <2>6. \A i \in 1 .. Len(line') - k : line'[k + i] = BaudText[i]
    <3>1. line'[Len(line) + 1] = BaudText[Len(line) - k + 1]
      BY <1>4, <1>5, <2>2
    <3>2. ASSUME NEW i \in 1 .. Len(line') - k PROVE line'[k + i] = BaudText[i]
      <4>1. CASE i \in 1 .. Len(line) - k /\ k + i \in 1 .. Len(line)
        BY <1>4, <2>2, <4>1
      <4>2. CASE i = Len(line) - k + 1 /\ k + i = Len(line) + 1
        BY <3>1, <4>2
      <4> QED
        BY <2>4, <4>1, <4>2
    <3> QED
      BY <3>2
  <2>7. ASSUME NEW i \in 1 .. Len(text') PROVE text'[i] = BaudText[Len(line') - k + i]
    <3>1. text'[i] = text[i + 1]
      BY <1>3
    <3>2. text[i + 1] = BaudText[Len(line) - k + (i + 1)]
      BY <2>2, <2>4
    <3> QED
      BY <2>4, <3>1, <3>2
  <2>8. Len(line') + Len(text') = k + Len(BaudText) /\ v' = 0 /\ tmp' = <<>>
    BY <1>1, <1>5, <2>2
  <2>9. Unit(k, c)'
    BY <2>2, <2>4, <2>5, <2>6, <2>7, <2>8 DEF Unit
  <2>10. RateInv'
    BY <1>1, <2>1, <2>9 DEF RateInv
  <2> QED
    BY <1>6, <2>10 DEF TextInv
<1> QED
  BY <1>7, <1>8 DEF TextInv

Blank == line = <<>> /\ text = <<>> /\ v = 0 /\ tmp = <<>> /\ meant = Nothing

LEMMA BlankInv == Blank => TextInv
<1> SUFFICES ASSUME Blank PROVE TextInv
  OBVIOUS
<1>1. <<>> \in Seq(Nat) /\ Len(<<>>) = 0 /\ 1 .. 0 = {}
  BY EmptySeq
<1>2. 0 < CAP
  BY BaudTextType
<1>3. line = <<>> /\ text = <<>> /\ v = 0 /\ tmp = <<>> /\ Len(line) = 0 /\ Len(text) = 0
  BY <1>1 DEF Blank
<1>4. meant = [number |-> FALSE, text |-> <<>>]
  BY DEF Blank, Nothing
<1>5. PICK t \in Seq(Nat) : t = <<>>
  BY <1>1
<1>6. BuildInv
  <2>1. Len(line) < CAP /\ Len(line) + Len(text) = Len(t) /\ v = 0 /\ tmp = <<>>
    BY <1>1, <1>2, <1>3, <1>5
  <2>2. \A i \in 1 .. Len(line) : line[i] = t[i]
    BY <1>1, <1>3
  <2>3. \A i \in 1 .. Len(text) : text[i] = t[Len(line) + i]
    BY <1>1, <1>3
  <2> QED
    BY <1>4, <1>5, <2>1, <2>2, <2>3 DEF BuildInv
<1>7. TextType
  BY <1>1, <1>3 DEF TextType
<1> QED
  BY <1>6, <1>7 DEF TextInv

LEMMA TextStep == TextInv /\ [SplashNext]_splash_vars => TextInv'
<1> SUFFICES ASSUME TextInv, [SplashNext]_splash_vars PROVE TextInv'
  OBVIOUS
<1>1. ASSUME UNCHANGED text_vars PROVE TextInv'
  <2>1. line' = line /\ text' = text /\ v' = v /\ tmp' = tmp /\ meant' = meant
    BY <1>1 DEF text_vars
  <2>2. TextType' = TextType /\ BuildInv' = BuildInv
    BY <2>1 DEF TextType, BuildInv
  <2>3. ASSUME NEW k, NEW c
        PROVE  /\ Dividing(k, c)' = Dividing(k, c) /\ Copying(k, c)' = Copying(k, c)
               /\ Unit(k, c)' = Unit(k, c)
    BY <2>1 DEF Dividing, Copying, Unit
  <2>4. RateInv' = RateInv
    BY <2>1, <2>3 DEF RateInv
  <2> QED
    BY <2>2, <2>4 DEF TextInv
<1>2. CASE DrawFixed
  BY <1>1, <1>2 DEF DrawFixed
<1>3. CASE Compose
  BY <1>3, StartBuildInv, StartBaudInv, DigitInv, CopyDigitInv, CopyCharInv DEF Compose
<1>4. CASE DrawLine
  BY <1>1, <1>4 DEF DrawLine
<1>5. CASE Stroke
  BY <1>1, <1>5 DEF Stroke
<1>6. CASE NextLine
  <2>1. Blank'
    BY <1>6 DEF NextLine, Reset, Blank, Nothing
  <2> QED
    BY <2>1, BlankInv, PTL
<1>7. CASE UNCHANGED splash_vars
  BY <1>1, <1>7 DEF splash_vars
<1> QED
  BY <1>2, <1>3, <1>4, <1>5, <1>6, <1>7 DEF SplashNext

LEMMA TextInductive == SplashSpec => []TextInv
<1>1. SplashInit => TextInv
  BY BlankInv DEF SplashInit, TextInit, Blank
<1> QED
  BY <1>1, TextStep, PTL DEF SplashSpec

LEMMA InvFits == TextInv => Fits
<1> SUFFICES ASSUME TextInv PROVE Len(line) < CAP
  BY DEF Fits
<1>1. CASE BuildInv
  BY <1>1 DEF BuildInv
<1>2. CASE RateInv
  <2>1a. PICK k \in 0 .. TMP :
           \E c \in [0 .. k -> Nat] : Dividing(k, c) \/ Copying(k, c) \/ Unit(k, c)
    BY <1>2 DEF RateInv
  <2>1. PICK c \in [0 .. k -> Nat] : Dividing(k, c) \/ Copying(k, c) \/ Unit(k, c)
    BY <2>1a
  <2>2. /\ Len(line) \in Nat /\ Len(tmp) \in Nat /\ Len(text) \in Nat
        /\ k \in Nat /\ k <= TMP
    BY BaudTextType, LenProperties DEF TextInv, TextType
  <2>3. Len(line) <= k + Len(BaudText)
    <3>1. CASE Dividing(k, c)
      <4>1. Len(line) = 0
        BY <3>1 DEF Dividing
      <4> QED
        BY <2>2, <4>1, BaudTextType
    <3>2. CASE Copying(k, c)
      <4>1. Len(line) + Len(tmp) = k
        BY <3>2 DEF Copying
      <4> QED
        BY <2>2, <4>1, BaudTextType
    <3>3. CASE Unit(k, c)
      <4>1. Len(line) + Len(text) = k + Len(BaudText)
        BY <3>3 DEF Unit
      <4> QED
        BY <2>2, <4>1, BaudTextType
    <3> QED
      BY <2>1, <3>1, <3>2, <3>3
  <2> QED
    BY <2>2, <2>3, BaudTextType
<1> QED
  BY <1>1, <1>2 DEF TextInv

\* No line is longer than the buffer, with its NUL, of whatever length the
\* build's name is and whatever the rate.
THEOREM LinesFit == SplashSpec => []Fits
  BY TextInductive, InvFits, PTL

\* Digits that were divided off a number, highest first, are the number.
LEMMA DigitsSayIt ==
    ASSUME NEW k \in Nat, NEW c \in [0 .. k -> Nat], c[k] = 0,
           NEW d \in Seq(Int), Len(d) = k,
           \A i \in 1 .. k : d[i] = c[k - i] - 10 * c[k + 1 - i]
    PROVE  Sum10(d) = c[0]
<1> DEFINE f == [i \in 0 .. k |-> c[k - i]]
<1>1. \A i \in 0 .. k : k - i \in 0 .. k
  OBVIOUS
<1>2. f \in [0 .. k -> Int] /\ \A i \in 0 .. k : f[i] = c[k - i]
  BY <1>1
<1> HIDE DEF f
<1>3. f[0] = 0 /\ f[k] = c[0]
  <2>1. 0 \in 0 .. k /\ k \in 0 .. k /\ k - 0 = k /\ k - k = 0
    OBVIOUS
  <2> QED
    BY <1>2, <2>1
<1>4. ASSUME NEW i \in 1 .. k PROVE f[i] = 10 * f[i - 1] + d[i]
  <2>1. i \in 0 .. k /\ i - 1 \in 0 .. k /\ k - (i - 1) = k + 1 - i
        /\ k - i \in 0 .. k /\ k + 1 - i \in 0 .. k
    OBVIOUS
  <2>2. f[i] = c[k - i] /\ f[i - 1] = c[k + 1 - i]
    BY <1>2, <2>1
  <2>3. d[i] = c[k - i] - 10 * c[k + 1 - i]
    OBVIOUS
  <2>4. c[k - i] \in Nat /\ c[k + 1 - i] \in Nat
    BY <2>1
  <2> DEFINE x == c[k - i]
             y == c[k + 1 - i]
  <2>5. x \in Nat /\ y \in Nat /\ d[i] = x - 10 * y /\ f[i] = x /\ f[i - 1] = y
    BY <2>2, <2>3, <2>4
  <2> HIDE DEF x, y
  <2>6. x = 10 * y + d[i]
    BY <2>5
  <2> QED
    BY <2>5, <2>6
<1> QED
  BY <1>2, <1>3, <1>4, Sum10Follows

\* A composed rate: its digits and then its unit, with room for both.
LEMMA RateSaid ==
    ASSUME TextInv, Composed, RateInv
    PROVE  LET k == Len(line) - Len(BaudText)
           IN  /\ meant.number /\ k > 0 /\ SubSeq(line, k + 1, Len(line)) = BaudText
               /\ Sum10([i \in 1 .. k |-> line[i] - ZERO]) = meant.value
               /\ line[1] = ZERO => k = 1
<1>1. v = 0 /\ tmp = <<>> /\ line \in Seq(Nat) /\ text \in Seq(Nat)
      /\ (text = <<>> \/ ~(Len(line) < CAP - 1))
  BY DEF Composed, digits_left, room, TextInv, TextType
<1>2. Len(line) \in Nat /\ Len(text) \in Nat
  BY <1>1, LenProperties
<1>3a. PICK n \in Bauds, k \in 0 .. TMP :
         \E c \in [0 .. k -> Nat] :
             /\ meant = [number |-> TRUE, value |-> n]
             /\ Quotients(n, k, c) /\ Unit(k, c)
  BY <1>1, AllDigits
<1>3. PICK c \in [0 .. k -> Nat] :
             /\ meant = [number |-> TRUE, value |-> n]
             /\ Quotients(n, k, c) /\ Unit(k, c)
  BY <1>3a
<1>4. /\ k > 0 /\ c[k] = 0 /\ Len(line) + Len(text) = k + Len(BaudText)
      /\ \A i \in 1 .. k : line[i] = Place(c, k + 1 - i)
      /\ \A i \in 1 .. Len(line) - k : line[k + i] = BaudText[i]
  BY <1>3 DEF Unit
<1>5. k \in Nat /\ k <= TMP
  BY BaudTextType
<1>6. Len(text) = 0 /\ Len(line) = k + Len(BaudText)
  <2>1. Len(text) = 0
    <3>1. CASE text = <<>>
      BY <3>1
    <3>2. CASE ~(Len(line) < CAP - 1)
      <4>1. Len(line) + Len(text) = k + Len(BaudText)
        BY <1>4
      <4> QED
        BY <1>2, <1>5, <3>2, <4>1, BaudTextType
    <3> QED
      BY <1>1, <3>1, <3>2
  <2>2. Len(line) + Len(text) = k + Len(BaudText)
    BY <1>4
  <2> QED
    BY <1>2, <2>1, <2>2
<1>7. Len(line) - Len(BaudText) = k
  BY <1>5, <1>6, BaudTextType
<1>8. SubSeq(line, k + 1, Len(line)) = BaudText
  <2> DEFINE unit == SubSeq(line, k + 1, Len(line))
             b == Len(BaudText)
  <2>1. b \in Nat /\ Len(line) = k + b
    BY <1>6, BaudTextType
  <2>2. \A i \in k + 1 .. Len(line) : i \in 1 .. Len(line)
    BY <1>2, <1>5
  <2>3. \A i \in k + 1 .. Len(line) : line[i] \in Nat
    BY <1>1, <2>2, ElementOfSeq
  <2>4. /\ unit \in Seq(Nat)
        /\ Len(unit) = IF k + 1 <= Len(line) THEN Len(line) - (k + 1) + 1 ELSE 0
        /\ \A i \in 1 .. Len(line) - (k + 1) + 1 : unit[i] = line[k + 1 + i - 1]
    <3>1. k + 1 \in Int /\ Len(line) \in Int
      BY <1>2, <1>5
    <3> QED
      BY <2>3, <3>1, SubSeqProperties
  <2> HIDE DEF unit, b
  <2>5. Len(unit) = b
    <3>1. Len(unit) = IF k + 1 <= k + b THEN k + b - (k + 1) + 1 ELSE 0
      BY <2>1, <2>4
    <3> DEFINE l == Len(unit)
    <3>2. l = IF k + 1 <= k + b THEN k + b - (k + 1) + 1 ELSE 0
      BY <3>1
    <3> HIDE DEF l
    <3>3. l = b
      BY <1>5, <2>1, <3>2
    <3> QED
      BY <3>3 DEF l
  <2>6. ASSUME NEW i \in 1 .. b PROVE unit[i] = BaudText[i]
    <3>1. i \in 1 .. Len(line) - (k + 1) + 1 /\ i \in 1 .. Len(line) - k /\ k + 1 + i - 1 = k + i
      BY <1>2, <1>5, <2>1
    <3> QED
      BY <1>4, <2>4, <3>1
  <2>7. unit = BaudText
    BY <2>4, <2>5, <2>6, BaudTextType, SeqEqual DEF b
  <2> QED
    BY <2>7 DEF unit
<1>9. Sum10([i \in 1 .. k |-> line[i] - ZERO]) = n
  <2> DEFINE d == [i \in 1 .. k |-> line[i] - ZERO]
  <2>1. \A i \in 1 .. k : i \in 1 .. Len(line) /\ k + 1 - i \in 1 .. k /\ k - i \in 0 .. k
                         /\ k + 1 - i \in 0 .. k /\ k + 1 - i - 1 = k - i
    BY <1>5, <1>6, BaudTextType
  <2>2. \A i \in 1 .. k : c[k - i] \in Nat /\ c[k + 1 - i] \in Nat
    BY <2>1
  <2>3. ASSUME NEW i \in 1 .. k PROVE line[i] - ZERO = c[k - i] - 10 * c[k + 1 - i]
    <3>1. line[i] = ZERO + (c[k - i] - 10 * c[k + 1 - i])
      BY <1>4, <2>1 DEF Place
    <3> DEFINE x == c[k - i]
               y == c[k + 1 - i]
    <3>2. x \in Nat /\ y \in Nat /\ ZERO \in Nat /\ line[i] = ZERO + (x - 10 * y)
      BY <2>2, <3>1, BaudTextType
    <3> HIDE DEF x, y
    <3>3. line[i] - ZERO = x - 10 * y
      BY <3>2
    <3> QED
      BY <3>3 DEF x, y
  <2>4. ASSUME NEW i \in 1 .. k PROVE line[i] - ZERO \in Int
    <3>1. c[k - i] \in Nat /\ c[k + 1 - i] \in Nat
      BY <2>2
    <3>2. c[k - i] - 10 * c[k + 1 - i] \in Int
      BY <3>1
    <3> QED
      BY <2>3, <3>2
  <2>5. d \in Seq(Int) /\ Len(d) = k
    BY <1>5, <2>4
  <2>6. \A i \in 1 .. k : d[i] = c[k - i] - 10 * c[k + 1 - i]
    BY <2>3
  <2> HIDE DEF d
  <2>7. Sum10(d) = c[0]
    BY <1>4, <1>5, <2>5, <2>6, DigitsSayIt
  <2> QED
    BY <1>3, <2>7 DEF d, Quotients
<1>10. line[1] = ZERO => k = 1
  <2>1. 1 \in 1 .. k /\ k + 1 - 1 = k /\ k - 1 \in 0 .. k
    BY <1>4, <1>5
  <2>2. line[1] = ZERO + (c[k - 1] - 10 * c[k])
    BY <1>4, <2>1 DEF Place
  <2>3. k > 1 => c[k - 1] > 0
    BY <1>3 DEF Quotients
  <2>4. c[k] = 0 /\ c[k - 1] \in Nat /\ ZERO \in Nat
    BY <1>4, <2>1, BaudTextType
  <2> QED
    BY <1>4, <1>5, <2>2, <2>3, <2>4
<1> HIDE DEF Sum10
<1> QED
  BY <1>3, <1>4, <1>7, <1>8, <1>9, <1>10

\* A composed build: all of it, or as much as the buffer holds.
LEMMA BuildSaid ==
    ASSUME TextInv, Composed, BuildInv
    PROVE  /\ ~meant.number /\ IsPrefix(line, meant.text)
           /\ Len(line) = IF Len(meant.text) < CAP THEN Len(meant.text) ELSE CAP - 1
<1>1. PICK t \in Seq(Nat) :
        /\ meant = [number |-> FALSE, text |-> t]
        /\ Len(line) < CAP /\ Len(line) + Len(text) = Len(t)
        /\ \A i \in 1 .. Len(line) : line[i] = t[i]
  BY DEF BuildInv
<1>2. /\ line \in Seq(Nat) /\ Len(line) \in Nat /\ Len(text) \in Nat /\ Len(t) \in Nat
      /\ CAP \in Nat
  BY BaudTextType, LenProperties DEF TextInv, TextType
<1>3. Len(text) = 0 \/ ~(Len(line) < CAP - 1)
  BY DEF Composed, room
<1>4. Len(line) = (IF Len(t) < CAP THEN Len(t) ELSE CAP - 1) /\ Len(line) <= Len(t)
  <2> DEFINE a == Len(line)
             b == Len(text)
             l == Len(t)
  <2>1. a \in Nat /\ b \in Nat /\ l \in Nat /\ a < CAP /\ a + b = l /\ (b = 0 \/ ~(a < CAP - 1))
    BY <1>1, <1>2, <1>3
  <2> HIDE DEF a, b, l
  <2>2. a = (IF l < CAP THEN l ELSE CAP - 1) /\ a <= l
    BY <1>2, <2>1
  <2> QED
    BY <2>2 DEF a, l
<1>5. IsPrefix(line, t)
  <2>1. SubSeq(line, 1, Len(line)) = line
    BY <1>2, SubSeqFull
  <2>2. \A i \in 1 .. Len(line) : t[i] \in Nat
    <3>1. Len(line) <= Len(t)
      BY <1>4
    <3>2. \A i \in 1 .. Len(line) : i \in 1 .. Len(t)
      BY <1>2, <3>1
    <3> QED
      BY <3>2, ElementOfSeq
  <2>3. /\ SubSeq(t, 1, Len(line)) \in Seq(Nat)
        /\ Len(SubSeq(t, 1, Len(line))) = IF 1 <= Len(line) THEN Len(line) - 1 + 1 ELSE 0
        /\ \A i \in 1 .. Len(line) - 1 + 1 : SubSeq(t, 1, Len(line))[i] = t[1 + i - 1]
    <3>1. 1 \in Int /\ Len(line) \in Int
      BY <1>2
    <3> QED
      BY <2>2, <3>1, SubSeqProperties
  <2>4. Len(SubSeq(t, 1, Len(line))) = Len(line)
    BY <1>2, <2>3
  <2>5. \A i \in 1 .. Len(line) : SubSeq(t, 1, Len(line))[i] = line[i]
    BY <1>1, <1>2, <2>3
  <2>6. SubSeq(t, 1, Len(line)) = line
    BY <1>2, <2>3, <2>4, <2>5, SeqEqual
  <2> QED
    BY <1>4, <2>1, <2>6 DEF IsPrefix
<1> QED
  BY <1>1, <1>4, <1>5

LEMMA InvSays == TextInv => SaysWhatWasMeant
<1> SUFFICES ASSUME TextInv, Composed PROVE SaysWhatWasMeant
  BY DEF SaysWhatWasMeant
<1>1. CASE BuildInv
  BY <1>1, BuildSaid DEF SaysWhatWasMeant
<1>2. CASE RateInv
  <2> HIDE DEF Sum10
  <2> QED
    BY <1>2, RateSaid DEF SaysWhatWasMeant
<1> QED
  BY <1>1, <1>2 DEF TextInv

\* A line says what it was put together to say when it is drawn: the build,
\* cut only at the end of the buffer, or the rate in decimal and its unit.
THEOREM LinesSayTheText == SplashSpec => []SaysWhatWasMeant
  BY TextInductive, InvSays, PTL

-----------------------------------------------------------------------------
(* A sequence of sequences, flattened along its prefixes.                  *)
Flattened(seqs, n, f) == f = [i \in 1 .. n |-> IF i = 1 THEN seqs[i] ELSE f[i - 1] \o seqs[i]]

LEMMA FlatteningExists ==
    ASSUME NEW seqs
    PROVE  \A n \in Nat : \E f : Flattened(seqs, n, f)
<1> DEFINE S == {n \in Nat : \E f : Flattened(seqs, n, f)}
<1>1. 0 \in S
  <2> DEFINE f == [i \in 1 .. 0 |-> <<>>]
  <2>1. f = [i \in 1 .. 0 |-> IF i = 1 THEN seqs[i] ELSE f[i - 1] \o seqs[i]]
    OBVIOUS
  <2> QED
    BY <2>1 DEF Flattened
<1>2. ASSUME NEW n \in Nat, n \in S PROVE n + 1 \in S
  <2>1. PICK f : Flattened(seqs, n, f)
    BY <1>2
  <2> DEFINE g == [i \in 1 .. n + 1 |->
                     IF i = n + 1 THEN IF i = 1 THEN seqs[i] ELSE f[i - 1] \o seqs[i] ELSE f[i]]
  <2>2. \A i \in 1 .. n : f[i] = IF i = 1 THEN seqs[i] ELSE f[i - 1] \o seqs[i]
    BY <2>1 DEF Flattened
  <2>3. ASSUME NEW i \in 1 .. n + 1
        PROVE  g[i] = IF i = 1 THEN seqs[i] ELSE g[i - 1] \o seqs[i]
    <3>1. i # 1 => i - 1 \in 1 .. n + 1 /\ i - 1 # n + 1
      OBVIOUS
    <3>2. i # 1 => g[i - 1] = f[i - 1]
      BY <3>1
    <3>3. i # n + 1 => i \in 1 .. n
      OBVIOUS
    <3> QED
      BY <2>2, <3>2, <3>3
  <2>4. g = [i \in 1 .. n + 1 |-> IF i = 1 THEN seqs[i] ELSE g[i - 1] \o seqs[i]]
    BY <2>3
  <2> HIDE DEF g
  <2>5. Flattened(seqs, n + 1, g)
    BY <2>4 DEF Flattened
  <2> QED
    BY <2>5
<1>3. Nat \subseteq S
  <2> HIDE DEF S
  <2> QED
    BY <1>1, <1>2, Induction
<1> QED
  BY <1>3

LEMMA FlattenPrefixes ==
    ASSUME NEW S, NEW n \in Nat, NEW q \in [1 .. n -> Seq(S)]
    PROVE  \E f \in [0 .. n -> Seq(S)] :
              /\ f[0] = <<>>
              /\ \A i \in 1 .. n : f[i] = f[i - 1] \o q[i]
              /\ FlattenSeq(q) = f[n]
<1>1. q \in Seq(Seq(S)) /\ Len(q) = n
  OBVIOUS
<1> DEFINE g == CHOOSE g : Flattened(q, n, g)
<1>2. n # 0 => FlattenSeq(q) = g[n]
  BY <1>1 DEF FlattenSeq, Flattened
<1>3. Flattened(q, n, g)
  BY FlatteningExists
<1>4. n = 0 => FlattenSeq(q) = <<>>
  BY <1>1 DEF FlattenSeq
<1> HIDE DEF g
<1>5. \A i \in 1 .. n : g[i] = IF i = 1 THEN q[i] ELSE g[i - 1] \o q[i]
  BY <1>3 DEF Flattened
<1> DEFINE f == [i \in 0 .. n |-> IF i = 0 THEN <<>> ELSE g[i]]
<1>6. f[0] = <<>> /\ \A i \in 1 .. n : f[i] = g[i]
  OBVIOUS
<1>7. DOMAIN f = 0 .. n
  OBVIOUS
<1>8. FlattenSeq(q) = f[n]
  BY <1>2, <1>4, <1>6
<1>9. f = [i \in 0 .. n |-> f[i]]
  OBVIOUS
<1> HIDE DEF f
<1>10. ASSUME NEW i \in 1 .. n PROVE f[i] = f[i - 1] \o q[i]
  <2>1. q[i] \in Seq(S)
    OBVIOUS
  <2>2. g[i] = IF i = 1 THEN q[i] ELSE g[i - 1] \o q[i]
    BY <1>5
  <2>3. i = 1 => f[i - 1] = <<>>
    BY <1>6
  <2>4. i # 1 => i - 1 \in 1 .. n
    OBVIOUS
  <2>5. i # 1 => f[i - 1] = g[i - 1]
    BY <1>6, <2>4
  <2>6. f[i] = g[i]
    BY <1>6
  <2>7. <<>> \o q[i] = q[i]
    BY <2>1
  <2> QED BY <2>2, <2>3, <2>5, <2>6, <2>7
<1> DEFINE T == {i \in Nat : i <= n => f[i] \in Seq(S)}
<1>11. 0 \in T
  <2>1. <<>> \in Seq(S)
    OBVIOUS
  <2> QED BY <1>6, <2>1
<1>12. ASSUME NEW i \in Nat, i \in T PROVE i + 1 \in T
  <2> SUFFICES ASSUME i + 1 <= n PROVE f[i + 1] \in Seq(S)
    OBVIOUS
  <2> DEFINE k == i + 1
  <2>1. k \in 1 .. n /\ k - 1 = i /\ f[i] \in Seq(S)
    BY <1>12
  <2> HIDE DEF k
  <2>2. f[k] = f[i] \o q[k] /\ q[k] \in Seq(S)
    BY <1>10, <2>1
  <2>3. f[k] \in Seq(S)
    BY <2>1, <2>2
  <2> QED BY <2>3 DEF k
<1>13. Nat \subseteq T
  <2> HIDE DEF T
  <2> QED BY <1>11, <1>12, Induction
<1>14. \A i \in 0 .. n : f[i] \in Seq(S)
  BY <1>13
<1>15. f \in [0 .. n -> Seq(S)]
  BY <1>9, <1>14
<1> QED BY <1>6, <1>8, <1>10, <1>15

LEMMA FlattenOneMore ==
    ASSUME NEW S, NEW n \in Nat, NEW q \in [1 .. n + 1 -> Seq(S)]
    PROVE  /\ FlattenSeq([i \in 1 .. n |-> q[i]]) \in Seq(S)
           /\ FlattenSeq(q) = FlattenSeq([i \in 1 .. n |-> q[i]]) \o q[n + 1]
<1> DEFINE r == [i \in 1 .. n |-> q[i]]
           m == n + 1
<1>1. m \in Nat /\ n = m - 1 /\ m \in 1 .. m
  OBVIOUS
<1>2. r \in [1 .. n -> Seq(S)] /\ \A i \in 1 .. n : r[i] = q[i]
  OBVIOUS
<1> HIDE DEF r
<1>3. PICK g \in [0 .. n -> Seq(S)] :
          /\ g[0] = <<>>
          /\ \A i \in 1 .. n : g[i] = g[i - 1] \o r[i]
          /\ FlattenSeq(r) = g[n]
  BY <1>2, FlattenPrefixes, ZenonT(30)
<1> HIDE DEF m
<1>4. m \in Nat /\ q \in [1 .. m -> Seq(S)]
  BY DEF m
<1>5. PICK f \in [0 .. m -> Seq(S)] :
          /\ f[0] = <<>>
          /\ \A i \in 1 .. m : f[i] = f[i - 1] \o q[i]
          /\ FlattenSeq(q) = f[m]
  BY <1>4, FlattenPrefixes, ZenonT(30)
<1> DEFINE T == {i \in Nat : i <= n => f[i] = g[i]}
<1>6. 0 \in T
  BY <1>3, <1>5
<1>7. ASSUME NEW i \in Nat, i \in T PROVE i + 1 \in T
  <2> SUFFICES ASSUME i + 1 <= n PROVE f[i + 1] = g[i + 1]
    OBVIOUS
  <2> DEFINE k == i + 1
  <2>1. k \in 1 .. n /\ k \in 1 .. m /\ k - 1 = i /\ f[i] = g[i]
    BY <1>1, <1>7
  <2> HIDE DEF k
  <2>2. f[k] = f[i] \o q[k] /\ g[k] = g[i] \o q[k]
    BY <1>2, <1>3, <1>5, <2>1
  <2> QED BY <2>1, <2>2 DEF k
<1>8. Nat \subseteq T
  <2> HIDE DEF T
  <2> QED BY <1>6, <1>7, Induction
<1>9. f[n] = g[n] /\ f[m] = f[n] \o q[m] /\ g[n] \in Seq(S)
  <2>1. n \in T
    BY <1>8
  <2>2. f[m] = f[m - 1] \o q[m]
    BY <1>1, <1>5
  <2> QED BY <1>1, <1>3, <2>1, <2>2
<1> QED BY <1>3, <1>5, <1>9 DEF m, r

-----------------------------------------------------------------------------
(* A string's strokes, glyph by glyph and point by point.                  *)
Args == [text : Seq(Nat), x : Int, size : Int]
Segments == [from : Int, to : Int]

\* The points of the k-th glyph, and none after the last one.
PointsOf(a, k) == IF k \in 1 .. Len(a.text) THEN glyph(a.text[k]).points ELSE <<>>
Spot(a, k, i) == a.x + (WidthBefore(a.text, k) + PointsOf(a, k)[i]) * a.size
Drawable(a, k, i) == i > 1 /\ PointsOf(a, k)[i - 1] # PenUp /\ PointsOf(a, k)[i] # PenUp
Segment(a, k, i) == [from |-> Spot(a, k, i - 1), to |-> Spot(a, k, i)]
StrokeAt(a, k, i) == IF Drawable(a, k, i) THEN <<Segment(a, k, i)>> ELSE <<>>

\* The strokes up to a point of the k-th glyph, and those of the first k glyphs.
UpTo(a, k, j) == FlattenSeq([i \in 1 .. j |-> StrokeAt(a, k, i)])
Through(a, k) == FlattenSeq([m \in 1 .. k |-> StrokesOf(a, m)])

LEMMA GlyphType ==
    ASSUME NEW c
    PROVE  glyph(c).width \in Nat /\ glyph(c).points \in Seq(Int \cup {PenUp})
<1> DEFINE up == IF c \in Lower THEN c - CASE_BIT ELSE c
           i == (IF up \in FIRST .. LAST THEN up ELSE FIRST) - FIRST
<1>1. i \in 0 .. LAST - FIRST
  BY FontAssumption
<1> HIDE DEF i
<1>2. vfont[i] \in [width : Nat, points : Seq(Int \cup {PenUp})]
  BY <1>1, FontAssumption
<1>3. glyph(c) = vfont[i]
  BY DEF glyph, i
<1> QED BY <1>2, <1>3

LEMMA PointsOfType ==
    ASSUME NEW a \in Args, NEW k
    PROVE  PointsOf(a, k) \in Seq(Int \cup {PenUp})
  BY GlyphType DEF PointsOf

LEMMA WidthExists ==
    ASSUME NEW t
    PROVE  \A n \in Nat : \E f : f = [i \in 0 .. n |-> IF i = 0 THEN 0 ELSE f[i - 1] + glyph(t[i]).width]
<1> DEFINE Widths(n, f) == f = [i \in 0 .. n |-> IF i = 0 THEN 0 ELSE f[i - 1] + glyph(t[i]).width]
           S == {n \in Nat : \E f : Widths(n, f)}
<1>1. 0 \in S
  <2> DEFINE f == [i \in 0 .. 0 |-> 0]
  <2>1. Widths(0, f)
    OBVIOUS
  <2> QED BY <2>1
<1>2. ASSUME NEW n \in Nat, n \in S PROVE n + 1 \in S
  <2>1. PICK f : Widths(n, f)
    BY <1>2
  <2>2. \A i \in 0 .. n : f[i] = IF i = 0 THEN 0 ELSE f[i - 1] + glyph(t[i]).width
    BY <2>1
  <2> DEFINE g == [i \in 0 .. n + 1 |-> IF i = n + 1 THEN f[n] + glyph(t[n + 1]).width ELSE f[i]]
  <2>3. ASSUME NEW i \in 0 .. n + 1
        PROVE  g[i] = IF i = 0 THEN 0 ELSE g[i - 1] + glyph(t[i]).width
    <3>1. i # 0 => i - 1 \in 0 .. n + 1 /\ i - 1 # n + 1
      OBVIOUS
    <3>2. i # 0 => g[i - 1] = f[i - 1]
      BY <3>1
    <3>3. i # n + 1 => i \in 0 .. n
      OBVIOUS
    <3>4. CASE i = n + 1
      <4>1. g[i - 1] = f[n] /\ i # 0
        BY <3>2, <3>4
      <4> QED BY <3>4, <4>1
    <3>5. CASE i # n + 1
      BY <2>2, <3>2, <3>3, <3>5
    <3> QED BY <3>4, <3>5
  <2>4. g = [i \in 0 .. n + 1 |-> g[i]]
    OBVIOUS
  <2> HIDE DEF g
  <2>5. Widths(n + 1, g)
    BY <2>3, <2>4
  <2> QED BY <2>5
<1>3. Nat \subseteq S
  <2> HIDE DEF S
  <2> QED BY <1>1, <1>2, Induction
<1> QED BY <1>3

LEMMA WidthFollows ==
    ASSUME NEW t \in Seq(Nat)
    PROVE  /\ WidthBefore(t, 1) = 0
           /\ \A k \in 1 .. Len(t) : WidthBefore(t, k + 1) = WidthBefore(t, k) + glyph(t[k]).width
           /\ \A k \in 1 .. Len(t) + 1 : WidthBefore(t, k) \in Nat
<1> DEFINE n == Len(t)
           Widths(f) == f = [i \in 0 .. n |-> IF i = 0 THEN 0 ELSE f[i - 1] + glyph(t[i]).width]
           w == CHOOSE f : Widths(f)
<1>1. n \in Nat
  OBVIOUS
<1> HIDE DEF n
<1>2. Widths(w)
  BY <1>1, WidthExists
<1>3. \A k : WidthBefore(t, k) = w[k - 1]
  BY DEF WidthBefore, n
<1> HIDE DEF w
<1>4. \A i \in 0 .. n : w[i] = IF i = 0 THEN 0 ELSE w[i - 1] + glyph(t[i]).width
  BY <1>2
<1>5. w[0] = 0
  BY <1>1, <1>4
<1>6. \A k \in 1 .. n : w[k] = w[k - 1] + glyph(t[k]).width
  BY <1>1, <1>4
<1> DEFINE S == {i \in Nat : i <= n => w[i] \in Nat}
<1>7. 0 \in S
  BY <1>5
<1>8. ASSUME NEW i \in Nat, i \in S PROVE i + 1 \in S
  <2> SUFFICES ASSUME i + 1 <= n PROVE w[i + 1] \in Nat
    OBVIOUS
  <2>1. i + 1 \in 1 .. n /\ w[i] \in Nat
    BY <1>1, <1>8
  <2>2. w[i + 1] = w[i] + glyph(t[i + 1]).width
    BY <1>6, <2>1
  <2> QED BY <2>1, <2>2, GlyphType
<1>9. Nat \subseteq S
  <2> HIDE DEF S
  <2> QED BY <1>7, <1>8, Induction
<1>10. ASSUME NEW k \in 1 .. n PROVE WidthBefore(t, k + 1) = WidthBefore(t, k) + glyph(t[k]).width
  <2>1. (k + 1) - 1 = k
    BY <1>1
  <2> QED BY <1>3, <1>6, <2>1
<1>11. ASSUME NEW k \in 1 .. n + 1 PROVE WidthBefore(t, k) \in Nat
  <2>1. k - 1 \in Nat /\ k - 1 <= n
    BY <1>1
  <2> QED BY <1>3, <1>9, <2>1
<1>12. WidthBefore(t, 1) = 0
  BY <1>3, <1>5
<1> QED BY <1>10, <1>11, <1>12 DEF n

\* The width before a glyph is what the loop has added up, and points are numbers.
LEMMA SpotType ==
    ASSUME NEW a \in Args, NEW k \in 1 .. Len(a.text), NEW i \in 1 .. Len(PointsOf(a, k)),
           PointsOf(a, k)[i] # PenUp
    PROVE  Spot(a, k, i) \in Int
<1>1. PointsOf(a, k)[i] \in Int \cup {PenUp}
  BY PointsOfType
<1>2. a.text \in Seq(Nat) /\ a.x \in Int /\ a.size \in Int
  BY DEF Args
<1>3. WidthBefore(a.text, k) \in Nat
  BY <1>2, WidthFollows
<1>4. PointsOf(a, k)[i] \in Int
  BY <1>1
<1> DEFINE p == PointsOf(a, k)[i]
           w == WidthBefore(a.text, k)
<1>5. p \in Int /\ w \in Int
  BY <1>3, <1>4
<1> HIDE DEF p, w
<1>6. a.x + (w + p) * a.size \in Int
  BY <1>2, <1>5
<1> QED BY <1>6 DEF p, w, Spot

LEMMA StrokeAtType ==
    ASSUME NEW a \in Args, NEW k \in 1 .. Len(a.text), NEW i \in 1 .. Len(PointsOf(a, k))
    PROVE  StrokeAt(a, k, i) \in Seq(Segments)
<1>1. CASE Drawable(a, k, i)
  <2>1. i - 1 \in 1 .. Len(PointsOf(a, k))
    BY <1>1, PointsOfType DEF Drawable
  <2>2. Spot(a, k, i) \in Int /\ Spot(a, k, i - 1) \in Int
    BY <1>1, <2>1, SpotType DEF Drawable
  <2>3. Segment(a, k, i) \in Segments
    BY <2>2 DEF Segment, Segments
  <2> QED BY <1>1, <2>3 DEF StrokeAt
<1>2. CASE ~Drawable(a, k, i)
  BY <1>2 DEF StrokeAt
<1> QED BY <1>1, <1>2

LEMMA UpToFollows ==
    ASSUME NEW a \in Args, NEW k \in 1 .. Len(a.text)
    PROVE  /\ UpTo(a, k, 0) = <<>>
           /\ \A j \in 0 .. Len(PointsOf(a, k)) - 1 :
                 UpTo(a, k, j + 1) = UpTo(a, k, j) \o StrokeAt(a, k, j + 1)
           /\ \A j \in 0 .. Len(PointsOf(a, k)) : UpTo(a, k, j) \in Seq(Segments)
<1> DEFINE n == Len(PointsOf(a, k))
<1>1. n \in Nat
  BY PointsOfType
<1>2. \A i \in 1 .. n : StrokeAt(a, k, i) \in Seq(Segments)
  BY StrokeAtType
<1> HIDE DEF n
<1>3. UpTo(a, k, 0) = <<>>
  BY DEF UpTo, FlattenSeq
<1>4. ASSUME NEW j \in 0 .. n - 1
      PROVE  /\ UpTo(a, k, j) \in Seq(Segments)
             /\ UpTo(a, k, j + 1) = UpTo(a, k, j) \o StrokeAt(a, k, j + 1)
  <2> DEFINE q == [i \in 1 .. j + 1 |-> StrokeAt(a, k, i)]
             r == [i \in 1 .. j |-> q[i]]
  <2>1. j \in Nat /\ 1 .. j + 1 \subseteq 1 .. n
    BY <1>1
  <2>2. q \in [1 .. j + 1 -> Seq(Segments)]
    BY <1>2, <2>1
  <2>3. r = [i \in 1 .. j |-> StrokeAt(a, k, i)] /\ q[j + 1] = StrokeAt(a, k, j + 1)
    BY <2>1
  <2> HIDE DEF q
  <2>4. FlattenSeq(r) \in Seq(Segments) /\ FlattenSeq(q) = FlattenSeq(r) \o q[j + 1]
    BY <2>1, <2>2, FlattenOneMore
  <2> HIDE DEF r
  <2> QED BY <2>3, <2>4 DEF UpTo, q
<1>5. ASSUME NEW j \in 0 .. n PROVE UpTo(a, k, j) \in Seq(Segments)
  <2> <<>> \in Seq(Segments)
    OBVIOUS
  <2>1. CASE j = 0
    BY <1>3, <2>1
  <2>2. CASE j # 0
    <3>1. j - 1 \in 0 .. n - 1 /\ (j - 1) + 1 = j /\ j \in 1 .. n
      BY <1>1, <2>2
    <3>2. UpTo(a, k, j - 1) \in Seq(Segments) /\ UpTo(a, k, j) = UpTo(a, k, j - 1) \o StrokeAt(a, k, j)
      BY <1>4, <3>1
    <3>3. StrokeAt(a, k, j) \in Seq(Segments)
      BY <1>2, <3>1
    <3> QED BY <3>2, <3>3
  <2> QED BY <2>1, <2>2
<1> QED BY <1>3, <1>4, <1>5 DEF n

LEMMA StrokesOfGlyph ==
    ASSUME NEW a \in Args, NEW k \in 1 .. Len(a.text)
    PROVE  /\ StrokesOf(a, k) = UpTo(a, k, Len(PointsOf(a, k)))
           /\ StrokesOf(a, k) \in Seq(Segments)
<1>1. PointsOf(a, k) = glyph(a.text[k]).points
  BY DEF PointsOf
<1>2. StrokesOf(a, k) = UpTo(a, k, Len(PointsOf(a, k)))
  BY <1>1 DEF StrokesOf, UpTo, StrokeAt, Drawable, Segment, Spot
<1>3. Len(PointsOf(a, k)) \in 0 .. Len(PointsOf(a, k))
  BY PointsOfType
<1> QED BY <1>2, <1>3, UpToFollows

LEMMA ThroughFollows ==
    ASSUME NEW a \in Args
    PROVE  /\ Through(a, 0) = <<>>
           /\ \A k \in 1 .. Len(a.text) : Through(a, k) = Through(a, k - 1) \o StrokesOf(a, k)
           /\ \A k \in 0 .. Len(a.text) : Through(a, k) \in Seq(Segments)
<1> DEFINE n == Len(a.text)
<1>1. n \in Nat
  BY DEF Args
<1>2. \A k \in 1 .. n : StrokesOf(a, k) \in Seq(Segments)
  BY StrokesOfGlyph
<1> HIDE DEF n
<1>3. Through(a, 0) = <<>>
  BY DEF Through, FlattenSeq
<1>4. ASSUME NEW j \in 0 .. n - 1
      PROVE  /\ Through(a, j) \in Seq(Segments)
             /\ Through(a, j + 1) = Through(a, j) \o StrokesOf(a, j + 1)
  <2> DEFINE q == [i \in 1 .. j + 1 |-> StrokesOf(a, i)]
             r == [i \in 1 .. j |-> q[i]]
  <2>1. j \in Nat /\ 1 .. j + 1 \subseteq 1 .. n
    BY <1>1
  <2>2. q \in [1 .. j + 1 -> Seq(Segments)]
    BY <1>2, <2>1
  <2>3. r = [i \in 1 .. j |-> StrokesOf(a, i)] /\ q[j + 1] = StrokesOf(a, j + 1)
    BY <2>1
  <2> HIDE DEF q
  <2>4. FlattenSeq(r) \in Seq(Segments) /\ FlattenSeq(q) = FlattenSeq(r) \o q[j + 1]
    BY <2>1, <2>2, FlattenOneMore
  <2> HIDE DEF r
  <2> QED BY <2>3, <2>4 DEF Through, q
<1>5. ASSUME NEW k \in 1 .. n
      PROVE  Through(a, k) \in Seq(Segments) /\ Through(a, k) = Through(a, k - 1) \o StrokesOf(a, k)
  <2>1. k - 1 \in 0 .. n - 1 /\ (k - 1) + 1 = k
    BY <1>1
  <2>2. Through(a, k - 1) \in Seq(Segments) /\ Through(a, k) = Through(a, k - 1) \o StrokesOf(a, k)
    BY <1>4, <2>1
  <2> QED BY <1>2, <2>2
<1>6. \A k \in 0 .. n : Through(a, k) \in Seq(Segments)
  <2>1. \A k \in 0 .. n : k = 0 \/ k \in 1 .. n
    BY <1>1
  <2>2. <<>> \in Seq(Segments)
    OBVIOUS
  <2> QED BY <1>3, <1>5, <2>1, <2>2
<1> QED BY <1>3, <1>5, <1>6 DEF n

-----------------------------------------------------------------------------
(* What was drawn, and which of it was zeroed.                             *)
Strokes == [from : Int, to : Int, zero : BOOLEAN]
Lines(t) == [i \in DOMAIN t |-> [from |-> t[i].from, to |-> t[i].to]]
Zeroed(t) == {i \in DOMAIN t : t[i].zero}

LEMMA DrawnOneMore ==
    ASSUME NEW t \in Seq(Strokes), NEW e \in Strokes
    PROVE  /\ Append(t, e) \in Seq(Strokes)
           /\ Lines(Append(t, e)) = Lines(t) \o <<[from |-> e.from, to |-> e.to]>>
           /\ Zeroed(Append(t, e)) = Zeroed(t) \cup (IF e.zero THEN {Len(t) + 1} ELSE {})
<1> DEFINE n == Len(t)
           u == Append(t, e)
           seg == [from |-> e.from, to |-> e.to]
<1>1. /\ n \in Nat /\ DOMAIN t = 1 .. n /\ u \in Seq(Strokes) /\ DOMAIN u = 1 .. n + 1
      /\ u[n + 1] = e /\ \A i \in 1 .. n : u[i] = t[i]
  OBVIOUS
<1> HIDE DEF n, u
<1>2. Lines(u) = Lines(t) \o <<seg>>
  <2>1. Lines(t) \in Seq(Segments) /\ Len(Lines(t)) = n
    <3>1. Lines(t) = [i \in 1 .. n |-> [from |-> t[i].from, to |-> t[i].to]]
      BY <1>1 DEF Lines
    <3>2. ASSUME NEW i \in 1 .. n PROVE [from |-> t[i].from, to |-> t[i].to] \in Segments
      <4>1. t[i] \in Strokes
        BY <1>1
      <4> QED BY <4>1 DEF Strokes, Segments
    <3> QED BY <1>1, <3>1, <3>2
  <2>2. seg \in Segments
    BY DEF Strokes, Segments
  <2>3. /\ Lines(t) \o <<seg>> = [i \in 1 .. n + 1 |-> IF i <= n THEN Lines(t)[i] ELSE seg]
    <3> HIDE DEF seg
    <3> QED BY <1>1, <2>1, <2>2
  <2>4. \A i \in 1 .. n : Lines(t)[i] = [from |-> t[i].from, to |-> t[i].to]
    BY <1>1 DEF Lines
  <2>5. Lines(u) = [i \in 1 .. n + 1 |-> [from |-> u[i].from, to |-> u[i].to]]
    BY <1>1 DEF Lines
  <2>6. ASSUME NEW i \in 1 .. n + 1
        PROVE  [from |-> u[i].from, to |-> u[i].to] = IF i <= n THEN Lines(t)[i] ELSE seg
    <3>1. CASE i <= n
      <4>1. i \in 1 .. n
        BY <1>1, <3>1
      <4> QED BY <1>1, <2>4, <3>1, <4>1
    <3>2. CASE ~(i <= n)
      <4>1. i = n + 1
        BY <1>1, <3>2
      <4> QED BY <1>1, <3>2, <4>1
    <3> QED BY <3>1, <3>2
  <2> HIDE DEF seg
  <2> QED BY <2>3, <2>5, <2>6
<1>3. Zeroed(u) = Zeroed(t) \cup (IF e.zero THEN {n + 1} ELSE {})
  <2>1. \A i \in 1 .. n + 1 : i \in 1 .. n \/ i = n + 1
    BY <1>1
  <2>2. 1 .. n \subseteq 1 .. n + 1 /\ n + 1 \in 1 .. n + 1 /\ ~(n + 1 \in 1 .. n)
    BY <1>1
  <2> QED BY <1>1, <2>1, <2>2 DEF Zeroed
<1> QED BY <1>1, <1>2, <1>3 DEF n, u

\* The strokes at which the first k glyphs are zeroed.
Firsts(a, k) ==
    {1 + Len(Through(a, m - 1)) : m \in {g \in 1 .. k : StrokesOf(a, g) # <<>> /\ zeroes(g - 1)}}

\* The j-th point of the k-th glyph is the last one visited; after the last
\* glyph there are none.
Visited(k, j) ==
    /\ k \in 1 .. Len(arg.text) + 1 /\ j \in 0 .. Len(PointsOf(arg, k))
    /\ glyph_idx = k /\ mul = arg.size
    /\ s \in Seq(Nat) /\ Len(s) = Len(arg.text) - k + 1
    /\ \A i \in 1 .. Len(s) : s[i] = arg.text[k - 1 + i]
    /\ penx = arg.x + WidthBefore(arg.text, k) * arg.size
    /\ points \in Seq(Int \cup {PenUp}) /\ Len(points) = Len(PointsOf(arg, k)) - j
    /\ \A i \in 1 .. Len(points) : points[i] = PointsOf(arg, k)[j + i]

\* Pen, strokes and zeroing at that point.
Penned(k, j) ==
    /\ pen_up \in BOOLEAN /\ (pen_up <=> (j = 0 \/ PointsOf(arg, k)[j] = PenUp))
    /\ ~pen_up => prevx = Spot(arg, k, j)
    /\ strokes \in Seq(Strokes)
    /\ Lines(strokes) = Through(arg, k - 1) \o UpTo(arg, k, j)
    /\ glyph_zero \in BOOLEAN /\ (glyph_zero <=> (zeroes(k - 1) /\ UpTo(arg, k, j) = <<>>))
    /\ Zeroed(strokes) =
          Firsts(arg, k - 1)
            \cup (IF zeroes(k - 1) /\ UpTo(arg, k, j) # <<>> THEN {1 + Len(Through(arg, k - 1))} ELSE {})

FontInv ==
    \/ arg = None /\ s = <<>> /\ points = <<>>
    \/ arg \in Args /\ \E k, j \in Nat : Visited(k, j) /\ Penned(k, j)

LEMMA ArgsAreSome == ~(None \in Args)
<1> SUFFICES ASSUME None \in Args PROVE FALSE
  OBVIOUS
<1>1. "x" \in DOMAIN None
  BY DEF Args
<1> QED BY <1>1 DEF None

LEMMA ZeroesType == ASSUME NEW i \in Nat PROVE zeroes(i) \in BOOLEAN
  BY DEF zeroes

\* A glyph that has been entered: no points visited, nothing drawn of it.
LEMMA Entered ==
    ASSUME arg' \in Args, NEW k \in Nat, k \in 1 .. Len(arg'.text) + 1,
           Enter(s', k - 1), mul' = arg'.size,
           s' \in Seq(Nat), Len(s') = Len(arg'.text) - k + 1,
           \A i \in 1 .. Len(s') : s'[i] = arg'.text[k - 1 + i],
           penx' = arg'.x + WidthBefore(arg'.text, k) * arg'.size,
           strokes' \in Seq(Strokes), Lines(strokes') = Through(arg', k - 1),
           Zeroed(strokes') = Firsts(arg', k - 1)
    PROVE  FontInv'
<1> DEFINE a == arg'
           n == Len(a.text)
<1>1. n \in Nat /\ k - 1 \in Nat /\ (k - 1) + 1 = k
  BY DEF Args
<1>2. points' = PointsOf(a, k)
  <2>1. CASE s' = <<>>
    <3>1. ~(k \in 1 .. n)
      BY <1>1, <2>1
    <3> QED BY <2>1, <3>1 DEF Enter, PointsOf
  <2>2. CASE s' # <<>>
    <3>1. Len(s') >= 1 /\ Head(s') = s'[1]
      BY <2>2
    <3>2. k \in 1 .. n /\ 1 \in 1 .. Len(s') /\ k - 1 + 1 = k
      BY <1>1, <3>1
    <3>3. Head(s') = a.text[k]
      BY <3>1, <3>2
    <3> QED BY <2>2, <3>2, <3>3 DEF Enter, PointsOf
  <2> QED BY <2>1, <2>2
<1> HIDE DEF a, n
<1>3. a \in Args
  BY DEF a
<1> DEFINE p == PointsOf(a, k)
<1>4. p \in Seq(Int \cup {PenUp})
  BY <1>3, PointsOfType
<1>5. UpTo(a, k, 0) = <<>>
  BY DEF UpTo, FlattenSeq
<1>6. Visited(k, 0)'
  <2>1. 0 \in 0 .. Len(p) /\ Len(p) = Len(p) - 0 /\ \A i \in 1 .. Len(p) : p[i] = p[0 + i]
    BY <1>4
  <2>2. glyph_idx' = k
    BY <1>1 DEF Enter
  <2> QED BY <1>2, <1>4, <2>1, <2>2 DEF Visited, a
<1>7. Penned(k, 0)'
  <2>1. pen_up' = TRUE /\ glyph_zero' = zeroes(k - 1)
    BY DEF Enter
  <2>2. zeroes(k - 1) \in BOOLEAN
    BY <1>1, ZeroesType
  <2>3. Through(a, k - 1) \in Seq(Segments)
    <3>1. k - 1 \in 0 .. n
      BY <1>1 DEF n, a
    <3> QED BY <1>3, <3>1, ThroughFollows DEF n
  <2>4. Through(a, k - 1) \o UpTo(a, k, 0) = Through(a, k - 1)
    BY <1>5, <2>3
  <2> QED BY <1>5, <2>1, <2>2, <2>4, Zenon DEF Penned, a
<1>8. 0 \in Nat /\ a \in Args
  BY <1>3
<1> QED BY <1>6, <1>7, <1>8 DEF FontInv, a

LEMMA FontInvInit == FontInit => FontInv
  BY DEF FontInit, FontInv

LEMMA FontInvStart ==
    ASSUME NEW str \in Seq(Nat), NEW x \in Int, NEW size \in Int, vt_draw_string(str, x, size)
    PROVE  FontInv'
<1> DEFINE a == [text |-> str, x |-> x, size |-> size]
<1>1. a \in Args /\ a.text = str /\ a.x = x /\ a.size = size
  BY DEF Args
<1>2. arg' = a /\ s' = str /\ penx' = x /\ mul' = size /\ strokes' = <<>> /\ Enter(str, 0)
  BY DEF vt_draw_string
<1> HIDE DEF a
<1>3. Enter(s', 1 - 1)
  BY <1>2
<1>4. 1 \in Nat /\ 1 \in 1 .. Len(a.text) + 1
  BY <1>1
<1>5. s' \in Seq(Nat) /\ Len(s') = Len(a.text) - 1 + 1 /\ \A i \in 1 .. Len(s') : s'[i] = a.text[1 - 1 + i]
  BY <1>1, <1>2
<1>6. penx' = a.x + WidthBefore(a.text, 1) * a.size
  <2>1. WidthBefore(str, 1) = 0
    BY WidthFollows
  <2>2. x = x + 0 * size
    OBVIOUS
  <2> QED BY <1>1, <1>2, <2>1, <2>2
<1>7. /\ strokes' \in Seq(Strokes) /\ Lines(strokes') = Through(a, 1 - 1)
      /\ Zeroed(strokes') = Firsts(a, 1 - 1)
  <2>1. Through(a, 0) = <<>>
    BY <1>1, ThroughFollows
  <2>2. Lines(<<>>) = <<>> /\ Zeroed(<<>>) = {} /\ <<>> \in Seq(Strokes)
    BY DEF Lines, Zeroed
  <2>3. Firsts(a, 0) = {}
    BY DEF Firsts
  <2> QED BY <1>2, <2>1, <2>2, <2>3
<1> QED BY <1>1, <1>2, <1>3, <1>4, <1>5, <1>6, <1>7, Entered

\* The next point of a glyph: what was visited is one more, what is left one less.
LEMMA VisitOne ==
    ASSUME arg \in Args, NEW k \in Nat, NEW j \in Nat, Visited(k, j), points # <<>>,
           points' = Tail(points), UNCHANGED <<s, penx, mul, glyph_idx, arg>>
    PROVE  /\ k \in 1 .. Len(arg.text) /\ j + 1 \in 1 .. Len(PointsOf(arg, k))
           /\ Head(points) = PointsOf(arg, k)[j + 1]
           /\ Visited(k, j + 1)'
<1> DEFINE p == PointsOf(arg, k)
           n == Len(arg.text)
<1>1. p \in Seq(Int \cup {PenUp}) /\ n \in Nat
  BY PointsOfType DEF Args
<1>2. /\ k \in 1 .. n + 1 /\ j \in 0 .. Len(p)
      /\ points \in Seq(Int \cup {PenUp}) /\ Len(points) = Len(p) - j
      /\ \A i \in 1 .. Len(points) : points[i] = p[j + i]
  BY DEF Visited
<1>3. Len(points) >= 1 /\ j + 1 \in 1 .. Len(p)
  <2>1. Len(points) >= 1
    BY <1>2
  <2> HIDE DEF p
  <2> QED BY <1>1, <1>2, <2>1
<1>4. k \in 1 .. n
  <2>1. p # <<>>
    BY <1>1, <1>3
  <2> QED BY <2>1 DEF PointsOf
<1>5. Head(points) = p[j + 1]
  <2>1. Head(points) = points[1] /\ 1 \in 1 .. Len(points)
    BY <1>2, <1>3
  <2> QED BY <1>2, <2>1
<1>6. /\ points' \in Seq(Int \cup {PenUp}) /\ Len(points') = Len(p) - (j + 1)
      /\ \A i \in 1 .. Len(points') : points'[i] = p[j + 1 + i]
  <2> HIDE DEF p
  <2>1. Tail(points) \in Seq(Int \cup {PenUp}) /\ Len(Tail(points)) = Len(points) - 1
    BY <1>2, <1>3
  <2>2. ASSUME NEW i \in 1 .. Len(points) - 1 PROVE Tail(points)[i] = p[j + 1 + i]
    <3>1. i + 1 \in 1 .. Len(points) /\ j + (i + 1) = j + 1 + i
      BY <1>2, <1>3
    <3>2. Tail(points)[i] = points[i + 1]
      BY <1>2, <1>3
    <3> QED BY <1>2, <3>1, <3>2
  <2> QED BY <1>1, <1>2, <2>1, <2>2
<1>7. j + 1 \in 0 .. Len(p)
  <2> HIDE DEF p
  <2> QED BY <1>1, <1>3
<1> HIDE DEF n, p
<1>8. Visited(k, j + 1)'
  <2>1. k \in 1 .. n + 1 /\ UNCHANGED <<s, penx, mul, glyph_idx, arg>>
    BY <1>2
  <2>2. /\ glyph_idx = k /\ mul = arg.size
        /\ s \in Seq(Nat) /\ Len(s) = Len(arg.text) - k + 1
        /\ \A i \in 1 .. Len(s) : s[i] = arg.text[k - 1 + i]
        /\ penx = arg.x + WidthBefore(arg.text, k) * arg.size
    BY DEF Visited
  <2> QED BY <1>6, <1>7, <2>1, <2>2 DEF Visited, n, p
<1> QED BY <1>3, <1>4, <1>5, <1>8 DEF n, p

LEMMA FontInvLift ==
    ASSUME FontInv, LiftPen
    PROVE  FontInv'
<1>1. arg \in Args
  BY DEF FontInv, LiftPen
<1>2. PICK k, j \in Nat : Visited(k, j) /\ Penned(k, j)
  BY DEF FontInv, LiftPen
<1>3. /\ k \in 1 .. Len(arg.text) /\ j + 1 \in 1 .. Len(PointsOf(arg, k))
      /\ Head(points) = PointsOf(arg, k)[j + 1]
      /\ Visited(k, j + 1)'
  BY <1>1, <1>2, VisitOne DEF LiftPen
<1>4. PointsOf(arg, k)[j + 1] = PenUp
  BY <1>3 DEF LiftPen
<1>5. UpTo(arg, k, j + 1) = UpTo(arg, k, j)
  <2>1. j \in 0 .. Len(PointsOf(arg, k)) - 1
    BY <1>1, <1>2, <1>3, PointsOfType
  <2>2. StrokeAt(arg, k, j + 1) = <<>>
    BY <1>4 DEF StrokeAt, Drawable
  <2>3. UpTo(arg, k, j) \in Seq(Segments) /\ UpTo(arg, k, j + 1) = UpTo(arg, k, j) \o StrokeAt(arg, k, j + 1)
    BY <1>1, <1>2, <1>3, <2>1, UpToFollows
  <2> QED BY <2>2, <2>3
<1>6. Penned(k, j + 1)'
  BY <1>2, <1>4, <1>5 DEF Penned, LiftPen
<1>7. arg' = arg /\ j + 1 \in Nat
  BY DEF LiftPen
<1> QED BY <1>1, <1>2, <1>3, <1>6, <1>7 DEF FontInv

LEMMA FontInvPoint ==
    ASSUME FontInv, Point
    PROVE  FontInv'
<1>1. arg \in Args
  BY DEF FontInv, Point
<1>2. PICK k, j \in Nat : Visited(k, j) /\ Penned(k, j)
  BY DEF FontInv, Point
<1> DEFINE a == arg
           i == j + 1
           e == [from |-> prevx, to |-> prevx', zero |-> glyph_zero]
<1>3. /\ k \in 1 .. Len(a.text) /\ i \in 1 .. Len(PointsOf(a, k))
      /\ Head(points) = PointsOf(a, k)[i]
      /\ Visited(k, i)'
  BY <1>1, <1>2, VisitOne DEF Point
<1>4. PointsOf(a, k)[i] # PenUp
  BY <1>3 DEF Point
<1>5. a' = a /\ i \in Nat /\ j \in 0 .. Len(PointsOf(a, k)) - 1 /\ i - 1 = j
  BY <1>1, <1>2, <1>3, PointsOfType DEF Point
<1>6. prevx' = Spot(a, k, i)
  <2>1. PointsOf(a, k)[i] \in Int
    <3>1. PointsOf(a, k)[i] \in Int \cup {PenUp}
      BY <1>1, <1>3, PointsOfType
    <3> QED BY <1>4, <3>1
  <2>2. WidthBefore(a.text, k) \in Nat
    BY <1>1, <1>3, WidthFollows DEF Args
  <2>3. penx = a.x + WidthBefore(a.text, k) * a.size /\ mul = a.size
    BY <1>2 DEF Visited
  <2>4. prevx' = penx + PointsOf(a, k)[i] * mul
    BY <1>3 DEF Point
  <2>5. a.x \in Int /\ a.size \in Int
    BY <1>1 DEF Args
  <2> DEFINE w == WidthBefore(a.text, k)
             p == PointsOf(a, k)[i]
  <2> HIDE DEF w, p
  <2>6. w \in Int /\ p \in Int
    BY <2>1, <2>2 DEF w, p
  <2>7. (a.x + w * a.size) + p * a.size = a.x + (w + p) * a.size
    BY <2>5, <2>6
  <2> QED BY <2>3, <2>4, <2>7 DEF Spot, w, p
<1> HIDE DEF i
<1>7. /\ UpTo(a, k, j) \in Seq(Segments) /\ UpTo(a, k, i) = UpTo(a, k, j) \o StrokeAt(a, k, i)
      /\ Through(a, k - 1) \in Seq(Segments)
  <2>1. j \in 0 .. Len(PointsOf(a, k)) /\ k - 1 \in 0 .. Len(a.text)
    BY <1>1, <1>3, <1>5, PointsOfType DEF Args
  <2>2. UpTo(a, k, j) \in Seq(Segments) /\ UpTo(a, k, j + 1) = UpTo(a, k, j) \o StrokeAt(a, k, j + 1)
    BY <1>1, <1>3, <1>5, <2>1, UpToFollows
  <2>3. Through(a, k - 1) \in Seq(Segments)
    BY <1>1, <2>1, ThroughFollows
  <2> QED BY <2>2, <2>3 DEF i
<1>8. (~pen_up) <=> Drawable(a, k, i)
  <2>1. pen_up <=> (j = 0 \/ PointsOf(a, k)[j] = PenUp)
    BY <1>2 DEF Penned
  <2>2. i > 1 <=> j # 0
    BY <1>5 DEF i
  <2> QED BY <1>4, <1>5, <2>1, <2>2 DEF Drawable
<1>9. /\ pen_up' = FALSE /\ (glyph_zero' <=> (glyph_zero /\ pen_up))
      /\ glyph_zero' \in BOOLEAN
      /\ strokes' = IF pen_up THEN strokes ELSE Append(strokes, e)
  BY DEF Point, joins
<1>10. /\ strokes \in Seq(Strokes) /\ glyph_zero \in BOOLEAN
       /\ Lines(strokes) = Through(a, k - 1) \o UpTo(a, k, j)
       /\ (glyph_zero <=> (zeroes(k - 1) /\ UpTo(a, k, j) = <<>>))
       /\ Zeroed(strokes) =
            Firsts(a, k - 1)
              \cup (IF zeroes(k - 1) /\ UpTo(a, k, j) # <<>> THEN {1 + Len(Through(a, k - 1))} ELSE {})
  BY <1>2 DEF Penned
<1>11. /\ strokes' \in Seq(Strokes) /\ Lines(strokes') = Through(a, k - 1) \o UpTo(a, k, i)
       /\ (glyph_zero' <=> (zeroes(k - 1) /\ UpTo(a, k, i) = <<>>))
       /\ Zeroed(strokes') =
            Firsts(a, k - 1)
              \cup (IF zeroes(k - 1) /\ UpTo(a, k, i) # <<>> THEN {1 + Len(Through(a, k - 1))} ELSE {})
  <2>1. CASE pen_up
    <3>1. StrokeAt(a, k, i) = <<>>
      BY <1>8, <2>1 DEF StrokeAt
    <3>2. UpTo(a, k, i) = UpTo(a, k, j)
      BY <1>7, <3>1
    <3>3. strokes' = strokes /\ (glyph_zero' <=> glyph_zero)
      BY <1>9, <2>1
    <3> QED BY <1>10, <3>2, <3>3
  <2>2. CASE ~pen_up
    <3> DEFINE g == Segment(a, k, i)
               u == UpTo(a, k, j)
               t == Through(a, k - 1)
    <3>1. StrokeAt(a, k, i) = <<g>>
      BY <1>8, <2>2 DEF StrokeAt
    <3>2. prevx = Spot(a, k, i - 1)
      BY <1>2, <1>5, <2>2 DEF Penned
    <3>3. e = [from |-> Spot(a, k, i - 1), to |-> Spot(a, k, i), zero |-> glyph_zero]
      BY <1>6, <3>2
    <3>4. g \in Segments
      <4>1. <<g>> \in Seq(Segments)
        BY <1>1, <1>3, <3>1, StrokeAtType
      <4>2. <<g>>[1] = g /\ 1 \in 1 .. Len(<<g>>)
        OBVIOUS
      <4> HIDE DEF g
      <4> QED BY <4>1, <4>2
    <3>5. [from |-> e.from, to |-> e.to] = g /\ e.zero = glyph_zero
      BY <3>3 DEF Segment
    <3>6. e \in Strokes
      <4>1. g.from \in Int /\ g.to \in Int
        BY <3>4 DEF Segments
      <4>2. g.from = Spot(a, k, i - 1) /\ g.to = Spot(a, k, i)
        BY DEF Segment
      <4> HIDE DEF g, e
      <4>3. Spot(a, k, i - 1) \in Int /\ Spot(a, k, i) \in Int
        BY <4>1, <4>2
      <4> QED BY <1>10, <3>3, <4>3 DEF Strokes
    <3>7. strokes' = Append(strokes, e)
      BY <1>9, <2>2
    <3> HIDE DEF e, g
    <3>8. /\ Append(strokes, e) \in Seq(Strokes)
          /\ Lines(Append(strokes, e)) = Lines(strokes) \o <<g>>
          /\ Zeroed(Append(strokes, e)) = Zeroed(strokes) \cup (IF glyph_zero THEN {Len(strokes) + 1} ELSE {})
      BY <1>10, <3>5, <3>6, DrawnOneMore
    <3>9. u \in Seq(Segments) /\ t \in Seq(Segments) /\ Lines(strokes) = t \o u /\ UpTo(a, k, i) = u \o <<g>>
      BY <1>7, <1>10, <3>1
    <3> HIDE DEF u, t
    <3>10. Lines(strokes) \o <<g>> = t \o (u \o <<g>>)
      BY <3>4, <3>9
    <3>11. u \o <<g>> # <<>>
      BY <3>4, <3>9
    <3>12. Len(strokes) = Len(t) + Len(u)
      <4>1. Len(Lines(strokes)) = Len(strokes)
        <5>1. DOMAIN Lines(strokes) = 1 .. Len(strokes) /\ Len(strokes) \in Nat
          BY <1>10 DEF Lines
        <5>2. t \o u \in Seq(Segments)
          BY <3>9
        <5>3. DOMAIN Lines(strokes) = 1 .. Len(Lines(strokes)) /\ Len(Lines(strokes)) \in Nat
          BY <3>9, <5>2
        <5> QED BY <5>1, <5>3
      <4>2. Len(t \o u) = Len(t) + Len(u)
        BY <3>9
      <4> QED BY <3>9, <4>1, <4>2
    <3>13. u = <<>> => Len(strokes) + 1 = 1 + Len(t)
      BY <3>9, <3>12
    <3>14. ~glyph_zero'
      BY <1>9, <2>2
    <3>15. Zeroed(strokes') =
             Firsts(a, k - 1) \cup (IF zeroes(k - 1) THEN {1 + Len(t)} ELSE {})
      <4>1. Zeroed(strokes') = Zeroed(strokes) \cup (IF glyph_zero THEN {Len(strokes) + 1} ELSE {})
        BY <3>7, <3>8
      <4>2. glyph_zero <=> (zeroes(k - 1) /\ u = <<>>)
        BY <1>10 DEF u
      <4>3. Zeroed(strokes) = Firsts(a, k - 1) \cup (IF zeroes(k - 1) /\ u # <<>> THEN {1 + Len(t)} ELSE {})
        BY <1>10 DEF u, t
      <4>4. CASE u = <<>>
        BY <3>13, <4>1, <4>2, <4>3, <4>4
      <4>5. CASE u # <<>>
        BY <4>1, <4>2, <4>3, <4>5
      <4> QED BY <4>4, <4>5
    <3> QED BY <3>7, <3>8, <3>9, <3>10, <3>11, <3>14, <3>15 DEF t
  <2>3. pen_up \in BOOLEAN
    BY <1>2 DEF Penned
  <2> QED BY <2>1, <2>2, <2>3
<1>12. Penned(k, i)'
  <2>1. ~(i = 0)
    BY <1>5
  <2> QED BY <1>4, <1>5, <1>6, <1>9, <1>11, <2>1 DEF Penned
<1> HIDE DEF e
<1> QED BY <1>1, <1>3, <1>5, <1>12 DEF FontInv

LEMMA FontInvNextGlyph ==
    ASSUME FontInv, NextGlyph
    PROVE  FontInv'
<1>1. arg \in Args
  BY DEF FontInv, NextGlyph
<1>2. PICK k, j \in Nat : Visited(k, j) /\ Penned(k, j)
  BY DEF FontInv, NextGlyph
<1> DEFINE a == arg
           n == Len(a.text)
           p == PointsOf(a, k)
<1>3. /\ a.text \in Seq(Nat) /\ n \in Nat /\ a.x \in Int /\ a.size \in Int
      /\ p \in Seq(Int \cup {PenUp})
  BY <1>1, PointsOfType DEF Args
<1>4. /\ k \in 1 .. n + 1 /\ s \in Seq(Nat) /\ Len(s) = n - k + 1
      /\ \A i \in 1 .. Len(s) : s[i] = a.text[k - 1 + i]
      /\ s # <<>> /\ s' = Tail(s) /\ glyph_idx = k /\ Enter(s', k)
      /\ mul' = a.size /\ strokes' = strokes /\ a' = a
  BY <1>2 DEF Visited, NextGlyph
<1>5. Len(s) >= 1 /\ k \in 1 .. n /\ k + 1 \in 1 .. n + 1 /\ k + 1 \in Nat /\ (k + 1) - 1 = k
  <2>1. Len(s) >= 1 /\ Len(s) = n - k + 1 /\ k \in 1 .. n + 1
    BY <1>4
  <2> HIDE DEF n
  <2> QED BY <1>3, <2>1
<1>6. j = Len(p)
  <2>1. Len(points) = Len(p) - j /\ points = <<>>
    BY <1>2 DEF Visited, NextGlyph
  <2>2. Len(points) = 0
    BY <2>1
  <2> HIDE DEF p
  <2> QED BY <1>3, <2>1, <2>2
<1>7. Head(s) = a.text[k]
  <2>1. Head(s) = s[1] /\ 1 \in 1 .. Len(s) /\ k - 1 + 1 = k
    BY <1>4, <1>5
  <2> QED BY <1>4, <2>1
<1>8. UpTo(a, k, j) = StrokesOf(a, k) /\ StrokesOf(a, k) \in Seq(Segments)
  BY <1>1, <1>5, <1>6, StrokesOfGlyph
<1>9. Through(a, k) = Through(a, k - 1) \o StrokesOf(a, k)
  BY <1>1, <1>5, ThroughFollows
<1> HIDE DEF p, n
<1>10. /\ s' \in Seq(Nat) /\ Len(s') = n - (k + 1) + 1
       /\ \A i \in 1 .. Len(s') : s'[i] = a.text[k + 1 - 1 + i]
  <2>0. s \in Seq(Nat) /\ s # <<>>
    BY <1>4
  <2>1. Tail(s) \in Seq(Nat) /\ Len(Tail(s)) = Len(s) - 1
    BY <2>0
  <2>2. ASSUME NEW i \in 1 .. Len(s) - 1 PROVE Tail(s)[i] = a.text[k + 1 - 1 + i]
    <3>1. i + 1 \in 1 .. Len(s) /\ k - 1 + (i + 1) = k + 1 - 1 + i
      BY <1>4, <1>5
    <3>2. Tail(s)[i] = s[i + 1]
      BY <1>4, <1>5
    <3> QED BY <1>4, <3>1, <3>2
  <2> QED BY <1>3, <1>4, <2>1, <2>2
<1>11. penx' = a.x + WidthBefore(a.text, k + 1) * a.size
  <2>1. penx = a.x + WidthBefore(a.text, k) * a.size /\ mul = a.size
    BY <1>2 DEF Visited
  <2>2. penx' = penx + glyph(a.text[k]).width * mul
    BY <1>7 DEF NextGlyph
  <2>3. /\ WidthBefore(a.text, k + 1) = WidthBefore(a.text, k) + glyph(a.text[k]).width
        /\ WidthBefore(a.text, k) \in Nat
    BY <1>3, <1>4, <1>5, WidthFollows DEF n
  <2>4. glyph(a.text[k]).width \in Nat
    BY GlyphType
  <2> DEFINE w == WidthBefore(a.text, k)
             d == glyph(a.text[k]).width
  <2>5. w \in Nat /\ d \in Nat
    BY <2>3, <2>4
  <2> HIDE DEF w, d
  <2>6. (a.x + w * a.size) + d * a.size = a.x + (w + d) * a.size
    BY <1>3, <2>5
  <2> QED BY <2>1, <2>2, <2>3, <2>6 DEF w, d
<1>12. /\ strokes' \in Seq(Strokes) /\ Lines(strokes') = Through(a, k)
       /\ Zeroed(strokes') = Firsts(a, k)
  <2>1. /\ strokes \in Seq(Strokes) /\ Lines(strokes) = Through(a, k - 1) \o StrokesOf(a, k)
        /\ Zeroed(strokes) =
            Firsts(a, k - 1)
              \cup (IF zeroes(k - 1) /\ StrokesOf(a, k) # <<>> THEN {1 + Len(Through(a, k - 1))} ELSE {})
    BY <1>2, <1>8 DEF Penned
  <2>2. Firsts(a, k) =
            Firsts(a, k - 1)
              \cup (IF zeroes(k - 1) /\ StrokesOf(a, k) # <<>> THEN {1 + Len(Through(a, k - 1))} ELSE {})
    <3>1. \A g : g \in 1 .. k <=> g \in 1 .. k - 1 \/ g = k
      BY <1>5
    <3> QED BY <3>1 DEF Firsts
  <2> QED BY <1>4, <1>9, <2>1, <2>2
<1>13. a' = a /\ mul' = a.size
  BY <1>4
<1> DEFINE i == k + 1
<1>14. i \in Nat /\ i \in 1 .. Len(a'.text) + 1 /\ a' \in Args
  BY <1>1, <1>5, <1>13 DEF n
<1>15. Enter(s', i - 1)
  BY <1>4, <1>5
<1>16. /\ s' \in Seq(Nat) /\ Len(s') = Len(a'.text) - i + 1
       /\ \A m \in 1 .. Len(s') : s'[m] = a'.text[i - 1 + m]
  BY <1>10, <1>13 DEF n
<1>17. /\ strokes' \in Seq(Strokes) /\ Lines(strokes') = Through(a', i - 1)
       /\ Zeroed(strokes') = Firsts(a', i - 1)
  BY <1>5, <1>12, <1>13
<1>18. penx' = a'.x + WidthBefore(a'.text, i) * a'.size /\ mul' = a'.size
  BY <1>11, <1>13
<1> HIDE DEF i
<1> QED BY <1>14, <1>15, <1>16, <1>17, <1>18, Entered

LEMMA FontInvNext == TextInv /\ FontInv /\ [SplashNext]_splash_vars => FontInv'
<1> SUFFICES ASSUME TextInv, FontInv, [SplashNext]_splash_vars PROVE FontInv'
  OBVIOUS
<1>1. CASE DrawFixed
  <2>1. PICK str \in Strings, x \in Pens, size \in Sizes : vt_draw_string(str, x, size)
    BY <1>1 DEF DrawFixed
  <2>2. str \in Seq(Nat) /\ x \in Int /\ size \in Int
    BY SplashAssumption
  <2> QED BY <2>1, <2>2, FontInvStart
<1>2. CASE DrawLine
  <2>1. PICK x \in Pens, size \in Sizes : vt_draw_string(line, x, size)
    BY <1>2 DEF DrawLine
  <2>2. line \in Seq(Nat) /\ x \in Int /\ size \in Int
    BY SplashAssumption DEF TextInv, TextType
  <2> QED BY <2>1, <2>2, FontInvStart
<1>3. CASE Stroke
  BY <1>3, FontInvLift, FontInvPoint, FontInvNextGlyph DEF Stroke, Loop
<1>4. CASE NextLine
  BY <1>4 DEF NextLine, Return, FontInv
<1>5. ASSUME UNCHANGED font_vars PROVE FontInv'
  <2>1. UNCHANGED <<s, penx, mul, points, glyph_idx, glyph_zero, pen_up, prevx, strokes, arg>>
    BY <1>5 DEF font_vars
  <2>2. CASE arg = None /\ s = <<>> /\ points = <<>>
    BY <2>1, <2>2 DEF FontInv
  <2>3. ASSUME arg \in Args, NEW k \in Nat, NEW j \in Nat, Visited(k, j), Penned(k, j)
        PROVE  FontInv'
    <3>1. Visited(k, j)'
      BY <2>1, <2>3 DEF Visited
    <3>2. Penned(k, j)'
      BY <2>1, <2>3 DEF Penned
    <3>3. arg' \in Args
      BY <2>1, <2>3
    <3> QED BY <3>1, <3>2, <3>3 DEF FontInv
  <2> QED BY <2>2, <2>3 DEF FontInv
<1> QED BY <1>1, <1>2, <1>3, <1>4, <1>5 DEF SplashNext, Compose, splash_vars

\* At any moment a text has the strokes of the glyphs and points visited so
\* far, with the zeroing of each where it belongs.
THEOREM FontInvariant == SplashSpec => []FontInv
<1>1. SplashInit => FontInv
  BY FontInvInit DEF SplashInit
<1> QED BY <1>1, FontInvNext, TextInductive, PTL DEF SplashSpec

LEMMA FinishedAll ==
    ASSUME FontInv, Finished
    PROVE  /\ arg \in Args /\ strokes \in Seq(Strokes)
           /\ Lines(strokes) = Through(arg, Len(arg.text))
           /\ Zeroed(strokes) = Firsts(arg, Len(arg.text))
<1>1. arg \in Args
  BY DEF FontInv, Finished
<1>2. PICK k, j \in Nat : Visited(k, j) /\ Penned(k, j)
  BY DEF FontInv, Finished
<1> DEFINE n == Len(arg.text)
<1>3. n \in Nat
  BY <1>1 DEF Args
<1>4. k \in 1 .. n + 1 /\ Len(s) = n - k + 1 /\ s = <<>> /\ j \in 0 .. Len(PointsOf(arg, k))
  BY <1>2 DEF Visited, Finished
<1>5. k = n + 1
  <2>1. Len(s) = 0
    BY <1>4
  <2> HIDE DEF n
  <2> QED BY <1>3, <1>4, <2>1
<1>6. k - 1 = n /\ ~(k \in 1 .. n)
  BY <1>3, <1>5
<1>7. PointsOf(arg, k) = <<>>
  BY <1>6 DEF PointsOf
<1>8. j = 0
  BY <1>4, <1>7
<1>9. UpTo(arg, k, j) = <<>>
  BY <1>8 DEF UpTo, FlattenSeq
<1>10. Through(arg, n) \in Seq(Segments)
  BY <1>1, <1>3, ThroughFollows
<1> HIDE DEF n
<1>11. /\ strokes \in Seq(Strokes) /\ Lines(strokes) = Through(arg, n) \o <<>>
       /\ Zeroed(strokes) = Firsts(arg, n)
  BY <1>2, <1>6, <1>9 DEF Penned
<1>12. Through(arg, n) \o <<>> = Through(arg, n)
  BY <1>10
<1> QED BY <1>1, <1>11, <1>12 DEF n

LEMMA InvAsWritten == FontInv => AsWritten
<1> SUFFICES ASSUME FontInv, Finished
             PROVE  Drawn = FlattenSeq([k \in DOMAIN arg.text |-> StrokesOf(arg, k)])
  BY DEF AsWritten
<1>1. DOMAIN arg.text = 1 .. Len(arg.text)
  BY FinishedAll DEF Args
<1> QED BY <1>1, FinishedAll DEF Drawn, Lines, Through

LEMMA InvZeroed == FontInv => ZeroedOncePerGlyph
<1> SUFFICES ASSUME FontInv, Finished
             PROVE  {i \in DOMAIN strokes : strokes[i].zero} =
                      {FirstStroke(k) : k \in {m \in DOMAIN arg.text :
                          StrokesOf(arg, m) # <<>> /\ ZERO_EVERY > 0 /\ (m - 1) % ZERO_EVERY = 0}}
  BY DEF ZeroedOncePerGlyph
<1>1. DOMAIN arg.text = 1 .. Len(arg.text) /\ Zeroed(strokes) = Firsts(arg, Len(arg.text))
  BY FinishedAll DEF Args
<1>2. \A k : FirstStroke(k) = 1 + Len(Through(arg, k - 1))
  BY DEF FirstStroke, Through
<1> QED BY <1>1, <1>2 DEF Zeroed, Firsts, zeroes

\* Every text, of any font and at any place and size, is drawn as its glyphs'
\* strokes in order: none is lost, and none joins what the pen was lifted between.
THEOREM TextsAreAsWritten == SplashSpec => []AsWritten
  BY FontInvariant, InvAsWritten, PTL

\* Every ZERO_EVERY-th glyph is zeroed at its first stroke and nowhere else, for
\* every font and ZERO_EVERY, none at all when it is zero.
THEOREM GlyphsAreZeroed == SplashSpec => []ZeroedOncePerGlyph
  BY FontInvariant, InvZeroed, PTL
=============================================================================
