---------------------------- MODULE UartRxProofs ----------------------------
(***************************************************************************)
(* Proofs about UartRx, for rings and FIFOs of every size: its types, that *)
(* the ring implements ByteQueue although the interrupt stores bytes       *)
(* between any two accesses of the main loop, and that bytes come out of   *)
(* the receive path in the order they arrived.                             *)
(***************************************************************************)
EXTENDS UartRx, SequenceTheorems, TLAPS

Count == Gap(rx_head, rx_tail)
Stored == 0 .. MAX_ARRIVALS
Buffers == [Indices -> Stored]

-----------------------------------------------------------------------------
(* Index arithmetic.                                                       *)

LEMMA GapType ==
    ASSUME NEW h \in Indices, NEW t \in Indices
    PROVE  /\ Gap(h, t) \in 0 .. RXBUF_SIZE - 1
           /\ Ahead(t, Gap(h, t)) = h
           /\ Gap(h, t) = 0 <=> h = t
  BY UartAssumption DEF Gap, Ahead, Indices

LEMMA FollowingGap ==
    ASSUME NEW h \in Indices, NEW t \in Indices
    PROVE  /\ Following(h) \in Indices
           /\ Following(h) = Ahead(h, 1)
           /\ Following(h) = t <=> Gap(h, t) = RXBUF_SIZE - 1
           /\ Following(h) # t => Gap(Following(h), t) = Gap(h, t) + 1
  BY UartAssumption DEF Gap, Following, Ahead, Indices

LEMMA AheadType ==
    ASSUME NEW t \in Indices, NEW j \in 0 .. RXBUF_SIZE - 1
    PROVE  Ahead(t, j) \in Indices
  BY UartAssumption DEF Ahead, Indices

LEMMA AheadApart ==
    ASSUME NEW t \in Indices, NEW j \in 0 .. RXBUF_SIZE - 1, NEW k \in 0 .. RXBUF_SIZE - 1,
           j # k
    PROVE  Ahead(t, j) # Ahead(t, k)
  BY UartAssumption DEF Ahead, Indices

LEMMA AheadTwice ==
    ASSUME NEW t \in Indices, NEW j \in Nat, NEW k \in Nat, j + k < RXBUF_SIZE
    PROVE  Ahead(Ahead(t, j), k) = Ahead(t, j + k)
  BY UartAssumption DEF Ahead, Indices

LEMMA GapShift ==
    ASSUME NEW h \in Indices, NEW t \in Indices, NEW d \in Nat, d <= Gap(h, t)
    PROVE  Gap(h, Ahead(t, d)) = Gap(h, t) - d
  BY UartAssumption DEF Gap, Ahead, Indices

-----------------------------------------------------------------------------
(* Windows of the ring.                                                    *)

LEMMA WindowType ==
    ASSUME NEW buf \in Buffers, NEW t \in Indices, NEW n \in 0 .. RXBUF_SIZE - 1
    PROVE  /\ Window(buf, t, n) \in Seq(Stored)
           /\ Len(Window(buf, t, n)) = n
           /\ \A k \in 1 .. n : Window(buf, t, n)[k] = buf[Ahead(t, k - 1)]
<1>1. ASSUME NEW k \in 1 .. n
      PROVE  buf[Ahead(t, k - 1)] \in Stored
  <2>1. k - 1 \in 0 .. RXBUF_SIZE - 1
    BY UartAssumption
  <2>2. Ahead(t, k - 1) \in Indices
    BY <2>1, AheadType
  <2> QED
    BY <2>2 DEF Buffers
<1>2. Window(buf, t, n) \in [1 .. n -> Stored]
  BY <1>1 DEF Window
<1>3. n \in Nat
  BY UartAssumption
<1> QED
  BY <1>2, <1>3 DEF Window

\* Storing behind the window appends to it.
LEMMA WindowStore ==
    ASSUME NEW buf \in Buffers, NEW t \in Indices, NEW n \in Nat, n < RXBUF_SIZE - 1,
           NEW b \in Stored
    PROVE  Window([buf EXCEPT ![Ahead(t, n)] = b], t, n + 1) = Append(Window(buf, t, n), b)
<1> DEFINE new == [buf EXCEPT ![Ahead(t, n)] = b]
           m == n + 1
           w == Window(buf, t, n)
           v == Window(new, t, m)
<1>1. n \in 0 .. RXBUF_SIZE - 1 /\ m \in 0 .. RXBUF_SIZE - 1
  BY UartAssumption
<1>2. Ahead(t, n) \in Indices
  BY <1>1, AheadType
<1>3. /\ new \in Buffers /\ new[Ahead(t, n)] = b
      /\ \A i \in Indices : i # Ahead(t, n) => new[i] = buf[i]
  BY <1>2 DEF Buffers
<1> HIDE DEF new, m
<1>4. /\ v \in Seq(Stored) /\ Len(v) = m
      /\ \A k \in 1 .. m : v[k] = new[Ahead(t, k - 1)]
  BY <1>1, <1>3, WindowType
<1>5. /\ w \in Seq(Stored) /\ Len(w) = n
      /\ \A k \in 1 .. n : w[k] = buf[Ahead(t, k - 1)]
  BY <1>1, WindowType
<1> HIDE DEF v, w
<1> DEFINE u == Append(w, b)
<1>6. u \in Seq(Stored) /\ Len(u) = m /\ u[m] = b /\ \A k \in 1 .. n : u[k] = w[k]
  BY <1>5 DEF m
<1> HIDE DEF u
<1>7. ASSUME NEW k \in 1 .. Len(v) PROVE v[k] = u[k]
  <2>1. CASE k = m
    <3>1. k - 1 = n /\ k \in 1 .. m
      BY <1>4, <2>1 DEF m
    <3>2. v[k] = new[Ahead(t, n)]
      BY <1>4, <3>1
    <3>3. v[k] = b
      BY <1>3, <3>2
    <3>4. u[k] = b
      BY <1>6, <2>1
    <3> QED
      BY <3>3, <3>4
  <2>2. CASE k # m
    <3>1. k \in 1 .. n /\ k \in 1 .. m
      BY <1>4, <2>2 DEF m
    <3>2. k - 1 \in 0 .. RXBUF_SIZE - 1 /\ k - 1 # n
      BY <3>1, UartAssumption
    <3>3. Ahead(t, k - 1) \in Indices /\ Ahead(t, k - 1) # Ahead(t, n)
      BY <1>1, <3>2, AheadType, AheadApart
    <3> QED
      BY <1>3, <1>4, <1>5, <1>6, <3>1, <3>3
  <2> QED
    BY <2>1, <2>2
<1>8. v = u
  BY <1>4, <1>6, <1>7, SeqEqual
<1> QED
  BY <1>8 DEF v, u, w, m, new

\* A sequence without its first d elements.
LEMMA Suffix ==
    ASSUME NEW S, NEW w \in Seq(S), NEW d \in 0 .. Len(w)
    PROVE  /\ SubSeq(w, d + 1, Len(w)) \in Seq(S)
           /\ Len(SubSeq(w, d + 1, Len(w))) = Len(w) - d
           /\ \A k \in 1 .. Len(w) - d : SubSeq(w, d + 1, Len(w))[k] = w[d + k]
<1>1. PICK n \in Nat : n = Len(w)
  BY LenProperties
<1>2. PICK m \in Nat : m = d + 1
  BY <1>1
<1>3. m \in Int /\ n \in Int /\ \A k \in m .. n : w[k] \in S
  <2>1. \A k \in m .. n : k \in 1 .. n
    BY <1>1, <1>2
  <2> QED
    BY <1>1, <2>1, ElementOfSeq
<1>4. /\ SubSeq(w, m, n) \in Seq(S)
      /\ Len(SubSeq(w, m, n)) = IF m <= n THEN n - m + 1 ELSE 0
      /\ \A i \in 1 .. n - m + 1 : SubSeq(w, m, n)[i] = w[m + i - 1]
  BY <1>3, SubSeqProperties
<1>5. n - m + 1 = n - d /\ (IF m <= n THEN n - m + 1 ELSE 0) = n - d
  BY <1>1, <1>2
<1>6. \A k \in 1 .. n - d : m + k - 1 = d + k
  BY <1>1, <1>2
<1> QED
  BY <1>1, <1>2, <1>4, <1>5, <1>6

\* Moving the start of a window drops what it moved over.
LEMMA WindowDrop ==
    ASSUME NEW buf \in Buffers, NEW t \in Indices, NEW n \in 0 .. RXBUF_SIZE - 1,
           NEW d \in 0 .. n
    PROVE  Window(buf, Ahead(t, d), n - d) = SubSeq(Window(buf, t, n), d + 1, n)
<1> DEFINE w == Window(buf, t, n)
           v == Window(buf, Ahead(t, d), n - d)
           u == SubSeq(w, d + 1, n)
<1>1. d \in 0 .. RXBUF_SIZE - 1 /\ n - d \in 0 .. RXBUF_SIZE - 1
  BY UartAssumption
<1>2. Ahead(t, d) \in Indices
  BY <1>1, AheadType
<1>3. /\ w \in Seq(Stored) /\ Len(w) = n
      /\ \A k \in 1 .. n : w[k] = buf[Ahead(t, k - 1)]
  BY WindowType
<1>4. /\ v \in Seq(Stored) /\ Len(v) = n - d
      /\ \A k \in 1 .. n - d : v[k] = buf[Ahead(Ahead(t, d), k - 1)]
  BY <1>1, <1>2, WindowType
<1> HIDE DEF w, v
<1>6. /\ u \in Seq(Stored) /\ Len(u) = n - d
      /\ \A k \in 1 .. n - d : u[k] = w[d + k]
  BY <1>3, Suffix
<1> HIDE DEF u
<1>7. ASSUME NEW k \in 1 .. Len(v) PROVE v[k] = u[k]
  <2>1. k \in 1 .. n - d /\ d + k \in 1 .. n
    BY <1>1, <1>4
  <2>2. Ahead(Ahead(t, d), k - 1) = Ahead(t, d + (k - 1))
    <3>1. d \in Nat /\ k - 1 \in Nat /\ d + (k - 1) < RXBUF_SIZE
      BY <2>1, UartAssumption
    <3> QED
      BY <3>1, AheadTwice
  <2>3. d + (k - 1) = (d + k) - 1
    BY <1>1, <2>1
  <2>4. v[k] = buf[Ahead(t, (d + k) - 1)]
    BY <1>4, <2>1, <2>2, <2>3
  <2>5. w[d + k] = buf[Ahead(t, (d + k) - 1)]
    BY <1>3, <2>1
  <2>6. u[k] = w[d + k]
    BY <1>6, <2>1
  <2> QED
    BY <2>4, <2>5, <2>6
<1>8. v = u
  BY <1>4, <1>6, <1>7, SeqEqual
<1> QED
  BY <1>8 DEF v, u, w

-----------------------------------------------------------------------------
(* The invariant.                                                          *)

\* What the main loop knows between two accesses stays true although the
\* handler moves the head: the byte it is about to take is still there, and
\* what it is about to throw away is still the oldest.
InHand ==
    /\ pc \in {"get_byte", "get_tail"} => rx_head # rx_tail
    /\ pc = "get_tail" => reg = rxbuf[rx_tail]
    /\ pc = "flush_tail" => reg \in Indices /\ Gap(reg, rx_tail) <= Count
    /\ Storing => reg \in Data

IInv == TypeOK /\ InHand

\* A stored byte goes to the end of the queue, unless it is full.
LEMMA StoreStep ==
    ASSUME TypeOK, NEW b \in Data, Store(b)
    PROVE  /\ rxbuf' \in Buffers /\ rx_head' \in Indices /\ rx_tail' = rx_tail
           /\ rx_drops' \in Nat /\ got' = got /\ arrived' = arrived
           /\ Gap(rx_head', rx_tail) >= Count
           /\ rx_head # rx_tail => /\ rx_head' # rx_tail
                                   /\ rxbuf'[rx_tail] = rxbuf[rx_tail]
           /\ IF Count = RXBUF_SIZE - 1
              THEN UNCHANGED <<rxbuf, rx_head>> /\ rx_drops' = rx_drops + 1
              ELSE /\ Content' = Append(Content, b)
                   /\ UNCHANGED rx_drops
<1>1. /\ rxbuf \in Buffers /\ rx_head \in Indices /\ rx_tail \in Indices
      /\ rx_drops \in Nat /\ b \in Stored
  BY DEF TypeOK, Buffers, Stored, Data
<1>2. rx_tail' = rx_tail /\ got' = got /\ arrived' = arrived
  BY DEF Store
<1>3. Count \in 0 .. RXBUF_SIZE - 1 /\ Ahead(rx_tail, Count) = rx_head
  BY <1>1, GapType DEF Count
<1>4. Full <=> Count = RXBUF_SIZE - 1
  BY <1>1, FollowingGap DEF Full, Count
<1>5. CASE Full
  <2>1. UNCHANGED <<rxbuf, rx_head>> /\ rx_drops' = rx_drops + 1
    BY <1>5 DEF Store
  <2>2. Gap(rx_head', rx_tail) >= Count
    <3>1. Gap(rx_head', rx_tail) = Count
      BY <2>1 DEF Count
    <3> QED
      BY <1>3, <3>1, UartAssumption
  <2> QED
    BY <1>1, <1>2, <1>4, <1>5, <2>1, <2>2
<1>6. CASE ~Full
  <2>1. /\ rxbuf' = [rxbuf EXCEPT ![rx_head] = b]
        /\ rx_head' = Following(rx_head)
        /\ UNCHANGED rx_drops
    BY <1>6 DEF Store
  <2>2. rxbuf' \in Buffers
    BY <1>1, <2>1 DEF Buffers
  <2>3. rx_head' \in Indices /\ Gap(rx_head', rx_tail) = Count + 1 /\ rx_head' # rx_tail
    BY <1>1, <1>6, <2>1, FollowingGap DEF Full, Count
  <2>4. Count \in Nat /\ Count < RXBUF_SIZE - 1 /\ Count + 1 >= Count
    BY <1>3, <1>4, <1>6, UartAssumption
  <2>5. rx_head # rx_tail => rxbuf'[rx_tail] = rxbuf[rx_tail]
    BY <1>1, <2>1 DEF Buffers
  <2>6. Content' = Append(Content, b)
    <3>1. Content' = Window(rxbuf', rx_tail, Count + 1)
      BY <1>2, <2>3 DEF Content
    <3>2. Content = Window(rxbuf, rx_tail, Count)
      BY DEF Content, Count
    <3>3. rxbuf' = [rxbuf EXCEPT ![Ahead(rx_tail, Count)] = b]
      BY <1>3, <2>1
    <3> HIDE DEF Count, Content
    <3>4. Window([rxbuf EXCEPT ![Ahead(rx_tail, Count)] = b], rx_tail, Count + 1)
            = Append(Window(rxbuf, rx_tail, Count), b)
      BY <1>1, <2>4, WindowStore
    <3> QED
      BY <3>1, <3>2, <3>3, <3>4
  <2> QED
    BY <1>1, <1>2, <1>4, <1>6, <2>1, <2>2, <2>3, <2>4, <2>5, <2>6
<1> QED
  BY <1>5, <1>6

LEMMA FifoTake ==
    ASSUME TypeOK, fifo # <<>>
    PROVE  Head(fifo) \in Data /\ Tail(fifo) \in Seq(Data) /\ Len(Tail(fifo)) <= FIFO_DEPTH
<1>1. fifo \in Seq(Data) /\ Len(fifo) <= FIFO_DEPTH
  BY DEF TypeOK
<1>2. /\ Head(fifo) \in Data /\ Tail(fifo) \in Seq(Data)
      /\ Len(Tail(fifo)) = Len(fifo) - 1 /\ Len(fifo) \in Nat
  BY <1>1, HeadTailProperties, LenProperties
<1> QED
  BY <1>1, <1>2, UartAssumption

LEMMA InitInv == Init => IInv
<1> SUFFICES ASSUME Init PROVE IInv
  OBVIOUS
<1>1. <<>> \in Seq(Data) /\ Len(<<>>) = 0
  BY EmptySeq
<1>2. TypeOK
  BY <1>1, UartAssumption DEF Init, TypeOK, Indices
<1>3. InHand
  BY DEF Init, InHand, Storing
<1> QED
  BY <1>2, <1>3 DEF IInv

LEMMA StepInv == IInv /\ [Next]_vars => IInv'
<1> SUFFICES ASSUME IInv, [Next]_vars PROVE IInv'
  OBVIOUS
<1> USE DEF IInv
<1>t. /\ rxbuf \in Buffers /\ rx_head \in Indices /\ rx_tail \in Indices
      /\ Count \in 0 .. RXBUF_SIZE - 1
  BY GapType DEF TypeOK, Buffers, Stored, Count
<1>1. CASE Arrive
  <2>1. fifo' \in Seq(Data) /\ Len(fifo') <= FIFO_DEPTH
    <3>1. fifo \in Seq(Data) /\ arrived + 1 \in Data
      BY <1>1, UartAssumption DEF Arrive, TypeOK, Data
    <3>2. /\ Append(fifo, arrived + 1) \in Seq(Data)
          /\ Len(Append(fifo, arrived + 1)) = Len(fifo) + 1 /\ Len(fifo) \in Nat
      BY <3>1, AppendProperties, LenProperties
    <3> QED
      BY <1>1, <3>2, UartAssumption DEF Arrive, TypeOK
  <2>2. TypeOK'
    BY <1>1, <2>1, UartAssumption DEF Arrive, TypeOK, ring
  <2>3. InHand'
    BY <1>1 DEF Arrive, InHand, Storing, ring, Count
  <2> QED
    BY <2>2, <2>3
<1>2. CASE Interrupt
  <2> DEFINE b == Head(fifo)
  <2>1. b \in Data /\ fifo' \in Seq(Data) /\ Len(fifo') <= FIFO_DEPTH
    BY <1>2, FifoTake DEF Interrupt
  <2>2. Store(b) /\ pc' = pc /\ reg' = reg
    BY <1>2 DEF Interrupt
  <2> HIDE DEF b
  <2>3. /\ rxbuf' \in Buffers /\ rx_head' \in Indices /\ rx_tail' = rx_tail
        /\ rx_drops' \in Nat /\ got' = got /\ arrived' = arrived
        /\ Gap(rx_head', rx_tail) >= Count
        /\ rx_head # rx_tail => /\ rx_head' # rx_tail
                                /\ rxbuf'[rx_tail] = rxbuf[rx_tail]
        /\ IF Count = RXBUF_SIZE - 1
           THEN UNCHANGED <<rxbuf, rx_head>> /\ rx_drops' = rx_drops + 1
           ELSE Content' = Append(Content, b) /\ UNCHANGED rx_drops
    BY <2>1, <2>2, StoreStep
  <2>4. TypeOK'
    BY <2>1, <2>2, <2>3 DEF TypeOK, Buffers, Stored
  <2>5. pc' = "flush_tail" => reg' \in Indices /\ Gap(reg', rx_tail') <= Count'
    <3> SUFFICES ASSUME pc = "flush_tail"
                 PROVE  reg \in Indices /\ Gap(reg, rx_tail) <= Gap(rx_head', rx_tail)
      BY <2>2, <2>3 DEF Count
    <3>1. reg \in Indices /\ Gap(reg, rx_tail) <= Count
      BY DEF InHand
    <3>2. /\ Gap(reg, rx_tail) \in 0 .. RXBUF_SIZE - 1
          /\ Gap(rx_head', rx_tail) \in 0 .. RXBUF_SIZE - 1
      BY <1>t, <2>3, <3>1, GapType
    <3> QED
      BY <1>t, <2>3, <3>1, <3>2, UartAssumption
  <2>6. InHand'
    BY <1>2, <2>2, <2>3, <2>5 DEF InHand, Interrupt, Masked, Storing
  <2> QED
    BY <2>4, <2>6
<1>3. CASE Call
  BY <1>3 DEF Call, TypeOK, InHand, Storing, ring
<1>4. CASE DrainTake
  <2>1. reg' \in Data /\ fifo' \in Seq(Data) /\ Len(fifo') <= FIFO_DEPTH
    BY <1>4, FifoTake DEF DrainTake
  <2>2. reg' \in Nat
    BY <2>1 DEF Data
  <2>3. TypeOK'
    BY <1>4, <2>1, <2>2 DEF DrainTake, TypeOK, ring
  <2>4. InHand'
    BY <1>4, <2>1 DEF DrainTake, InHand, Storing
  <2> QED
    BY <2>3, <2>4
<1>5. CASE DrainStore
  <2>1. reg \in Data /\ Store(reg)
    BY <1>5 DEF DrainStore, InHand
  <2>2. /\ rxbuf' \in Buffers /\ rx_head' \in Indices /\ rx_tail' = rx_tail
        /\ rx_drops' \in Nat /\ got' = got /\ arrived' = arrived
    BY <2>1, StoreStep
  <2>3. pc' \in {"poll", "flush"} /\ fifo' = fifo /\ reg' = reg
    BY <1>5 DEF DrainStore
  <2>4. TypeOK'
    BY <2>2, <2>3 DEF TypeOK, Buffers, Stored
  <2>5. InHand'
    BY <2>3 DEF InHand, Storing
  <2> QED
    BY <2>4, <2>5
<1>6. CASE Drained
  BY <1>6 DEF Drained, TypeOK, InHand, Storing, ring
<1>7. CASE FlushHead
  <2>1. reg' = rx_head /\ pc' = "flush_tail" /\ UNCHANGED <<ring, fifo, got, arrived>>
    BY <1>7 DEF FlushHead
  <2>2. TypeOK'
    BY <1>t, <2>1 DEF TypeOK, ring, Indices
  <2>3. Gap(reg', rx_tail') <= Count'
    <3>1. Gap(reg', rx_tail') = Count /\ Count' = Count
      BY <2>1 DEF ring, Count
    <3> QED
      BY <1>t, <3>1, UartAssumption
  <2>4. InHand'
    BY <1>t, <2>1, <2>3 DEF InHand, Storing
  <2> QED
    BY <2>2, <2>4
<1>8. CASE FlushTail
  <2>1. reg \in Indices
    BY <1>8 DEF FlushTail, InHand
  <2>2. TypeOK'
    BY <1>8, <2>1 DEF FlushTail, TypeOK
  <2>3. InHand'
    BY <1>8 DEF FlushTail, InHand, Storing
  <2> QED
    BY <2>2, <2>3
<1>9. CASE Get
  BY <1>9 DEF Get, TypeOK, InHand, Storing, ring
<1>10. CASE GetByte
  <2>1. rxbuf[rx_tail] \in Nat
    BY <1>t, UartAssumption DEF Buffers, Stored
  <2>2. TypeOK'
    BY <1>10, <2>1 DEF GetByte, TypeOK, ring
  <2>3. InHand'
    BY <1>10 DEF GetByte, InHand, Storing, ring
  <2> QED
    BY <2>2, <2>3
<1>11. CASE GetTail
  <2>1. Following(rx_tail) \in Indices
    BY <1>t, FollowingGap
  <2>2. reg \in Stored
    BY <1>t, <1>11 DEF GetTail, InHand, Buffers
  <2>3. TypeOK'
    BY <1>11, <2>1, <2>2 DEF GetTail, TypeOK, Stored
  <2>4. InHand'
    BY <1>11 DEF GetTail, InHand, Storing
  <2> QED
    BY <2>3, <2>4
<1>12. CASE Restart
  <2>1. <<>> \in Seq(Data) /\ Len(<<>>) = 0
    BY EmptySeq
  <2>2. TypeOK'
    BY <1>12, <2>1, UartAssumption DEF Restart, TypeOK, Indices
  <2>3. InHand'
    BY <1>12 DEF Restart, InHand, Storing
  <2> QED
    BY <2>2, <2>3
<1>13. CASE UNCHANGED vars
  <2>1. TypeOK'
    BY <1>13 DEF vars, ring, TypeOK
  <2>2. InHand'
    BY <1>13 DEF vars, ring, InHand, Storing, Count
  <2> QED
    BY <2>1, <2>2
<1> QED
  BY <1>1, <1>2, <1>3, <1>4, <1>5, <1>6, <1>7, <1>8, <1>9, <1>10, <1>11, <1>12, <1>13
  DEF Next

LEMMA AlwaysInv == Spec => []IInv
  BY InitInv, StepInv, PTL DEF Spec

\* The ring's indices stay in the ring and the FIFO in its depth, and what the
\* main loop carries from one access to the next is a byte or an index.
THEOREM UartTypes == Spec => []TypeOK
<1>1. IInv => TypeOK
  BY DEF IInv
<1> QED
  BY <1>1, AlwaysInv, PTL

-----------------------------------------------------------------------------
(* The ring implements the queue.                                          *)

LEMMA ContentType ==
    ASSUME TypeOK
    PROVE  /\ Content \in Seq(Stored) /\ Len(Content) = Count
           /\ Count \in 0 .. RXBUF_SIZE - 1
           /\ Content = <<>> <=> rx_head = rx_tail
<1>1. rxbuf \in Buffers /\ rx_head \in Indices /\ rx_tail \in Indices
  BY DEF TypeOK, Buffers, Stored
<1>2. Count \in 0 .. RXBUF_SIZE - 1 /\ (Count = 0 <=> rx_head = rx_tail)
  BY <1>1, GapType DEF Count
<1>3. Content = Window(rxbuf, rx_tail, Count)
  BY DEF Content, Count
<1> HIDE DEF Content, Count
<1>4. Content \in Seq(Stored) /\ Len(Content) = Count
  BY <1>1, <1>2, <1>3, WindowType
<1>5. Content = <<>> <=> Len(Content) = 0
  BY <1>4, EmptySeq
<1> QED
  BY <1>2, <1>4, <1>5

\* Storing a byte puts it in the queue, or refuses it because it is full.
LEMMA StorePuts ==
    ASSUME TypeOK, NEW b \in Data, Store(b)
    PROVE  Queue!Put \/ Queue!Refuse
<1>1. /\ got' = got
      /\ IF Count = RXBUF_SIZE - 1
         THEN UNCHANGED <<rxbuf, rx_head>> /\ rx_drops' = rx_drops + 1
         ELSE Content' = Append(Content, b) /\ UNCHANGED rx_drops
      /\ rx_tail' = rx_tail
  BY StoreStep
<1>2. Len(Content) = Count /\ Count \in 0 .. RXBUF_SIZE - 1
  BY ContentType
<1>3. CASE Count = RXBUF_SIZE - 1
  <2>1. Content' = Content
    BY <1>1, <1>3 DEF Content
  <2> QED
    BY <1>1, <1>2, <1>3, <2>1 DEF Queue!Refuse
<1>4. CASE Count # RXBUF_SIZE - 1
  <2>1. Len(Content) < RXBUF_SIZE - 1
    BY <1>2, <1>4, UartAssumption
  <2>2. Content' = Append(Content, b) /\ UNCHANGED <<got, rx_drops>>
    BY <1>1, <1>4
  <2> QED
    BY <2>1, <2>2 DEF Queue!Put
<1> QED
  BY <1>3, <1>4

\* Moving the tail on by d drops the d oldest bytes.
LEMMA TailMoves ==
    ASSUME TypeOK, NEW d \in 0 .. Count,
           UNCHANGED <<rxbuf, rx_head>>, rx_tail' = Ahead(rx_tail, d)
    PROVE  Content' = SubSeq(Content, d + 1, Len(Content))
<1>1. rxbuf \in Buffers /\ rx_head \in Indices /\ rx_tail \in Indices
  BY DEF TypeOK, Buffers, Stored
<1>2. Len(Content) = Count /\ Count \in 0 .. RXBUF_SIZE - 1
  BY ContentType
<1>3. d \in Nat /\ d <= Gap(rx_head, rx_tail)
  BY <1>2, UartAssumption DEF Count
<1>4. Gap(rx_head', rx_tail') = Count - d
  BY <1>1, <1>3, GapShift DEF Count
<1>5. Content' = Window(rxbuf, Ahead(rx_tail, d), Count - d)
  BY <1>4 DEF Content
<1>6. Content = Window(rxbuf, rx_tail, Count)
  BY DEF Content, Count
<1> HIDE DEF Content, Count
<1>7. Window(rxbuf, Ahead(rx_tail, d), Count - d)
        = SubSeq(Window(rxbuf, rx_tail, Count), d + 1, Count)
  BY <1>1, <1>2, WindowDrop
<1> QED
  BY <1>2, <1>5, <1>6, <1>7

LEMMA QueueInitially == Init => Queue!QueueInit
<1> SUFFICES ASSUME Init PROVE Queue!QueueInit
  OBVIOUS
<1>1. TypeOK
  BY InitInv DEF IInv
<1>2. rx_head = rx_tail /\ got = 0 /\ rx_drops = 0
  BY DEF Init
<1>3. Content = <<>>
  BY <1>1, <1>2, ContentType
<1> QED
  BY <1>2, <1>3 DEF Queue!QueueInit

\* The flush drops the oldest bytes.
LEMMA FlushDrops ==
    ASSUME TypeOK, InHand, FlushTail
    PROVE  /\ \E d \in 0 .. Len(Content) : Content' = SubSeq(Content, d + 1, Len(Content))
           /\ UNCHANGED <<rx_drops, got>>
<1>r. rxbuf \in Buffers /\ rx_head \in Indices /\ rx_tail \in Indices
  BY DEF TypeOK, Buffers, Stored
<1>c. Content \in Seq(Stored) /\ Len(Content) = Count /\ Count \in 0 .. RXBUF_SIZE - 1
  BY ContentType
<1> DEFINE d == Gap(reg, rx_tail)
<1>1. reg \in Indices /\ d <= Count
  BY DEF FlushTail, InHand
<1>2. d \in 0 .. RXBUF_SIZE - 1 /\ Ahead(rx_tail, d) = reg
  BY <1>r, <1>1, GapType
<1>3. d \in 0 .. Count
  BY <1>c, <1>1, <1>2, UartAssumption
<1>4. /\ UNCHANGED <<rxbuf, rx_head, rx_drops, got>>
      /\ rx_tail' = Ahead(rx_tail, d)
  BY <1>2 DEF FlushTail
<1> HIDE DEF d
<1>5. Content' = SubSeq(Content, d + 1, Len(Content))
  BY <1>3, <1>4, TailMoves
<1>6. d \in 0 .. Len(Content)
  BY <1>c, <1>3
<1> QED
  BY <1>4, <1>5, <1>6

\* uart_rx_get hands out the oldest byte.
LEMMA GetTakes ==
    ASSUME TypeOK, InHand, GetTail
    PROVE  /\ Content # <<>> /\ Content' = Tail(Content) /\ got' = Head(Content)
           /\ UNCHANGED rx_drops
<1>r. rxbuf \in Buffers /\ rx_head \in Indices /\ rx_tail \in Indices
  BY DEF TypeOK, Buffers, Stored
<1>c. Content \in Seq(Stored) /\ Len(Content) = Count /\ Count \in 0 .. RXBUF_SIZE - 1
  BY ContentType
<1>1. rx_head # rx_tail /\ reg = rxbuf[rx_tail]
  BY DEF GetTail, InHand
<1>2. Count # 0
  BY <1>r, <1>1, GapType DEF Count
<1>3. Following(rx_tail) = Ahead(rx_tail, 1)
  BY <1>r, FollowingGap
<1>4. /\ UNCHANGED <<rxbuf, rx_head, rx_drops>>
      /\ rx_tail' = Ahead(rx_tail, 1) /\ got' = reg
  BY <1>3 DEF GetTail
<1>5. 1 \in 0 .. Count /\ 1 \in 1 .. Count
  BY <1>c, <1>2, UartAssumption
<1>6. Content' = SubSeq(Content, 1 + 1, Len(Content))
  BY <1>4, <1>5, TailMoves
<1>7. Content # <<>>
  BY <1>1, ContentType
<1>8. Tail(Content) = SubSeq(Content, 2, Len(Content))
  BY <1>c, <1>7, TailIsSubSeq
<1>9. Head(Content) = rxbuf[rx_tail]
  <2>1. Content[1] = rxbuf[Ahead(rx_tail, 0)]
    BY <1>r, <1>c, <1>5, WindowType DEF Content, Count
  <2>2. Ahead(rx_tail, 0) = rx_tail
    BY <1>r, UartAssumption DEF Ahead, Indices
  <2> QED
    BY <1>c, <1>7, <2>1, <2>2, HeadTailProperties
<1> QED
  BY <1>1, <1>4, <1>6, <1>7, <1>8, <1>9

\* A restart empties the queue.
LEMMA RestartEmpties ==
    ASSUME TypeOK, Restart
    PROVE  Content' = <<>> /\ rx_drops' = 0 /\ got' = got
<1>r. rxbuf \in Buffers /\ rx_head \in Indices /\ rx_tail \in Indices
  BY DEF TypeOK, Buffers, Stored
<1>c. Content \in Seq(Stored) /\ Len(Content) = Count /\ Count \in 0 .. RXBUF_SIZE - 1
  BY ContentType
<1>1. /\ rx_head' = 0 /\ rx_tail' = 0 /\ rx_drops' = 0
      /\ UNCHANGED <<rxbuf, got>> /\ 0 \in Indices
  BY UartAssumption DEF Restart, Indices
<1>2. Gap(0, 0) = 0 /\ 0 \in 0 .. RXBUF_SIZE - 1
  BY UartAssumption DEF Gap
<1>3. Content' = <<>>
  <2>1. Content' = Window(rxbuf, 0, 0)
    BY <1>1, <1>2 DEF Content
  <2>2. Window(rxbuf, 0, 0) \in Seq(Stored) /\ Len(Window(rxbuf, 0, 0)) = 0
    BY <1>r, <1>1, <1>2, WindowType
  <2> QED
    BY <2>1, <2>2, EmptySeq
<1> QED
  BY <1>1, <1>3

LEMMA QueueSteps == IInv /\ [Next]_vars => [Queue!QueueNext]_(Queue!queueVars)
<1> SUFFICES ASSUME IInv, [Next]_vars PROVE [Queue!QueueNext]_(Queue!queueVars)
  OBVIOUS
<1>t. TypeOK /\ InHand
  BY DEF IInv
<1>r. rxbuf \in Buffers /\ rx_head \in Indices /\ rx_tail \in Indices
  BY <1>t DEF TypeOK, Buffers, Stored
<1>c. Content \in Seq(Stored) /\ Len(Content) = Count /\ Count \in 0 .. RXBUF_SIZE - 1
  BY <1>t, ContentType
<1>1. CASE UNCHANGED <<ring, got>>
  BY <1>1 DEF Queue!queueVars, Content, ring
<1>2. CASE Interrupt
  <2>1. Head(fifo) \in Data /\ Store(Head(fifo))
    BY <1>t, <1>2, FifoTake DEF Interrupt
  <2> QED
    BY <1>t, <2>1, StorePuts DEF Queue!QueueNext
<1>3. CASE DrainStore
  <2>1. reg \in Data /\ Store(reg)
    BY <1>t, <1>3 DEF DrainStore, InHand
  <2> QED
    BY <1>t, <2>1, StorePuts DEF Queue!QueueNext
<1>4. CASE FlushTail
  <2>1. /\ \E d \in 0 .. Len(Content) : Content' = SubSeq(Content, d + 1, Len(Content))
        /\ UNCHANGED <<rx_drops, got>>
    BY <1>t, <1>4, FlushDrops
  <2> QED
    BY <2>1 DEF Queue!Discard, Queue!QueueNext
<1>5. CASE GetTail
  <2>1. Content # <<>> /\ Content' = Tail(Content) /\ got' = Head(Content)
        /\ UNCHANGED rx_drops
    BY <1>t, <1>5, GetTakes
  <2> QED
    BY <2>1 DEF Queue!Take, Queue!QueueNext
<1>6. CASE Restart
  <2>1. Content' = <<>> /\ rx_drops' = 0 /\ got' = got
    BY <1>t, <1>6, RestartEmpties
  <2> QED
    BY <2>1 DEF Queue!Restart, Queue!QueueNext
<1>7. CASE UNCHANGED vars
  BY <1>1, <1>7 DEF vars
<1>8. CASE Arrive \/ Call \/ DrainTake \/ Drained \/ FlushHead \/ Get \/ GetByte
  <2>1. UNCHANGED <<ring, got>>
    BY <1>8 DEF Arrive, Call, DrainTake, Drained, FlushHead, Get, GetByte
  <2> QED
    BY <1>1, <2>1
<1> QED
  BY <1>2, <1>3, <1>4, <1>5, <1>6, <1>7, <1>8 DEF Next

\* For every size of the ring and of the FIFO, with or without the interrupt,
\* the receive path is a queue of RXBUF_SIZE - 1 bytes that refuses a byte only
\* when it is full, hands the oldest out and throws only the oldest away.
THEOREM RingIsAQueue == Spec => IsAQueue
  BY AlwaysInv, QueueInitially, QueueSteps, PTL DEF Spec, IsAQueue, Queue!QueueSpec

-----------------------------------------------------------------------------
(* Order: what is under way is increasing, later than what the main loop   *)
(* got last and no later than what arrived last.                           *)

Rising(s) == \A i, j \in 1 .. Len(s) : i < j => s[i] < s[j]
Before(s, t) == \A i \in 1 .. Len(s), j \in 1 .. Len(t) : s[i] < t[j]
Above(s, low) == \A i \in 1 .. Len(s) : low < s[i]
Below(s, high) == \A i \in 1 .. Len(s) : s[i] < high

\* The first d of it are gone.
Less(u, s, d) == Len(u) = Len(s) - d /\ \A i \in 1 .. Len(u) : u[i] = s[d + i]

\* The order, place by place.
Ordered ==
    /\ Rising(Content) /\ Rising(fifo) /\ Before(Content, fifo)
    /\ Above(Content, got) /\ Above(fifo, got) /\ got <= arrived
    /\ Below(Content, arrived + 1) /\ Below(fifo, arrived + 1)
    /\ Storing => /\ Below(Content, reg) /\ Above(fifo, reg)
                  /\ got < reg /\ reg <= arrived

LEMMA Numbers ==
    ASSUME NEW s \in Seq(Nat)
    PROVE  Len(s) \in Nat /\ \A i \in 1 .. Len(s) : s[i] \in Nat
  BY LenProperties, ElementOfSeq

LEMMA Appended ==
    ASSUME NEW s \in Seq(Nat), NEW b \in Nat, NEW u, u = Append(s, b)
    PROVE  /\ Rising(s) /\ Below(s, b) => Rising(u)
           /\ \A low \in Nat : Above(s, low) /\ low < b => Above(u, low)
           /\ \A high \in Nat : Below(s, high) /\ b < high => Below(u, high)
           /\ \A t \in Seq(Nat) : Before(s, t) /\ Above(t, b) => Before(u, t)
           /\ \A t \in Seq(Nat) : Before(t, s) /\ Below(t, b) => Before(t, u)
<1>1. /\ Len(u) = Len(s) + 1 /\ Len(s) \in Nat
      /\ \A i \in 1 .. Len(s) : u[i] = s[i]
      /\ u[Len(s) + 1] = b
  BY AppendProperties, LenProperties
<1>2. \A i \in 1 .. Len(u) : i \in 1 .. Len(s) \/ i = Len(s) + 1
  BY <1>1
<1>3. ASSUME Rising(s), Below(s, b) PROVE Rising(u)
  BY <1>1, <1>2, <1>3 DEF Rising, Below
<1>4. \A low \in Nat : Above(s, low) /\ low < b => Above(u, low)
  BY <1>1, <1>2 DEF Above
<1>5. \A high \in Nat : Below(s, high) /\ b < high => Below(u, high)
  BY <1>1, <1>2 DEF Below
<1>6. \A t \in Seq(Nat) : Before(s, t) /\ Above(t, b) => Before(u, t)
  BY <1>1, <1>2 DEF Before, Above
<1>7. \A t \in Seq(Nat) : Before(t, s) /\ Below(t, b) => Before(t, u)
  BY <1>1, <1>2 DEF Before, Below
<1> QED
  BY <1>3, <1>4, <1>5, <1>6, <1>7

\* Without its first d elements an ordered sequence is still ordered.
LEMMA Shortened ==
    ASSUME NEW s \in Seq(Nat), NEW d \in 0 .. Len(s), NEW u \in Seq(Nat),
           Less(u, s, d)
    PROVE  /\ Rising(s) => Rising(u)
           /\ Rising(s) /\ d > 0 => Above(u, s[1])
           /\ \A low : Above(s, low) => Above(u, low)
           /\ \A high : Below(s, high) => Below(u, high)
           /\ \A t \in Seq(Nat) : Before(s, t) => Before(u, t)
           /\ \A t \in Seq(Nat) : Before(t, s) => Before(t, u)
<1>0. Len(u) = Len(s) - d /\ \A i \in 1 .. Len(u) : u[i] = s[d + i]
  BY DEF Less
<1>1. Len(s) \in Nat /\ Len(u) \in Nat /\ d \in Nat
  BY LenProperties
<1>2. \A i \in 1 .. Len(u) : d + i \in 1 .. Len(s)
  BY <1>0, <1>1
<1>3. Rising(s) => Rising(u)
  <2> SUFFICES ASSUME Rising(s), NEW i \in 1 .. Len(u), NEW j \in 1 .. Len(u), i < j
               PROVE  u[i] < u[j]
    BY DEF Rising
  <2>1. d + i \in 1 .. Len(s) /\ d + j \in 1 .. Len(s) /\ d + i < d + j
    BY <1>1, <1>2
  <2> QED
    BY <1>0, <2>1 DEF Rising
<1>4. Rising(s) /\ d > 0 => Above(u, s[1])
  <2> SUFFICES ASSUME Rising(s), d > 0, NEW i \in 1 .. Len(u)
               PROVE  s[1] < u[i]
    BY DEF Above
  <2>1. 1 \in 1 .. Len(s) /\ d + i \in 1 .. Len(s) /\ 1 < d + i
    BY <1>1, <1>2
  <2> QED
    BY <1>0, <2>1 DEF Rising
<1>5. \A low : Above(s, low) => Above(u, low)
  BY <1>0, <1>2 DEF Above
<1>6. \A high : Below(s, high) => Below(u, high)
  BY <1>0, <1>2 DEF Below
<1>7. \A t \in Seq(Nat) : Before(s, t) => Before(u, t)
  BY <1>0, <1>2 DEF Before
<1>8. \A t \in Seq(Nat) : Before(t, s) => Before(t, u)
  BY <1>0, <1>2 DEF Before
<1> QED
  BY <1>3, <1>4, <1>5, <1>6, <1>7, <1>8

LEMMA Taken ==
    ASSUME NEW s \in Seq(Nat), s # <<>>
    PROVE  /\ Tail(s) \in Seq(Nat) /\ Head(s) = s[1] /\ 1 \in 1 .. Len(s)
           /\ Rising(s) => Rising(Tail(s)) /\ Above(Tail(s), Head(s))
           /\ \A low : Above(s, low) => Above(Tail(s), low)
           /\ \A high : Below(s, high) => Below(Tail(s), high)
           /\ \A t \in Seq(Nat) : Before(s, t) => Before(Tail(s), t) /\ Above(t, Head(s))
           /\ \A t \in Seq(Nat) : Before(t, s) => Before(t, Tail(s)) /\ Below(t, Head(s))
<1>1. /\ Tail(s) \in Seq(Nat) /\ Len(Tail(s)) = Len(s) - 1 /\ Len(s) \in Nat /\ Len(s) # 0
      /\ \A i \in 1 .. Len(Tail(s)) : Tail(s)[i] = s[1 + i]
      /\ Head(s) = s[1]
  BY HeadTailProperties, LenProperties, EmptySeq
<1>2. 1 \in 0 .. Len(s) /\ 1 \in 1 .. Len(s) /\ 1 > 0
  BY <1>1
<1>3. PICK u \in Seq(Nat) : u = Tail(s)
  BY <1>1
<1>4. /\ Rising(s) => Rising(u) /\ Above(u, s[1])
      /\ \A low : Above(s, low) => Above(u, low)
      /\ \A high : Below(s, high) => Below(u, high)
      /\ \A t \in Seq(Nat) : Before(s, t) => Before(u, t)
      /\ \A t \in Seq(Nat) : Before(t, s) => Before(t, u)
  <2>1. Less(u, s, 1)
    BY <1>1, <1>3 DEF Less
  <2> QED
    BY <1>1, <1>2, <2>1, Shortened
<1>5. \A t \in Seq(Nat) : Before(s, t) => Above(t, s[1])
  BY <1>2 DEF Before, Above
<1>6. \A t \in Seq(Nat) : Before(t, s) => Below(t, s[1])
  BY <1>2 DEF Before, Below
<1> QED
  BY <1>1, <1>2, <1>3, <1>4, <1>5, <1>6

LEMMA ContentNumbers ==
    ASSUME TypeOK
    PROVE  /\ Content \in Seq(Nat) /\ fifo \in Seq(Nat)
           /\ got \in Nat /\ arrived \in Nat /\ reg \in Nat
<1>1. Content \in Seq(Stored) /\ fifo \in Seq(Data)
  BY ContentType DEF TypeOK
<1>2. Stored \subseteq Nat /\ Data \subseteq Nat
  BY UartAssumption DEF Stored, Data
<1> HIDE DEF Content
<1>3. Content \in Seq(Nat) /\ fifo \in Seq(Nat)
  BY <1>1, <1>2, SeqMonotonic
<1> QED
  BY <1>3, UartAssumption DEF TypeOK

\* The byte in hand goes behind the ring's, or is refused.
LEMMA StoreInOrder ==
    ASSUME TypeOK, NEW b \in Data, Store(b), NEW rest \in Seq(Nat), b <= arrived,
           Rising(Content), Above(Content, got), Below(Content, arrived + 1),
           Below(Content, b), Before(Content, rest), Above(rest, b), got < b
    PROVE  /\ Rising(Content') /\ Above(Content', got) /\ Below(Content', arrived + 1)
           /\ Before(Content', rest)
<1>1. Content \in Seq(Nat) /\ got \in Nat /\ arrived \in Nat /\ b \in Nat
  BY ContentNumbers, UartAssumption DEF Data
<1>2. \/ UNCHANGED <<rxbuf, rx_head, rx_tail>>
      \/ Content' = Append(Content, b)
  BY StoreStep
<1>3. Content' = Content \/ Content' = Append(Content, b)
  BY <1>2 DEF Content
<1> HIDE DEF Content
<1>4. arrived + 1 \in Nat /\ b < arrived + 1
  BY <1>1
<1>5. CASE Content' = Append(Content, b)
  BY <1>1, <1>4, <1>5, Appended
<1> QED
  BY <1>3, <1>5

LEMMA OrderedInit == Init => Ordered
<1> SUFFICES ASSUME Init PROVE Ordered
  OBVIOUS
<1>1. Content = <<>>
  BY QueueInitially DEF Queue!QueueInit
<1>2. Len(<<>>) = 0
  OBVIOUS
<1> HIDE DEF Content
<1> QED
  BY <1>1, <1>2 DEF Init, Ordered, Rising, Before, Above, Below, Storing

LEMMA OrderedStep == IInv /\ Ordered /\ [Next]_vars => Ordered'
<1> SUFFICES ASSUME IInv, Ordered, [Next]_vars PROVE Ordered'
  OBVIOUS
<1>t. TypeOK /\ InHand
  BY DEF IInv
<1>n. Content \in Seq(Nat) /\ fifo \in Seq(Nat) /\ got \in Nat /\ arrived \in Nat /\ reg \in Nat
  BY <1>t, ContentNumbers
<1>o. /\ Rising(Content) /\ Rising(fifo) /\ Before(Content, fifo)
      /\ Above(Content, got) /\ Above(fifo, got) /\ got <= arrived
      /\ Below(Content, arrived + 1) /\ Below(fifo, arrived + 1)
      /\ Storing => /\ Below(Content, reg) /\ Above(fifo, reg)
                    /\ got < reg /\ reg <= arrived
  BY DEF Ordered
<1>1. CASE UNCHANGED vars
  <2>1. UNCHANGED <<Content, Storing>>
    BY <1>1 DEF vars, ring, Content, Storing
  <2> QED
    BY <1>1, <1>o, <2>1 DEF Ordered, vars
<1>2. CASE Call \/ Drained \/ FlushHead \/ Get \/ GetByte
  <2>1. UNCHANGED <<ring, fifo, got, arrived>> /\ ~Storing'
    BY <1>2 DEF Call, Drained, FlushHead, Get, GetByte, Storing, Draining
  <2>2. UNCHANGED Content
    BY <2>1 DEF ring, Content
  <2> QED
    BY <1>o, <2>1, <2>2 DEF Ordered
<1>3. CASE Arrive
  <2>1. /\ UNCHANGED <<Content, Storing, reg, got>>
        /\ arrived' = arrived + 1
        /\ fifo' = fifo \/ fifo' = Append(fifo, arrived + 1)
    BY <1>3 DEF Arrive, ring, Content, Storing
  <2>2. arrived + 1 \in Nat /\ (arrived + 1) + 1 \in Nat
    BY <1>n
  <2>3. /\ Below(Content, (arrived + 1) + 1) /\ Below(fifo, (arrived + 1) + 1)
    BY <1>n, <1>o, Numbers DEF Below
  <2> HIDE DEF Content
  <2>4. Rising(fifo') /\ Before(Content, fifo') /\ Below(fifo', (arrived + 1) + 1)
    <3>1. CASE fifo' = Append(fifo, arrived + 1)
      <4>1. PICK b \in Nat : b = arrived + 1
        BY <2>2
      <4>2. PICK u : u = Append(fifo, b)
        OBVIOUS
      <4>3. /\ Rising(fifo) /\ Below(fifo, b) /\ Below(fifo, b + 1) /\ b < b + 1 /\ b + 1 \in Nat
            /\ Before(Content, fifo) /\ Below(Content, b)
        BY <1>o, <2>3, <4>1
      <4>4. Rising(u) /\ Before(Content, u) /\ Below(u, b + 1)
        BY <1>n, <4>2, <4>3, Appended
      <4> QED
        BY <3>1, <4>1, <4>2, <4>4
    <3> QED
      BY <1>o, <2>1, <2>3, <3>1
  <2>5. \A low \in Nat : Above(fifo, low) /\ low <= arrived => Above(fifo', low)
    <3>1. \A low \in Nat : low <= arrived => low < arrived + 1
      BY <1>n
    <3> QED
      BY <1>n, <2>1, <2>2, <3>1, Appended
  <2>6. got <= arrived + 1 /\ (Storing => reg <= arrived + 1)
    BY <1>n, <1>o
  <2> QED
    BY <1>n, <1>o, <2>1, <2>3, <2>4, <2>5, <2>6 DEF Ordered
<1>4. CASE Interrupt
  <2>1. /\ fifo # <<>> /\ fifo' = Tail(fifo) /\ Store(Head(fifo)) /\ ~Storing'
        /\ UNCHANGED <<got, arrived>>
    BY <1>4 DEF Interrupt, Masked, Store, Storing
  <2>2. /\ Tail(fifo) \in Seq(Nat) /\ Head(fifo) = fifo[1] /\ 1 \in 1 .. Len(fifo)
        /\ Rising(Tail(fifo)) /\ Above(Tail(fifo), Head(fifo)) /\ Above(Tail(fifo), got)
        /\ Below(Tail(fifo), arrived + 1)
        /\ Before(Content, Tail(fifo)) /\ Below(Content, Head(fifo))
    <3> HIDE DEF Content
    <3> QED
      BY <1>n, <1>o, <2>1, Taken
  <2>3. Head(fifo) \in Data
    BY <1>t, <2>1, FifoTake
  <2>4. got < Head(fifo) /\ Head(fifo) <= arrived
    <3>1. got < Head(fifo) /\ Head(fifo) < arrived + 1
      BY <1>o, <2>2 DEF Above, Below
    <3> QED
      BY <1>n, <2>3, <3>1, UartAssumption DEF Data
  <2>5. /\ Rising(Content') /\ Above(Content', got) /\ Below(Content', arrived + 1)
        /\ Before(Content', Tail(fifo))
    BY <1>t, <1>o, <2>1, <2>2, <2>3, <2>4, StoreInOrder
  <2> QED
    BY <1>o, <2>1, <2>2, <2>5 DEF Ordered
<1>5. CASE DrainTake
  <2>1. /\ fifo # <<>> /\ fifo' = Tail(fifo) /\ reg' = Head(fifo)
        /\ UNCHANGED <<Content, got, arrived>>
    BY <1>5 DEF DrainTake, ring, Content
  <2> HIDE DEF Content
  <2>2. /\ Head(fifo) = fifo[1] /\ 1 \in 1 .. Len(fifo)
        /\ Rising(Tail(fifo)) /\ Above(Tail(fifo), Head(fifo)) /\ Above(Tail(fifo), got)
        /\ Below(Tail(fifo), arrived + 1)
        /\ Before(Content, Tail(fifo)) /\ Below(Content, Head(fifo))
    BY <1>n, <1>o, <2>1, Taken
  <2>3. got < Head(fifo) /\ Head(fifo) <= arrived
    <3>1. got < Head(fifo) /\ Head(fifo) < arrived + 1 /\ Head(fifo) \in Nat
      BY <1>n, <1>o, <2>2, Numbers DEF Above, Below
    <3> QED
      BY <1>n, <3>1
  <2> QED
    BY <1>o, <2>1, <2>2, <2>3 DEF Ordered
<1>6. CASE DrainStore
  <2>1. Storing /\ Store(reg) /\ ~Storing' /\ UNCHANGED <<fifo, got, arrived>>
    BY <1>6 DEF DrainStore, Storing, Store
  <2>2. reg \in Data
    BY <1>t, <2>1 DEF InHand
  <2>3. /\ Rising(Content') /\ Above(Content', got) /\ Below(Content', arrived + 1)
        /\ Before(Content', fifo)
    BY <1>t, <1>n, <1>o, <2>1, <2>2, StoreInOrder
  <2> QED
    BY <1>o, <2>1, <2>3 DEF Ordered
<1>7. CASE FlushTail
  <2>1. ~Storing' /\ UNCHANGED <<fifo, got, arrived>>
    BY <1>7 DEF FlushTail, Storing
  <2>2. PICK d \in 0 .. Len(Content) : Content' = SubSeq(Content, d + 1, Len(Content))
    BY <1>t, <1>7, FlushDrops
  <2> HIDE DEF Content
  <2>3. /\ SubSeq(Content, d + 1, Len(Content)) \in Seq(Nat)
        /\ Len(SubSeq(Content, d + 1, Len(Content))) = Len(Content) - d
        /\ \A i \in 1 .. Len(Content) - d : SubSeq(Content, d + 1, Len(Content))[i] = Content[d + i]
    BY <1>n, Suffix
  <2>4. PICK u \in Seq(Nat) : u = SubSeq(Content, d + 1, Len(Content))
    BY <2>3
  <2>5. Len(u) = Len(Content) - d /\ \A i \in 1 .. Len(u) : u[i] = Content[d + i]
    BY <2>3, <2>4
  <2>6. /\ Rising(u) /\ Above(u, got) /\ Below(u, arrived + 1) /\ Before(u, fifo)
    <3>1. Less(u, Content, d)
      BY <2>5 DEF Less
    <3> QED
      BY <1>n, <1>o, <3>1, Shortened
  <2> QED
    BY <1>o, <2>1, <2>2, <2>4, <2>6 DEF Ordered
<1>8. CASE GetTail
  <2>1. ~Storing' /\ UNCHANGED <<fifo, arrived>>
    BY <1>8 DEF GetTail, Storing
  <2>2. Content # <<>> /\ Content' = Tail(Content) /\ got' = Head(Content)
    BY <1>t, <1>8, GetTakes
  <2> HIDE DEF Content
  <2>3. /\ Head(Content) = Content[1] /\ 1 \in 1 .. Len(Content)
        /\ Rising(Tail(Content)) /\ Above(Tail(Content), Head(Content))
        /\ Below(Tail(Content), arrived + 1)
        /\ Before(Tail(Content), fifo) /\ Above(fifo, Head(Content))
    BY <1>n, <1>o, <2>2, Taken
  <2>4. Head(Content) <= arrived
    <3>1. Head(Content) < arrived + 1 /\ Head(Content) \in Nat
      BY <1>n, <1>o, <2>3, Numbers DEF Below
    <3> QED
      BY <1>n, <3>1
  <2> QED
    BY <1>o, <2>1, <2>2, <2>3, <2>4 DEF Ordered
<1>9. CASE Restart
  <2>1. ~Storing' /\ fifo' = <<>> /\ UNCHANGED <<got, arrived>>
    BY <1>9 DEF Restart, Storing
  <2>2. Content' = <<>>
    BY <1>t, <1>9, RestartEmpties
  <2>3. Len(<<>>) = 0
    OBVIOUS
  <2> HIDE DEF Content
  <2> QED
    BY <1>o, <2>1, <2>2, <2>3 DEF Ordered, Rising, Before, Above, Below
<1> QED
  BY <1>1, <1>2, <1>3, <1>4, <1>5, <1>6, <1>7, <1>8, <1>9 DEF Next

LEMMA AlwaysOrdered == Spec => [](IInv /\ Ordered)
  BY InitInv, StepInv, OrderedInit, OrderedStep, PTL DEF Spec

\* Each byte of what is under way is in one of its places.
LEMMA OrderedTogether ==
    ASSUME NEW c \in Seq(Nat), NEW m \in Seq(Nat), NEW f \in Seq(Nat),
           Rising(c), Rising(m), Rising(f), Before(c, m), Before(m, f), Before(c, f)
    PROVE  /\ Rising((c \o m) \o f)
           /\ \A low : Above(c, low) /\ Above(m, low) /\ Above(f, low)
                          => Above((c \o m) \o f, low)
           /\ \A high : Below(c, high) /\ Below(m, high) /\ Below(f, high)
                          => Below((c \o m) \o f, high)
<1>1. ASSUME NEW s \in Seq(Nat), NEW t \in Seq(Nat), NEW u \in Seq(Nat), u = s \o t
      PROVE  /\ Rising(s) /\ Rising(t) /\ Before(s, t) => Rising(u)
             /\ \A low : Above(s, low) /\ Above(t, low) => Above(u, low)
             /\ \A high : Below(s, high) /\ Below(t, high) => Below(u, high)
             /\ Before(s, f) /\ Before(t, f) => Before(u, f)
  <2>1. Len(s) \in Nat /\ Len(t) \in Nat
    BY LenProperties
  <2>2. /\ Len(u) = Len(s) + Len(t)
        /\ \A i \in 1 .. Len(s) + Len(t) : u[i] = IF i <= Len(s) THEN s[i] ELSE t[i - Len(s)]
    BY <1>1, ConcatProperties
  <2>9. /\ Len(u) \in Nat
        /\ \A i \in 1 .. Len(u) : i <= Len(s) => i \in 1 .. Len(s) /\ u[i] = s[i]
        /\ \A i \in 1 .. Len(u) : i > Len(s) => /\ i - Len(s) \in 1 .. Len(t)
                                                /\ u[i] = t[i - Len(s)]
    <3>1. Len(u) \in Nat
      BY <2>1, <2>2
    <3>2. ASSUME NEW i \in 1 .. Len(u), i <= Len(s)
          PROVE  i \in 1 .. Len(s) /\ u[i] = s[i]
      BY <2>1, <2>2, <3>2
    <3>3. ASSUME NEW i \in 1 .. Len(u), i > Len(s)
          PROVE  i - Len(s) \in 1 .. Len(t) /\ u[i] = t[i - Len(s)]
      <4>1. i \in 1 .. Len(s) + Len(t) /\ ~(i <= Len(s)) /\ i - Len(s) \in 1 .. Len(t)
        BY <2>1, <2>2, <3>3
      <4> QED
        BY <2>2, <4>1
    <3> QED
      BY <3>1, <3>2, <3>3
  <2>3. \A i \in 1 .. Len(u) : \/ i \in 1 .. Len(s) /\ u[i] = s[i]
                               \/ /\ i > Len(s) /\ i - Len(s) \in 1 .. Len(t)
                                  /\ u[i] = t[i - Len(s)]
    <3>1. \A i \in 1 .. Len(u) : i <= Len(s) \/ i > Len(s)
      BY <2>1, <2>9
    <3> QED
      BY <2>9, <3>1
  <2>4. ASSUME Rising(s), Rising(t), Before(s, t), NEW i \in 1 .. Len(u), NEW j \in 1 .. Len(u), i < j
        PROVE  u[i] < u[j]
    <3>1. CASE j <= Len(s)
      <4>1. i <= Len(s)
        BY <2>1, <2>4, <2>9, <3>1
      <4> QED
        BY <2>4, <2>9, <3>1, <4>1 DEF Rising
    <3>2. CASE i <= Len(s) /\ j > Len(s)
      BY <2>4, <2>9, <3>2 DEF Before
    <3>3. CASE i > Len(s)
      <4> DEFINE a == i - Len(s)
                 b == j - Len(s)
      <4>1. i \in Nat /\ j \in Nat
        BY <2>9
      <4>2. j > Len(s) /\ a < b
        BY <2>1, <2>4, <3>3, <4>1
      <4>3. a \in 1 .. Len(t) /\ u[i] = t[a] /\ b \in 1 .. Len(t) /\ u[j] = t[b]
        BY <2>9, <3>3, <4>2
      <4> HIDE DEF a, b
      <4> QED
        BY <2>4, <4>2, <4>3 DEF Rising
    <3> QED
      BY <2>1, <2>9, <3>1, <3>2, <3>3
  <2>5. Rising(s) /\ Rising(t) /\ Before(s, t) => Rising(u)
    BY <2>4 DEF Rising
  <2>6. \A low : Above(s, low) /\ Above(t, low) => Above(u, low)
    BY <2>3 DEF Above
  <2>7. \A high : Below(s, high) /\ Below(t, high) => Below(u, high)
    BY <2>3 DEF Below
  <2>8. Before(s, f) /\ Before(t, f) => Before(u, f)
    BY <2>3 DEF Before
  <2> QED
    BY <2>5, <2>6, <2>7, <2>8
<1>2. PICK cm \in Seq(Nat) : cm = c \o m
  BY ConcatProperties
<1>3. PICK all \in Seq(Nat) : all = cm \o f
  BY ConcatProperties
<1>4. /\ Rising(cm) /\ Before(cm, f)
      /\ \A low : Above(c, low) /\ Above(m, low) => Above(cm, low)
      /\ \A high : Below(c, high) /\ Below(m, high) => Below(cm, high)
  BY <1>1, <1>2
<1>5. /\ Rising(all)
      /\ \A low : Above(cm, low) /\ Above(f, low) => Above(all, low)
      /\ \A high : Below(cm, high) /\ Below(f, high) => Below(all, high)
  BY <1>1, <1>3, <1>4
<1> QED
  BY <1>2, <1>3, <1>4, <1>5

\* For every size of the ring and of the FIFO, with or without the interrupt,
\* bytes reach the main loop in the order they came over the line, each at most
\* once: what it got last is older than anything that is still to come.
THEOREM BytesInOrder == Spec => []InOrder
<1>1. IInv /\ Ordered => InOrder
  <2> SUFFICES ASSUME IInv, Ordered PROVE InOrder
    OBVIOUS
  <2>1. /\ Content \in Seq(Nat) /\ fifo \in Seq(Nat)
        /\ got \in Nat /\ arrived \in Nat /\ reg \in Nat
    BY ContentNumbers DEF IInv
  <2> HIDE DEF Content
  <2>2. PICK m \in Seq(Nat) : m = IF Storing THEN <<reg>> ELSE <<>>
    <3>1. <<reg>> \in Seq(Nat)
      BY <2>1
    <3>2. <<>> \in Seq(Nat)
      BY EmptySeq
    <3> QED
      BY <3>1, <3>2
  <2>3. /\ Rising(m) /\ Before(Content, m) /\ Before(m, fifo)
        /\ Above(m, got) /\ Below(m, arrived + 1)
    <3>1. CASE Storing
      <4>1. Len(m) = 1 /\ m[1] = reg
        BY <2>2, <3>1
      <4>2. /\ Below(Content, reg) /\ Above(fifo, reg) /\ got < reg /\ reg < arrived + 1
        BY <2>1, <3>1 DEF Ordered
      <4> QED
        BY <4>1, <4>2 DEF Rising, Before, Above, Below
    <3>2. CASE ~Storing
      <4>1. Len(m) = 0
        BY <2>2, <3>2
      <4> QED
        BY <4>1 DEF Rising, Before, Above, Below
    <3> QED
      BY <3>1, <3>2
  <2>4. /\ Rising((Content \o m) \o fifo)
        /\ Above((Content \o m) \o fifo, got) /\ Below((Content \o m) \o fifo, arrived + 1)
    BY <2>1, <2>3, OrderedTogether DEF Ordered
  <2>5. PICK all \in Seq(Nat) : all = (Content \o m) \o fifo
    BY <2>1, ConcatProperties
  <2>6. Coming = all
    BY <2>2, <2>5 DEF Coming
  <2>7. \A i \in 1 .. Len(all) : all[i] < arrived + 1 => all[i] <= arrived
    BY <2>1, Numbers
  <2> QED
    BY <2>4, <2>5, <2>6, <2>7 DEF InOrder, Rising, Above, Below
<1> QED
  BY <1>1, AlwaysOrdered, PTL
=============================================================================
