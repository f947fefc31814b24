--------------------------- MODULE GnrlFifo_proof ----------------------------
(* The FIFO and the bypass buffer are queues, at every depth.               *)
EXTENDS GnrlFifo, SequenceTheorems, TLAPS

IInv == TypeOK /\ Agree

\* Append and Tail, of sequences given as functions.
LEMMA AppendFun ==
    ASSUME NEW S, NEW n \in Nat, NEW s \in [1 .. n -> S], NEW e \in S,
           NEW t \in [1 .. n + 1 -> S], \A k \in 1 .. n : t[k] = s[k], t[n + 1] = e
    PROVE  t = Append(s, e)
  <1>1. s \in Seq(S) /\ t \in Seq(S)
    BY n + 1 \in Nat, SeqDef
  <1>2. Len(s) = n /\ Len(t) = n + 1
    BY <1>1, LenProperties
  <1>3. /\ Append(s, e) \in Seq(S) /\ Len(Append(s, e)) = n + 1
        /\ \A k \in 1 .. n : Append(s, e)[k] = s[k]
        /\ Append(s, e)[n + 1] = e
    BY <1>1, <1>2, AppendProperties
  <1>4. \A k \in 1 .. n + 1 : t[k] = Append(s, e)[k]
    <2>1. TAKE k \in 1 .. n + 1
    <2>2. k \in 1 .. n \/ k = n + 1
      OBVIOUS
    <2>3. QED BY <2>2, <1>3
  <1>5. QED BY <1>1, <1>2, <1>3, <1>4, SeqEqual

\* A function moved down by one is the tail of the sequence it was.
LEMMA TailFun ==
    ASSUME NEW S, NEW n \in Nat, n # 0, NEW s \in [1 .. n -> S],
           NEW t \in [1 .. n - 1 -> S], \A k \in 1 .. n - 1 : t[k] = s[k + 1]
    PROVE  s # <<>> /\ t = Tail(s) /\ Head(s) = s[1]
  <1>1. s \in Seq(S) /\ t \in Seq(S)
    BY n - 1 \in Nat, SeqDef
  <1>2. Len(s) = n /\ Len(t) = n - 1
    BY <1>1, LenProperties
  <1>3. s # <<>>
    BY <1>2
  <1>4. /\ Tail(s) \in Seq(S) /\ Len(Tail(s)) = n - 1
        /\ \A k \in 1 .. n - 1 : Tail(s)[k] = s[k + 1]
    BY <1>1, <1>2, <1>3, HeadTailProperties
  <1>5. t = Tail(s)
    BY <1>1, <1>2, <1>4, SeqEqual
  <1>6. QED BY <1>1, <1>3, <1>5

\* The vector determines the count.
Determined == \A n \in 0 .. DP : Holds(n) => Count = n
\* The vector and the pointers agree on one number only.
LEMMA CountUnique == Determined
  <1> SUFFICES ASSUME NEW n \in 0 .. DP, Holds(n) PROVE Count = n
    BY DEF Determined
  <1>1. ASSUME NEW m \in 0 .. DP, Holds(m) PROVE m = n
    <2>1. (vec[m] <=> m <= n) /\ (vec[n] <=> n <= n) /\ (vec[m] <=> m <= m) /\ (vec[n] <=> n <= m)
      BY <1>1 DEF Holds
    <2>2. m <= n /\ n <= m
      BY <2>1
    <2>3. QED BY <2>2, DepthAssumption
  <1>2. QED BY <1>1 DEF Count

\* Full and Valid in terms of the count.
LEMMA FullAndValid ==
    ASSUME NEW n \in 0 .. DP, Holds(n)
    PROVE  (Full <=> n = DP) /\ (Valid <=> n # 0)
  <1>1. 1 \in 0 .. DP /\ DP \in 0 .. DP
    BY DepthAssumption
  <1>2. (vec[DP] <=> DP <= n) /\ (vec[1] <=> 1 <= n)
    BY <1>1 DEF Holds
  <1>3. QED BY <1>2, DepthAssumption DEF Full, Valid

\* A pointer moves within the ring.
LEMMA SuccTyping == ASSUME NEW p \in Entries PROVE Succ(p) \in Entries
  BY DepthAssumption DEF Entries, Succ

\* So does the k-th entry, and different entries are different.
LEMMA SlotTyping ==
    ASSUME TypeOK, NEW j \in 0 .. DP - 1
    PROVE  Slot(j) \in Entries
  BY DepthAssumption DEF Slot, Entries, TypeOK

\* Different places in the queue are different registers.
LEMMA SlotsDiffer ==
    ASSUME TypeOK, NEW j \in 0 .. DP - 1, NEW k \in 0 .. DP - 1, j # k
    PROVE  Slot(j) # Slot(k)
  BY DepthAssumption DEF Slot, Entries, TypeOK

\* The words of the FIFO are a sequence.
LEMMA WordsTyping ==
    ASSUME TypeOK, NEW n \in 0 .. DP
    PROVE  /\ n \in Nat /\ Words(n) \in [1 .. n -> Data]
           /\ \A k \in 1 .. n : Words(n)[k] = rf[Slot(k - 1)]
  <1>1. \A k \in 1 .. n : rf[Slot(k - 1)] \in Data
    <2>1. TAKE k \in 1 .. n
    <2>2. k - 1 \in 0 .. DP - 1
      BY DepthAssumption
    <2>3. QED BY <2>2, SlotTyping DEF TypeOK
  <1>2. QED BY <1>1, DepthAssumption DEF Words

-----------------------------------------------------------------------------
(* What a clock does to count, pointers and words, for each combination of   *)
(* the two handshakes.                                                       *)

\* The pointers and words keep their types.
LEMMA StepTyping ==
    ASSUME TypeOK, NEW wen \in BOOLEAN, NEW ren \in BOOLEAN, NEW d \in Data, FifoStep(wen, ren, d)
    PROVE  /\ rf' \in [Entries -> Data] /\ wptr' \in Entries /\ rptr' \in Entries
           /\ vec' \in [0 .. DP -> BOOLEAN]
  <1>1. rf' \in [Entries -> Data]
    BY DEF FifoStep, TypeOK
  <1>2. wptr' \in Entries /\ rptr' \in Entries
    BY SuccTyping DEF FifoStep, TypeOK
  <1>3. vec' \in [0 .. DP -> BOOLEAN]
    <2>1. \A k \in 0 .. DP : k # 0 => k - 1 \in 0 .. DP
      BY DepthAssumption
    <2>2. \A k \in 0 .. DP : k < DP => k + 1 \in 0 .. DP
      BY DepthAssumption
    <2>3. vec \in [0 .. DP -> BOOLEAN] /\ vec' = Shifted(wen, ren)
      BY DEF FifoStep, TypeOK
    <2>4. QED BY <2>1, <2>2, <2>3 DEF Shifted
  <1>4. QED BY <1>1, <1>2, <1>3

\* A write alone adds an entry.
LEMMA Writes ==
    ASSUME TypeOK, NEW d \in Data, FifoStep(TRUE, FALSE, d),
           NEW n \in 0 .. DP - 1, Holds(n)
    PROVE  Holds(n + 1)' /\ Words(n + 1)' = Append(Words(n), d)
  <1>1. vec' = [k \in 0 .. DP |-> k = 0 \/ vec[k - 1]]
    BY DEF FifoStep, Shifted
  <1>2. \A k \in 0 .. DP : vec'[k] <=> k <= n + 1
    <2>1. TAKE k \in 0 .. DP
    <2>2. CASE k = 0
      <3>1. vec'[k]
        BY <1>1, <2>2
      <3>2. k <= n + 1
        BY <2>2, DepthAssumption
      <3>3. QED BY <3>1, <3>2
    <2>3. CASE k # 0
      <3>1. k - 1 \in 0 .. DP
        BY <2>3, DepthAssumption
      <3>2. vec[k - 1] <=> k - 1 <= n
        BY <3>1 DEF Holds
      <3>3. vec'[k] <=> vec[k - 1]
        BY <1>1, <2>3
      <3>4. k - 1 <= n <=> k <= n + 1
        BY DepthAssumption
      <3>5. QED BY <3>2, <3>3, <3>4
    <2>4. QED BY <2>2, <2>3
  <1>3. wptr = Slot(n) /\ wptr' = Succ(wptr) /\ rptr' = rptr
    BY DepthAssumption DEF Holds, FifoStep
  <1>4. wptr' = (IF n + 1 = DP THEN rptr ELSE Slot(n + 1))'
    BY <1>3, DepthAssumption DEF Slot, Succ, TypeOK, Entries
  <1>5. Holds(n + 1)'
    BY <1>2, <1>4 DEF Holds
  <1>6. \A k \in 1 .. n + 1 : rf'[Slot(k - 1)'] = IF k <= n THEN rf[Slot(k - 1)] ELSE d
    <2>1. TAKE k \in 1 .. n + 1
    <2>2. k - 1 \in 0 .. DP - 1 /\ n \in 0 .. DP - 1
      BY DepthAssumption
    <2>3. Slot(k - 1)' = Slot(k - 1)
      BY <1>3 DEF Slot
    <2>4. Slot(k - 1) \in Entries /\ rf' = [rf EXCEPT ![Slot(n)] = d] /\ rf \in [Entries -> Data]
      BY <1>3, <2>2, SlotTyping DEF FifoStep, TypeOK
    <2>5. CASE k <= n
      <3>1. Slot(k - 1) # Slot(n)
        BY <2>2, <2>5, SlotsDiffer
      <3>2. QED BY <2>3, <2>4, <2>5, <3>1
    <2>6. CASE ~(k <= n)
      <3>1. k - 1 = n
        BY <2>6, DepthAssumption
      <3>2. QED BY <2>3, <2>4, <2>6, <3>1
    <2>7. QED BY <2>5, <2>6
  <1>7. /\ n \in Nat /\ Words(n) \in [1 .. n -> Data]
        /\ \A k \in 1 .. n : Words(n)[k] = rf[Slot(k - 1)]
    BY WordsTyping, DepthAssumption
  <1>8. \A k \in 1 .. n + 1 : Words(n + 1)'[k] = IF k <= n THEN Words(n)[k] ELSE d
    <2>1. TAKE k \in 1 .. n + 1
    <2>2. Words(n + 1)'[k] = rf'[Slot(k - 1)']
      BY DEF Words
    <2>3. k <= n => k \in 1 .. n
      BY <1>7
    <2>4. QED BY <1>6, <1>7, <2>2, <2>3
  <1>9. \A k \in 1 .. n + 1 : Words(n + 1)'[k] \in Data
    <2>1. \A k \in 1 .. n : Words(n)[k] \in Data
      BY <1>7
    <2>2. \A k \in 1 .. n + 1 : k <= n => k \in 1 .. n
      BY <1>7
    <2>3. QED BY <1>8, <2>1, <2>2
  <1>10. Words(n + 1)' \in [1 .. n + 1 -> Data]
    <2>1. Words(n + 1)' = [k \in 1 .. n + 1 |-> Words(n + 1)'[k]]
      BY DEF Words
    <2>2. QED BY <1>9, <2>1
  <1>11. /\ \A k \in 1 .. n : Words(n + 1)'[k] = Words(n)[k]
         /\ Words(n + 1)'[n + 1] = d
    BY <1>7, <1>8
  <1>12. QED BY <1>5, <1>7, <1>10, <1>11, AppendFun

\* The entry after the read pointer moves up.
LEMMA SlotMoves ==
    ASSUME TypeOK, rptr' = Succ(rptr), NEW k \in 1 .. DP - 1
    PROVE  Slot(k - 1)' = Slot(k)
  BY DepthAssumption DEF Slot, Succ, TypeOK, Entries

\* A read alone takes the first entry away.
LEMMA Reads ==
    ASSUME TypeOK, NEW d \in Data, FifoStep(FALSE, TRUE, d),
           NEW n \in 1 .. DP, Holds(n)
    PROVE  /\ Holds(n - 1)' /\ Words(n - 1)' = Tail(Words(n))
           /\ Words(n) # <<>> /\ Head(Words(n)) = rf[rptr]
  <1>1. vec' = [k \in 0 .. DP |-> k < DP /\ vec[k + 1]]
    BY DEF FifoStep, Shifted
  <1>2. \A k \in 0 .. DP : vec'[k] <=> k <= n - 1
    <2>1. TAKE k \in 0 .. DP
    <2>2. CASE k = DP
      <3>1. ~vec'[k]
        <4>1. vec'[k] <=> (k < DP /\ vec[k + 1])
          BY <1>1
        <4>2. ~(k < DP)
          BY <2>2, DepthAssumption
        <4>3. QED BY <4>1, <4>2
      <3>2. ~(k <= n - 1)
        BY <2>2, DepthAssumption
      <3>3. QED BY <3>1, <3>2
    <2>3. CASE k # DP
      <3>1. k + 1 \in 0 .. DP /\ k < DP
        BY <2>3, DepthAssumption
      <3>2. vec[k + 1] <=> k + 1 <= n
        BY <3>1 DEF Holds
      <3>3. vec'[k] <=> vec[k + 1]
        BY <1>1, <3>1
      <3>4. k + 1 <= n <=> k <= n - 1
        BY DepthAssumption
      <3>5. QED BY <3>2, <3>3, <3>4
    <2>4. QED BY <2>2, <2>3
  <1>3. wptr' = wptr /\ rptr' = Succ(rptr) /\ rf' = rf
    BY DEF FifoStep
  <1>4. wptr' = (IF n - 1 = DP THEN rptr ELSE Slot(n - 1))'
    BY <1>3, DepthAssumption DEF Holds, Slot, Succ, TypeOK, Entries
  <1>5. Holds(n - 1)'
    BY <1>2, <1>4 DEF Holds
  <1>6. /\ n \in Nat /\ n # 0 /\ Words(n) \in [1 .. n -> Data]
        /\ \A k \in 1 .. n : Words(n)[k] = rf[Slot(k - 1)]
    BY WordsTyping, DepthAssumption
  <1>7. \A k \in 1 .. n - 1 : Words(n - 1)'[k] = Words(n)[k + 1]
    <2>1. TAKE k \in 1 .. n - 1
    <2>2. k \in 1 .. DP - 1 /\ k + 1 \in 1 .. n /\ (k + 1) - 1 = k
      BY DepthAssumption
    <2>3. Words(n - 1)'[k] = rf[Slot(k)]
      BY <1>3, <2>2, SlotMoves DEF Words
    <2>4. Words(n)[k + 1] = rf[Slot(k)]
      BY <1>6, <2>2
    <2>5. QED BY <2>3, <2>4
  <1>8. Words(n - 1)' \in [1 .. n - 1 -> Data]
    <2>1. \A k \in 1 .. n - 1 : Words(n - 1)'[k] \in Data
      <3>1. \A k \in 1 .. n - 1 : k + 1 \in 1 .. n
        BY <1>6
      <3>2. QED BY <1>6, <1>7, <3>1
    <2>2. Words(n - 1)' = [k \in 1 .. n - 1 |-> Words(n - 1)'[k]]
      BY DEF Words
    <2>3. QED BY <2>1, <2>2
  <1>9. Words(n)[1] = rf[rptr]
    BY <1>6, DepthAssumption DEF Slot, TypeOK, Entries
  <1>10. QED BY <1>5, <1>6, <1>7, <1>8, <1>9, TailFun

\* A read and a write together move the entries on.
LEMMA ReadsAndWrites ==
    ASSUME TypeOK, NEW d \in Data, FifoStep(TRUE, TRUE, d),
           NEW n \in 1 .. DP, Holds(n), n < DP \/ DP = 1
    PROVE  /\ Holds(n)' /\ Words(n)' = Append(Tail(Words(n)), d)
           /\ Words(n) # <<>> /\ Head(Words(n)) = rf[rptr]
  <1>1. /\ vec' = vec /\ wptr' = Succ(wptr) /\ rptr' = Succ(rptr)
        /\ rf' = [rf EXCEPT ![wptr] = d]
    BY DEF FifoStep, Shifted
  <1>2. wptr' = (IF n = DP THEN rptr ELSE Slot(n))'
    BY <1>1, DepthAssumption DEF Holds, Slot, Succ, TypeOK, Entries
  <1>3. Holds(n)'
    BY <1>1, <1>2 DEF Holds
  <1>4. /\ n \in Nat /\ n # 0 /\ n - 1 \in Nat /\ Words(n) \in [1 .. n -> Data]
        /\ \A k \in 1 .. n : Words(n)[k] = rf[Slot(k - 1)]
    BY WordsTyping, DepthAssumption
  <1>5. \A k \in 1 .. n - 1 : Words(n)'[k] = Words(n)[k + 1]
    <2>1. TAKE k \in 1 .. n - 1
    <2>2. k \in 1 .. DP - 1 /\ k + 1 \in 1 .. n /\ (k + 1) - 1 = k /\ k \in 1 .. n
      BY DepthAssumption
    <2>3. n \in 0 .. DP - 1 /\ k # n /\ n # DP /\ k \in 0 .. DP - 1
      BY <2>2, DepthAssumption
    <2>4. wptr = Slot(n) /\ Slot(k) # Slot(n)
      BY <2>3, SlotsDiffer DEF Holds
    <2>5. rf'[Slot(k)] = rf[Slot(k)]
      BY <1>1, <2>3, <2>4, SlotTyping DEF TypeOK
    <2>6. Words(n)'[k] = rf'[Slot(k)]
      BY <1>1, <2>2, SlotMoves DEF Words
    <2>7. Words(n)[k + 1] = rf[Slot(k)]
      BY <1>4, <2>2
    <2>8. QED BY <2>5, <2>6, <2>7
  <1>6. Words(n)'[n] = d
    <2>1. Slot(n - 1)' = wptr
      BY <1>1, DepthAssumption DEF Holds, Slot, Succ, TypeOK, Entries
    <2>2. Words(n)'[n] = rf'[wptr]
      BY <1>4, <2>1 DEF Words
    <2>3. QED BY <1>1, <2>2 DEF TypeOK
  <1>7. Words(n)' \in [1 .. n -> Data]
    <2>1. \A k \in 1 .. n : Words(n)'[k] \in Data
      <3>1. \A k \in 1 .. n - 1 : k + 1 \in 1 .. n
        BY <1>4
      <3>2. \A k \in 1 .. n : k \in 1 .. n - 1 \/ k = n
        BY <1>4
      <3>3. QED BY <1>4, <1>5, <1>6, <3>1, <3>2
    <2>2. Words(n)' = [k \in 1 .. n |-> Words(n)'[k]]
      BY DEF Words
    <2>3. QED BY <2>1, <2>2
  <1>8. Words(n)[1] = rf[rptr]
    BY <1>4, DepthAssumption DEF Slot, TypeOK, Entries
  <1> DEFINE rest == [k \in 1 .. n - 1 |-> Words(n)[k + 1]]
  <1>9. rest \in [1 .. n - 1 -> Data]
    <2>1. \A k \in 1 .. n - 1 : k + 1 \in 1 .. n
      BY <1>4
    <2>2. QED BY <1>4, <2>1
  <1>10. \A k \in 1 .. n - 1 : rest[k] = Words(n)[k + 1]
    OBVIOUS
  <1> HIDE DEF rest
  <1>11. Words(n) # <<>> /\ rest = Tail(Words(n)) /\ Head(Words(n)) = Words(n)[1]
    BY <1>4, <1>9, <1>10, TailFun
  <1>12. Words(n)' = Append(rest, d)
    <2>1. \A k \in 1 .. n - 1 : Words(n)'[k] = rest[k]
      BY <1>5, <1>10
    <2>2. (n - 1) + 1 = n
      BY <1>4
    <2>3. QED BY <1>4, <1>6, <1>7, <1>9, <2>1, <2>2, AppendFun
  <1>13. QED BY <1>3, <1>8, <1>11, <1>12

\* Without a handshake everything stays.
LEMMA Idles ==
    ASSUME NEW d \in Data, FifoStep(FALSE, FALSE, d), NEW n \in 0 .. DP, Holds(n)
    PROVE  Holds(n)' /\ Words(n)' = Words(n)
  <1>1. vec' = vec /\ wptr' = wptr /\ rptr' = rptr /\ rf' = rf
    BY DEF FifoStep, Shifted
  <1>2. QED BY <1>1 DEF Holds, Words, Slot

-----------------------------------------------------------------------------
\* Reset empties the FIFO.
LEMMA InitInv == Init => IInv /\ Holds(0)
  <1> SUFFICES ASSUME Init PROVE IInv /\ Holds(0)
    OBVIOUS
  <1>1. TypeOK
    BY DepthAssumption DEF Init, TypeOK, Entries
  <1>2. Holds(0)
    <2>1. \A k \in 0 .. DP : vec[k] <=> k = 0
      BY DEF Init
    <2>2. \A k \in 0 .. DP : k = 0 <=> k <= 0
      BY DepthAssumption
    <2>3. wptr = IF 0 = DP THEN rptr ELSE Slot(0)
      BY DepthAssumption DEF Init, Slot
    <2>4. QED BY <2>1, <2>2, <2>3 DEF Holds
  <1>3. 0 \in 0 .. DP
    BY DepthAssumption
  <1>4. QED BY <1>1, <1>2, <1>3 DEF IInv, Agree

\* A handshake is possible only where there is room, or a word.
LEMMA Handshakes ==
    ASSUME NEW n \in 0 .. DP, Holds(n), NEW oRdy \in BOOLEAN
    PROVE  /\ Valid /\ oRdy => n \in 1 .. DP
           /\ Ready(oRdy) => n < DP \/ (DP = 1 /\ n = 1 /\ Valid /\ oRdy)
           /\ ~Valid => n = 0 /\ Ready(oRdy)
  <1>1. (Full <=> n = DP) /\ (Valid <=> n # 0)
    BY FullAndValid
  <1>2. n # 0 => n \in 1 .. DP
    BY DepthAssumption
  <1>3. n # DP => n < DP
    BY DepthAssumption
  <1>4. 0 < DP
    BY DepthAssumption
  <1>5. QED BY <1>1, <1>2, <1>3, <1>4 DEF Ready

\* Every clock keeps the registers in agreement and does to the words what
\* the queue does.
LEMMA ClockStep ==
    ASSUME IInv, NEW iVld \in BOOLEAN, NEW d \in Data, NEW oRdy \in BOOLEAN,
           Clock(iVld, d, oRdy)
    PROVE  /\ \E n \in 0 .. DP : Holds(n)'
           /\ Chan!Next \/ UNCHANGED Chan!cvars
  <1> DEFINE through == Through(iVld, oRdy)
             wen == iVld /\ ~through /\ Ready(oRdy)
             ren == Valid /\ oRdy
  <1>1. PICK n \in 0 .. DP : Holds(n)
    BY DEF IInv, Agree
  <1>2. TypeOK /\ Contents = Words(n)
    BY <1>1, CountUnique DEF IInv, Contents, Determined
  <1>3. /\ FifoStep(wen, ren, d)
        /\ inp' = (IF iVld /\ Ready(oRdy) THEN Turn(inp, d) ELSE inp)
        /\ out' = (IF ren THEN Turn(out, rf[rptr]) ELSE IF through THEN Turn(out, d) ELSE out)
    BY DEF Clock
  <1>4. \A m \in 0 .. DP : Holds(m)' => Contents' = Words(m)'
    <2>1. Determined'
      BY CountUnique, PTL
    <2>2. \A m \in 0 .. DP : Holds(m)' => Count' = m
      BY <2>1 DEF Determined
    <2>3. QED BY <2>2 DEF Contents, Words
  <1>5. /\ ren => n \in 1 .. DP
        /\ Ready(oRdy) => n < DP \/ (DP = 1 /\ n = 1 /\ ren)
        /\ ~Valid => n = 0 /\ Ready(oRdy)
    BY <1>1, Handshakes
  <1>6. CASE wen /\ ren
    <2>1. FifoStep(TRUE, TRUE, d) /\ n \in 1 .. DP /\ (n < DP \/ DP = 1)
      BY <1>3, <1>5, <1>6 DEF FifoStep, Shifted
    <2>2. /\ Holds(n)' /\ Words(n)' = Append(Tail(Words(n)), d)
          /\ Words(n) # <<>> /\ Head(Words(n)) = rf[rptr]
      BY <1>1, <1>2, <2>1, ReadsAndWrites
    <2>3. inp' = Turn(inp, d) /\ out' = Turn(out, rf[rptr])
      BY <1>3, <1>6
    <2>4. Chan!Both(d)
      BY <1>2, <1>4, <2>2, <2>3 DEF Chan!Both, Chan!Turn, Turn
    <2>5. QED BY <2>2, <2>4 DEF Chan!Next
  <1>7. CASE wen /\ ~ren
    <2>1. FifoStep(TRUE, FALSE, d) /\ n < DP
      BY <1>3, <1>5, <1>7 DEF FifoStep, Shifted
    <2>2. n \in 0 .. DP - 1 /\ n + 1 \in 0 .. DP
      BY <2>1, DepthAssumption
    <2>3. Holds(n + 1)' /\ Words(n + 1)' = Append(Words(n), d)
      BY <1>1, <1>2, <2>1, <2>2, Writes
    <2>4. inp' = Turn(inp, d) /\ out' = out
      BY <1>3, <1>7
    <2>5. Len(Words(n)) = n
      BY <1>2, WordsTyping, SeqDef, LenProperties
    <2>6. Contents' = Append(Contents, d) /\ Len(Contents) < DP
      BY <1>2, <1>4, <2>1, <2>2, <2>3, <2>5
    <2>7. Chan!Send(d)
      BY <2>4, <2>6 DEF Chan!Send, Chan!Turn, Turn
    <2>8. QED BY <2>2, <2>3, <2>7 DEF Chan!Next
  <1>8. CASE ~wen /\ ren
    <2>1. FifoStep(FALSE, TRUE, d) /\ n \in 1 .. DP
      BY <1>3, <1>5, <1>8 DEF FifoStep, Shifted
    <2>2. n - 1 \in 0 .. DP
      BY <2>1, DepthAssumption
    <2>3. /\ Holds(n - 1)' /\ Words(n - 1)' = Tail(Words(n))
          /\ Words(n) # <<>> /\ Head(Words(n)) = rf[rptr]
      BY <1>1, <1>2, <2>1, Reads
    <2>4. ~through
      BY <1>8 DEF Through
    <2>5. inp' = inp /\ out' = Turn(out, rf[rptr])
      BY <1>3, <1>8, <2>4
    <2>6. Chan!Receive
      BY <1>2, <1>4, <2>2, <2>3, <2>5 DEF Chan!Receive, Chan!Turn, Turn
    <2>7. QED BY <2>2, <2>3, <2>6 DEF Chan!Next
  <1>9. CASE ~wen /\ ~ren
    <2>1. FifoStep(FALSE, FALSE, d)
      BY <1>3, <1>9 DEF FifoStep, Shifted
    <2>2. Holds(n)' /\ Words(n)' = Words(n)
      BY <1>1, <2>1, Idles
    <2>3. Contents' = Contents
      BY <1>2, <1>4, <2>2
    <2>4. CASE through
      <3>1. Bypass /\ iVld /\ ~Valid
        BY <2>4 DEF Through
      <3>2. inp' = Turn(inp, d) /\ out' = Turn(out, d)
        BY <1>3, <1>5, <1>9, <2>4, <3>1
      <3>3. Contents = <<>>
        BY <1>2, <1>5, <3>1 DEF Words
      <3>4. Chan!Pass(d)
        BY <2>3, <3>1, <3>2, <3>3 DEF Chan!Pass, Chan!Turn, Turn
      <3>5. QED BY <2>2, <3>4 DEF Chan!Next
    <2>5. CASE ~through
      <3>1. inp' = inp /\ out' = out
        BY <1>3, <1>9, <2>5
      <3>2. QED BY <2>2, <2>3, <3>1 DEF Chan!cvars
    <2>6. QED BY <2>4, <2>5
  <1>10. QED BY <1>6, <1>7, <1>8, <1>9

\* The types are kept.
LEMMA ClockTyping ==
    ASSUME TypeOK, NEW iVld \in BOOLEAN, NEW d \in Data, NEW oRdy \in BOOLEAN,
           Clock(iVld, d, oRdy)
    PROVE  TypeOK'
  <1>1. \E wen, ren \in BOOLEAN : FifoStep(wen, ren, d)
    <2>1. FifoStep(iVld /\ ~Through(iVld, oRdy) /\ Ready(oRdy), Valid /\ oRdy, d)
      BY DEF Clock
    <2>2. QED BY <2>1
  <1>2. /\ rf' \in [Entries -> Data] /\ wptr' \in Entries /\ rptr' \in Entries
        /\ vec' \in [0 .. DP -> BOOLEAN]
    BY <1>1, StepTyping
  <1>3. inp' \in [word : Data, odd : BOOLEAN]
    BY DEF Clock, TypeOK, Turn
  <1>4. out' \in [word : Data, odd : BOOLEAN]
    <2>1. rf[rptr] \in Data
      BY DEF TypeOK
    <2>2. QED BY <2>1 DEF Clock, TypeOK, Turn
  <1>5. QED BY <1>2, <1>3, <1>4 DEF TypeOK

\* The invariant and the queue, together for all steps.
LEMMA NextStep == IInv /\ [Next]_vars => IInv' /\ [Chan!Next]_(Chan!cvars)
  <1> SUFFICES ASSUME IInv, [Next]_vars PROVE IInv' /\ [Chan!Next]_(Chan!cvars)
    OBVIOUS
  <1>1. CASE Next
    <2>1. PICK iVld \in BOOLEAN, d \in Data, oRdy \in BOOLEAN : Clock(iVld, d, oRdy)
      BY <1>1 DEF Next
    <2>2. (\E n \in 0 .. DP : Holds(n)') /\ (Chan!Next \/ UNCHANGED Chan!cvars)
      BY <2>1, ClockStep
    <2>3. TypeOK'
      BY <2>1, ClockTyping DEF IInv
    <2>4. QED BY <2>2, <2>3 DEF IInv, Agree
  <1>2. CASE UNCHANGED vars
    <2>1. IInv'
      BY <1>2 DEF IInv, TypeOK, Agree, Holds, Slot, vars, regs
    <2>2. UNCHANGED Chan!cvars
      BY <1>2 DEF Chan!cvars, Contents, Count, Words, Holds, Slot, vars, regs
    <2>3. QED BY <2>1, <2>2
  <1>3. QED BY <1>1, <1>2

\* At every depth the vector, the write pointer and the read pointer agree on
\* the number of words, after any number of wraps.
THEOREM Agreement == Spec => []Agree
  <1>1. IInv => Agree
    BY DEF IInv
  <1>2. QED BY <1>1, InitInv, NextStep, PTL DEF Spec

\* At every depth, with or without the bypass, the FIFO is a queue: every
\* word that is accepted is delivered once and in order.
THEOREM FifoIsQueue == Spec => IsQueue
  <1>1. Init => Chan!Init
    <2> SUFFICES ASSUME Init PROVE Chan!Init
      OBVIOUS
    <2>1. Holds(0) /\ 0 \in 0 .. DP
      BY InitInv, DepthAssumption
    <2>2. Contents = <<>>
      BY <2>1, CountUnique DEF Determined, Contents, Words
    <2>3. QED BY <2>2 DEF Init, Chan!Init
  <1>2. QED BY <1>1, InitInv, NextStep, PTL DEF Spec, IsQueue, Chan!Spec
=============================================================================
