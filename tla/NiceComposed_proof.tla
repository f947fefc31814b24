-------------------------- MODULE NiceComposed_proof --------------------------
(***************************************************************************)
(* Proofs about the two compositions of NiceCore.                          *)
(*                                                                         *)
(* NiceSystem, the accelerator behind the core, for every depth of the     *)
(* queues that leaves room for the undecoded instructions: the OITF, the   *)
(* queue of tags and the memory port agree on what is outstanding, every   *)
(* answer of the accelerator is taken in the cycle it is given, and        *)
(* instructions retire in order.                                           *)
(*                                                                         *)
(* NiceArray, the accelerator with its datapath and its driver, for the    *)
(* dimensions of the hardware, every memory, every program of the driver   *)
(* that loads the weights first and any number of images: each layer's     *)
(* outputs are those of the C reference.                                   *)
(***************************************************************************)
EXTENDS NiceSystem, NiceArray, NiceCore_proof, SequenceTheorems

(* The accelerator behind the core. *)

\* An undecoded instruction is never answered: there is room for all of
\* them and one more instruction.
Roomy == MaxIllegal < OitfDepth /\ MaxIllegal < ItagDepth

-----------------------------------------------------------------------------
(* Pointers *)

Pointers == 0 .. 2 * OitfDepth - 1

\* The tag of the n-th entry from pointer p on.
TagAt(p, n) == Tag(p + n - 1)

\* A pointer less than three times the depth, folded to the index of an entry.
LEMMA Folded ==
    ASSUME NEW x \in 0 .. 3 * OitfDepth
    PROVE  /\ x < OitfDepth => Tag(x) = x
           /\ OitfDepth <= x /\ x < 2 * OitfDepth => Tag(x) = x - OitfDepth
           /\ 2 * OitfDepth <= x /\ x < 3 * OitfDepth => Tag(x) = x - 2 * OitfDepth
           /\ x = 3 * OitfDepth => Tag(x) = 0
           /\ x < 2 * OitfDepth => x % (2 * OitfDepth) = x
           /\ x >= 2 * OitfDepth => x % (2 * OitfDepth) = x - 2 * OitfDepth
<1>1. OitfDepth \in Nat \ {0} /\ 2 * OitfDepth \in Nat \ {0} /\ x \in Nat
  BY SystemAssumption
<1>2. x < OitfDepth => Tag(x) = x
  BY <1>1 DEF Tag
<1>3. OitfDepth <= x /\ x < 2 * OitfDepth => Tag(x) = x - OitfDepth
  BY <1>1 DEF Tag
<1>4. 2 * OitfDepth <= x /\ x < 3 * OitfDepth => Tag(x) = x - 2 * OitfDepth
  BY <1>1 DEF Tag
<1>5. x = 3 * OitfDepth => Tag(x) = 0
  BY <1>1 DEF Tag
<1>6. x < 2 * OitfDepth => x % (2 * OitfDepth) = x
  BY <1>1
<1>7. x >= 2 * OitfDepth => x % (2 * OitfDepth) = x - 2 * OitfDepth
  BY <1>1
<1> QED BY <1>2, <1>3, <1>4, <1>5, <1>6, <1>7

\* The pointer after a pointer is one, and another.
LEMMA SuccPointer == ASSUME NEW p \in Pointers PROVE Succ(p) \in Pointers /\ Succ(p) # p
<1>1. p + 1 \in 0 .. 3 * OitfDepth
  BY SystemAssumption DEF Pointers
<1>2. Succ(p) = IF p + 1 < 2 * OitfDepth THEN p + 1 ELSE p + 1 - 2 * OitfDepth
  BY <1>1, Folded, SystemAssumption DEF Succ, Pointers
<1> QED BY <1>2, SystemAssumption DEF Pointers

\* Entries within one turn of a pointer have tags of their own.
LEMMA AtDistinct ==
    ASSUME NEW p \in Pointers, NEW n \in 1 .. OitfDepth, NEW m \in 1 .. OitfDepth
    PROVE  TagAt(p, n) \in Tags /\ (TagAt(p, n) = TagAt(p, m) => n = m)
<1>1. p + n - 1 \in 0 .. 3 * OitfDepth /\ p + m - 1 \in 0 .. 3 * OitfDepth
      /\ p + n - 1 < 3 * OitfDepth /\ p + m - 1 < 3 * OitfDepth
  BY SystemAssumption DEF Pointers
<1>2. ASSUME NEW x \in 0 .. 3 * OitfDepth, x < 3 * OitfDepth
      PROVE  /\ Tag(x) \in Tags
             /\ Tag(x) = x \/ Tag(x) = x - OitfDepth \/ Tag(x) = x - 2 * OitfDepth
  BY <1>2, Folded, SystemAssumption DEF Tags
<1>3. TagAt(p, n) \in Tags /\ TagAt(p, m) \in Tags
  BY <1>1, <1>2 DEF TagAt
<1>4. ASSUME TagAt(p, n) = TagAt(p, m) PROVE n = m
  <2> DEFINE x == p + n - 1
             y == p + m - 1
  <2>1. /\ x < OitfDepth => Tag(x) = x
        /\ OitfDepth <= x /\ x < 2 * OitfDepth => Tag(x) = x - OitfDepth
        /\ 2 * OitfDepth <= x => Tag(x) = x - 2 * OitfDepth
    BY <1>1, Folded
  <2>2. /\ y < OitfDepth => Tag(y) = y
        /\ OitfDepth <= y /\ y < 2 * OitfDepth => Tag(y) = y - OitfDepth
        /\ 2 * OitfDepth <= y => Tag(y) = y - 2 * OitfDepth
    BY <1>1, Folded
  <2>3. Tag(x) = Tag(y) /\ x - y = n - m
    BY <1>4 DEF TagAt, Pointers
  <2>4. x \in Int /\ y \in Int /\ OitfDepth \in Nat /\ x - y < OitfDepth /\ y - x < OitfDepth
    BY <1>1, SystemAssumption DEF Pointers
  <2>5. x = y
    <3> HIDE DEF x, y
    <3> QED BY <2>1, <2>2, <2>3, <2>4
  <2>6. QED BY <2>5 DEF Pointers
<1> QED BY <1>3, <1>4

\* A turn of the pointer moves every entry one place on.
LEMMA AtNext ==
    ASSUME NEW p \in Pointers, NEW n \in 1 .. OitfDepth
    PROVE  TagAt(Succ(p), n) = TagAt(p, n + 1)
<1>1. OitfDepth \in Nat \ {0, 1} /\ p \in Nat /\ p < 2 * OitfDepth /\ n \in Nat
      /\ 1 <= n /\ n <= OitfDepth
  BY SystemAssumption DEF Pointers
<1>2. CASE p + 1 < 2 * OitfDepth
  <2>1. Succ(p) = p + 1
    BY <1>1, <1>2, Folded DEF Succ
  <2>2. QED BY <1>1, <2>1 DEF TagAt
<1>3. CASE p = 2 * OitfDepth - 1
  <2>1. Succ(p) = 0
    BY <1>1, <1>3, Folded DEF Succ
  <2>2. Tag(n - 1) = n - 1
    BY <1>1, Folded
  <2>3. p + n \in 0 .. 3 * OitfDepth /\ p + n >= 2 * OitfDepth /\ p + n < 3 * OitfDepth
        /\ p + n - 2 * OitfDepth = n - 1
    BY <1>1, <1>3
  <2>4. Tag(p + n) = n - 1
    BY <1>1, <2>3, Folded
  <2>5. TagAt(Succ(p), n) = Tag(n - 1) /\ TagAt(p, n + 1) = Tag(p + n)
    BY <1>1, <2>1 DEF TagAt
  <2>6. QED BY <2>2, <2>4, <2>5
<1> QED BY <1>1, <1>2, <1>3

\* The allocation pointer, n entries behind the other: its tag, and the
\* pointers after an allocation and after a retirement.
LEMMA Behind ==
    ASSUME NEW p \in Pointers, NEW n \in 0 .. OitfDepth, NEW a, a = (p + n) % (2 * OitfDepth)
    PROVE  /\ a \in Pointers
           /\ Tag(a) = TagAt(p, n + 1)
           /\ Succ(a) = (p + n + 1) % (2 * OitfDepth)
           /\ n > 0 => a = (Succ(p) + (n - 1)) % (2 * OitfDepth)
           /\ a = p <=> n = 0
           /\ a # p /\ Tag(a) = Tag(p) <=> n = OitfDepth
<1>1. OitfDepth \in Nat \ {0, 1} /\ p \in Nat /\ p < 2 * OitfDepth /\ n \in Nat
      /\ n <= OitfDepth /\ p + n \in 0 .. 3 * OitfDepth /\ p + n < 3 * OitfDepth
  BY SystemAssumption DEF Pointers
<1>2. /\ p + n < 2 * OitfDepth => a = p + n
      /\ p + n >= 2 * OitfDepth => a = p + n - 2 * OitfDepth
  <2> DEFINE x == p + n
  <2>1. x \in 0 .. 3 * OitfDepth /\ a = x % (2 * OitfDepth)
    BY <1>1
  <2> HIDE DEF x
  <2>2. /\ x < 2 * OitfDepth => x % (2 * OitfDepth) = x
        /\ x >= 2 * OitfDepth => x % (2 * OitfDepth) = x - 2 * OitfDepth
    BY <2>1, Folded
  <2>3. x < 2 * OitfDepth => a = x
    BY <2>1, <2>2
  <2>4. x >= 2 * OitfDepth => a = x - 2 * OitfDepth
    BY <2>1, <2>2
  <2>5. x = p + n
    BY DEF x
  <2>6. p + n < 2 * OitfDepth => a = p + n
    BY <2>3, <2>5
  <2>7. p + n >= 2 * OitfDepth => a = p + n - 2 * OitfDepth
    BY <1>1, <2>4, <2>5
  <2>8. QED BY <2>6, <2>7
<1>3. a \in Pointers
  BY <1>1, <1>2 DEF Pointers
<1>4. Tag(a) = TagAt(p, n + 1)
  <2>1. TagAt(p, n + 1) = Tag(p + n)
    BY <1>1 DEF TagAt
  <2>2. CASE p + n < 2 * OitfDepth
    BY <1>2, <2>1, <2>2
  <2>3. CASE p + n >= 2 * OitfDepth
    <3>1. Tag(p + n) = p + n - 2 * OitfDepth
      BY <1>1, <2>3, Folded
    <3>2. a \in 0 .. 3 * OitfDepth /\ a < OitfDepth /\ a = p + n - 2 * OitfDepth
      BY <1>1, <1>2, <2>3
    <3>3. Tag(a) = a
      BY <3>2, Folded
    <3>4. QED BY <2>1, <3>1, <3>2, <3>3
  <2>4. QED BY <1>1, <2>2, <2>3
<1>5. Succ(a) = (p + n + 1) % (2 * OitfDepth)
  <2>1. p + n + 1 \in 0 .. 3 * OitfDepth /\ a + 1 \in 0 .. 3 * OitfDepth
    BY <1>1, <1>2
  <2>2. /\ p + n + 1 < 2 * OitfDepth => (p + n + 1) % (2 * OitfDepth) = p + n + 1
        /\ p + n + 1 >= 2 * OitfDepth =>
             (p + n + 1) % (2 * OitfDepth) = p + n + 1 - 2 * OitfDepth
        /\ a + 1 < 2 * OitfDepth => Succ(a) = a + 1
        /\ a + 1 >= 2 * OitfDepth => Succ(a) = a + 1 - 2 * OitfDepth
    <3>1. (p + n + 1) % (2 * OitfDepth) =
            IF p + n + 1 < 2 * OitfDepth THEN p + n + 1 ELSE p + n + 1 - 2 * OitfDepth
      BY <1>1, <2>1, Folded
    <3>2. (a + 1) % (2 * OitfDepth) =
            IF a + 1 < 2 * OitfDepth THEN a + 1 ELSE a + 1 - 2 * OitfDepth
      BY <1>1, <2>1, Folded
    <3>3. QED BY <1>1, <1>2, <3>1, <3>2 DEF Succ
  <2>3. QED BY <1>1, <1>2, <2>2
<1>6. n > 0 => a = (Succ(p) + (n - 1)) % (2 * OitfDepth)
  <2>1. /\ p + 1 < 2 * OitfDepth => Succ(p) = p + 1
        /\ p + 1 >= 2 * OitfDepth => Succ(p) = p + 1 - 2 * OitfDepth
    BY <1>1, Folded DEF Succ
  <2>2. CASE p + 1 < 2 * OitfDepth /\ n > 0
    BY <1>1, <2>1, <2>2
  <2>3. CASE p + 1 >= 2 * OitfDepth /\ n > 0
    <3>1. Succ(p) + (n - 1) = n - 1 /\ n - 1 \in 0 .. 3 * OitfDepth /\ n - 1 < 2 * OitfDepth
      BY <1>1, <2>1, <2>3
    <3>2. (n - 1) % (2 * OitfDepth) = n - 1
      BY <3>1, Folded
    <3>3. a = n - 1
      BY <1>1, <1>2, <2>3
    <3>4. QED BY <3>1, <3>2, <3>3
  <2>4. QED BY <1>1, <2>2, <2>3
<1>7. a = p <=> n = 0
  BY <1>1, <1>2
<1>8. a # p /\ Tag(a) = Tag(p) <=> n = OitfDepth
  <2>1. CASE n = OitfDepth
    <3>1. a # p
      BY <1>1, <1>2, <2>1
    <3>2. Tag(p + OitfDepth) = Tag(p)
      <4>1. /\ p < OitfDepth => Tag(p) = p /\ Tag(p + OitfDepth) = p + OitfDepth - OitfDepth
            /\ p >= OitfDepth => /\ Tag(p) = p - OitfDepth
                                 /\ Tag(p + OitfDepth) = p + OitfDepth - 2 * OitfDepth
        BY <1>1, <2>1, Folded
      <4>2. QED BY <1>1, <4>1
    <3>3. QED BY <1>1, <1>4, <2>1, <3>1, <3>2 DEF TagAt
  <2>2. CASE n # OitfDepth /\ n # 0
    <3>1. n + 1 \in 1 .. OitfDepth /\ 1 \in 1 .. OitfDepth /\ n + 1 # 1
      BY <1>1, <2>2
    <3>2. TagAt(p, n + 1) # TagAt(p, 1)
      BY <3>1, AtDistinct
    <3>3. TagAt(p, 1) = Tag(p)
      BY <1>1 DEF TagAt
    <3>4. QED BY <1>4, <2>2, <3>2, <3>3
  <2>3. CASE n = 0
    BY <1>1, <1>7, <2>3
  <2>4. QED BY <2>1, <2>2, <2>3
<1> QED BY <1>3, <1>4, <1>5, <1>6, <1>7, <1>8
-----------------------------------------------------------------------------
(* Entries *)

Regs == {i.rd : i \in Instrs \union {Bubble}}
Ops  == {i.op : i \in Instrs \union {Bubble}}
Entries == [unit : {"mem", "nice"}, rd : Regs, op : Ops]

\* The OITF holds the instructions fl, oldest first.
Entered(fl, rt, al, sl) ==
    /\ fl \in Seq(Entries) /\ Len(fl) <= OitfDepth
    /\ rt \in Pointers /\ al = (rt + Len(fl)) % (2 * OitfDepth)
    /\ sl \in [Tags -> [vld : BOOLEAN, rd : Regs]]
    /\ \A n \in 1 .. Len(fl) : sl[TagAt(rt, n)] = [vld |-> TRUE, rd |-> fl[n].rd]
    /\ \A k \in Tags : sl[k].vld => \E n \in 1 .. Len(fl) : TagAt(rt, n) = k

\* When the OITF is empty and when it is full.
LEMMA Ends ==
    ASSUME NEW fl, NEW rt, NEW al, NEW sl, Entered(fl, rt, al, sl)
    PROVE  /\ al \in Pointers /\ Tag(al) \in Tags
           /\ al = rt <=> Len(fl) = 0
           /\ (al # rt /\ Tag(al) = Tag(rt)) <=> Len(fl) = OitfDepth
<1> DEFINE n == Len(fl)
<1>1. /\ n \in 0 .. OitfDepth /\ rt \in Pointers /\ al = (rt + n) % (2 * OitfDepth)
  BY SystemAssumption, LenProperties DEF Entered
<1> HIDE DEF n
<1>2. /\ al \in Pointers /\ (al = rt <=> n = 0)
      /\ (al # rt /\ Tag(al) = Tag(rt)) <=> n = OitfDepth
  BY <1>1, Behind
<1>3. Tag(al) \in Tags
  <2>1. al + 1 - 1 = al /\ 1 \in 1 .. OitfDepth
    BY <1>2, SystemAssumption DEF Pointers
  <2>2. TagAt(al, 1) \in Tags
    BY <1>2, <2>1, AtDistinct
  <2>3. QED BY <2>1, <2>2 DEF TagAt
<1> QED BY <1>2, <1>3 DEF n

\* The OITF's entries when the oldest is freed, and when one is taken.
Freed(sl, rt) ==
    [k \in Tags |-> IF k = Tag(rt) THEN [sl[k] EXCEPT !.vld = FALSE] ELSE sl[k]]
Taken(sl, al, rd) ==
    [k \in Tags |-> IF k = Tag(al) THEN [vld |-> TRUE, rd |-> rd] ELSE sl[k]]

\* Retiring frees the oldest entry, and that is the head of the flight.
LEMMA EntryFreed ==
    ASSUME NEW fl, NEW rt, NEW al, NEW sl, Entered(fl, rt, al, sl), fl # <<>>
    PROVE  Entered(Tail(fl), Succ(rt), al, Freed(sl, rt))
<1>1. /\ fl \in Seq(Entries) /\ Len(fl) \in Nat \ {0} /\ Len(fl) <= OitfDepth
      /\ rt \in Pointers /\ OitfDepth \in Nat \ {0, 1}
  BY SystemAssumption, EmptySeq, LenProperties DEF Entered
<1>2. /\ Tail(fl) \in Seq(Entries) /\ Len(Tail(fl)) = Len(fl) - 1
      /\ \A n \in 1 .. Len(fl) - 1 : Tail(fl)[n] = fl[n+1]
  BY <1>1, HeadTailProperties
<1>3. Succ(rt) \in Pointers /\ al = (Succ(rt) + Len(Tail(fl))) % (2 * OitfDepth)
  <2>1. Succ(rt) \in Pointers
    BY <1>1, SuccPointer
  <2>2. /\ Len(fl) \in 0 .. OitfDepth /\ Len(fl) > 0
        /\ al = (rt + Len(fl)) % (2 * OitfDepth)
    BY <1>1 DEF Entered
  <2>3. al = (Succ(rt) + (Len(fl) - 1)) % (2 * OitfDepth)
    BY <1>1, <2>2, Behind
  <2>4. QED BY <1>2, <2>1, <2>3
<1>4. TagAt(rt, 1) = Tag(rt)
  BY <1>1 DEF TagAt, Pointers
<1>5. Freed(sl, rt) \in [Tags -> [vld : BOOLEAN, rd : Regs]]
  <2>1. sl \in [Tags -> [vld : BOOLEAN, rd : Regs]]
    BY DEF Entered
  <2>2. QED BY <2>1 DEF Freed
<1>6. ASSUME NEW n \in 1 .. Len(fl) - 1
      PROVE  Freed(sl, rt)[TagAt(Succ(rt), n)] = [vld |-> TRUE, rd |-> Tail(fl)[n].rd]
  <2>1. /\ n \in 1 .. OitfDepth /\ n + 1 \in 1 .. OitfDepth /\ n + 1 \in 1 .. Len(fl)
        /\ 1 \in 1 .. OitfDepth /\ n + 1 # 1
    BY <1>1
  <2>2. TagAt(Succ(rt), n) = TagAt(rt, n + 1)
    BY <1>1, <2>1, AtNext
  <2>3. TagAt(rt, n + 1) \in Tags /\ TagAt(rt, n + 1) # Tag(rt)
    BY <1>1, <1>4, <2>1, AtDistinct
  <2>4. sl[TagAt(rt, n + 1)] = [vld |-> TRUE, rd |-> fl[n+1].rd]
    BY <2>1 DEF Entered
  <2>5. Freed(sl, rt)[TagAt(rt, n + 1)] = sl[TagAt(rt, n + 1)]
    BY <2>3 DEF Freed
  <2>6. QED BY <1>2, <2>2, <2>4, <2>5
<1>7. ASSUME NEW k \in Tags, Freed(sl, rt)[k].vld
      PROVE  \E n \in 1 .. Len(fl) - 1 : TagAt(Succ(rt), n) = k
  <2>1. sl[k] \in [vld : BOOLEAN, rd : Regs]
    BY DEF Entered
  <2>2. k # Tag(rt)
    <3>1. SUFFICES ASSUME k = Tag(rt) PROVE FALSE
      OBVIOUS
    <3>2. Freed(sl, rt)[k] = [sl[k] EXCEPT !.vld = FALSE]
      BY <3>1 DEF Freed
    <3>3. QED BY <1>7, <2>1, <3>2
  <2>3. sl[k].vld
    BY <1>7, <2>2 DEF Freed
  <2>4. PICK m \in 1 .. Len(fl) : TagAt(rt, m) = k
    BY <2>3 DEF Entered
  <2>5. m # 1
    BY <1>4, <2>2, <2>4
  <2>6. m - 1 \in 1 .. Len(fl) - 1 /\ m - 1 \in 1 .. OitfDepth /\ (m - 1) + 1 = m
    BY <1>1, <2>5
  <2>7. TagAt(Succ(rt), m - 1) = TagAt(rt, (m - 1) + 1)
    BY <1>1, <2>6, AtNext
  <2>8. QED BY <2>4, <2>6, <2>7
<1> QED BY <1>1, <1>2, <1>3, <1>5, <1>6, <1>7 DEF Entered

\* Dispatching takes the next entry, and that becomes the end of the flight.
LEMMA EntryTaken ==
    ASSUME NEW fl, NEW rt, NEW al, NEW sl, Entered(fl, rt, al, sl), Len(fl) < OitfDepth,
           NEW e \in Entries
    PROVE  Entered(Append(fl, e), rt, Succ(al), Taken(sl, al, e.rd))
<1>1. /\ fl \in Seq(Entries) /\ Len(fl) \in Nat /\ Len(fl) + 1 <= OitfDepth
      /\ rt \in Pointers /\ OitfDepth \in Nat \ {0, 1}
      /\ sl \in [Tags -> [vld : BOOLEAN, rd : Regs]]
  BY SystemAssumption, LenProperties DEF Entered
<1>2. /\ Append(fl, e) \in Seq(Entries) /\ Len(Append(fl, e)) = Len(fl) + 1
      /\ \A n \in 1 .. Len(fl) : Append(fl, e)[n] = fl[n]
      /\ Append(fl, e)[Len(fl) + 1] = e
  BY <1>1, AppendProperties
<1>3. Tag(al) = TagAt(rt, Len(fl) + 1) /\ Succ(al) = (rt + Len(fl) + 1) % (2 * OitfDepth)
  <2>1. Len(fl) \in 0 .. OitfDepth /\ al = (rt + Len(fl)) % (2 * OitfDepth)
    BY <1>1 DEF Entered
  <2>2. QED BY <1>1, <2>1, Behind
<1>4. Succ(al) = (rt + Len(Append(fl, e))) % (2 * OitfDepth)
  <2>1. rt + Len(fl) + 1 = rt + (Len(fl) + 1)
    BY <1>1 DEF Pointers
  <2>2. QED BY <1>2, <1>3, <2>1
<1>5. Taken(sl, al, e.rd) \in [Tags -> [vld : BOOLEAN, rd : Regs]]
  BY <1>1 DEF Taken, Entries
<1>6. ASSUME NEW n \in 1 .. Len(fl) + 1
      PROVE  Taken(sl, al, e.rd)[TagAt(rt, n)] = [vld |-> TRUE, rd |-> Append(fl, e)[n].rd]
  <2>1. n \in 1 .. OitfDepth /\ Len(fl) + 1 \in 1 .. OitfDepth
    BY <1>1
  <2>2. TagAt(rt, n) \in Tags /\ (TagAt(rt, n) = Tag(al) => n = Len(fl) + 1)
    BY <1>1, <1>3, <2>1, AtDistinct
  <2>3. CASE n = Len(fl) + 1
    BY <1>2, <1>3, <2>2, <2>3 DEF Taken
  <2>4. CASE n \in 1 .. Len(fl)
    <3>1. n # Len(fl) + 1
      BY <1>1, <2>4
    <3>2. Taken(sl, al, e.rd)[TagAt(rt, n)] = sl[TagAt(rt, n)]
      BY <2>2, <3>1 DEF Taken
    <3>3. sl[TagAt(rt, n)] = [vld |-> TRUE, rd |-> fl[n].rd]
      BY <2>4 DEF Entered
    <3>4. QED BY <1>2, <2>4, <3>2, <3>3
  <2>5. n = Len(fl) + 1 \/ n \in 1 .. Len(fl)
    BY <1>1
  <2>6. QED BY <2>3, <2>4, <2>5
<1>7. ASSUME NEW k \in Tags, Taken(sl, al, e.rd)[k].vld
      PROVE  \E n \in 1 .. Len(fl) + 1 : TagAt(rt, n) = k
  <2>1. CASE k = Tag(al)
    BY <1>1, <1>3, <2>1
  <2>2. CASE k # Tag(al)
    <3>1. sl[k].vld
      BY <1>7, <2>2 DEF Taken
    <3>2. PICK m \in 1 .. Len(fl) : TagAt(rt, m) = k
      BY <3>1 DEF Entered
    <3>3. m \in 1 .. Len(fl) + 1
      BY <1>1
    <3>4. QED BY <3>2, <3>3
  <2>3. QED BY <2>1, <2>2
<1> QED BY <1>1, <1>2, <1>4, <1>5, <1>6, <1>7 DEF Entered

-----------------------------------------------------------------------------
(* Units and tags *)

\* Of the instructions fl the p-th is the load or store at the memory port,
\* none if p is 0; the others are the accelerator's.
Units(fl, rt, bz, tg, p) ==
    /\ p \in 0 .. Len(fl)
    /\ bz = (p # 0)
    /\ p # 0 => tg = TagAt(rt, p)
    /\ \A n \in 1 .. Len(fl) : fl[n].unit = "mem" <=> n = p

\* The queue holds the tags of the accelerator's instructions, in order.
Queued(fl, rt, it, p) ==
    /\ it \in Seq(Tags)
    /\ Len(it) = IF p = 0 THEN Len(fl) ELSE Len(fl) - 1
    /\ \A q \in 1 .. Len(it) : it[q] = TagAt(rt, IF p = 0 \/ q < p THEN q ELSE q + 1)

\* The load or store was the oldest and retires.
LEMMA MemRetired ==
    ASSUME NEW fl, NEW rt, NEW al, NEW sl, Entered(fl, rt, al, sl), fl # <<>>,
           NEW bz, NEW tg, NEW it, Units(fl, rt, bz, tg, 1), Queued(fl, rt, it, 1)
    PROVE  /\ Units(Tail(fl), Succ(rt), FALSE, tg, 0)
           /\ Queued(Tail(fl), Succ(rt), it, 0)
           /\ Head(fl).unit = "mem"
<1>1. /\ fl \in Seq(Entries) /\ Len(fl) \in Nat \ {0} /\ Len(fl) <= OitfDepth
      /\ rt \in Pointers /\ OitfDepth \in Nat \ {0, 1}
  BY SystemAssumption, EmptySeq, LenProperties DEF Entered
<1>2. /\ Tail(fl) \in Seq(Entries) /\ Len(Tail(fl)) = Len(fl) - 1
      /\ \A n \in 1 .. Len(fl) - 1 : Tail(fl)[n] = fl[n+1]
      /\ Head(fl) = fl[1]
  BY <1>1, HeadTailProperties
<1>3. ASSUME NEW n \in 1 .. Len(fl) - 1 PROVE Tail(fl)[n].unit # "mem"
  <2>1. n + 1 \in 1 .. Len(fl) /\ n + 1 # 1
    BY <1>1
  <2>2. QED BY <1>2, <2>1 DEF Units
<1>4. it \in Seq(Tags) /\ Len(it) = Len(fl) - 1
  BY DEF Queued
<1>5. ASSUME NEW q \in 1 .. Len(it) PROVE it[q] = TagAt(Succ(rt), q)
  <2>1. it[q] = TagAt(rt, q + 1)
    BY <1>1, <1>4 DEF Queued
  <2>2. q \in 1 .. OitfDepth
    BY <1>1, <1>4
  <2>3. QED BY <1>1, <2>1, <2>2, AtNext
<1>6. Units(Tail(fl), Succ(rt), FALSE, tg, 0)
  BY <1>1, <1>2, <1>3 DEF Units
<1>7. Queued(Tail(fl), Succ(rt), it, 0)
  BY <1>2, <1>4, <1>5 DEF Queued
<1>8. Head(fl).unit = "mem"
  BY <1>1, <1>2 DEF Units
<1> QED BY <1>6, <1>7, <1>8

\* The oldest is an instruction of the accelerator: its tag is at the head
\* of the queue, and it retires.
LEMMA NiceRetired ==
    ASSUME NEW fl, NEW rt, NEW al, NEW sl, Entered(fl, rt, al, sl), fl # <<>>,
           NEW bz, NEW tg, NEW it, NEW p, p # 1, Units(fl, rt, bz, tg, p),
           Queued(fl, rt, it, p)
    PROVE  /\ Head(fl).unit = "nice" /\ it # <<>> /\ Head(it) = Tag(rt)
           /\ Units(Tail(fl), Succ(rt), bz, tg, IF p = 0 THEN 0 ELSE p - 1)
           /\ Queued(Tail(fl), Succ(rt), Tail(it), IF p = 0 THEN 0 ELSE p - 1)
<1> DEFINE r == IF p = 0 THEN 0 ELSE p - 1
<1>1. /\ fl \in Seq(Entries) /\ Len(fl) \in Nat \ {0} /\ Len(fl) <= OitfDepth
      /\ rt \in Pointers /\ OitfDepth \in Nat \ {0, 1}
  BY SystemAssumption, EmptySeq, LenProperties DEF Entered
<1>2. /\ Tail(fl) \in Seq(Entries) /\ Len(Tail(fl)) = Len(fl) - 1
      /\ \A n \in 1 .. Len(fl) - 1 : Tail(fl)[n] = fl[n+1]
      /\ Head(fl) = fl[1]
  BY <1>1, HeadTailProperties
<1>3. p \in 0 .. Len(fl) /\ r \in 0 .. Len(fl) - 1 /\ (p = 0 <=> r = 0)
  <2>1. p \in 0 .. Len(fl)
    BY DEF Units
  <2>2. QED BY <1>1, <2>1
<1>4. it \in Seq(Tags) /\ Len(it) = (IF p = 0 THEN Len(fl) ELSE Len(fl) - 1) /\ Len(it) > 0
      /\ Len(it) \in Nat
  <2>1. it \in Seq(Tags) /\ Len(it) = (IF p = 0 THEN Len(fl) ELSE Len(fl) - 1)
    BY DEF Queued
  <2>2. QED BY <1>1, <1>3, <2>1
<1>5. /\ it # <<>> /\ Head(it) = it[1] /\ Tail(it) \in Seq(Tags)
      /\ Len(Tail(it)) = Len(it) - 1
      /\ \A q \in 1 .. Len(it) - 1 : Tail(it)[q] = it[q+1]
  BY <1>4, EmptySeq, HeadTailProperties
<1>6. Head(it) = Tag(rt)
  <2>1. it[1] = TagAt(rt, 1)
    BY <1>3, <1>4 DEF Queued
  <2>2. TagAt(rt, 1) = Tag(rt)
    BY <1>1 DEF TagAt, Pointers
  <2>3. QED BY <1>5, <2>1, <2>2
<1>7. Head(fl).unit = "nice"
  <2>1. 1 \in 1 .. Len(fl) /\ fl[1] \in Entries
    BY <1>1, ElementOfSeq
  <2>2. fl[1].unit # "mem"
    BY <2>1 DEF Units
  <2>3. QED BY <1>2, <2>1, <2>2 DEF Entries
<1>8. Units(Tail(fl), Succ(rt), bz, tg, r)
  <2>1. bz = (r # 0)
    BY <1>3 DEF Units
  <2>2. ASSUME r # 0 PROVE tg = TagAt(Succ(rt), r)
    <3>1. tg = TagAt(rt, p)
      BY <1>3, <2>2 DEF Units
    <3>2. r \in 1 .. OitfDepth /\ r + 1 = p
      BY <1>1, <1>3, <2>2
    <3>3. QED BY <1>1, <3>1, <3>2, AtNext
  <2>3. ASSUME NEW n \in 1 .. Len(fl) - 1 PROVE Tail(fl)[n].unit = "mem" <=> n = r
    <3>1. n + 1 \in 1 .. Len(fl) /\ (n + 1 = p <=> n = r)
      BY <1>1, <1>3
    <3>2. fl[n+1].unit = "mem" <=> n + 1 = p
      BY <3>1 DEF Units
    <3>3. QED BY <1>2, <3>1, <3>2
  <2> HIDE DEF r
  <2>4. QED BY <1>1, <1>2, <1>3, <2>1, <2>2, <2>3 DEF Units
<1>9. Queued(Tail(fl), Succ(rt), Tail(it), r)
  <2>1. Len(Tail(it)) = IF r = 0 THEN Len(Tail(fl)) ELSE Len(Tail(fl)) - 1
    BY <1>1, <1>2, <1>3, <1>4, <1>5
  <2>2. ASSUME NEW q \in 1 .. Len(it) - 1
        PROVE  Tail(it)[q] = TagAt(Succ(rt), IF r = 0 \/ q < r THEN q ELSE q + 1)
    <3>1. q + 1 \in 1 .. Len(it) /\ q \in Nat /\ q <= Len(fl) - 1
      BY <1>1, <1>3, <1>4
    <3>2. Tail(it)[q] = TagAt(rt, IF p = 0 \/ q + 1 < p THEN q + 1 ELSE (q + 1) + 1)
      BY <1>5, <3>1 DEF Queued
    <3>3. CASE r = 0 \/ q < r
      <4>1. q \in 1 .. OitfDepth
        BY <1>1, <3>1
      <4>2. p = 0 \/ q + 1 < p
        BY <1>3, <3>3, <3>1
      <4>3. Tail(it)[q] = TagAt(rt, q + 1)
        BY <3>2, <4>2
      <4>4. QED BY <1>1, <3>3, <4>1, <4>3, AtNext
    <3>4. CASE ~(r = 0 \/ q < r)
      <4>1. p # 0 /\ ~(q + 1 < p)
        BY <1>3, <3>4, <3>1
      <4>2. q + 1 \in 1 .. OitfDepth
        BY <1>1, <1>4, <3>1, <4>1
      <4>3. Tail(it)[q] = TagAt(rt, (q + 1) + 1)
        BY <3>2, <4>1
      <4>4. QED BY <1>1, <3>4, <4>2, <4>3, AtNext
    <3>5. QED BY <3>3, <3>4
  <2> HIDE DEF r
  <2>3. \A q \in 1 .. Len(Tail(it)) :
           Tail(it)[q] = TagAt(Succ(rt), IF r = 0 \/ q < r THEN q ELSE q + 1)
    BY <1>5, <2>2
  <2>4. QED BY <1>5, <2>1, <2>3 DEF Queued
<1> QED BY <1>5, <1>6, <1>7, <1>8, <1>9

\* A load or store is dispatched; the port was free.
LEMMA MemTaken ==
    ASSUME NEW fl, NEW rt, NEW al, NEW sl, Entered(fl, rt, al, sl), Len(fl) < OitfDepth,
           NEW bz, NEW tg, NEW it, Units(fl, rt, bz, tg, 0), Queued(fl, rt, it, 0),
           NEW e \in Entries, e.unit = "mem"
    PROVE  /\ Units(Append(fl, e), rt, TRUE, Tag(al), Len(fl) + 1)
           /\ Queued(Append(fl, e), rt, it, Len(fl) + 1)
<1>1. /\ fl \in Seq(Entries) /\ Len(fl) \in Nat /\ Len(fl) \in 0 .. OitfDepth
      /\ rt \in Pointers /\ al = (rt + Len(fl)) % (2 * OitfDepth)
  BY SystemAssumption, LenProperties DEF Entered
<1>2. /\ Append(fl, e) \in Seq(Entries) /\ Len(Append(fl, e)) = Len(fl) + 1
      /\ \A n \in 1 .. Len(fl) : Append(fl, e)[n] = fl[n]
      /\ Append(fl, e)[Len(fl) + 1] = e
  BY <1>1, AppendProperties
<1>3. Tag(al) = TagAt(rt, Len(fl) + 1)
  BY <1>1, Behind
<1>4. ASSUME NEW n \in 1 .. Len(fl) + 1
      PROVE  Append(fl, e)[n].unit = "mem" <=> n = Len(fl) + 1
  <2>1. CASE n = Len(fl) + 1
    BY <1>2, <2>1
  <2>2. CASE n \in 1 .. Len(fl)
    <3>1. n # 0 /\ n # Len(fl) + 1
      BY <1>1, <2>2
    <3>2. fl[n].unit # "mem"
      BY <2>2, <3>1 DEF Units
    <3>3. QED BY <1>2, <2>2, <3>1, <3>2
  <2>3. QED BY <1>1, <2>1, <2>2
<1>5. Units(Append(fl, e), rt, TRUE, Tag(al), Len(fl) + 1)
  BY <1>1, <1>2, <1>3, <1>4 DEF Units
<1>6. it \in Seq(Tags) /\ Len(it) = Len(fl) /\ \A q \in 1 .. Len(it) : it[q] = TagAt(rt, q)
  BY DEF Queued
<1>7. Queued(Append(fl, e), rt, it, Len(fl) + 1)
  BY <1>1, <1>2, <1>6 DEF Queued
<1> QED BY <1>5, <1>7

\* An instruction is handed to the accelerator.
LEMMA NiceTaken ==
    ASSUME NEW fl, NEW rt, NEW al, NEW sl, Entered(fl, rt, al, sl), Len(fl) < OitfDepth,
           NEW bz, NEW tg, NEW it, NEW p, Units(fl, rt, bz, tg, p), Queued(fl, rt, it, p),
           NEW e \in Entries, e.unit = "nice"
    PROVE  /\ Units(Append(fl, e), rt, bz, tg, p)
           /\ Queued(Append(fl, e), rt, Append(it, Tag(al)), p)
<1>1. /\ fl \in Seq(Entries) /\ Len(fl) \in Nat /\ Len(fl) \in 0 .. OitfDepth
      /\ rt \in Pointers /\ al = (rt + Len(fl)) % (2 * OitfDepth)
      /\ Len(fl) + 1 \in 1 .. OitfDepth
  BY SystemAssumption, LenProperties DEF Entered
<1>2. /\ Append(fl, e) \in Seq(Entries) /\ Len(Append(fl, e)) = Len(fl) + 1
      /\ \A n \in 1 .. Len(fl) : Append(fl, e)[n] = fl[n]
      /\ Append(fl, e)[Len(fl) + 1] = e
  BY <1>1, AppendProperties
<1>3. Tag(al) = TagAt(rt, Len(fl) + 1) /\ Tag(al) \in Tags
  BY <1>1, Behind, AtDistinct
<1>4. p \in 0 .. Len(fl)
  BY DEF Units
<1>5. ASSUME NEW n \in 1 .. Len(fl) + 1
      PROVE  Append(fl, e)[n].unit = "mem" <=> n = p
  <2>1. CASE n = Len(fl) + 1
    BY <1>1, <1>2, <1>4, <2>1
  <2>2. CASE n \in 1 .. Len(fl)
    <3>1. fl[n].unit = "mem" <=> n = p
      BY <2>2 DEF Units
    <3>2. QED BY <1>2, <2>2, <3>1
  <2>3. QED BY <1>1, <2>1, <2>2
<1>6. Units(Append(fl, e), rt, bz, tg, p)
  <2>1. bz = (p # 0) /\ (p # 0 => tg = TagAt(rt, p))
    BY DEF Units
  <2>2. p \in 0 .. Len(fl) + 1
    BY <1>1, <1>4
  <2>3. QED BY <1>2, <1>5, <2>1, <2>2 DEF Units
<1>7. /\ it \in Seq(Tags) /\ Len(it) = (IF p = 0 THEN Len(fl) ELSE Len(fl) - 1)
      /\ \A q \in 1 .. Len(it) : it[q] = TagAt(rt, IF p = 0 \/ q < p THEN q ELSE q + 1)
      /\ Len(it) \in Nat
  BY LenProperties DEF Queued
<1>8. /\ Append(it, Tag(al)) \in Seq(Tags) /\ Len(Append(it, Tag(al))) = Len(it) + 1
      /\ \A q \in 1 .. Len(it) : Append(it, Tag(al))[q] = it[q]
      /\ Append(it, Tag(al))[Len(it) + 1] = Tag(al)
  BY <1>3, <1>7, AppendProperties
<1>9. ASSUME NEW q \in 1 .. Len(it) + 1
      PROVE  Append(it, Tag(al))[q] = TagAt(rt, IF p = 0 \/ q < p THEN q ELSE q + 1)
  <2>1. CASE q \in 1 .. Len(it)
    BY <1>7, <1>8, <2>1
  <2>2. CASE q = Len(it) + 1
    <3>1. (IF p = 0 \/ q < p THEN q ELSE q + 1) = Len(fl) + 1
      BY <1>1, <1>4, <1>7, <2>2
    <3>2. QED BY <1>3, <1>8, <2>2, <3>1
  <2>3. QED BY <1>7, <2>1, <2>2
<1>10. Len(it) + 1 = IF p = 0 THEN Len(fl) + 1 ELSE (Len(fl) + 1) - 1
  BY <1>1, <1>7
<1>11. Queued(Append(fl, e), rt, Append(it, Tag(al)), p)
  BY <1>2, <1>8, <1>9, <1>10 DEF Queued
<1> QED BY <1>6, <1>11

-----------------------------------------------------------------------------
(* The accelerator in a clock of the core *)

\* The accelerator ends an instruction exactly with an answer.
LEMMA WorkingStep ==
    ASSUME IInv, NEW v \in BOOLEAN, NEW e \in MemErrors, Working(v, e)
    PROVE  /\ phase # "IDLE" /\ (phase' = "IDLE" <=> NiceRspValid(v))
           /\ owed' = IF NiceRspValid(v) THEN owed - 1 ELSE owed
           /\ PortReady(v) \in BOOLEAN
           /\ Next
<1>0. PortReady(v) \in BOOLEAN /\ PortReady(FALSE) \in BOOLEAN /\ PortReady(TRUE) \in BOOLEAN
  BY DEF PortReady
<1> DEFINE Goal == /\ phase # "IDLE" /\ (phase' = "IDLE" <=> NiceRspValid(v))
                   /\ owed' = IF NiceRspValid(v) THEN owed - 1 ELSE owed
                   /\ Next
<1>1. ASSUME NEW op \in Loads, ~v, LoadWait(op, PortReady(v), e) PROVE Goal
  <2>1. phase = "LOAD" /\ phase' = "LOAD" /\ owed' = owed
    BY <1>1 DEF LoadWait, LoadCycle, fsm
  <2>2. ~NiceRspValid(v)
    BY <1>1, <2>1 DEF NiceRspValid
  <2>3. Next
    BY <1>0, <1>1 DEF Next
  <2>4. QED BY <2>1, <2>2, <2>3
<1>2. ASSUME NEW op \in Loads, v, LoadBeat(op, PortReady(v), e) PROVE Goal
  <2>1. phase = "LOAD" /\ phase' = "LOAD" /\ owed' = owed /\ layer = op /\ ~CntDone(op)
    BY <1>2 DEF LoadBeat, LoadCycle, fsm
  <2>2. ~NiceRspValid(v)
    BY <2>1 DEF NiceRspValid
  <2>3. Next
    BY <1>0, <1>2 DEF Next
  <2>4. QED BY <2>1, <2>2, <2>3
<1>3. ASSUME NEW op \in Loads, v, LoadDone(op, PortReady(v), e) PROVE Goal
  <2>1. phase = "LOAD" /\ layer = op /\ CntDone(op)
    BY <1>3 DEF LoadDone, LoadCycle
  <2>2. /\ op = "input" => phase' = "MOVE" /\ owed' = owed
        /\ op # "input" => phase' = "IDLE" /\ owed' = owed - 1
    BY <1>3 DEF LoadDone
  <2>3. NiceRspValid(v) <=> op # "input"
    BY <1>3, <2>1 DEF NiceRspValid
  <2>4. Next
    BY <1>0, <1>3 DEF Next
  <2>5. QED BY <2>1, <2>2, <2>3, <2>4
<1>4. ASSUME NEW l \in Layers, Move(l, v) PROVE Goal
  <2>1. phase = "MOVE" /\ phase' \in {"MOVE", "CAL"} /\ owed' = owed
    BY <1>4 DEF Move
  <2>2. ~NiceRspValid(v)
    BY <2>1 DEF NiceRspValid
  <2>3. Next
    BY <1>4, MemoryAssumption DEF Next
  <2>4. QED BY <2>1, <2>2, <2>3
<1>5. ASSUME NEW l \in Layers, CalCount(l, v) PROVE Goal
  <2>1. /\ phase = "CAL" /\ phase' = "CAL" /\ owed' = owed /\ layer = l
        /\ calCnt[l] < CalCycles[l]
    BY <1>5 DEF CalCount, fsm
  <2>2. calCnt[l] \in Nat /\ CalCycles[l] \in Nat
    BY ArrayAssumption DEF IInv, TypeOK, ControlOK
  <2>3. ~NiceRspValid(v)
    BY <2>1, <2>2 DEF NiceRspValid
  <2>4. Next
    BY <1>5, MemoryAssumption DEF Next
  <2>5. QED BY <2>1, <2>3, <2>4
<1>6. ASSUME NEW l \in Layers, CalDone(l, v) PROVE Goal
  <2>1. phase = "CAL" /\ layer = l /\ calCnt[l] = CalCycles[l]
    BY <1>6 DEF CalDone
  <2>2. NiceRspValid(v) <=> Answers(l)
    BY <2>1 DEF NiceRspValid
  <2>3. phase' = "IDLE" <=> Answers(l)
    BY <1>6 DEF CalDone, Answers, Following, LastBlock, Layers, Weights
  <2>4. owed' = IF Answers(l) THEN owed - 1 ELSE owed
    BY <1>6 DEF CalDone
  <2>5. Next
    BY <1>6, MemoryAssumption DEF Next
  <2>6. QED BY <2>1, <2>2, <2>3, <2>4, <2>5
<1> HIDE DEF Goal
<1>7. Goal
  BY <1>1, <1>2, <1>3, <1>4, <1>5, <1>6 DEF Working
<1> QED BY <1>0, <1>7 DEF Goal

\* The three things the accelerator's side of a clock can be.
LEMMA CoreStep ==
    ASSUME IInv, ir \in Instrs \union {Bubble}, NEW v \in BOOLEAN, NEW e \in MemErrors,
           Idling(v) \/ Taking(v, e) \/ Working(v, e)
    PROVE  /\ [Next]_vars
           /\ NiceGoes(v) =>
                /\ phase = "IDLE" /\ owed' = owed + 1 /\ owed = illegal /\ illegal \in Nat
                /\ ~NiceRspValid(v)
                /\ ir.op \in Loads => illegal <= MaxIllegal /\ PortReady(v)
                /\ ir.op \notin Loads => illegal < MaxIllegal /\ phase' = "IDLE"
           /\ NiceRspValid(v) =>
                /\ phase # "IDLE" /\ phase' = "IDLE" /\ owed' = owed - 1
                /\ owed \in Nat /\ owed > 0
           /\ ~NiceGoes(v) /\ ~NiceRspValid(v) =>
                owed' = owed /\ (phase' = "IDLE" <=> phase = "IDLE")
           /\ phase # "IDLE" => owed \in Nat /\ owed > 0
<1>1. /\ illegal \in Nat /\ illegal <= MaxIllegal /\ MaxIllegal \in Nat
      /\ owed = illegal + (IF phase = "IDLE" THEN 0 ELSE 1)
  BY RequestAssumption DEF IInv, TypeOK, CoreOK, OneAnswer
<1>2. phase # "IDLE" => owed \in Nat /\ owed > 0
  BY <1>1
<1>3. phase = "IDLE" => owed = illegal /\ ~NiceRspValid(v)
  BY <1>1 DEF NiceRspValid
<1>4. NiceGoes(v) => phase = "IDLE" /\ (ir.op \in Loads => PortReady(v))
                     /\ (ir.op \notin Loads => illegal < MaxIllegal)
  BY DEF NiceGoes
<1>5. CASE Idling(v)
  <2>1. phase = "IDLE" /\ ~NiceGoes(v) /\ UNCHANGED vars
    BY <1>5 DEF Idling
  <2>2. owed' = owed /\ phase' = phase
    BY <2>1 DEF vars, core, fsm
  <2>3. QED BY <1>2, <1>3, <2>1, <2>2
<1>6. CASE Taking(v, e)
  <2>1. NiceGoes(v) /\ phase = "IDLE"
    BY <1>4, <1>6 DEF Taking
  <2>2. CASE ir.op \in Loads
    <3>1. PICK b \in Bases[ir.op] : Accept(ir.op, b, v, e)
      BY <1>6, <2>2 DEF Taking
    <3>2. ir \in Instrs /\ ir.kind = "nice"
      BY <2>1 DEF NiceGoes, Bubble
    <3>3. ir.op \in Requests
      BY <2>2, <3>2, SystemAssumption
    <3>4. Next
      BY <3>1, <3>3 DEF Next
    <3>5. owed' = owed + 1
      BY <3>1 DEF Accept
    <3>6. QED BY <1>1, <1>2, <1>3, <1>4, <2>1, <2>2, <3>4, <3>5
  <2>3. CASE ir.op \notin Loads
    <3>1. AcceptIllegal(v)
      BY <1>6, <2>3 DEF Taking
    <3>2. Next
      BY <3>1 DEF Next
    <3>3. owed' = owed + 1 /\ phase' = "IDLE"
      BY <2>1, <3>1 DEF AcceptIllegal, fsm
    <3>4. QED BY <1>1, <1>2, <1>3, <1>4, <2>1, <2>3, <3>2, <3>3
  <2>4. QED BY <2>2, <2>3
<1>7. CASE Working(v, e)
  <2>1. /\ phase # "IDLE" /\ (phase' = "IDLE" <=> NiceRspValid(v))
        /\ owed' = (IF NiceRspValid(v) THEN owed - 1 ELSE owed) /\ Next
    BY <1>7, WorkingStep
  <2>2. ~NiceGoes(v)
    BY <1>4, <2>1
  <2>3. QED BY <1>2, <2>1, <2>2
<1> QED BY <1>5, <1>6, <1>7

-----------------------------------------------------------------------------
(* The invariant *)

\* The load or store is the p-th of what is outstanding, the others have
\* their tags in the queue; while the accelerator works its instruction or an
\* undecoded one is the oldest, so that its answer finds its tag.
Place(p) ==
    /\ Units(flight, ret, agu.busy, agu.tag, p)
    /\ Queued(flight, ret, itags, p)
    /\ Len(itags) = owed
    /\ phase # "IDLE" => p # 1

SysOK ==
    /\ ir \in Instrs \union {Bubble}
    /\ agu \in [busy : BOOLEAN, tag : Tags, left : Nat]

Placed == \E p \in 0 .. Len(flight) : Place(p)

SysInv == SysOK /\ Entered(flight, ret, alc, slot) /\ Placed

\* An answer is taken in the cycle it is given; a load or store retires only
\* when it is the oldest.
LEMMA Selected ==
    ASSUME SysInv, NEW p \in 0 .. Len(flight), Place(p), NEW v \in BOOLEAN,
           NiceRspValid(v) => phase # "IDLE" /\ owed \in Nat /\ owed > 0
    PROVE  /\ SelNice(v) <=> NiceRspValid(v)
           /\ NiceRspValid(v) => flight # <<>> /\ p # 1 /\ ~SelLsu
           /\ SelLsu => flight # <<>> /\ p = 1
<1>1. /\ flight \in Seq(Entries) /\ Len(flight) \in Nat /\ Len(flight) \in 0 .. OitfDepth
      /\ ret \in Pointers /\ alc = (ret + Len(flight)) % (2 * OitfDepth)
      /\ OitfDepth \in Nat \ {0, 1}
  BY SystemAssumption, LenProperties DEF SysInv, Entered
<1>2. Empty <=> Len(flight) = 0
  <2>1. alc = ret <=> Len(flight) = 0
    BY Ends DEF SysInv
  <2>2. QED BY <2>1 DEF Empty
<1>3. Len(flight) = 0 <=> flight = <<>>
  BY <1>1, EmptySeq
<1>4. ASSUME NiceRspValid(v)
      PROVE  SelNice(v) /\ flight # <<>> /\ p # 1
  <2>1. p # 1 /\ Len(itags) = owed /\ owed \in Nat /\ owed > 0
    BY <1>4 DEF Place
  <2>2. Len(itags) = IF p = 0 THEN Len(flight) ELSE Len(flight) - 1
    BY DEF Place, Queued
  <2>3. Len(flight) # 0
    BY <1>1, <2>1, <2>2
  <2>4. flight # <<>>
    BY <1>3, <2>3
  <2>5. /\ Entered(flight, ret, alc, slot) /\ Units(flight, ret, agu.busy, agu.tag, p)
        /\ Queued(flight, ret, itags, p)
    BY DEF SysInv, Place
  <2>6. itags # <<>> /\ Head(itags) = Tag(ret)
    BY <2>1, <2>4, <2>5, NiceRetired
  <2>7. QED BY <1>2, <1>4, <2>1, <2>3, <2>4, <2>6 DEF SelNice
<1>5. ASSUME SelLsu PROVE flight # <<>> /\ p = 1
  <2>1. agu.busy /\ agu.tag = Tag(ret) /\ Len(flight) # 0
    BY <1>2, <1>5 DEF SelLsu
  <2>2. p # 0 /\ agu.tag = TagAt(ret, p)
    BY <2>1 DEF Place, Units
  <2>3. TagAt(ret, 1) = Tag(ret)
    BY <1>1 DEF TagAt, Pointers
  <2>4. p \in 1 .. OitfDepth /\ 1 \in 1 .. OitfDepth
    BY <1>1, <2>2
  <2>5. p = 1
    BY <1>1, <2>1, <2>2, <2>3, <2>4, AtDistinct
  <2>6. QED BY <1>3, <2>1, <2>5
<1>6. SelNice(v) => NiceRspValid(v)
  BY DEF SelNice
<1> QED BY <1>4, <1>5, <1>6

\* What is outstanding when the oldest has retired, if it does.
Rest(v) == IF Retires(v) THEN Tail(flight) ELSE flight
NextRet(v) == IF Retires(v) THEN Succ(ret) ELSE ret
Cleared(v) == IF Retires(v) THEN Freed(slot, ret) ELSE slot
Still == agu.busy /\ ~SelLsu
PlaceAfter(v, p) == IF SelLsu THEN 0 ELSE IF SelNice(v) /\ p # 0 THEN p - 1 ELSE p

\* What retires leaves entries and units in agreement on the rest.
LEMMA Retirement ==
    ASSUME SysInv, NEW p \in 0 .. Len(flight), Place(p), NEW v \in BOOLEAN,
           NiceRspValid(v) => phase # "IDLE" /\ owed \in Nat /\ owed > 0
    PROVE  /\ Entered(Rest(v), NextRet(v), alc, Cleared(v))
           /\ Units(Rest(v), NextRet(v), Still, agu.tag, PlaceAfter(v, p))
           /\ Queued(Rest(v), NextRet(v), Popped(v), PlaceAfter(v, p))
           /\ Len(Popped(v)) = IF SelNice(v) THEN owed - 1 ELSE owed
           /\ Retires(v) => flight # <<>>
           /\ SelNice(v) => Head(flight).unit = "nice" /\ ~SelLsu
           /\ SelLsu => Head(flight).unit = "mem"
<1>1. /\ Entered(flight, ret, alc, slot) /\ Units(flight, ret, agu.busy, agu.tag, p)
      /\ Queued(flight, ret, itags, p) /\ Len(itags) = owed /\ agu.busy \in BOOLEAN
      /\ itags \in Seq(Tags)
  BY DEF SysInv, SysOK, Place, Queued
<1>2. /\ SelNice(v) => flight # <<>> /\ p # 1 /\ ~SelLsu
      /\ SelLsu => flight # <<>> /\ p = 1
  BY Selected
<1>3. CASE SelLsu
  <2>1. Entered(Tail(flight), Succ(ret), alc, Freed(slot, ret))
    BY <1>1, <1>2, <1>3, EntryFreed
  <2>2. /\ Units(Tail(flight), Succ(ret), FALSE, agu.tag, 0)
        /\ Queued(Tail(flight), Succ(ret), itags, 0)
        /\ Head(flight).unit = "mem"
    BY <1>1, <1>2, <1>3, MemRetired
  <2>3. ~SelNice(v)
    BY <1>2, <1>3
  <2>4. /\ Rest(v) = Tail(flight) /\ NextRet(v) = Succ(ret) /\ Cleared(v) = Freed(slot, ret)
        /\ Still = FALSE /\ PlaceAfter(v, p) = 0 /\ Popped(v) = itags
    BY <1>3, <2>3 DEF Rest, NextRet, Cleared, Still, PlaceAfter, Popped, Retires
  <2>5. QED BY <1>1, <1>2, <1>3, <2>1, <2>2, <2>3, <2>4
<1>4. CASE SelNice(v)
  <2>1. Entered(Tail(flight), Succ(ret), alc, Freed(slot, ret))
    BY <1>1, <1>2, <1>4, EntryFreed
  <2>2. /\ Head(flight).unit = "nice" /\ itags # <<>>
        /\ Units(Tail(flight), Succ(ret), agu.busy, agu.tag, IF p = 0 THEN 0 ELSE p - 1)
        /\ Queued(Tail(flight), Succ(ret), Tail(itags), IF p = 0 THEN 0 ELSE p - 1)
    BY <1>1, <1>2, <1>4, NiceRetired
  <2>3. ~SelLsu
    BY <1>2, <1>4
  <2>4. /\ Rest(v) = Tail(flight) /\ NextRet(v) = Succ(ret) /\ Cleared(v) = Freed(slot, ret)
        /\ Still = agu.busy /\ Popped(v) = Tail(itags)
    BY <1>1, <1>4, <2>3 DEF Rest, NextRet, Cleared, Still, Popped, Retires
  <2>5. PlaceAfter(v, p) = IF p = 0 THEN 0 ELSE p - 1
    BY <1>4, <2>3 DEF PlaceAfter
  <2>6. Len(Tail(itags)) = owed - 1
    BY <1>1, <2>2, HeadTailProperties
  <2>7. QED BY <1>1, <1>2, <1>4, <2>1, <2>2, <2>3, <2>4, <2>5, <2>6
<1>5. CASE ~SelLsu /\ ~SelNice(v)
  <2>1. /\ Rest(v) = flight /\ NextRet(v) = ret /\ Cleared(v) = slot
        /\ Still = agu.busy /\ PlaceAfter(v, p) = p /\ Popped(v) = itags
        /\ ~Retires(v)
    BY <1>1, <1>5 DEF Rest, NextRet, Cleared, Still, PlaceAfter, Popped, Retires
  <2>2. QED BY <1>1, <1>5, <2>1
<1> QED BY <1>3, <1>4, <1>5

\* A clock keeps the invariant.
LEMMA SysStep ==
    ASSUME Roomy, IInv, SysInv, NEW v \in BOOLEAN, NEW e \in MemErrors,
           NEW d \in 1 .. AguLatency, NEW i \in Instrs \union {Bubble}, Clock(v, e, d, i)
    PROVE  SysInv'
<1> DEFINE entry == [unit |-> ir.kind, rd |-> ir.rd, op |-> ir.op]
<1>0. PICK p \in 0 .. Len(flight) : Place(p)
  BY DEF SysInv, Placed
<1>1. /\ ir \in Instrs \union {Bubble} /\ agu \in [busy : BOOLEAN, tag : Tags, left : Nat]
      /\ flight \in Seq(Entries) /\ Len(flight) \in Nat /\ Len(flight) <= OitfDepth
      /\ ret \in Pointers /\ alc = (ret + Len(flight)) % (2 * OitfDepth)
      /\ OitfDepth \in Nat \ {0, 1} /\ MaxIllegal < OitfDepth /\ MaxIllegal < ItagDepth
      /\ MaxIllegal \in Nat /\ ItagDepth \in Nat
  BY SystemAssumption, RequestAssumption, LenProperties DEF SysInv, SysOK, Entered, Roomy
<1>2. /\ NiceGoes(v) =>
           /\ phase = "IDLE" /\ owed' = owed + 1 /\ owed = illegal /\ illegal \in Nat
           /\ ~NiceRspValid(v)
           /\ ir.op \in Loads => illegal <= MaxIllegal /\ PortReady(v)
           /\ ir.op \notin Loads => illegal < MaxIllegal /\ phase' = "IDLE"
      /\ NiceRspValid(v) =>
           /\ phase # "IDLE" /\ phase' = "IDLE" /\ owed' = owed - 1
           /\ owed \in Nat /\ owed > 0
      /\ ~NiceGoes(v) /\ ~NiceRspValid(v) =>
           owed' = owed /\ (phase' = "IDLE" <=> phase = "IDLE")
      /\ phase # "IDLE" => owed \in Nat /\ owed > 0
  BY <1>1, CoreStep DEF Clock
<1>3. /\ SelNice(v) <=> NiceRspValid(v)
      /\ NiceRspValid(v) => flight # <<>> /\ p # 1 /\ ~SelLsu
      /\ SelLsu => flight # <<>> /\ p = 1
  BY <1>0, <1>2, Selected
<1>4. /\ Entered(Rest(v), NextRet(v), alc, Cleared(v))
      /\ Units(Rest(v), NextRet(v), Still, agu.tag, PlaceAfter(v, p))
      /\ Queued(Rest(v), NextRet(v), Popped(v), PlaceAfter(v, p))
      /\ Len(Popped(v)) = IF SelNice(v) THEN owed - 1 ELSE owed
      /\ Retires(v) => flight # <<>>
  BY <1>0, <1>2, Retirement
<1>5. /\ Rest(v) \in Seq(Entries) /\ Len(Rest(v)) \in Nat /\ Len(Rest(v)) <= Len(flight)
      /\ ~SelLsu /\ ~SelNice(v) => Rest(v) = flight
  <2>1. Rest(v) \in Seq(Entries) /\ Len(Rest(v)) \in Nat
    BY <1>4, LenProperties DEF Entered
  <2>2. Len(Rest(v)) <= Len(flight)
    BY <1>1, <1>4, HeadTailProperties DEF Rest
  <2>3. ~SelLsu /\ ~SelNice(v) => Rest(v) = flight
    BY DEF Rest, Retires
  <2>4. QED BY <2>1, <2>2, <2>3
<1>6. /\ flight' = IF Allocates(v) THEN Append(Rest(v), entry) ELSE Rest(v)
      /\ ret' = NextRet(v)
      /\ alc' = IF Allocates(v) THEN Succ(alc) ELSE alc
      /\ slot' = IF Allocates(v) THEN Taken(Cleared(v), alc, ir.rd) ELSE Cleared(v)
  <2>1. flight' = IF Allocates(v) THEN Append(Rest(v), entry) ELSE Rest(v)
    BY <1>4 DEF Clock, FlightStep, Rest
  <2>2. ret' = NextRet(v) /\ alc' = IF Allocates(v) THEN Succ(alc) ELSE alc
    BY DEF Clock, OitfStep, NextRet
  <2>3. slot \in [Tags -> [vld : BOOLEAN, rd : Regs]]
    BY DEF SysInv, Entered
  <2>4. slot' = IF Allocates(v) THEN Taken(Cleared(v), alc, ir.rd) ELSE Cleared(v)
    BY <2>3 DEF Clock, OitfStep, Taken, Cleared, Freed
  <2>5. QED BY <2>1, <2>2, <2>4
<1>7. SysOK'
  <2>1. ir' \in Instrs \union {Bubble}
    BY <1>1 DEF Clock
  <2>2. Tag(alc) \in Tags
    BY Ends DEF SysInv
  <2>3. d - 1 \in Nat
    BY SystemAssumption
  <2>4. agu' \in [busy : BOOLEAN, tag : Tags, left : Nat]
    <3>1. agu' = IF AguGoes(v) THEN [busy |-> TRUE, tag |-> Tag(alc), left |-> d - 1]
                 ELSE IF SelLsu THEN [agu EXCEPT !.busy = FALSE]
                 ELSE IF agu.left > 0 THEN [agu EXCEPT !.left = @ - 1] ELSE agu
      BY DEF Clock, AguStep
    <3>2. [busy |-> TRUE, tag |-> Tag(alc), left |-> d - 1]
            \in [busy : BOOLEAN, tag : Tags, left : Nat]
      BY <2>2, <2>3
    <3>3. [agu EXCEPT !.busy = FALSE] \in [busy : BOOLEAN, tag : Tags, left : Nat]
      BY <1>1
    <3>4. ASSUME agu.left > 0
          PROVE  [agu EXCEPT !.left = @ - 1] \in [busy : BOOLEAN, tag : Tags, left : Nat]
      <4>1. agu.left - 1 \in Nat
        BY <1>1, <3>4
      <4>2. QED BY <1>1, <4>1
    <3>5. QED BY <1>1, <3>1, <3>2, <3>3, <3>4
  <2>5. QED BY <2>1, <2>4 DEF SysOK
<1>8. ~AguGoes(v) => agu'.busy = Still /\ agu'.tag = agu.tag
  BY <1>1 DEF Clock, AguStep, Still
<1>9. LsuFree(v) => PlaceAfter(v, p) = 0
  <2>1. LsuFree(v) => Still = FALSE
    BY <1>1 DEF LsuFree, Still
  <2>2. QED BY <1>4, <2>1 DEF Units
<1>10. Len(Popped(v)) = IF PlaceAfter(v, p) = 0 THEN Len(Rest(v)) ELSE Len(Rest(v)) - 1
  BY <1>4 DEF Queued
<1>11. CASE AguGoes(v)
  <2>1. /\ Allocates(v) /\ ~NiceGoes(v) /\ ir.kind = "mem" /\ ~Full /\ LsuFree(v)
    BY <1>11 DEF Allocates, AguGoes, NiceGoes
  <2>2. entry \in Entries /\ entry.unit = "mem" /\ entry.rd = ir.rd
    BY <1>1, <2>1 DEF Entries, Regs, Ops
  <2>3. Len(Rest(v)) < OitfDepth
    <3>1. Len(flight) # OitfDepth
      <4>1. (alc # ret /\ Tag(alc) = Tag(ret)) <=> Len(flight) = OitfDepth
        BY Ends DEF SysInv
      <4>2. QED BY <2>1, <4>1 DEF Full
    <3>2. QED BY <1>1, <1>5, <3>1
  <2>4. Units(Rest(v), NextRet(v), Still, agu.tag, 0) /\ Queued(Rest(v), NextRet(v), Popped(v), 0)
    BY <1>4, <1>9, <2>1
  <2>5. Entered(flight', ret', alc', slot')
    BY <1>4, <1>6, <2>1, <2>2, <2>3, EntryTaken
  <2>6. /\ Units(Append(Rest(v), entry), NextRet(v), TRUE, Tag(alc), Len(Rest(v)) + 1)
        /\ Queued(Append(Rest(v), entry), NextRet(v), Popped(v), Len(Rest(v)) + 1)
    BY <1>4, <2>2, <2>3, <2>4, MemTaken
  <2>7. agu'.busy = TRUE /\ agu'.tag = Tag(alc) /\ itags' = Popped(v)
    BY <1>11, <2>1 DEF Clock, AguStep, ItagStep
  <2>8. /\ Units(flight', ret', agu'.busy, agu'.tag, Len(Rest(v)) + 1)
        /\ Queued(flight', ret', itags', Len(Rest(v)) + 1)
    BY <1>6, <2>1, <2>6, <2>7
  <2>9. Len(itags') = owed'
    BY <1>2, <1>3, <1>4, <2>1, <2>7
  <2>10. ASSUME phase' # "IDLE" PROVE Len(Rest(v)) + 1 # 1
    <3>1. ~NiceRspValid(v) /\ phase # "IDLE" /\ owed \in Nat /\ owed > 0
      BY <1>2, <2>1, <2>10
    <3>2. p # 1
      BY <1>0, <3>1 DEF Place
    <3>3. ~SelLsu /\ ~SelNice(v)
      BY <1>3, <3>1, <3>2
    <3>4. Len(Popped(v)) = owed
      BY <1>4, <3>3
    <3>5. Len(Popped(v)) = Len(Rest(v))
      BY <1>9, <1>10, <2>1
    <3>6. QED BY <1>5, <3>1, <3>4, <3>5
  <2>11. Len(Rest(v)) + 1 \in 0 .. Len(flight')
    BY <2>8 DEF Units
  <2>12. Placed'
    BY <2>8, <2>9, <2>10, <2>11 DEF Placed, Place
  <2>13. QED BY <1>7, <2>5, <2>12 DEF SysInv
<1>12. CASE NiceGoes(v)
  <2>1. /\ Allocates(v) /\ ~AguGoes(v) /\ ir.kind = "nice" /\ ~NiceRspValid(v) /\ ~SelNice(v)
    BY <1>2, <1>3, <1>12 DEF Allocates, AguGoes, NiceGoes
  <2>2. entry \in Entries /\ entry.unit = "nice" /\ entry.rd = ir.rd
    BY <1>1, <2>1 DEF Entries, Regs, Ops
  <2>3. ir.op \in Loads => PlaceAfter(v, p) = 0
    BY <1>2, <1>9, <1>12 DEF PortReady
  <2>4. Popped(v) = itags /\ Len(Popped(v)) = illegal /\ illegal \in Nat
    BY <1>2, <1>4, <1>12, <2>1 DEF Popped
  <2>5. /\ ir.op \in Loads => illegal <= MaxIllegal
        /\ ir.op \notin Loads => illegal < MaxIllegal
    BY <1>2, <1>12
  <2>6. Len(Rest(v)) < OitfDepth /\ Len(itags) < ItagDepth
    <3>1. CASE ir.op \in Loads
      BY <1>1, <1>5, <1>10, <2>3, <2>4, <2>5, <3>1
    <3>2. CASE ir.op \notin Loads
      <4>1. illegal < MaxIllegal /\ Len(Rest(v)) <= illegal + 1 /\ Len(itags) = illegal
        BY <1>5, <1>10, <2>4, <2>5, <3>2
      <4>2. QED BY <1>1, <1>5, <2>4, <4>1
    <3>3. QED BY <3>1, <3>2
  <2>7. Entered(flight', ret', alc', slot')
    BY <1>4, <1>6, <2>1, <2>2, <2>6, EntryTaken
  <2>8. /\ Units(Append(Rest(v), entry), NextRet(v), Still, agu.tag, PlaceAfter(v, p))
        /\ Queued(Append(Rest(v), entry), NextRet(v), Append(Popped(v), Tag(alc)), PlaceAfter(v, p))
    BY <1>4, <2>2, <2>6, NiceTaken
  <2>9. itags' = Append(Popped(v), Tag(alc))
    BY <1>12, <2>6 DEF Clock, ItagStep
  <2>10. /\ Units(flight', ret', agu'.busy, agu'.tag, PlaceAfter(v, p))
         /\ Queued(flight', ret', itags', PlaceAfter(v, p))
    BY <1>6, <1>8, <2>1, <2>8, <2>9
  <2>11. Len(itags') = owed'
    <3>1. Popped(v) \in Seq(Tags) /\ Tag(alc) \in Tags
      BY <1>4, Ends DEF Queued, SysInv
    <3>2. Len(itags') = Len(Popped(v)) + 1
      BY <2>9, <3>1, AppendProperties
    <3>3. QED BY <1>2, <1>12, <2>4, <3>2
  <2>12. phase' # "IDLE" => PlaceAfter(v, p) # 1
    BY <1>2, <1>12, <2>3
  <2>13. PlaceAfter(v, p) \in 0 .. Len(flight')
    BY <2>10 DEF Units
  <2>14. Placed'
    BY <2>10, <2>11, <2>12, <2>13 DEF Placed, Place
  <2>15. QED BY <1>7, <2>7, <2>14 DEF SysInv
<1>13. CASE ~AguGoes(v) /\ ~NiceGoes(v)
  <2>1. ~Allocates(v) /\ itags' = Popped(v)
    BY <1>13 DEF Allocates, Clock, ItagStep
  <2>2. Entered(flight', ret', alc', slot')
    BY <1>4, <1>6, <2>1
  <2>3. /\ Units(flight', ret', agu'.busy, agu'.tag, PlaceAfter(v, p))
        /\ Queued(flight', ret', itags', PlaceAfter(v, p))
    BY <1>4, <1>6, <1>8, <1>13, <2>1
  <2>4. Len(itags') = owed'
    BY <1>2, <1>3, <1>4, <1>13, <2>1
  <2>5. ASSUME phase' # "IDLE" PROVE PlaceAfter(v, p) # 1
    <3>1. ~NiceRspValid(v) /\ phase # "IDLE"
      BY <1>2, <1>13, <2>5
    <3>2. p # 1 /\ ~SelLsu /\ ~SelNice(v)
      BY <1>0, <1>3, <3>1 DEF Place
    <3>3. QED BY <3>2 DEF PlaceAfter
  <2>6. PlaceAfter(v, p) \in 0 .. Len(flight')
    BY <2>3 DEF Units
  <2>7. Placed'
    BY <2>3, <2>4, <2>5, <2>6 DEF Placed, Place
  <2>8. QED BY <1>7, <2>2, <2>7 DEF SysInv
<1> QED BY <1>11, <1>12, <1>13

\* It holds after reset.
LEMMA SysInitInv == SysInit => SysInv
<1> SUFFICES ASSUME SysInit PROVE SysInv
  OBVIOUS
<1>1. /\ ir = Bubble /\ alc = 0 /\ ret = 0 /\ itags = <<>> /\ flight = <<>>
      /\ slot = [k \in Tags |-> [vld |-> FALSE, rd |-> NoReg]]
      /\ agu = [busy |-> FALSE, tag |-> 0, left |-> 0] /\ owed = 0 /\ phase = "IDLE"
  BY DEF SysInit, Init
<1>2. 0 \in Tags /\ 0 \in Pointers /\ OitfDepth \in Nat \ {0, 1}
  BY SystemAssumption DEF Tags, Pointers
<1>3. SysOK
  BY <1>1, <1>2 DEF SysOK
<1>4. flight \in Seq(Entries) /\ itags \in Seq(Tags) /\ Len(flight) = 0 /\ Len(itags) = 0
  BY <1>1, EmptySeq
<1>5. Entered(flight, ret, alc, slot)
  <2>1. (0 + 0) % (2 * OitfDepth) = 0
    BY <1>2
  <2>2. NoReg \in Regs
    <3>1. Bubble \in Instrs \union {Bubble} /\ Bubble.rd = NoReg
      BY DEF Bubble
    <3>2. QED BY <3>1 DEF Regs
  <2>3. slot \in [Tags -> [vld : BOOLEAN, rd : Regs]] /\ \A k \in Tags : ~slot[k].vld
    BY <1>1, <2>2
  <2>4. QED BY <1>1, <1>2, <1>4, <2>1, <2>3 DEF Entered
<1>6. Place(0)
  <2>1. 1 .. 0 = {}
    OBVIOUS
  <2>2. Units(flight, ret, agu.busy, agu.tag, 0)
    <3>1. agu.busy = (0 # 0)
      BY <1>1
    <3>2. 0 \in 0 .. Len(flight) /\ 1 .. Len(flight) = {}
      BY <1>4, <2>1
    <3>3. QED BY <3>1, <3>2 DEF Units
  <2>3. Queued(flight, ret, itags, 0)
    BY <1>4, <2>1 DEF Queued
  <2>4. QED BY <1>1, <1>4, <2>2, <2>3 DEF Place
<1> QED BY <1>3, <1>4, <1>5, <1>6 DEF SysInv, Placed

\* What both halves of the invariant give for the step of the core.
LEMMA SysStill == SysInv /\ UNCHANGED sysvars => SysInv'
<1> SUFFICES ASSUME SysInv, UNCHANGED sysvars PROVE SysInv'
  OBVIOUS
<1>1. /\ ir' = ir /\ alc' = alc /\ ret' = ret /\ slot' = slot /\ itags' = itags
      /\ agu' = agu /\ flight' = flight /\ owed' = owed /\ phase' = phase
  BY DEF sysvars, oitf, vars, fsm, core
<1> QED BY <1>1 DEF SysInv, SysOK, Placed, Place

\* While the accelerator works, the last of its instructions is the one it
\* executes.
Own ==
    phase # "IDLE" =>
        \E n \in 1 .. Len(flight) :
            /\ flight[n].unit = "nice" /\ flight[n].op = Running
            /\ \A m \in n+1 .. Len(flight) : flight[m].unit # "nice"

\* Until it answers, the accelerator executes the same instruction.
LEMMA RunningStep ==
    ASSUME NEW v \in BOOLEAN, NEW e \in MemErrors, Working(v, e), phase' # "IDLE"
    PROVE  Running' = Running
<1>1. ASSUME NEW op \in Loads, LoadWait(op, PortReady(v), e) \/ LoadBeat(op, PortReady(v), e)
      PROVE  Running' = Running
  <2>1. phase' = phase /\ layer' = layer
    BY <1>1 DEF LoadWait, LoadBeat, fsm
  <2>2. QED BY <2>1 DEF Running
<1>2. ASSUME NEW op \in Loads, LoadDone(op, PortReady(v), e) PROVE Running' = Running
  <2>1. phase = "LOAD" /\ layer = op
    BY <1>2 DEF LoadDone, LoadCycle
  <2>2. op = "input" /\ phase' = "MOVE"
    BY <1>2 DEF LoadDone
  <2>3. QED BY <2>1, <2>2 DEF Running
<1>3. ASSUME NEW l \in Layers, Move(l, v) \/ CalCount(l, v) \/ CalDone(l, v)
      PROVE  Running' = Running
  <2>1. phase # "LOAD" /\ phase' # "LOAD"
    BY <1>3 DEF Move, CalCount, CalDone, fsm
  <2>2. QED BY <2>1 DEF Running
<1> QED BY <1>1, <1>2, <1>3 DEF Working

\* Nothing retires before its answer, and no custom instruction is dispatched.
LEMMA OwnStep ==
    ASSUME IInv, SysInv, Own, NEW v \in BOOLEAN, NEW e \in MemErrors,
           NEW d \in 1 .. AguLatency, NEW i \in Instrs \union {Bubble}, Clock(v, e, d, i)
    PROVE  Own'
<1> DEFINE entry == [unit |-> ir.kind, rd |-> ir.rd, op |-> ir.op]
<1> SUFFICES ASSUME phase' # "IDLE"
             PROVE  \E n \in 1 .. Len(flight') :
                       /\ flight'[n].unit = "nice" /\ flight'[n].op = Running'
                       /\ \A m \in n+1 .. Len(flight') : flight'[m].unit # "nice"
  BY DEF Own
<1>0. PICK p \in 0 .. Len(flight) : Place(p)
  BY DEF SysInv, Placed
<1>1. /\ ir \in Instrs \union {Bubble} /\ flight \in Seq(Entries) /\ Len(flight) \in Nat
  BY LenProperties DEF SysInv, SysOK, Entered
<1>2. /\ NiceGoes(v) => /\ phase = "IDLE" /\ ~NiceRspValid(v)
                        /\ ir.op \notin Loads => phase' = "IDLE"
      /\ NiceRspValid(v) => /\ phase # "IDLE" /\ phase' = "IDLE"
                            /\ owed \in Nat /\ owed > 0
      /\ ~NiceGoes(v) /\ ~NiceRspValid(v) => (phase' = "IDLE" <=> phase = "IDLE")
  BY <1>1, CoreStep DEF Clock
<1>3. ~NiceRspValid(v) /\ ~SelNice(v)
  BY <1>2 DEF SelNice
<1>4. (Retires(v) => flight # <<>>) /\ Rest(v) \in Seq(Entries)
  BY <1>0, <1>2, Retirement DEF Entered
<1>5. flight' = IF Allocates(v) THEN Append(Rest(v), entry) ELSE Rest(v)
  BY <1>4 DEF Clock, FlightStep, Rest
<1>6. Len(Rest(v)) \in Nat
  BY <1>4, LenProperties
<1>7. CASE NiceGoes(v)
  <2>1. phase = "IDLE" /\ ir.op \in Loads /\ ir.kind = "nice" /\ Allocates(v)
    BY <1>2, <1>7 DEF NiceGoes, Allocates
  <2>2. phase' = "LOAD" /\ layer' = ir.op
    <3>1. Taking(v, e)
      BY <1>7, <2>1, WorkingStep DEF Clock, Idling
    <3>2. QED BY <2>1, <3>1 DEF Taking, Accept
  <2>3. Running' = ir.op
    BY <2>2 DEF Running
  <2>4. entry \in Entries /\ entry.unit = "nice" /\ entry.op = ir.op
    BY <1>1, <2>1 DEF Entries, Regs, Ops
  <2>5. Len(flight') = Len(Rest(v)) + 1 /\ flight'[Len(Rest(v)) + 1] = entry
    BY <1>4, <1>5, <2>1, <2>4, AppendProperties
  <2>6. QED BY <1>6, <2>3, <2>4, <2>5
<1>8. CASE ~NiceGoes(v)
  <2>1. phase # "IDLE"
    BY <1>2, <1>3, <1>8
  <2>2. p # 1 /\ ~SelLsu
    BY <1>0, <1>2, <2>1, Selected DEF Place
  <2>3. Rest(v) = flight
    BY <1>3, <2>2 DEF Rest, Retires
  <2>4. Running' = Running
    <3>1. Working(v, e)
      BY <2>1, <1>8 DEF Clock, Idling, Taking
    <3>2. QED BY <3>1, RunningStep
  <2>5. PICK n \in 1 .. Len(flight) :
           /\ flight[n].unit = "nice" /\ flight[n].op = Running
           /\ \A m \in n+1 .. Len(flight) : flight[m].unit # "nice"
    BY <2>1 DEF Own
  <2>6. CASE Allocates(v)
    <3>1. entry \in Entries /\ entry.unit = "mem"
      BY <1>1, <1>8, <2>6 DEF Allocates, AguGoes, Entries, Regs, Ops
    <3>2. /\ Len(flight') = Len(flight) + 1 /\ flight'[Len(flight) + 1] = entry
          /\ \A m \in 1 .. Len(flight) : flight'[m] = flight[m]
      BY <1>1, <1>5, <2>3, <2>6, <3>1, AppendProperties
    <3>3. n \in 1 .. Len(flight') /\ flight'[n].unit = "nice" /\ flight'[n].op = Running'
      BY <1>1, <2>4, <2>5, <3>2
    <3>4. ASSUME NEW m \in n+1 .. Len(flight') PROVE flight'[m].unit # "nice"
      <4>1. m = Len(flight) + 1 \/ m \in n+1 .. Len(flight)
        BY <1>1, <3>2
      <4>2. m \in n+1 .. Len(flight) => m \in 1 .. Len(flight)
        BY <1>1
      <4>3. QED BY <2>5, <3>1, <3>2, <4>1, <4>2
    <3>5. QED BY <3>3, <3>4
  <2>7. CASE ~Allocates(v)
    BY <1>5, <2>3, <2>4, <2>5, <2>7
  <2>8. QED BY <2>6, <2>7
<1> QED BY <1>7, <1>8

\* With room for the undecoded instructions, the invariants hold always.
LEMMA SysInvariance == ASSUME Roomy PROVE SysSpec => [](IInv /\ SysInv /\ Own)
<1>1. SysInit => IInv /\ SysInv /\ Own
  BY SysInitInv, InitTyping, InitSafety DEF SysInit, IInv, SafetyInv, Init, Own
<1>2. ASSUME IInv, SysInv, Own, [SysNext]_sysvars PROVE (IInv /\ SysInv /\ Own)'
  <2>1. [Next]_vars /\ SysInv' /\ Own'
    <3>1. CASE SysNext
      <4>1. PICK v \in BOOLEAN, e \in MemErrors, d \in 1 .. AguLatency,
                 i \in Instrs \union {Bubble} : Clock(v, e, d, i)
        BY <3>1 DEF SysNext
      <4>2. [Next]_vars
        BY <1>2, <4>1, CoreStep DEF Clock, SysInv, SysOK
      <4>3. SysInv' /\ Own'
        BY <1>2, <4>1, SysStep, OwnStep
      <4>4. QED BY <4>2, <4>3
    <3>2. CASE UNCHANGED sysvars
      <4>1. phase' = phase /\ layer' = layer /\ flight' = flight
        BY <3>2 DEF sysvars, vars, fsm
      <4>2. Own'
        BY <1>2, <4>1 DEF Own, Running
      <4>3. QED BY <1>2, <3>2, <4>2, SysStill DEF sysvars
    <3>3. QED BY <1>2, <3>1, <3>2
  <2>2. IInv'
    BY <1>2, <2>1, StepTyping, StepSafety DEF IInv, SafetyInv
  <2>3. QED BY <2>1, <2>2
<1>3. QED BY <1>1, <1>2, PTL DEF SysSpec

-----------------------------------------------------------------------------
(* The results *)

\* The invariant says in particular what Tracked says.
LEMMA TrackedFollows == SysInv => Tracked
<1> SUFFICES ASSUME SysInv PROVE Tracked
  OBVIOUS
<1>0. PICK p \in 0 .. Len(flight) : Place(p)
  BY DEF SysInv, Placed
<1>1. /\ flight \in Seq(Entries) /\ Len(flight) \in Nat /\ Len(flight) <= OitfDepth
      /\ ret \in Pointers /\ OitfDepth \in Nat \ {0, 1}
  BY SystemAssumption, LenProperties DEF SysInv, Entered
<1>2. \A n : TagOf(n) = TagAt(ret, n)
  BY DEF TagOf, TagAt
<1>3. /\ alc = (ret + Len(flight)) % (2 * OitfDepth)
      /\ \A n \in 1 .. Len(flight) : slot[TagOf(n)] = [vld |-> TRUE, rd |-> flight[n].rd]
      /\ \A k \in Tags : slot[k].vld => \E n \in 1 .. Len(flight) : TagOf(n) = k
  BY <1>2 DEF SysInv, Entered
<1>4. \A n \in 1 .. Len(flight) : flight[n].unit = "mem" <=> n = p
  BY <1>0 DEF Place, Units
<1>5. InFlight("mem") = {p} \ {0}
  <2>1. p # 0 => p \in 1 .. Len(flight)
    BY <1>1
  <2>2. QED BY <1>1, <1>4, <2>1 DEF InFlight
<1>6. agu.busy = (p # 0) /\ (p # 0 => agu.tag = TagAt(ret, p))
  BY <1>0 DEF Place, Units
<1>7. /\ itags \in Seq(Tags) /\ Len(itags) = (IF p = 0 THEN Len(flight) ELSE Len(flight) - 1)
      /\ \A q \in 1 .. Len(itags) : itags[q] = TagAt(ret, IF p = 0 \/ q < p THEN q ELSE q + 1)
  BY <1>0 DEF Place, Queued
<1>8. InFlight("nice") = 1 .. Len(flight) \ {p}
  <2>1. ASSUME NEW n \in 1 .. Len(flight) PROVE flight[n].unit \in {"mem", "nice"}
    <3>1. flight[n] \in Entries
      BY <1>1, ElementOfSeq
    <3>2. QED BY <3>1 DEF Entries
  <2>2. \A n \in 1 .. Len(flight) : flight[n].unit = "nice" <=> n # p
    BY <1>4, <2>1
  <2>3. QED BY <2>2 DEF InFlight
<1>9. {itags[q] : q \in 1 .. Len(itags)} = {TagOf(n) : n \in InFlight("nice")}
  <2>1. ASSUME NEW q \in 1 .. Len(itags) PROVE \E n \in InFlight("nice") : itags[q] = TagOf(n)
    <3>1. CASE p = 0 \/ q < p
      <4>1. q \in 1 .. Len(flight) /\ q # p
        BY <1>1, <1>7, <3>1
      <4>2. QED BY <1>2, <1>7, <1>8, <3>1, <4>1
    <3>2. CASE ~(p = 0 \/ q < p)
      <4>1. q + 1 \in 1 .. Len(flight) /\ q + 1 # p
        BY <1>1, <1>7, <3>2
      <4>2. QED BY <1>2, <1>7, <1>8, <3>2, <4>1
    <3>3. QED BY <3>1, <3>2
  <2>2. ASSUME NEW n \in InFlight("nice") PROVE \E q \in 1 .. Len(itags) : itags[q] = TagOf(n)
    <3>1. n \in 1 .. Len(flight) /\ n # p
      BY <1>8
    <3>2. CASE p = 0 \/ n < p
      <4>1. n \in 1 .. Len(itags)
        BY <1>1, <1>7, <3>1, <3>2
      <4>2. QED BY <1>2, <1>7, <3>2, <4>1
    <3>3. CASE ~(p = 0 \/ n < p)
      <4>1. n - 1 \in 1 .. Len(itags) /\ ~(n - 1 < p) /\ (n - 1) + 1 = n
        BY <1>1, <1>7, <3>1, <3>3
      <4>2. itags[n - 1] = TagAt(ret, (n - 1) + 1)
        BY <1>7, <3>3, <4>1
      <4>3. QED BY <1>2, <4>1, <4>2
    <3>4. QED BY <3>2, <3>3
  <2>3. QED BY <2>1, <2>2
<1>10. Len(itags) <= OitfDepth
  BY <1>1, <1>7
<1>11. (agu.busy <=> InFlight("mem") # {}) /\ (\A n \in InFlight("mem") : agu.tag = TagOf(n))
  BY <1>2, <1>5, <1>6
<1> QED BY <1>1, <1>3, <1>9, <1>10, <1>11 DEF Tracked

\* What the accelerator executes is the last of its instructions.  The queue
\* has a tag for it and one for each undecoded instruction, so it is the oldest
\* of all, a load or store included, only without undecoded ones.
LEMMA LastRuns ==
    ASSUME IInv, SysInv, Own, phase # "IDLE", NEW p \in 0 .. Len(flight), Place(p)
    PROVE  RunsLast
<1>1. PICK n \in 1 .. Len(flight) :
         /\ flight[n].unit = "nice" /\ flight[n].op = Running
         /\ \A m \in n+1 .. Len(flight) : flight[m].unit # "nice"
  BY DEF Own
<1>2. flight \in Seq(Entries) /\ Len(flight) \in Nat
  BY LenProperties DEF SysInv, Entered
<1>3. n \in InFlight("nice") /\ \A m \in InFlight("nice") : m <= n
  <2>1. ASSUME NEW m \in InFlight("nice"), ~(m <= n) PROVE FALSE
    <3>1. m \in 1 .. Len(flight) /\ flight[m].unit = "nice"
      BY DEF InFlight
    <3>2. m \in n+1 .. Len(flight)
      BY <1>2, <2>1, <3>1
    <3>3. QED BY <1>1, <3>1, <3>2
  <2>2. QED BY <1>1, <2>1 DEF InFlight
<1>4. /\ owed = illegal + 1 /\ illegal \in Nat /\ p # 1
      /\ Len(itags) = owed /\ Len(itags) = IF p = 0 THEN Len(flight) ELSE Len(flight) - 1
  BY RequestAssumption DEF IInv, TypeOK, CoreOK, OneAnswer, Place, Queued
<1>5. \A m \in 1 .. Len(flight) : flight[m].unit = "mem" <=> m = p
  BY DEF Place, Units
<1>6. n # p
  BY <1>1, <1>5
<1>7. \A m \in n+1 .. Len(flight) : m = p
  <2>1. ASSUME NEW m \in n+1 .. Len(flight) PROVE m = p
    <3>1. m \in 1 .. Len(flight) /\ flight[m].unit # "nice"
      BY <1>1, <1>2
    <3>2. flight[m] \in Entries
      BY <1>2, <3>1, ElementOfSeq
    <3>3. QED BY <1>5, <3>1, <3>2 DEF Entries
  <2>2. QED BY <2>1
<1>8. n = 1 => illegal = 0
  <2>1. n = 1 /\ Len(flight) > 1 => p = 2 /\ p = Len(flight)
    BY <1>2, <1>7
  <2>2. QED BY <1>2, <1>4, <2>1
<1>9. ASSUME illegal = 0 PROVE n = 1
  <2>0. (IF p = 0 THEN Len(flight) ELSE Len(flight) - 1) = 1
    <3>1. owed = 1
      BY <1>4, <1>9
    <3>2. QED BY <1>4, <3>1
  <2>1. CASE p = 0
    <3>1. Len(flight) = 1
      BY <2>0, <2>1
    <3>2. QED BY <1>1, <3>1
  <2>2. CASE p # 0
    <3>1. Len(flight) = 2
      <4>1. Len(flight) - 1 = 1
        BY <2>0, <2>2
      <4>2. QED BY <1>2, <4>1
    <3>2. n \in 1 .. 2 /\ p = 2
      BY <1>1, <1>4, <2>2, <3>1
    <3>3. QED BY <1>6, <3>2
  <2>3. QED BY <2>1, <2>2
<1> QED BY <1>1, <1>3, <1>8, <1>9 DEF RunsLast

\* One step of the core, by what the invariant says of it: an answer of the
\* accelerator retires the oldest instruction, and so does a load or store;
\* what leaves dispatch has met the interlocks.
LEMMA Retiring ==
    ASSUME IInv, SysInv, Own, SysNext
    PROVE  /\ owed' < owed => ret' # ret /\ flight # <<>> /\ Head(flight).unit = "nice"
           /\ ret' # ret =>
                /\ flight # <<>> /\ slot[Tag(ret)].rd = Head(flight).rd
                /\ IF owed' < owed THEN Head(flight).unit = "nice" /\ ~SelLsu /\ RunsLast
                   ELSE Head(flight).unit = "mem"
<1>0. PICK v \in BOOLEAN, e \in MemErrors, d \in 1 .. AguLatency,
           i \in Instrs \union {Bubble} : Clock(v, e, d, i)
  BY DEF SysNext
<1>1. PICK p \in 0 .. Len(flight) : Place(p)
  BY DEF SysInv, Placed
<1>2. /\ NiceGoes(v) => owed' = owed + 1 /\ ~NiceRspValid(v)
      /\ NiceRspValid(v) => /\ phase # "IDLE" /\ owed' = owed - 1
                            /\ owed \in Nat /\ owed > 0
      /\ ~NiceGoes(v) /\ ~NiceRspValid(v) => owed' = owed
  BY <1>0, CoreStep DEF Clock, SysInv, SysOK
<1>3. owed \in Nat
  BY RequestAssumption DEF IInv, TypeOK, CoreOK, OneAnswer
<1>4. owed' < owed <=> NiceRspValid(v)
  BY <1>2, <1>3
<1>5. /\ SelNice(v) <=> NiceRspValid(v)
      /\ NiceRspValid(v) => flight # <<>> /\ p # 1 /\ ~SelLsu
      /\ SelLsu => flight # <<>> /\ p = 1
  BY <1>1, <1>2, Selected
<1>6. /\ Retires(v) => flight # <<>>
      /\ SelNice(v) => Head(flight).unit = "nice" /\ ~SelLsu
      /\ SelLsu => Head(flight).unit = "mem"
  BY <1>1, <1>2, Retirement
<1>7. ret' # ret <=> Retires(v)
  <2>1. Succ(ret) # ret
    BY SuccPointer DEF SysInv, Entered
  <2>2. QED BY <1>0, <2>1 DEF Clock, OitfStep
<1>8. ASSUME flight # <<>> PROVE slot[Tag(ret)].rd = Head(flight).rd
  <2>1. flight \in Seq(Entries) /\ Len(flight) \in Nat \ {0} /\ ret \in Pointers
    BY <1>8, EmptySeq, LenProperties DEF SysInv, Entered
  <2>2. 1 \in 1 .. Len(flight) /\ Head(flight) = flight[1] /\ TagAt(ret, 1) = Tag(ret)
    BY <2>1, <1>8, HeadTailProperties, SystemAssumption DEF TagAt, Pointers
  <2>3. slot[TagAt(ret, 1)] = [vld |-> TRUE, rd |-> flight[1].rd]
    BY <2>2 DEF SysInv, Entered
  <2>4. QED BY <2>2, <2>3
<1>9. NiceRspValid(v) => RunsLast
  BY <1>1, <1>2, LastRuns
<1> QED BY <1>4, <1>5, <1>6, <1>7, <1>8, <1>9 DEF Retires

\* What leaves dispatch depends on nothing that is on its way.
LEMMA Passing ==
    ASSUME SysInv, SysNext, Passes
    PROVE  /\ \A n \in 1 .. Len(flight) : flight[n].rd = NoReg
                 \/ flight[n].rd \notin ir.rs \union {ir.rd}
           /\ ir.kind = "csr" => flight = <<>>
<1>0. PICK v \in BOOLEAN, e \in MemErrors, d \in 1 .. AguLatency,
           i \in Instrs \union {Bubble} : Clock(v, e, d, i)
  BY DEF SysNext
<1>1. AguGoes(v) \/ NiceGoes(v) \/ AluGoes(v)
  BY <1>0 DEF Passes, Clock, Allocates
<1>2. ~Dep /\ (ir.kind = "csr" => Empty)
  BY <1>1 DEF AguGoes, NiceGoes, AluGoes
<1>3. ASSUME NEW n \in 1 .. Len(flight)
      PROVE  flight[n].rd = NoReg \/ flight[n].rd \notin ir.rs \union {ir.rd}
  <2>1. /\ Len(flight) \in Nat /\ Len(flight) <= OitfDepth /\ ret \in Pointers
        /\ OitfDepth \in Nat
    BY SystemAssumption, LenProperties DEF SysInv, Entered
  <2>2. n \in 1 .. OitfDepth
    BY <2>1
  <2>3. TagAt(ret, n) \in Tags
    BY <2>1, <2>2, AtDistinct
  <2>4. slot[TagAt(ret, n)].vld /\ slot[TagAt(ret, n)].rd = flight[n].rd
    <3>1. slot[TagAt(ret, n)] = [vld |-> TRUE, rd |-> flight[n].rd]
      BY DEF SysInv, Entered
    <3>2. QED BY <3>1
  <2>5. QED BY <1>2, <2>3, <2>4 DEF Dep
<1>4. Empty => flight = <<>>
  <2>1. alc = ret <=> Len(flight) = 0
    BY Ends DEF SysInv
  <2>2. flight \in Seq(Entries)
    BY DEF SysInv, Entered
  <2>3. QED BY <2>1, <2>2, EmptySeq DEF Empty
<1> QED BY <1>2, <1>3, <1>4

\* The OITF, the NICE interface's tags and the memory port agree on what is
\* outstanding, for every depth of the OITF and of the queue of tags.
THEOREM SystemTracked == ASSUME Roomy PROVE SysSpec => []Tracked
<1>1. IInv /\ SysInv /\ Own => Tracked
  BY TrackedFollows
<1>2. QED BY <1>1, SysInvariance, PTL

\* The answer the accelerator holds for one cycle is taken in that cycle.
THEOREM SystemAnswerTaken == ASSUME Roomy PROVE SysSpec => AnswerTaken
<1>1. ASSUME IInv, SysInv, Own, [SysNext]_sysvars
      PROVE  [owed' < owed => /\ ret' # ret /\ flight # <<>>
                              /\ Head(flight).unit = "nice"]_sysvars
  BY <1>1, Retiring
<1>2. QED BY <1>1, SysInvariance, PTL DEF SysSpec, AnswerTaken

\* Long instructions retire in program order, each by its own kind of unit; an
\* answer of the accelerator retires its own instruction exactly when no
\* undecoded one was issued.
THEOREM SystemRetiresInOrder == ASSUME Roomy PROVE SysSpec => RetiresInOrder
<1>1. ASSUME IInv, SysInv, Own, [SysNext]_sysvars
      PROVE  [ret' # ret =>
                /\ flight # <<>>
                /\ slot[Tag(ret)].rd = Head(flight).rd
                /\ IF owed' < owed THEN Head(flight).unit = "nice" /\ ~SelLsu /\ RunsLast
                   ELSE Head(flight).unit = "mem"]_sysvars
  BY <1>1, Retiring
<1>2. QED BY <1>1, SysInvariance, PTL DEF SysSpec, RetiresInOrder

\* Nothing passes an outstanding instruction that writes one of its
\* registers, and a CSR instruction or a fence passes none.
THEOREM SystemInterlocked == ASSUME Roomy PROVE SysSpec => Interlocked
<1>1. ASSUME IInv, SysInv, Own, [SysNext]_sysvars
      PROVE  [Passes => /\ \A n \in 1 .. Len(flight) : flight[n].rd = NoReg
                              \/ flight[n].rd \notin ir.rs \union {ir.rd}
                        /\ ir.kind = "csr" => flight = <<>>]_sysvars
  BY <1>1, Passing
<1>2. QED BY <1>1, SysInvariance, PTL DEF SysSpec, Interlocked

-----------------------------------------------------------------------------
(* The memory port during a load *)

\* While the accelerator loads, no access of the core is at the port.
PortFree == phase = "LOAD" => ~agu.busy

\* A load begins only with an instruction from dispatch.
LEMMA LoadBegins ==
    ASSUME NEW v, NEW e, Idling(v) \/ Taking(v, e) \/ Working(v, e), phase' = "LOAD"
    PROVE  phase = "LOAD" \/ (NiceGoes(v) /\ ir.op \in Loads)
<1>1. CASE Idling(v)
  BY <1>1 DEF Idling, vars, fsm
<1>2. CASE Taking(v, e)
  BY <1>2 DEF Taking, AcceptIllegal, fsm
<1>3. CASE Working(v, e)
  <2>1. ASSUME NEW op, NEW r, LoadWait(op, r, e) \/ LoadBeat(op, r, e) \/ LoadDone(op, r, e)
        PROVE  phase = "LOAD"
    BY <2>1 DEF LoadWait, LoadBeat, LoadDone, LoadCycle
  <2>2. ASSUME NEW l, Move(l, v) PROVE FALSE
    BY <2>2 DEF Move
  <2>3. ASSUME NEW l, CalCount(l, v) PROVE FALSE
    BY <2>3 DEF CalCount, fsm
  <2>4. ASSUME NEW l, CalDone(l, v) PROVE FALSE
    BY <2>4 DEF CalDone
  <2>5. QED BY <1>3, <2>1, <2>2, <2>3, <2>4 DEF Working
<1> QED BY <1>1, <1>2, <1>3

\* A load is accepted when the core's own access has left the port, and lets none in.
LEMMA PortFreeStep ==
    ASSUME SysInv, PortFree, NEW v \in BOOLEAN, NEW e, NEW d, NEW i, Clock(v, e, d, i)
    PROVE  PortFree'
<1> SUFFICES ASSUME phase' = "LOAD" PROVE ~agu'.busy
  BY DEF PortFree
<1>1. phase = "LOAD" \/ (NiceGoes(v) /\ ir.op \in Loads)
  BY LoadBegins DEF Clock
<1>2. ~AguGoes(v)
  BY <1>1 DEF AguGoes, NiceGoes
<1>3. ~agu.busy \/ SelLsu
  BY <1>1 DEF PortFree, NiceGoes, PortReady, LsuFree
<1>4. agu' = IF SelLsu THEN [agu EXCEPT !.busy = FALSE]
             ELSE IF agu.left > 0 THEN [agu EXCEPT !.left = @ - 1] ELSE agu
  BY <1>2 DEF Clock, AguStep
<1>5. agu \in [busy : BOOLEAN, tag : Tags, left : Nat]
  BY DEF SysInv, SysOK
<1>6. CASE SelLsu
  BY <1>4, <1>5, <1>6
<1>7. CASE ~SelLsu
  BY <1>3, <1>4, <1>5, <1>7
<1> QED BY <1>6, <1>7

\* The port of NiceCore, whether or not it may stall.
LEMMA AlonePort ==
    ASSUME NEW v, NEW r, NEW c, NEW a, NEW e
    PROVE  /\ Alone!RspValid(v) <=> RspValid(v)
           /\ Alone!CmdReady(r, v) <=> CmdReady(r, v)
           /\ Alone!PortCycle(v, c, a, e) <=> PortCycle(v, c, a, e)
           /\ Alone!NoStall(r, v) <=> (r <=> (pend = 0 \/ v))
BY DEF Alone!RspValid, RspValid, Alone!CmdReady, CmdReady, Alone!PortCycle, PortCycle,
       Alone!Wrap, Wrap, Alone!NoStall

\* A clock of a load is one of the accelerator on a port without stalls.
LEMMA AloneLoad ==
    ASSUME NEW op, NEW v, NEW r, NEW e, r <=> (pend = 0 \/ v)
    PROVE  /\ LoadWait(op, r, e) /\ ~v => Alone!LoadWait(op, r, e)
           /\ LoadBeat(op, r, e) /\ v => Alone!LoadBeat(op, r, e)
           /\ LoadDone(op, r, e) /\ v => Alone!LoadDone(op, r, e)
<1>1. /\ Alone!CntDone(op) <=> CntDone(op)
      /\ Alone!Rewind(op) <=> Rewind(op)
      /\ Alone!Store(op) <=> Store(op)
  BY DEF Alone!CntDone, CntDone, Alone!Rewind, Rewind, Alone!Store, Store
<1>2. ASSUME NEW w, w <=> v, LoadCycle(op, w, r, e) PROVE Alone!LoadCycle(op, w, r, e)
  <2>1. Alone!CmdValid(op) = CmdValid(op) /\ Alone!NextCnt(op, w) = NextCnt(op, w)
        /\ Alone!BeatBound(op) = BeatBound(op)
    BY DEF Alone!CmdValid, CmdValid, Alone!NextCnt, NextCnt, Alone!CntDone, CntDone,
           Alone!BeatBound, BeatBound
  <2>2. Alone!NoStall(r, w)
    BY <1>2, AlonePort
  <2>3. QED BY <1>2, <2>1, <2>2, AlonePort DEF LoadCycle, Alone!LoadCycle
<1>3. LoadWait(op, r, e) /\ ~v => Alone!LoadWait(op, r, e)
  BY <1>1, <1>2 DEF LoadWait, Alone!LoadWait, fsm, Alone!fsm
<1>4. LoadBeat(op, r, e) /\ v => Alone!LoadBeat(op, r, e)
  BY <1>1, <1>2 DEF LoadBeat, Alone!LoadBeat, fsm, Alone!fsm
<1>5. LoadDone(op, r, e) /\ v => Alone!LoadDone(op, r, e)
  BY <1>1, <1>2 DEF LoadDone, Alone!LoadDone, fsm, Alone!fsm
<1> QED BY <1>3, <1>4, <1>5

\* The other clocks do not ask for the port.
LEMMA AloneRest ==
    ASSUME NEW v, NEW e, NEW b, NEW op, NEW l
    PROVE  /\ Accept(op, b, v, e) => Alone!Accept(op, b, v, e)
           /\ AcceptIllegal(v) => Alone!AcceptIllegal(v)
           /\ Move(l, v) => Alone!Move(l, v)
           /\ CalCount(l, v) => Alone!CalCount(l, v)
           /\ CalDone(l, v) => Alone!CalDone(l, v)
<1>1. Accept(op, b, v, e) => Alone!Accept(op, b, v, e)
  BY AlonePort DEF Accept, Alone!Accept, loader, Alone!loader
<1>2. AcceptIllegal(v) => Alone!AcceptIllegal(v)
  BY AlonePort DEF AcceptIllegal, Alone!AcceptIllegal, loader, Alone!loader, fsm, Alone!fsm
<1>3. Quiet(v) <=> Alone!Quiet(v)
  BY AlonePort DEF Quiet, Alone!Quiet, loader, Alone!loader
<1>4. /\ Alone!LastBlock(l) <=> LastBlock(l)
      /\ Alone!Answers(l) <=> Answers(l)
      /\ Alone!Following(l) = Following(l)
  BY DEF Alone!LastBlock, LastBlock, Alone!Answers, Answers, Alone!Following, Following
<1>5. Move(l, v) => Alone!Move(l, v)
  BY <1>3 DEF Move, Alone!Move
<1>6. CalCount(l, v) => Alone!CalCount(l, v)
  BY <1>3 DEF CalCount, Alone!CalCount, fsm, Alone!fsm
<1>7. CalDone(l, v) => Alone!CalDone(l, v)
  BY <1>3, <1>4 DEF CalDone, Alone!CalDone
<1> QED BY <1>1, <1>2, <1>5, <1>6, <1>7

\* A clock of the core is a cycle of the accelerator on a port of its own.
LEMMA AloneStep ==
    ASSUME SysInv, PortFree, [SysNext]_sysvars
    PROVE  [Alone!Next]_(Alone!vars)
<1>1. UNCHANGED vars => UNCHANGED Alone!vars
  BY DEF vars, fsm, loader, port, core, Alone!vars, Alone!fsm, Alone!loader, Alone!port, Alone!core
<1>2. CASE UNCHANGED sysvars
  BY <1>1, <1>2 DEF sysvars
<1>3. CASE SysNext
  <2>1. PICK v \in BOOLEAN, e \in MemErrors, d \in 1 .. AguLatency,
             i \in Instrs \union {Bubble} : Clock(v, e, d, i)
    BY <1>3 DEF SysNext
  <2>2. CASE Idling(v)
    BY <1>1, <2>2 DEF Idling
  <2>3. CASE Taking(v, e)
    <3>1. CASE ir.op \notin Loads
      <4>1. Alone!AcceptIllegal(v)
        BY <2>3, <3>1, AloneRest DEF Taking
      <4>2. QED BY <4>1 DEF Alone!Next
    <3>2. CASE ir.op \in Loads
      <4>1. PICK b \in Bases[ir.op] : Accept(ir.op, b, v, e)
        BY <2>3, <3>2 DEF Taking
      <4>2. ir \in Instrs /\ ir.kind = "nice"
        BY <2>3 DEF Taking, NiceGoes, Bubble, SysInv, SysOK
      <4>3. ir.op \in Requests /\ Alone!Accept(ir.op, b, v, e)
        BY <3>2, <4>1, <4>2, AloneRest, SystemAssumption
      <4>4. QED BY <4>3 DEF Alone!Next
    <3>3. QED BY <3>1, <3>2
  <2>4. CASE Working(v, e)
    <3>1. ASSUME NEW op \in Loads, phase = "LOAD"
          PROVE  PortReady(v) \in BOOLEAN /\ (PortReady(v) <=> (pend = 0 \/ v))
      <4>1. ~AguGoes(v) /\ ~agu.busy
        BY <3>1 DEF AguGoes, PortFree
      <4>2. QED BY <4>1 DEF PortReady, LsuFree
    <3>2. ASSUME NEW op \in Loads, ~v, LoadWait(op, PortReady(v), e) PROVE Alone!Next
      <4>1. phase = "LOAD"
        BY <3>2 DEF LoadWait, LoadCycle
      <4>2. Alone!LoadWait(op, PortReady(v), e)
        BY <3>1, <3>2, <4>1, AloneLoad
      <4>3. QED BY <3>1, <4>1, <4>2 DEF Alone!Next, Alone!Loads, Loads, Alone!Weights, Weights
    <3>3. ASSUME NEW op \in Loads, v, LoadBeat(op, PortReady(v), e) PROVE Alone!Next
      <4>1. phase = "LOAD"
        BY <3>3 DEF LoadBeat, LoadCycle
      <4>2. Alone!LoadBeat(op, PortReady(v), e)
        BY <3>1, <3>3, <4>1, AloneLoad
      <4>3. QED BY <3>1, <4>1, <4>2 DEF Alone!Next, Alone!Loads, Loads, Alone!Weights, Weights
    <3>4. ASSUME NEW op \in Loads, v, LoadDone(op, PortReady(v), e) PROVE Alone!Next
      <4>1. phase = "LOAD"
        BY <3>4 DEF LoadDone, LoadCycle
      <4>2. Alone!LoadDone(op, PortReady(v), e)
        BY <3>1, <3>4, <4>1, AloneLoad
      <4>3. QED BY <3>1, <4>1, <4>2 DEF Alone!Next, Alone!Loads, Loads, Alone!Weights, Weights
    <3>5. ASSUME NEW l \in Layers, Move(l, v) \/ CalCount(l, v) \/ CalDone(l, v)
          PROVE  Alone!Next
      <4>1. Alone!Move(l, v) \/ Alone!CalCount(l, v) \/ Alone!CalDone(l, v)
        BY <3>5, AloneRest
      <4>2. QED BY <4>1 DEF Alone!Next, Alone!Layers, Layers, Alone!Weights, Weights
    <3>6. QED BY <2>4, <3>2, <3>3, <3>4, <3>5 DEF Working
  <2>5. QED BY <2>1, <2>2, <2>3, <2>4 DEF Clock
<1> QED BY <1>2, <1>3

\* During a load the accelerator has the memory port for itself: the loaders,
\* which withdraw a command that is not taken at once, never meet a stall.
THEOREM SystemPortIsOwn == ASSUME Roomy PROVE SysSpec => PortIsOwn
<1>1. SysInit => PortFree /\ Alone!Init
  BY DEF SysInit, Init, PortFree, Alone!Init, Alone!Loads, Loads, Alone!Weights, Weights,
         Alone!Layers, Layers, Alone!Unset, Unset
<1>2. ASSUME SysInv, PortFree, [SysNext]_sysvars PROVE PortFree'
  <2>1. CASE SysNext
    BY <1>2, <2>1, PortFreeStep DEF SysNext
  <2>2. CASE UNCHANGED sysvars
    BY <1>2, <2>2 DEF sysvars, vars, fsm, PortFree
  <2>3. QED BY <1>2, <2>1, <2>2
<1>3. ASSUME SysInv, PortFree, [SysNext]_sysvars PROVE [Alone!Next]_(Alone!vars)
  BY <1>3, AloneStep
<1>4. QED BY <1>1, <1>2, <1>3, SysInvariance, PTL DEF SysSpec, PortIsOwn, Alone!Spec


-----------------------------------------------------------------------------
(* The accelerator with its datapath. *)

(* The hypotheses. *)

\* The accelerator's own dimensions.
Dimensions ==
    /\ Size = [conv1 |-> 45, conv2 |-> 225, fc1 |-> 200, fc2 |-> 100, input |-> 784]
    /\ SaRows = 10
    /\ CalCycles = [conv1 |-> 158, conv2 |-> 30, fc1 |-> 16, fc2 |-> 17]
    /\ Blocks = [conv1 |-> 1, conv2 |-> 5, fc1 |-> 4, fc2 |-> 2]

\* nice_load_weights: the driver loads the four weights before any image.
LoadsFirst == {Program[i].op : i \in 1 .. 4} = Weights

-----------------------------------------------------------------------------
(* The inductive invariant, one group of registers after the other. *)

\* The weights of the instructions issued so far are complete, and no image is
\* read before all four are.
Issued ==
    /\ pc \in 1 .. Len(Program)
    /\ \A i \in 1 .. 4 : i < pc =>
          LET op == Program[i].op IN ~Loading(op) => wptr[op] >= Size[op]
    /\ Computing \/ Loading("input") => pc > 4

\* A counter runs in its own state only.
Counters ==
    /\ moveCnt # 0 => phase = "MOVE"
    /\ \A l \in Layers : calCnt[l] # 0 => InCal(l)

\* The rows that take part in a layer, the slots in which activations enter
\* them and the last cycle in which they are enabled.
Active == IF layer \in Convs THEN 1 .. 9 ELSE 0 .. 9
Slots  == IF layer \in Convs THEN 0 .. OutSize[layer] - 1 ELSE {1}
LastIn == IF layer \in Convs THEN OutSize[layer] + 9 ELSE 11

\* The outputs FirstOut .. FirstOut + 4 are computed in this block, from the
\* lower or the upper half of the inputs.
FirstOut == IF block[layer] <= (IF layer = "fc1" THEN 1 ELSE 0) THEN 0 ELSE 5
Half     == IF block["fc1"] \in {1, 3} THEN 1 ELSE 0

\* Column j works with the weights Origin(j) + i of the rows i.
Origin(j) ==
    CASE layer = "conv1" -> first["conv1"] + 9 * j - 1
      [] layer = "conv2" -> first["conv2"] + 45 * j + 9 * cha - 1
      [] layer = "fc1" -> first["fc1"] + 20 * (j + FirstOut) + 10 * Half
      [] OTHER -> first["fc2"] + 10 * (j + FirstOut)
Wt(i, j) == IF i \in Active THEN {<<layer, Origin(j) + i>>} ELSE {}

\* The activation of row i in slot k.
Act(i, k) ==
    CASE layer = "conv1" ->
            <<"conv1", RefPool1((k \div 12) + ((i - 1) \div 3), (k % 12) + ((i - 1) % 3))>>
      [] layer = "conv2" ->
            <<"conv2", RefPool2(cha, (k \div 4) + ((i - 1) \div 3), (k % 4) + ((i - 1) % 3))>>
      [] layer = "fc1" -> <<"fc1", RefPool3(10 * Half + i)>>
      [] OTHER -> <<"fc2", {RefOutFc1(i)}>>

\* The product of row r, and the sum of those of rows 0 to i, in slot k of
\* column j.
Term(r, j, k) == <<Act(r, k), <<layer, Origin(j) + r>> >>
PSum(i, j, k) == {Term(r, j, k) : r \in {q \in Active : q <= i}}

\* The indices that choose the weights of a fully connected layer.
FirstPick == [row |-> 0, col |-> 9]
PickInv ==
    /\ Computing /\ layer = "conv2" => fcPick["fc1"] = FirstPick /\ fcPick["fc2"] = FirstPick
    /\ Computing /\ layer = "fc1" => fcPick["fc2"] = FirstPick
    /\ InMove("fc1") /\ moveCnt <= 9 =>
         fcPick["fc1"] = [row |-> FirstOut, col |-> 9 + 10 * Half - moveCnt]
    /\ InMove("fc2") /\ moveCnt <= 9 =>
         fcPick["fc2"] = [row |-> FirstOut, col |-> 9 - moveCnt]

\* The weights fall into the array, one row a cycle.
Pushed == IF phase = "MOVE" THEN moveCnt ELSE IF phase = "CAL" /\ cnt = 0 THEN 11 ELSE 0

\* In the n-th cycle of a MOVE the row above the array takes the weights of row 10 - n.
TopInv ==
    /\ top.en <=> phase = "MOVE" /\ moveCnt > 0
    /\ top.mode <=> phase = "MOVE" /\ moveCnt > 0
    /\ phase = "CAL" => \A j \in Cols : top.data[j] = {}
    /\ phase = "MOVE" /\ moveCnt > 0 =>
         \A i \in Rows, j \in Cols : i = 10 - moveCnt => top.data[j] = Wt(i, j)

\* An element holds the weight on its way to the row where it belongs.
FallInv ==
    \A i \in Rows, j \in Cols :
       /\ pe[<<i, j>>].enDown <=> Pushed >= i + 2
       /\ \A r \in Rows : Pushed >= i + 2 /\ r = 11 + i - Pushed =>
            pe[<<i, j>>].weight = Wt(r, j) /\ pe[<<i, j>>].down = Wt(r, j)

\* During a CAL the weights are in place, and the row that a convolution does
\* not use passes zero down.
HeldInv ==
    phase = "CAL" => \A i \in Rows, j \in Cols :
        /\ pe[<<i, j>>].weight = Wt(i, j)
        /\ i \notin Active => pe[<<i, j>>].down = {}

\* Activations enter from the left in cycles 2 to LastIn and pass one column a cycle.
EnableInv ==
    /\ enLeft = (IF phase = "CAL" /\ 2 <= cnt /\ cnt <= LastIn THEN Active ELSE {})
    /\ \A i \in Rows, j \in 0 .. 3 :
         pe[<<i, j>>].enRight <=>
            phase = "CAL" /\ i \in Active /\ 3 + j <= cnt /\ cnt <= LastIn + 1 + j

\* The activation of slot k is at the edge of row i in cycle k + i + 1.
LeftInv ==
    phase = "CAL" =>
        \A i \in Active, k \in Slots : cnt = k + i + 1 => dataLeft[i] = {Act(i, k)}

\* It is in column j in cycle k + i + j + 2, with the sum of the rows above it.
FlowInv ==
    phase = "CAL" =>
        \A i \in Active, j \in Cols, k \in Slots : cnt = k + i + j + 2 =>
            pe[<<i, j>>].right = {Act(i, k)} /\ pe[<<i, j>>].down = PSum(i, j, k)

\* An index that walks over W rows of W in steps of d, from cycle s on.
Walked(W, d, s, c, row, col) ==
    /\ c <= s => row = 0 /\ col = 0
    /\ \A r, x \in 0 .. W - 1 : c = W * r + x + s => row = d * r /\ col = d * x

\* The indices that select activations, and those that store results.
SelInv ==
    \A l \in Convs, i \in Taps :
        Walked(OutWidth[l], 2, i + 1, calCnt[l], sel[l].row[i], sel[l].col[i])
StoreInv ==
    \A l \in Convs, j \in Cols :
        Walked(OutWidth[l], 1, j + 11, calCnt[l], store[l].row[j], store[l].col[j])

\* The index of the fully connected layer into the pooled image.
FcSelInv ==
    /\ ~(Computing /\ layer = "fc1") => fcSel = 0
    /\ Computing /\ layer = "fc1" =>
        fcSel = 40 * Half + (IF calCnt["fc1"] = 0 THEN 0 ELSE 4 * (calCnt["fc1"] - 1))

-----------------------------------------------------------------------------
(* What has left the array is right. *)

\* The outputs of the image before have been cleared.
Begun == Computing /\ (layer = "conv1" => phase = "CAL" /\ cnt >= 2)

\* The first layer's output of column p[1] is there 11 + p[1] cycles after its slot.
Out1Inv ==
    \A p \in Pixels("conv1") :
        \/ InCal("conv1") /\ 12 * p[2] + p[3] < cnt - 11 - p[1]
        \/ Computing /\ layer \in {"conv2", "fc1", "fc2"}
        => conv1Out[p] = Name1(p[1], p[2], p[3])

\* The second layer's output p once k input channels are in it, and how many are.
Sum2(p, k) ==
    {<<"bias", p[1]>>} \union {Name2(p[1], in, p[2], p[3]) : in \in 0 .. k - 1}
    \union (IF k = 5 THEN {<<"quant">>} ELSE {})
Channels(p) ==
    CASE layer = "conv1" -> 0
      [] layer = "conv2" ->
           IF phase = "CAL" /\ 4 * p[2] + p[3] < cnt - 11 - p[1] THEN cha + 1 ELSE cha
      [] OTHER -> 5
Out2Inv == Begun => \A p \in Pixels("conv2") : conv2Out[p] = Sum2(p, Channels(p))

\* The hidden output o once k halves of the inputs are in it, and how many are.
SumFc1(o, k) ==
    {<<"bias", o>>} \union {NameFc1(o, h) : h \in 0 .. k - 1}
    \union (IF k = 2 THEN {<<"quant">>} ELSE {})
Halves(o) ==
    CASE layer \in Convs -> 0
      [] layer = "fc1" ->
           IF o \in FirstOut .. FirstOut + 4
           THEN IF phase = "CAL" /\ o - FirstOut < cnt - 12 THEN Half + 1 ELSE Half
           ELSE IF o < 5 THEN 2 ELSE 0
      [] OTHER -> 2
FcShape == DOMAIN fc1Out = 0 .. 9
OutFc1Inv == Begun => \A o \in 0 .. 9 : fc1Out[o] = SumFc1(o, Halves(o))

\* How many scores have been compared, and the answer after k of them.
Compared ==
    IF layer = "fc2"
    THEN FirstOut + (IF phase = "MOVE" \/ cnt <= 12 THEN 0 ELSE IF cnt > 17 THEN 5 ELSE cnt - 12)
    ELSE 0
Answer(k) == [o \in 1 .. k |-> <<NameFc2(o - 1), o - 1>>]
ResultInv == Begun => result = Answer(Compared)

\* The inductive invariant.
AInv == /\ Issued /\ Counters /\ PickInv /\ TopInv /\ FallInv /\ HeldInv
        /\ EnableInv /\ LeftInv /\ FlowInv /\ SelInv /\ StoreInv /\ FcSelInv /\ FcShape /\ Out1Inv /\ Out2Inv /\ OutFc1Inv /\ ResultInv

-----------------------------------------------------------------------------
(* One clock of the control, as the array sees it. *)

\* The constants of each layer.
LEMMA LayerDims ==
    ASSUME Dimensions
    PROVE  /\ Size["conv1"] = 45 /\ Size["conv2"] = 225 /\ Size["fc1"] = 200
           /\ Size["fc2"] = 100 /\ Size["input"] = 784
           /\ CalCycles["conv1"] = 158 /\ CalCycles["conv2"] = 30
           /\ CalCycles["fc1"] = 16 /\ CalCycles["fc2"] = 17
           /\ Blocks["conv1"] = 1 /\ Blocks["conv2"] = 5 /\ Blocks["fc1"] = 4 /\ Blocks["fc2"] = 2
           /\ SaRows = 10
  BY DEF Dimensions

\* The clocks of the control: between instructions, the end of an image's
\* load, one row of weights, one slot of activations, the end of a block.
Steady == UNCHANGED <<first, rs1, buf>>

Waiting ==
    /\ phase \in {"IDLE", "LOAD"} /\ phase' \in {"IDLE", "LOAD"}
    /\ UNCHANGED <<block, moveCnt, calCnt>>
Starting ==
    /\ phase = "LOAD" /\ phase' = "MOVE" /\ layer' = "conv1"
    /\ UNCHANGED <<block, moveCnt, calCnt>>
Pushing ==
    /\ phase = "MOVE" /\ Steady /\ UNCHANGED <<layer, block, calCnt>>
    /\ IF moveCnt = 10 THEN moveCnt' = 0 /\ phase' = "CAL"
       ELSE moveCnt' = moveCnt + 1 /\ phase' = "MOVE"
Counting ==
    /\ phase = "CAL" /\ phase' = "CAL" /\ Steady /\ UNCHANGED <<layer, block, moveCnt>>
    /\ cnt < CalCycles[layer]
    /\ calCnt' = [calCnt EXCEPT ![layer] = @ + 1]
Ending ==
    /\ phase = "CAL" /\ Steady /\ UNCHANGED moveCnt
    /\ cnt = CalCycles[layer]
    /\ calCnt' = [calCnt EXCEPT ![layer] = 0]
    /\ block' = [block EXCEPT ![layer] = IF LastBlock(layer) THEN 0 ELSE @ + 1]
    /\ layer' = IF LastBlock(layer) THEN Following(layer) ELSE layer
    /\ phase' = IF LastBlock(layer) /\ layer = "fc2" THEN "IDLE" ELSE "MOVE"

\* Every clock is one of these.
LEMMA ControlStep ==
    ASSUME Dimensions, IInv, ArrayNext
    PROVE  Waiting \/ Starting \/ Pushing \/ Counting \/ Ending
  <1>1. ASSUME NEW op \in Requests, NEW b \in Bases[op], NEW v \in BOOLEAN, NEW e \in BOOLEAN,
               Accept(op, b, v, e)
        PROVE  Waiting
    BY <1>1 DEF Accept, Waiting
  <1>2. ASSUME NEW v \in BOOLEAN, AcceptIllegal(v) PROVE Waiting
    BY <1>2 DEF AcceptIllegal, Waiting, fsm
  <1>3. ASSUME NEW op \in Loads, NEW r \in BOOLEAN, NEW e \in BOOLEAN, LoadWait(op, r, e)
        PROVE  Waiting
    BY <1>3 DEF LoadWait, LoadCycle, Waiting, fsm
  <1>4. ASSUME NEW op \in Loads, NEW r \in BOOLEAN, NEW e \in BOOLEAN, LoadBeat(op, r, e)
        PROVE  Waiting
    BY <1>4 DEF LoadBeat, LoadCycle, Waiting, fsm
  <1>5. ASSUME NEW op \in Loads, NEW r \in BOOLEAN, NEW e \in BOOLEAN, LoadDone(op, r, e)
        PROVE  Waiting \/ Starting
    BY <1>5 DEF LoadDone, LoadCycle, Waiting, Starting
  <1>6. ASSUME NEW l \in Layers, NEW v \in BOOLEAN, Move(l, v) PROVE Pushing
    BY <1>6, LayerDims DEF Move, Quiet, loader, Pushing, Steady
  <1>7. ASSUME NEW l \in Layers, NEW v \in BOOLEAN, CalCount(l, v) PROVE Counting
    BY <1>7 DEF CalCount, Quiet, loader, fsm, Counting, Steady, cnt
  <1>8. ASSUME NEW l \in Layers, NEW v \in BOOLEAN, CalDone(l, v) PROVE Ending
    <2>1. phase' = IF LastBlock(l) /\ l = "fc2" THEN "IDLE" ELSE "MOVE"
      BY <1>8 DEF CalDone, Following, Layers, Weights
    <2>2. QED BY <1>8, <2>1 DEF CalDone, Quiet, loader, Ending, Steady, cnt
  <1>9. QED BY <1>1, <1>2, <1>3, <1>4, <1>5, <1>6, <1>7, <1>8, MemoryAssumption
          DEF ArrayNext, Next

\* While the array works, its layer and its block are in range, and all other
\* counters stand still.
LEMMA Ranges ==
    ASSUME Dimensions, IInv, Marks, Counters
    PROVE  /\ Computing => layer \in Layers
           /\ \A l \in Layers : block[l] \in Nat /\ calCnt[l] \in Nat /\ block[l] < Blocks[l]
                                /\ calCnt[l] <= CalCycles[l]
           /\ \A l \in Layers : ~(Computing /\ layer = l) => block[l] = 0
           /\ \A l \in Layers : ~InCal(l) => calCnt[l] = 0
           /\ moveCnt \in 0 .. 10
           /\ phase # "MOVE" => moveCnt = 0
           /\ block \in [Layers -> Nat] /\ calCnt \in [Layers -> Nat]
  <1>1. ControlOK
    BY DEF IInv, TypeOK
  <1>2. SaRows = 10
    BY LayerDims
  <1>3. QED BY <1>1, <1>2 DEF ControlOK, Computing, Marks, Counters

\* Counters is inductive.
LEMMA CountersStep ==
    ASSUME Dimensions, IInv, Marks, Counters, ArrayNext
    PROVE  Counters'
  <1>1. /\ \A l \in Layers : ~InCal(l) => calCnt[l] = 0
        /\ phase # "MOVE" => moveCnt = 0
        /\ Computing => layer \in Layers
        /\ calCnt \in [Layers -> Nat]
    BY Ranges
  <1>2. CASE Waiting
    BY <1>1, <1>2 DEF Waiting, Counters, InCal
  <1>3. CASE Starting
    BY <1>1, <1>3 DEF Starting, Counters, InCal
  <1>4. CASE Pushing
    BY <1>1, <1>4 DEF Pushing, Counters, InCal
  <1>5. CASE Counting
    BY <1>1, <1>5 DEF Counting, Counters, InCal
  <1>6. CASE Ending
    BY <1>1, <1>6 DEF Ending, Counters, InCal
  <1>7. QED BY <1>2, <1>3, <1>4, <1>5, <1>6, ControlStep

\* The program's instructions.
LEMMA ProgramOps ==
    ASSUME LoadsFirst
    PROVE  /\ Len(Program) \in Nat /\ Len(Program) > 4
           /\ \A i \in 1 .. Len(Program) : Program[i].op \in Loads /\ Program[i].base \in Nat
           /\ \A i \in 1 .. 4 : Program[i].op \in Weights
           /\ \A op \in Weights : \E i \in 1 .. 4 : Program[i].op = op
  <1> DEFINE instr == [op : Loads, base : Nat]
  <1>1. Program \in Seq(instr) /\ Len(Program) > 4
    BY ProgramAssumption
  <1> HIDE DEF instr
  <1>2. Len(Program) \in Nat /\ \A i \in 1 .. Len(Program) : Program[i] \in instr
    BY <1>1
  <1>3. \A i \in 1 .. 4 : Program[i].op \in {Program[k].op : k \in 1 .. 4}
    OBVIOUS
  <1>4. \A op \in {Program[k].op : k \in 1 .. 4} : \E i \in 1 .. 4 : Program[i].op = op
    OBVIOUS
  <1>5. QED BY <1>1, <1>2, <1>3, <1>4 DEF LoadsFirst, instr

\* The driver moves on with the instruction it issues, and with nothing else.
LEMMA DriverStep ==
    ASSUME IInv, LoadsFirst, Issued, ArrayNext
    PROVE  /\ phase = "IDLE" => /\ phase' = "LOAD" /\ layer' = Program[pc].op
                                /\ wptr' = wptr
                                /\ pc' = IF pc = Len(Program) THEN 5 ELSE pc + 1
           /\ phase # "IDLE" => pc' = pc
  <1>1. Driver
    BY DEF ArrayNext
  <1>2. CASE phase = "IDLE"
    <2>1. pc \in 1 .. Len(Program) /\ Program[pc].op \in Loads
      BY ProgramOps DEF Issued
    <2>2. ASSUME NEW op \in Requests, NEW b \in Bases[op], NEW v \in BOOLEAN, NEW e \in BOOLEAN,
                 Accept(op, b, v, e)
          PROVE  phase' = "LOAD" /\ wptr' = wptr
      BY <2>2 DEF Accept, loader
    <2>3. ASSUME NEW v \in BOOLEAN, AcceptIllegal(v) PROVE FALSE
      <3>1. layer = "none" /\ layer' = layer
        BY <1>2, <2>3 DEF AcceptIllegal, fsm, IInv, TypeOK, ControlOK
      <3>2. layer' \in Loads
        BY <1>1, <1>2, <2>1 DEF Driver
      <3>3. QED BY <3>1, <3>2 DEF Loads, Weights
    <2>4. phase' = "LOAD" /\ wptr' = wptr
      <3>1. PICK v \in BOOLEAN, r \in BOOLEAN, e \in MemErrors :
               \/ \E op \in Requests : \E b \in Bases[op] : Accept(op, b, v, e)
               \/ AcceptIllegal(v)
               \/ \E op \in Loads : \/ LoadWait(op, r, e)
                                    \/ LoadBeat(op, r, e)
                                    \/ LoadDone(op, r, e)
               \/ \E l \in Layers : Move(l, v) \/ CalCount(l, v) \/ CalDone(l, v)
        BY DEF ArrayNext, Next
      <3>2. e \in BOOLEAN
        BY MemoryAssumption
      <3>3. ~AcceptIllegal(v)
        BY <2>3
      <3>4. ASSUME NEW op \in Loads PROVE ~LoadWait(op, r, e) /\ ~LoadBeat(op, r, e) /\ ~LoadDone(op, r, e)
        BY <1>2 DEF LoadWait, LoadBeat, LoadDone, LoadCycle
      <3>5. ASSUME NEW l \in Layers PROVE ~Move(l, v) /\ ~CalCount(l, v) /\ ~CalDone(l, v)
        BY <1>2 DEF Move, CalCount, CalDone
      <3>6. PICK op \in Requests : \E b \in Bases[op] : Accept(op, b, v, e)
        BY <3>1, <3>3, <3>4, <3>5, Zenon
      <3>7. QED BY <2>2, <3>2, <3>6, Zenon
    <2>5. QED BY <1>1, <1>2, <2>4 DEF Driver
  <1>3. CASE phase # "IDLE"
    BY <1>1, <1>3 DEF Driver
  <1>4. QED BY <1>2, <1>3

\* A write pointer of a weight never falls, and is complete when its load ends.
LEMMA WptrStep ==
    ASSUME IInv, ArrayNext, NEW op \in Weights, ~Loading(op)'
    PROVE  wptr[op] >= Size[op] \/ Loading(op) => wptr'[op] >= Size[op]
  <1>1. /\ wptr \in [Loads -> Nat] /\ Size \in [Loads -> Nat] /\ op \in Loads /\ op # "input"
    BY SizeAssumption DEF IInv, TypeOK, LoaderOK, Loads, Weights
  <1>2. ASSUME NEW o \in Requests, NEW b \in Bases[o], NEW v \in BOOLEAN, NEW e \in BOOLEAN,
               Accept(o, b, v, e)
        PROVE  wptr' = wptr /\ ~Loading(op)
    BY <1>2 DEF Accept, loader, Loading
  <1>3. ASSUME NEW v \in BOOLEAN, AcceptIllegal(v) PROVE wptr' = wptr /\ ~Loading(op)
    BY <1>3 DEF AcceptIllegal, loader, Loading
  <1>4. ASSUME NEW o \in Loads, NEW r \in BOOLEAN, NEW e \in BOOLEAN,
               LoadWait(o, r, e) \/ LoadBeat(o, r, e)
        PROVE  wptr'[op] = wptr[op] /\ ~Loading(op)
    <2>1. Loading(o) /\ UNCHANGED fsm
      BY <1>4 DEF LoadWait, LoadBeat, LoadCycle, Loading
    <2>2. o # op
      BY <2>1 DEF Loading, fsm
    <2>3. wptr' = wptr \/ wptr' = [wptr EXCEPT ![o] = 0] \/ wptr' = [wptr EXCEPT ![o] = @ + 4]
      BY <1>4 DEF LoadWait, LoadBeat, Rewind, Store
    <2>4. QED BY <1>1, <2>1, <2>2, <2>3 DEF Loading
  <1>5. ASSUME NEW o \in Loads, NEW r \in BOOLEAN, NEW e \in BOOLEAN, LoadDone(o, r, e)
        PROVE  wptr'[op] = wptr[op] /\ (Loading(op) => wptr[op] >= Size[op])
    <2>1. Loading(o) /\ CntDone(o) /\ Rewind(o)
      BY <1>5 DEF LoadDone, LoadCycle, Loading
    <2>2. wptr'[op] = wptr[op]
      BY <1>1, <2>1 DEF Rewind
    <2>3. Loading(op) => o = op
      BY <2>1 DEF Loading
    <2>4. QED BY <2>1, <2>2, <2>3, FullMeansRead
  <1>6. ASSUME NEW l \in Layers, NEW v \in BOOLEAN, Move(l, v) \/ CalCount(l, v) \/ CalDone(l, v)
        PROVE  wptr' = wptr /\ ~Loading(op)
    BY <1>6 DEF Move, CalCount, CalDone, Quiet, loader, Loading
  <1>7. wptr'[op] = wptr[op] /\ (Loading(op) => wptr[op] >= Size[op])
    BY <1>2, <1>3, <1>4, <1>5, <1>6, MemoryAssumption DEF ArrayNext, Next
  <1>8. QED BY <1>1, <1>7

\* Only the end of an image's load starts the array.
LEMMA ImageFirst ==
    ASSUME ArrayNext, phase # "IDLE", (Computing \/ Loading("input"))'
    PROVE  Computing \/ Loading("input")
  <1>1. ASSUME NEW o \in Loads, NEW r \in BOOLEAN, NEW e \in BOOLEAN,
               LoadWait(o, r, e) \/ LoadBeat(o, r, e)
        PROVE  phase' = phase /\ layer' = layer /\ phase = "LOAD"
    BY <1>1 DEF LoadWait, LoadBeat, LoadCycle, fsm
  <1>2. ASSUME NEW o \in Loads, NEW r \in BOOLEAN, NEW e \in BOOLEAN, LoadDone(o, r, e)
        PROVE  phase = "LOAD" /\ layer = o /\ (o # "input" => phase' = "IDLE")
    BY <1>2 DEF LoadDone, LoadCycle
  <1>3. ASSUME NEW l \in Layers, NEW v \in BOOLEAN, Move(l, v) \/ CalCount(l, v) \/ CalDone(l, v)
        PROVE  Computing
    BY <1>3 DEF Move, CalCount, CalDone, Computing
  <1>4. ASSUME NEW v \in BOOLEAN PROVE ~AcceptIllegal(v)
    BY DEF AcceptIllegal
  <1>5. ASSUME NEW op \in Requests, NEW b \in Bases[op], NEW v \in BOOLEAN, NEW e \in BOOLEAN
        PROVE  ~Accept(op, b, v, e)
    BY DEF Accept
  <1>6. \/ phase' = phase /\ layer' = layer /\ phase = "LOAD"
        \/ phase = "LOAD" /\ layer \in Loads /\ (layer # "input" => phase' = "IDLE")
        \/ Computing
    BY <1>1, <1>2, <1>3, <1>4, <1>5, MemoryAssumption DEF ArrayNext, Next
  <1>7. QED BY <1>6 DEF Computing, Loading

\* Issued is inductive.
LEMMA IssuedStep ==
    ASSUME Dimensions, LoadsFirst, IInv, Issued, ArrayNext
    PROVE  Issued'
  <1>1. pc \in 1 .. Len(Program) /\ Len(Program) \in Nat /\ Len(Program) > 4
    BY ProgramOps DEF Issued
  <1>2. pc' \in 1 .. Len(Program)
    BY <1>1, DriverStep
  <1>3. ASSUME NEW i \in 1 .. 4, i < pc', ~Loading(Program[i].op)'
        PROVE  wptr'[Program[i].op] >= Size[Program[i].op]
    <2>1. Program[i].op \in Weights
      BY ProgramOps
    <2>2. i < pc
      <3>1. CASE phase = "IDLE"
        <4>1. i # pc
          BY <1>3, <3>1, DriverStep DEF Loading
        <4>2. QED BY <1>1, <1>3, <3>1, <4>1, DriverStep
      <3>2. CASE phase # "IDLE"
        BY <1>3, <3>2, DriverStep
      <3>3. QED BY <3>1, <3>2
    <2>3. Loading(Program[i].op) \/ wptr[Program[i].op] >= Size[Program[i].op]
      BY <2>2 DEF Issued
    <2>4. QED BY <1>3, <2>1, <2>3, WptrStep
  <1>4. ASSUME (Computing \/ Loading("input"))' PROVE pc' > 4
    <2>1. CASE phase = "IDLE"
      <3>1. phase' = "LOAD" /\ layer' = Program[pc].op
            /\ pc' = IF pc = Len(Program) THEN 5 ELSE pc + 1
        BY <2>1, DriverStep
      <3>2. Program[pc].op = "input"
        BY <3>1, <1>4 DEF Computing, Loading
      <3>3. ~(pc \in 1 .. 4)
        BY <3>2, ProgramOps DEF Weights
      <3>4. QED BY <1>1, <3>1, <3>3
    <2>2. CASE phase # "IDLE"
      <3>1. pc' = pc
        BY <2>2, DriverStep
      <3>2. Computing \/ Loading("input")
        BY <1>4, <2>2, ImageFirst
      <3>3. QED BY <3>1, <3>2 DEF Issued
    <2>3. QED BY <2>1, <2>2
  <1>5. QED BY <1>2, <1>3, <1>4 DEF Issued

\* While the array works, its weight buffers are complete.
LEMMA WeightsLoaded ==
    ASSUME LoadsFirst, IInv, Issued, Computing, NEW op \in Weights
    PROVE  first[op] \in Int /\ \A a \in 0 .. Size[op] - 1 : buf[op][a] = first[op] + a
  <1>1. PICK i \in 1 .. 4 : Program[i].op = op
    BY ProgramOps
  <1>2. pc > 4 /\ pc \in Nat /\ ~Loading(op)
    BY ProgramOps DEF Issued, Computing, Loading
  <1>3. wptr[op] >= Size[op]
    BY <1>1, <1>2 DEF Issued
  <1>4. wptr[op] \in Nat /\ Size[op] \in Nat /\ first[op] \in Int
    BY SizeAssumption DEF IInv, TypeOK, LoaderOK, CoreOK, Loads
  <1>5. \A a \in 0 .. Size[op] - 1 : buf[op][a] = IF a < wptr[op] THEN first[op] + a ELSE Unset
    BY DEF IInv, WeightsComplete
  <1>6. QED BY <1>3, <1>4, <1>5

\* Where the end of a block leads.
LEMMA EndingCases ==
    ASSUME Dimensions, IInv, Marks, Counters, Ending
    PROVE  /\ moveCnt' = 0 /\ calCnt' = [l \in Layers |-> 0]
           /\ \/ /\ layer = "conv1" /\ cnt = 158
                 /\ phase' = "MOVE" /\ layer' = "conv2" /\ block'["conv2"] = 0
              \/ /\ layer = "conv2" /\ block["conv2"] < 4 /\ cnt = 30
                 /\ phase' = "MOVE" /\ layer' = "conv2" /\ block'["conv2"] = block["conv2"] + 1
              \/ /\ layer = "conv2" /\ block["conv2"] = 4 /\ cnt = 30
                 /\ phase' = "MOVE" /\ layer' = "fc1" /\ block'["fc1"] = 0
              \/ /\ layer = "fc1" /\ block["fc1"] < 3 /\ cnt = 16
                 /\ phase' = "MOVE" /\ layer' = "fc1" /\ block'["fc1"] = block["fc1"] + 1
              \/ /\ layer = "fc1" /\ block["fc1"] = 3 /\ cnt = 16
                 /\ phase' = "MOVE" /\ layer' = "fc2" /\ block'["fc2"] = 0
              \/ /\ layer = "fc2" /\ block["fc2"] = 0 /\ cnt = 17
                 /\ phase' = "MOVE" /\ layer' = "fc2" /\ block'["fc2"] = 1
              \/ /\ layer = "fc2" /\ block["fc2"] = 1 /\ cnt = 17
                 /\ phase' = "IDLE"
  <1>1. /\ layer \in Layers /\ moveCnt = 0 /\ moveCnt' = 0
        /\ \A l \in Layers : block[l] \in Nat /\ block[l] < Blocks[l]
        /\ \A l \in Layers : l # layer => block[l] = 0 /\ calCnt[l] = 0
        /\ block \in [Layers -> Nat] /\ calCnt \in [Layers -> Nat]
    BY Ranges DEF Ending, Computing, InCal
  <1>2. calCnt' = [l \in Layers |-> 0]
    BY <1>1 DEF Ending
  <1>3. /\ block' = [block EXCEPT ![layer] = IF LastBlock(layer) THEN 0 ELSE @ + 1]
        /\ layer' = IF LastBlock(layer) THEN Following(layer) ELSE layer
        /\ phase' = IF LastBlock(layer) /\ layer = "fc2" THEN "IDLE" ELSE "MOVE"
        /\ cnt = CalCycles[layer]
    BY DEF Ending
  <1>4. LastBlock(layer) <=> block[layer] = Blocks[layer] - 1
    BY DEF LastBlock
  <1>5. CASE layer = "conv1"
    BY <1>1, <1>2, <1>3, <1>4, <1>5, LayerDims DEF Following, Layers, Weights
  <1>6. CASE layer = "conv2"
    BY <1>1, <1>2, <1>3, <1>4, <1>6, LayerDims DEF Following, Layers, Weights
  <1>7. CASE layer = "fc1"
    BY <1>1, <1>2, <1>3, <1>4, <1>7, LayerDims DEF Following, Layers, Weights
  <1>8. CASE layer = "fc2"
    BY <1>1, <1>2, <1>3, <1>4, <1>8, LayerDims DEF Following, Layers, Weights
  <1>9. QED BY <1>1, <1>5, <1>6, <1>7, <1>8 DEF Layers, Weights

\* PickInv is inductive.
LEMMA PickStep ==
    ASSUME Dimensions, IInv, Marks, Counters, PickInv, ArrayNext
    PROVE  PickInv'
  <1>1. fcPick' = [fc1 |-> PickNext("fc1", 1024), fc2 |-> PickNext("fc2", 256)]
    BY DEF ArrayNext, ArrayStep, Pick
  <1>2. fcPick'["fc1"] = PickNext("fc1", 1024) /\ fcPick'["fc2"] = PickNext("fc2", 256)
    BY <1>1
  <1>3. moveCnt \in 0 .. 10 /\ (phase # "MOVE" => moveCnt = 0)
        /\ \A l \in Layers : block[l] \in Nat /\ block[l] < Blocks[l]
    BY Ranges
  <1>4. CASE Waiting \/ Starting
    BY <1>4 DEF Waiting, Starting, PickInv, Computing, InMove
  <1>5. CASE Pushing
    <2>1. phase = "MOVE" /\ layer' = layer /\ block' = block
      BY <1>5 DEF Pushing
    <2>2. ~Done("conv1") /\ ~Done("fc1") /\ ~Done("fc2")
      BY <2>1 DEF Done, InCal
    <2>3. FirstOut' = FirstOut /\ Half' = Half /\ Half \in 0 .. 1
      BY <2>1 DEF FirstOut, Half
    <2>4. /\ Computing /\ layer = "conv2" => fcPick["fc1"] = FirstPick /\ fcPick["fc2"] = FirstPick
          /\ Computing /\ layer = "fc1" => fcPick["fc2"] = FirstPick
          /\ InMove("fc1") /\ moveCnt <= 9 =>
               fcPick["fc1"] = [row |-> FirstOut, col |-> 9 + 10 * Half - moveCnt]
          /\ InMove("fc2") /\ moveCnt <= 9 =>
               fcPick["fc2"] = [row |-> FirstOut, col |-> 9 - moveCnt]
      BY DEF PickInv
    <2>5. layer # "fc1" => fcPick'["fc1"] = fcPick["fc1"]
      BY <1>2, <2>2 DEF PickNext, InMove
    <2>6. layer # "fc2" => fcPick'["fc2"] = fcPick["fc2"]
      BY <1>2, <2>2 DEF PickNext, InMove
    <2>7. ASSUME layer = "fc1", moveCnt < 9
          PROVE  fcPick'["fc1"] = [row |-> FirstOut, col |-> 9 + 10 * Half - (moveCnt + 1)]
      <3>1. fcPick'["fc1"] = [fcPick["fc1"] EXCEPT !.col = (@ - 1) % 1024]
        BY <1>2, <2>1, <2>2, <2>7 DEF PickNext, InMove
      <3> DEFINE col == 9 + 10 * Half - moveCnt
      <3>2. fcPick["fc1"] = [row |-> FirstOut, col |-> col]
        BY <2>1, <2>4, <2>7, <1>3 DEF InMove
      <3>3. ((col - 1) % 1024) = 9 + 10 * Half - (moveCnt + 1)
        BY <2>3, <2>7, <1>3
      <3> HIDE DEF col
      <3>4. fcPick'["fc1"] = [row |-> FirstOut, col |-> ((col - 1) % 1024)]
        BY <3>1, <3>2
      <3>5. QED BY <3>3, <3>4
    <2>8. ASSUME layer = "fc2", moveCnt < 9
          PROVE  fcPick'["fc2"] = [row |-> FirstOut, col |-> 9 - (moveCnt + 1)]
      <3>1. fcPick'["fc2"] = [fcPick["fc2"] EXCEPT !.col = (@ - 1) % 256]
        BY <1>2, <2>1, <2>2, <2>8 DEF PickNext, InMove
      <3>2. fcPick["fc2"] = [row |-> FirstOut, col |-> 9 - moveCnt]
        BY <2>1, <2>4, <2>8, <1>3 DEF InMove
      <3>3. (9 - moveCnt - 1) % 256 = 9 - (moveCnt + 1)
        BY <2>8, <1>3
      <3>4. QED BY <3>1, <3>2, <3>3
    <2>9. (phase' = "MOVE" => moveCnt' = moveCnt + 1)
      BY <1>5 DEF Pushing
    <2>10. QED BY <1>3, <2>1, <2>3, <2>4, <2>5, <2>6, <2>7, <2>8, <2>9 DEF PickInv, Computing, InMove
  <1>6. CASE Counting
    <2>1. phase = "CAL" /\ phase' = "CAL" /\ layer' = layer /\ cnt < CalCycles[layer]
      BY <1>6 DEF Counting
    <2>2. layer \in Layers
      BY <2>1, Ranges DEF Computing
    <2>3. ~Done("conv1") /\ ~Done("fc1") /\ ~Done("fc2")
      BY <2>1, <2>2, LayerDims DEF Done, InCal, cnt
    <2>4. fcPick'["fc1"] = fcPick["fc1"] /\ fcPick'["fc2"] = fcPick["fc2"]
      BY <1>2, <2>1, <2>3 DEF PickNext, InMove
    <2>5. QED BY <2>1, <2>4 DEF PickInv, Computing, InMove
  <1>7. CASE Ending
    <2>1. moveCnt' = 0 /\ phase = "CAL" /\ cnt = CalCycles[layer] /\ layer \in Layers
      BY <1>7, EndingCases, Ranges DEF Ending, Computing
    <2>2. Done(layer) /\ \A l \in Layers : l # layer => ~Done(l)
      BY <2>1 DEF Done, InCal, cnt
    <2>3. CASE layer = "conv1" /\ phase' = "MOVE" /\ layer' = "conv2"
      <3>1. fcPick'["fc1"] = FirstPick /\ fcPick'["fc2"] = FirstPick
        BY <1>2, <2>2, <2>3 DEF PickNext, FirstPick
      <3>2. QED BY <2>3, <3>1 DEF PickInv, InMove
    <2>4. CASE layer = "conv2" /\ phase' = "MOVE" /\ layer' = "conv2"
      <3>1. fcPick'["fc1"] = fcPick["fc1"] /\ fcPick'["fc2"] = fcPick["fc2"]
        BY <1>2, <2>1, <2>2, <2>4 DEF PickNext, InMove, Layers, Weights
      <3>2. QED BY <2>1, <2>4, <3>1 DEF PickInv, InMove, Computing
    <2>5. CASE layer = "conv2" /\ phase' = "MOVE" /\ layer' = "fc1" /\ block'["fc1"] = 0
      <3>1. fcPick'["fc1"] = fcPick["fc1"] /\ fcPick'["fc2"] = fcPick["fc2"]
        BY <1>2, <2>1, <2>2, <2>5 DEF PickNext, InMove, Layers, Weights
      <3>2. FirstOut' = 0 /\ Half' = 0
        BY <2>5 DEF FirstOut, Half
      <3>3. QED BY <2>1, <2>5, <3>1, <3>2 DEF PickInv, InMove, Computing, FirstPick
    <2>6. CASE layer = "fc1" /\ phase' = "MOVE" /\ layer' = "fc1" /\ block["fc1"] < 3
               /\ block'["fc1"] = block["fc1"] + 1
      <3>1. fcPick'["fc1"] = PickNext("fc1", 1024) /\ ~Done("conv1") /\ Done("fc1")
        BY <1>2, <2>2, <2>6 DEF Layers, Weights
      <3>2. fcPick'["fc2"] = fcPick["fc2"]
        BY <1>2, <2>1, <2>2, <2>6 DEF PickNext, InMove, Layers, Weights
      <3>3. block["fc1"] \in {0, 1, 2}
        BY <1>3, <2>6 DEF Layers, Weights
      <3>4. fcPick'["fc1"] = [row |-> FirstOut', col |-> 9 + 10 * Half']
        <4>1. CASE block["fc1"] = 0
          <5>1. FirstOut' = 0 /\ Half' = 1
            BY <2>6, <4>1 DEF FirstOut, Half
          <5>2. QED BY <3>1, <4>1, <5>1 DEF PickNext
        <4>2. CASE block["fc1"] = 1
          <5>1. FirstOut' = 5 /\ Half' = 0
            BY <2>6, <4>2 DEF FirstOut, Half
          <5>2. QED BY <3>1, <4>2, <5>1 DEF PickNext
        <4>3. CASE block["fc1"] = 2
          <5>1. FirstOut' = 5 /\ Half' = 1
            BY <2>6, <4>3 DEF FirstOut, Half
          <5>2. QED BY <3>1, <4>3, <5>1 DEF PickNext
        <4>4. QED BY <3>3, <4>1, <4>2, <4>3
      <3>5. Half' \in 0 .. 1
        BY DEF Half
      <3>6. 9 + 10 * Half' - moveCnt' = 9 + 10 * Half'
        BY <2>1, <3>5
      <3>7. QED BY <2>1, <2>6, <3>2, <3>4, <3>6 DEF PickInv, InMove, Computing
    <2>7. CASE layer = "fc1" /\ phase' = "MOVE" /\ layer' = "fc2" /\ block'["fc2"] = 0
      <3>1. fcPick'["fc2"] = fcPick["fc2"]
        BY <1>2, <2>1, <2>2, <2>7 DEF PickNext, InMove, Layers, Weights
      <3>2. FirstOut' = 0
        BY <2>7 DEF FirstOut
      <3>3. QED BY <2>1, <2>7, <3>1, <3>2 DEF PickInv, InMove, Computing, FirstPick
    <2>8. CASE layer = "fc2" /\ phase' = "MOVE" /\ layer' = "fc2" /\ block["fc2"] = 0 /\ block'["fc2"] = 1
      <3>1. fcPick'["fc2"] = PickNext("fc2", 256) /\ ~Done("conv1") /\ Done("fc2")
        BY <1>2, <2>2, <2>8 DEF Layers, Weights
      <3>2. fcPick'["fc2"] = [row |-> 5, col |-> 9]
        BY <3>1, <2>8 DEF PickNext
      <3>3. FirstOut' = 5
        BY <2>8 DEF FirstOut
      <3>4. QED BY <2>1, <2>8, <3>2, <3>3 DEF PickInv, InMove, Computing
    <2>9. CASE phase' = "IDLE"
      BY <2>9 DEF PickInv, InMove, Computing
    <2>10. QED BY <1>7, EndingCases, <2>3, <2>4, <2>5, <2>6, <2>7, <2>8, <2>9
  <1>8. QED BY <1>4, <1>5, <1>6, <1>7, ControlStep

-----------------------------------------------------------------------------
(* The weights. *)

\* What stays the same while a block is worked on.
LEMMA BlockSteady ==
    ASSUME Pushing \/ Counting
    PROVE  /\ layer' = layer /\ block' = block /\ Active' = Active /\ Slots' = Slots
           /\ LastIn' = LastIn /\ FirstOut' = FirstOut /\ Half' = Half
           /\ \A j \in Cols : Origin(j)' = Origin(j)
           /\ \A i \in Rows, j \in Cols : Wt(i, j)' = Wt(i, j)
  <1>1. layer' = layer /\ block' = block /\ first' = first
    BY DEF Pushing, Counting, Steady
  <1>2. /\ Active' = Active /\ Slots' = Slots /\ LastIn' = LastIn
        /\ FirstOut' = FirstOut /\ Half' = Half
    BY <1>1 DEF Active, Slots, LastIn, FirstOut, Half
  <1>3. ASSUME NEW j \in Cols PROVE Origin(j)' = Origin(j)
    BY <1>1, <1>2 DEF Origin, cha
  <1>4. ASSUME NEW i \in Rows, NEW j \in Cols PROVE Wt(i, j)' = Wt(i, j)
    BY <1>1, <1>2, <1>3 DEF Wt
  <1>5. QED BY <1>1, <1>2, <1>3, <1>4

\* The block numbers as the datapath reads them.
LEMMA BlockTyping ==
    ASSUME Dimensions, IInv, Marks, Counters, Computing
    PROVE  /\ layer = "conv2" => cha \in 0 .. 4
           /\ layer \in {"fc1", "fc2"} => FirstOut \in {0, 5}
           /\ Half \in {0, 1}
  <1>1. \A l \in Layers : block[l] \in Nat /\ block[l] < Blocks[l]
    BY Ranges
  <1>2. layer = "conv2" => cha \in 0 .. 4
    BY <1>1, LayerDims DEF cha, Layers, Weights
  <1>3. QED BY <1>2 DEF FirstOut, Half

\* Each row is fed with its own weights, last row first.
LEMMA RowFed ==
    ASSUME Dimensions, LoadsFirst, IInv, Issued, Marks, Counters, PickInv,
           phase = "MOVE", moveCnt \in 0 .. 9, layer \in Convs => moveCnt # 9, NEW j \in Cols
    PROVE  WeightRes(j) = Wt(9 - moveCnt, j)
  <1>1. Computing /\ layer \in Layers /\ j \in 0 .. 4
    BY Ranges DEF Computing, Cols
  <1>2. \A op \in Weights : first[op] \in Int /\ \A a \in 0 .. Size[op] - 1 : buf[op][a] = first[op] + a
    BY <1>1, WeightsLoaded
  <1>3. 9 - moveCnt \in Active
    BY DEF Active
  <1>4. Wt(9 - moveCnt, j) = {<<layer, Origin(j) + (9 - moveCnt)>>}
    BY <1>3 DEF Wt
  <1>5. CASE layer = "conv1"
    <2>1. 9 * j + 8 - moveCnt \in 0 .. 44 /\ Size["conv1"] = 45
      BY <1>1, <1>5, LayerDims DEF Convs
    <2>2. buf["conv1"][9 * j + 8 - moveCnt] = first["conv1"] + (9 * j + 8 - moveCnt)
          /\ first["conv1"] \in Int
      <3> DEFINE a == 9 * j + 8 - moveCnt
      <3>0. a \in 0 .. 44
        BY <2>1
      <3> HIDE DEF a
      <3>1. a \in 0 .. Size["conv1"] - 1
        BY <3>0, LayerDims
      <3>2. buf["conv1"][a] = first["conv1"] + a /\ first["conv1"] \in Int
        BY <1>2, <3>1 DEF Weights
      <3>3. QED BY <3>2 DEF a
    <2>3. first["conv1"] + (9 * j + 8 - moveCnt) = Origin(j) + (9 - moveCnt)
      BY <1>1, <1>5, <2>2 DEF Origin
    <2>4. QED BY <1>4, <1>5, <2>2, <2>3 DEF WeightRes, Weight
  <1>6. CASE layer = "conv2"
    <2>1. 45 * j + 9 * cha + 8 - moveCnt \in 0 .. 224 /\ Size["conv2"] = 225 /\ cha \in 0 .. 4
      BY <1>1, <1>6, LayerDims, BlockTyping DEF Convs
    <2>2. buf["conv2"][45 * j + 9 * cha + 8 - moveCnt] = first["conv2"] + (45 * j + 9 * cha + 8 - moveCnt)
          /\ first["conv2"] \in Int
      <3> DEFINE a == 45 * j + 9 * cha + 8 - moveCnt
      <3>0. a \in 0 .. 224
        BY <2>1
      <3> HIDE DEF a
      <3>1. a \in 0 .. Size["conv2"] - 1
        BY <3>0, LayerDims
      <3>2. buf["conv2"][a] = first["conv2"] + a /\ first["conv2"] \in Int
        BY <1>2, <3>1 DEF Weights
      <3>3. QED BY <3>2 DEF a
    <2>3. first["conv2"] + (45 * j + 9 * cha + 8 - moveCnt) = Origin(j) + (9 - moveCnt)
      BY <1>1, <1>6, <2>1, <2>2 DEF Origin
    <2>4. QED BY <1>4, <1>6, <2>2, <2>3 DEF WeightRes, Weight
  <1>7. CASE layer = "fc1"
    <2>1. fcPick["fc1"].row = FirstOut /\ fcPick["fc1"].col = 9 + 10 * Half - moveCnt
      BY <1>7 DEF PickInv, InMove
    <2>2. FirstOut \in {0, 5} /\ Half \in {0, 1}
      BY <1>1, <1>7, BlockTyping
    <2>3. 20 * (FirstOut + j) + (9 + 10 * Half - moveCnt) \in 0 .. 199 /\ Size["fc1"] = 200
      BY <1>1, <2>2, LayerDims
    <2>4. buf["fc1"][20 * (FirstOut + j) + (9 + 10 * Half - moveCnt)] =
            first["fc1"] + (20 * (FirstOut + j) + (9 + 10 * Half - moveCnt)) /\ first["fc1"] \in Int
      <3> DEFINE a == 20 * (FirstOut + j) + (9 + 10 * Half - moveCnt)
      <3>0. a \in 0 .. 199
        BY <2>3
      <3> HIDE DEF a
      <3>1. a \in 0 .. Size["fc1"] - 1
        BY <3>0, LayerDims
      <3>2. buf["fc1"][a] = first["fc1"] + a /\ first["fc1"] \in Int
        BY <1>2, <3>1 DEF Weights
      <3>3. QED BY <3>2 DEF a
    <2>5. first["fc1"] + (20 * (FirstOut + j) + (9 + 10 * Half - moveCnt)) = Origin(j) + (9 - moveCnt)
      BY <1>1, <1>7, <2>2, <2>4 DEF Origin
    <2>6. WeightRes(j) = Weight("fc1", 20 * (FirstOut + j) + (9 + 10 * Half - moveCnt))
      BY <1>7, <2>1 DEF WeightRes
    <2>7. QED BY <1>4, <1>7, <2>4, <2>5, <2>6 DEF Weight
  <1>8. CASE layer = "fc2"
    <2>1. fcPick["fc2"].row = FirstOut /\ fcPick["fc2"].col = 9 - moveCnt
      BY <1>8 DEF PickInv, InMove
    <2>2. FirstOut \in {0, 5}
      BY <1>1, <1>8, BlockTyping
    <2>3. 10 * (FirstOut + j) + (9 - moveCnt) \in 0 .. 99 /\ Size["fc2"] = 100
      BY <1>1, <2>2, LayerDims
    <2>4. buf["fc2"][10 * (FirstOut + j) + (9 - moveCnt)] =
            first["fc2"] + (10 * (FirstOut + j) + (9 - moveCnt)) /\ first["fc2"] \in Int
      <3> DEFINE a == 10 * (FirstOut + j) + (9 - moveCnt)
      <3>0. a \in 0 .. 99
        BY <2>3
      <3> HIDE DEF a
      <3>1. a \in 0 .. Size["fc2"] - 1
        BY <3>0, LayerDims
      <3>2. buf["fc2"][a] = first["fc2"] + a /\ first["fc2"] \in Int
        BY <1>2, <3>1 DEF Weights
      <3>3. QED BY <3>2 DEF a
    <2>5. first["fc2"] + (10 * (FirstOut + j) + (9 - moveCnt)) = Origin(j) + (9 - moveCnt)
      BY <1>1, <1>8, <2>2, <2>4 DEF Origin
    <2>6. WeightRes(j) = Weight("fc2", 10 * (FirstOut + j) + (9 - moveCnt))
      BY <1>8, <2>1 DEF WeightRes
    <2>7. QED BY <1>4, <1>8, <2>4, <2>5, <2>6 DEF Weight
  <1>9. QED BY <1>1, <1>5, <1>6, <1>7, <1>8 DEF Layers, Weights

\* TopInv is inductive.
LEMMA TopStep ==
    ASSUME Dimensions, LoadsFirst, IInv, Issued, Marks, Counters, PickInv, TopInv, ArrayNext
    PROVE  TopInv'
  <1>1. /\ SaRows = 10 /\ moveCnt \in 0 .. 10 /\ (phase # "MOVE" => moveCnt = 0)
    BY Ranges, LayerDims
  <1>2. FeedTop
    BY DEF ArrayNext, ArrayStep
  <1>3. CASE phase = "MOVE" /\ moveCnt < 10
    <2>1. Pushing /\ phase' = "MOVE" /\ moveCnt' = moveCnt + 1
      BY <1>1, <1>3, ControlStep DEF Waiting, Starting, Pushing, Counting, Ending
    <2>2. top' = [en |-> TRUE, mode |-> TRUE, data |-> [i \in Cols |->
                    IF moveCnt = 9 /\ layer \in Convs THEN {} ELSE WeightRes(i)]]
      BY <1>1, <1>2, <1>3 DEF FeedTop
    <2>3. top'.en = TRUE /\ top'.mode = TRUE
          /\ top'.data = [i \in Cols |-> IF moveCnt = 9 /\ layer \in Convs THEN {} ELSE WeightRes(i)]
      BY <2>2
    <2>4. ASSUME NEW j \in Cols PROVE top'.data[j] = Wt(9 - moveCnt, j)
      <3>1. CASE moveCnt = 9 /\ layer \in Convs
        <4>1. Wt(0, j) = {}
          BY <3>1 DEF Wt, Active
        <4>2. 9 - moveCnt = 0
          BY <3>1
        <4>3. QED BY <2>3, <3>1, <4>1, <4>2
      <3>2. CASE ~(moveCnt = 9 /\ layer \in Convs)
        BY <1>1, <1>3, <2>3, <3>2, RowFed
      <3>3. QED BY <3>1, <3>2
    <2>5. ASSUME NEW i \in Rows, NEW j \in Cols, i = 10 - moveCnt'
          PROVE  top'.data[j] = Wt(i, j)'
      <3>1. i = 9 - moveCnt
        BY <1>1, <2>1, <2>5 DEF Rows
      <3>2. Wt(i, j)' = Wt(i, j)
        BY <2>1, BlockSteady
      <3>3. QED BY <2>4, <3>1, <3>2
    <2>6. QED BY <1>1, <2>1, <2>3, <2>5 DEF TopInv
  <1>4. CASE ~(phase = "MOVE" /\ moveCnt < 10)
    <2>1. ~(phase' = "MOVE" /\ moveCnt' > 0)
      <3>1. CASE Waiting \/ Starting
        BY <1>1, <3>1 DEF Waiting, Starting
      <3>2. CASE Pushing
        BY <1>1, <1>4, <3>2 DEF Pushing
      <3>3. CASE Counting \/ Ending
        BY <1>1, <3>3 DEF Counting, Ending
      <3>4. QED BY <3>1, <3>2, <3>3, ControlStep
    <2>2. top' = [en |-> FALSE, mode |-> FALSE, data |-> [i \in Cols |-> {}]]
      BY <1>1, <1>2, <1>4 DEF FeedTop
    <2>3. QED BY <2>1, <2>2 DEF TopInv
  <1>5. QED BY <1>3, <1>4

-----------------------------------------------------------------------------
(* The array: one clock of every processing element. *)

\* The array has ten rows.
LEMMA TenRows ==
    ASSUME Dimensions PROVE Rows = 0 .. 9 /\ Cols = 0 .. 4
  BY LayerDims DEF Rows, Cols

\* What the element in row i, column j does.
LEMMA Element ==
    ASSUME ArrayNext, NEW i \in Rows, NEW j \in Cols
    PROVE  /\ pe'[<<i, j>>].enDown <=> UpEn(i, j) /\ top.mode
           /\ pe'[<<i, j>>].enRight <=> LeftEn(i, j)
           /\ pe'[<<i, j>>].weight = IF UpEn(i, j) /\ top.mode THEN UpData(i, j) ELSE pe[<<i, j>>].weight
           /\ pe'[<<i, j>>].right = IF LeftEn(i, j) THEN LeftData(i, j) ELSE pe[<<i, j>>].right
           /\ pe'[<<i, j>>].down =
                IF LeftEn(i, j) THEN Plus(Times(LeftData(i, j), pe[<<i, j>>].weight), UpData(i, j))
                ELSE IF UpEn(i, j) /\ top.mode THEN UpData(i, j) ELSE pe[<<i, j>>].down
  <1>1. pe' = [p \in Rows \X Cols |-> PE(p[1], p[2])]
    BY DEF ArrayNext, ArrayStep, ClockArray
  <1>2. pe'[<<i, j>>] = PE(i, j)
    BY <1>1
  <1> DEFINE storing == UpEn(i, j) /\ top.mode
             moving  == LeftEn(i, j)
             w == IF storing THEN UpData(i, j) ELSE pe[<<i, j>>].weight
             x == IF moving THEN LeftData(i, j) ELSE pe[<<i, j>>].right
             y == IF moving THEN Plus(Times(LeftData(i, j), pe[<<i, j>>].weight), UpData(i, j))
                  ELSE IF storing THEN UpData(i, j) ELSE pe[<<i, j>>].down
  <1>3. PE(i, j) = [weight |-> w, enDown |-> storing, enRight |-> moving, right |-> x, down |-> y]
    BY DEF PE
  <1> HIDE DEF storing, moving, w, x, y
  <1>4. pe'[<<i, j>>].weight = w /\ pe'[<<i, j>>].right = x /\ pe'[<<i, j>>].down = y
    BY <1>2, <1>3
  <1>5. (pe'[<<i, j>>].enDown <=> storing) /\ (pe'[<<i, j>>].enRight <=> moving)
    BY <1>2, <1>3
  <1>6. QED BY <1>4, <1>5 DEF storing, moving, w, x, y

\* The last cycle in which rows are enabled lies five before the end of a CAL.
LEMMA LayerSpan ==
    ASSUME Dimensions, layer \in Layers
    PROVE  /\ LastIn \in 11 .. 153 /\ CalCycles[layer] \in Nat /\ CalCycles[layer] >= LastIn + 5
           /\ CalCycles[layer] <= 158
           /\ Active \subseteq 0 .. 9
           /\ layer \in Convs => /\ LastIn = OutSize[layer] + 9 /\ Active = 1 .. 9
                                 /\ OutSize[layer] \in {144, 16} /\ CalCycles[layer] = OutSize[layer] + 14
           /\ layer \notin Convs => LastIn = 11 /\ Active = 0 .. 9
  <1>1. CASE layer = "conv1"
    BY <1>1, LayerDims DEF LastIn, Active, Convs, OutSize
  <1>2. CASE layer = "conv2"
    BY <1>2, LayerDims DEF LastIn, Active, Convs, OutSize
  <1>3. CASE layer = "fc1"
    BY <1>3, LayerDims DEF LastIn, Active, Convs, OutSize
  <1>4. CASE layer = "fc2"
    BY <1>4, LayerDims DEF LastIn, Active, Convs, OutSize
  <1>5. QED BY <1>1, <1>2, <1>3, <1>4 DEF Layers, Weights

\* No row is enabled from the left but in a CAL.
LEMMA NotMoving ==
    ASSUME Dimensions, EnableInv, phase # "CAL", NEW i \in Rows, NEW j \in Cols
    PROVE  ~LeftEn(i, j)
  <1>1. j = 0 \/ j - 1 \in 0 .. 3
    BY DEF Cols
  <1>2. QED BY <1>1 DEF EnableInv, LeftEn

\* In a CAL an element moves in the slots of its row.
LEMMA Moving ==
    ASSUME Dimensions, EnableInv, phase = "CAL", cnt \in Nat, NEW i \in Rows, NEW j \in Cols,
           layer \in Layers
    PROVE  LeftEn(i, j) <=> i \in Active /\ 2 + j <= cnt /\ cnt <= LastIn + j
  <1>1. LastIn \in 11 .. 153
    BY LayerSpan
  <1>2. CASE j = 0
    BY <1>1, <1>2 DEF EnableInv, LeftEn
  <1>3. CASE j # 0
    <2>1. j - 1 \in 0 .. 3 /\ j \in 1 .. 4
      BY <1>3 DEF Cols
    <2>2. LeftEn(i, j) <=> pe[<<i, j - 1>>].enRight
      BY <1>3 DEF LeftEn
    <2>3. PICK k \in 0 .. 3 : k = j - 1
      BY <2>1
    <2>4. pe[<<i, k>>].enRight <=> phase = "CAL" /\ i \in Active /\ 3 + k <= cnt /\ cnt <= LastIn + 1 + k
      BY <2>3 DEF EnableInv
    <2>5. QED BY <1>1, <2>1, <2>2, <2>3, <2>4
  <1>4. QED BY <1>2, <1>3

\* FallInv is inductive.
LEMMA FallStep ==
    ASSUME Dimensions, IInv, Marks, Counters, TopInv, FallInv, EnableInv, ArrayNext
    PROVE  FallInv'
  <1>1. moveCnt \in 0 .. 10 /\ (phase # "MOVE" => moveCnt = 0) /\ Rows = 0 .. 9 /\ Cols = 0 .. 4
    BY Ranges, TenRows
  <1>2. CASE Pushing
    <2>1. phase = "MOVE" /\ Pushed = moveCnt
      BY <1>2 DEF Pushing, Pushed
    <2>2. Pushed' = moveCnt + 1
      <3>1. CASE moveCnt = 10
        <4>1. calCnt[layer] = 0 /\ calCnt' = calCnt /\ layer' = layer
          BY <1>2, <2>1, Ranges DEF Pushing, InCal, Computing
        <4>2. QED BY <1>2, <3>1, <4>1 DEF Pushing, Pushed, cnt
      <3>2. CASE moveCnt # 10
        BY <1>2, <3>2 DEF Pushing, Pushed
      <3>3. QED BY <3>1, <3>2
    <2>3. ASSUME NEW i \in Rows, NEW j \in Cols
          PROVE  /\ UpEn(i, j) /\ top.mode <=> moveCnt >= i + 1
                 /\ \A r \in Rows : moveCnt >= i + 1 /\ r = 10 + i - moveCnt =>
                      UpData(i, j) = Wt(r, j)
      <3>1. CASE i = 0
        <4>1. UpEn(i, j) /\ top.mode <=> moveCnt > 0
          BY <2>1, <3>1 DEF UpEn, TopInv
        <4>2. UpData(i, j) = top.data[j]
          BY <3>1 DEF UpData
        <4>3. QED BY <1>1, <2>1, <3>1, <4>1, <4>2 DEF TopInv
      <3>2. CASE i # 0
        <4>1. PICK h \in Rows : h = i - 1
          BY <1>1, <3>2
        <4>2. UpEn(i, j) = pe[<<h, j>>].enDown /\ UpData(i, j) = pe[<<h, j>>].down
          BY <3>2, <4>1 DEF UpEn, UpData
        <4>3. pe[<<h, j>>].enDown <=> moveCnt >= h + 2
          BY <2>1 DEF FallInv
        <4>4. \A r \in Rows : moveCnt >= h + 2 /\ r = 11 + h - moveCnt => pe[<<h, j>>].down = Wt(r, j)
          BY <2>1 DEF FallInv
        <4>5. top.mode <=> moveCnt > 0
          BY <2>1 DEF TopInv
        <4>6. QED BY <1>1, <4>1, <4>2, <4>3, <4>4, <4>5
      <3>3. QED BY <3>1, <3>2
    <2>4. ASSUME NEW i \in Rows, NEW j \in Cols
          PROVE  /\ pe'[<<i, j>>].enDown <=> moveCnt + 1 >= i + 2
                 /\ \A r \in Rows : moveCnt + 1 >= i + 2 /\ r = 11 + i - (moveCnt + 1) =>
                      pe'[<<i, j>>].weight = Wt(r, j)' /\ pe'[<<i, j>>].down = Wt(r, j)'
      <3>1. ~LeftEn(i, j)
        BY <2>1, NotMoving
      <3>2. /\ pe'[<<i, j>>].enDown <=> UpEn(i, j) /\ top.mode
            /\ pe'[<<i, j>>].weight = IF UpEn(i, j) /\ top.mode THEN UpData(i, j) ELSE pe[<<i, j>>].weight
            /\ pe'[<<i, j>>].down = IF UpEn(i, j) /\ top.mode THEN UpData(i, j) ELSE pe[<<i, j>>].down
        BY <3>1, Element
      <3>3. \A r \in Rows : Wt(r, j)' = Wt(r, j)
        BY <1>2, BlockSteady
      <3>4. UpEn(i, j) /\ top.mode <=> moveCnt >= i + 1
        BY <2>3
      <3>5. \A r \in Rows : moveCnt >= i + 1 /\ r = 10 + i - moveCnt => UpData(i, j) = Wt(r, j)
        BY <2>3
      <3>6. pe'[<<i, j>>].enDown <=> moveCnt + 1 >= i + 2
        BY <1>1, <3>2, <3>4
      <3>7. ASSUME NEW r \in Rows, moveCnt + 1 >= i + 2, r = 11 + i - (moveCnt + 1)
            PROVE  pe'[<<i, j>>].weight = Wt(r, j)' /\ pe'[<<i, j>>].down = Wt(r, j)'
        <4>1. moveCnt >= i + 1 /\ r = 10 + i - moveCnt
          BY <1>1, <3>7
        <4>2. QED BY <3>2, <3>3, <3>4, <3>5, <4>1
      <3>8. QED BY <3>6, <3>7
    <2>5. QED BY <2>2, <2>4 DEF FallInv
  <1>3. CASE ~Pushing
    <2>1. ~top.mode
      BY <1>1, <1>3, ControlStep DEF TopInv, Waiting, Starting, Counting, Ending
    <2>2. Pushed' = 0
      <3>1. CASE Waiting
        BY <3>1 DEF Waiting, Pushed
      <3>2. CASE Starting
        BY <3>2, <1>1 DEF Starting, Pushed
      <3>3. CASE Counting
        <4>1. layer \in Layers /\ calCnt \in [Layers -> Nat]
          BY <3>3, Ranges DEF Counting, Computing
        <4>2. cnt' = cnt + 1 /\ cnt \in Nat
          BY <3>3, <4>1 DEF Counting, cnt
        <4>3. QED BY <3>3, <4>2 DEF Counting, Pushed
      <3>4. CASE Ending
        BY <3>4, EndingCases DEF Pushed
      <3>5. QED BY <1>3, <3>1, <3>2, <3>3, <3>4, ControlStep
    <2>3. ASSUME NEW i \in Rows, NEW j \in Cols PROVE ~pe'[<<i, j>>].enDown
      BY <2>1, Element
    <2>4. \A i \in Rows : ~(0 >= i + 2)
      BY <1>1
    <2>5. QED BY <2>2, <2>3, <2>4 DEF FallInv
  <1>4. QED BY <1>2, <1>3

\* HeldInv is inductive.
LEMMA HeldStep ==
    ASSUME Dimensions, IInv, Marks, Counters, TopInv, FallInv, FallInv', HeldInv, EnableInv, ArrayNext
    PROVE  HeldInv'
  <1> SUFFICES ASSUME phase' = "CAL", NEW i \in Rows, NEW j \in Cols
               PROVE  pe'[<<i, j>>].weight = Wt(i, j)' /\ (i \notin Active' => pe'[<<i, j>>].down = {})
    BY DEF HeldInv
  <1>1. i \in 0 .. 9 /\ (phase # "MOVE" => moveCnt = 0)
    BY TenRows, Ranges
  <1>2. Pushing \/ Counting
    BY ControlStep DEF Waiting, Starting, Ending
  <1>3. Wt(i, j)' = Wt(i, j) /\ Active' = Active
    BY <1>2, BlockSteady
  <1>4. CASE Pushing
    <2>1. Pushed' = 11
      <3>1. phase = "MOVE" /\ layer' = layer /\ calCnt' = calCnt
        BY <1>4 DEF Pushing
      <3>2. calCnt[layer] = 0
        BY <3>1, Ranges DEF InCal, Computing
      <3>3. QED BY <3>1, <3>2 DEF Pushed, cnt
    <2>2. \A r \in Rows : 11 >= i + 2 /\ r = 11 + i - 11 =>
             pe'[<<i, j>>].weight = Wt(r, j)' /\ pe'[<<i, j>>].down = Wt(r, j)'
      BY <2>1 DEF FallInv
    <2>3. 11 >= i + 2 /\ i = 11 + i - 11
      BY <1>1
    <2>4. pe'[<<i, j>>].weight = Wt(i, j)' /\ pe'[<<i, j>>].down = Wt(i, j)'
      BY <2>2, <2>3
    <2>5. QED BY <1>3, <2>4 DEF Wt
  <1>5. CASE Counting
    <2>1. phase = "CAL" /\ ~top.mode
      BY <1>1, <1>5 DEF Counting, TopInv
    <2>2. pe'[<<i, j>>].weight = pe[<<i, j>>].weight
      BY <2>1, Element
    <2>3. i \notin Active => ~LeftEn(i, j)
      BY <2>1, <1>5, Moving, Ranges DEF Computing, cnt
    <2>4. i \notin Active => pe'[<<i, j>>].down = pe[<<i, j>>].down
      BY <2>1, <2>3, Element
    <2>5. QED BY <1>3, <2>1, <2>2, <2>4 DEF HeldInv
  <1>6. QED BY <1>2, <1>4, <1>5

\* What FeedLeft does to the enables.
LEMMA FeedEnable ==
    ASSUME Dimensions, ArrayNext, layer \in Layers
    PROVE  /\ phase = "CAL" /\ cnt > 0 =>
                enLeft' = (IF cnt = 1 THEN Active ELSE IF cnt = LastIn THEN {} ELSE enLeft)
           /\ ~(phase = "CAL" /\ cnt > 0) => enLeft' = enLeft
  <1>1. FeedLeft /\ Rows = 0 .. 9
    BY TenRows DEF ArrayNext, ArrayStep
  <1>2. CASE layer \in Convs
    BY <1>1, <1>2, LayerSpan DEF FeedLeft, FeedConv
  <1>3. CASE layer \notin Convs
    BY <1>1, <1>3, LayerSpan DEF FeedLeft, FeedFc
  <1>4. QED BY <1>2, <1>3

\* EnableInv is inductive.
LEMMA EnableStep ==
    ASSUME Dimensions, IInv, Marks, Counters, EnableInv, ArrayNext
    PROVE  EnableInv'
  <1>1. CASE phase # "CAL"
    <2>1. phase' # "CAL" \/ cnt' = 0
      <3>1. CASE Waiting \/ Starting
        BY <3>1 DEF Waiting, Starting
      <3>2. CASE Pushing
        <4>1. phase = "MOVE" /\ layer' = layer /\ calCnt' = calCnt
          BY <3>2 DEF Pushing
        <4>2. calCnt[layer] = 0
          BY <4>1, Ranges DEF InCal, Computing
        <4>3. QED BY <4>1, <4>2 DEF cnt
      <3>3. QED BY <1>1, <3>1, <3>2, ControlStep DEF Counting, Ending
    <2>2. enLeft' = {}
      <3>1. enLeft = {}
        BY <1>1 DEF EnableInv
      <3>2. FeedLeft
        BY DEF ArrayNext, ArrayStep
      <3>3. QED BY <1>1, <3>1, <3>2 DEF FeedLeft
    <2>3. ASSUME NEW i \in Rows, NEW j \in 0 .. 3 PROVE ~pe'[<<i, j>>].enRight
      <3>1. j \in Cols
        BY DEF Cols
      <3>2. QED BY <1>1, <3>1, NotMoving, Element
    <2>4. /\ ~(phase' = "CAL" /\ 2 <= cnt')
          /\ \A j \in 0 .. 3 : ~(phase' = "CAL" /\ 3 + j <= cnt')
      BY <2>1
    <2>5. QED BY <2>2, <2>3, <2>4 DEF EnableInv
  <1>2. CASE phase = "CAL"
    <2>1. layer \in Layers /\ calCnt \in [Layers -> Nat] /\ cnt \in Nat
      BY <1>2, Ranges DEF Computing, cnt
    <2>2. LastIn \in 11 .. 153 /\ CalCycles[layer] \in Nat /\ CalCycles[layer] >= LastIn + 5
      BY <2>1, LayerSpan
    <2>3. enLeft = IF 2 <= cnt /\ cnt <= LastIn THEN Active ELSE {}
      BY <1>2 DEF EnableInv
    <2>4. enLeft' = IF 1 <= cnt /\ cnt <= LastIn - 1 THEN Active ELSE {}
      <3>1. CASE cnt = 0
        BY <1>2, <2>1, <2>2, <2>3, <3>1, FeedEnable
      <3>2. CASE cnt = 1
        BY <1>2, <2>1, <2>2, <3>2, FeedEnable
      <3>3. CASE cnt = LastIn
        BY <1>2, <2>1, <2>2, <3>3, FeedEnable
      <3>4. CASE cnt > 1 /\ cnt # LastIn
        <4>1. enLeft' = enLeft
          BY <1>2, <2>1, <2>2, <3>4, FeedEnable
        <4>2. (2 <= cnt /\ cnt <= LastIn) <=> (1 <= cnt /\ cnt <= LastIn - 1)
          BY <2>1, <2>2, <3>4
        <4>3. QED BY <2>3, <4>1, <4>2
      <3>5. QED BY <2>1, <3>1, <3>2, <3>3, <3>4
    <2>5. ASSUME NEW i \in Rows, NEW j \in 0 .. 3
          PROVE  pe'[<<i, j>>].enRight <=> i \in Active /\ 2 + j <= cnt /\ cnt <= LastIn + j
      <3>1. j \in Cols
        BY DEF Cols
      <3>2. QED BY <1>2, <2>1, <3>1, Moving, Element
    <2>6. CASE Counting
      <3>1. phase' = "CAL" /\ cnt' = cnt + 1 /\ Active' = Active /\ LastIn' = LastIn
        BY <2>1, <2>6, BlockSteady DEF Counting, cnt
      <3>2. enLeft' = IF phase' = "CAL" /\ 2 <= cnt' /\ cnt' <= LastIn' THEN Active' ELSE {}
        BY <2>1, <2>2, <2>4, <3>1
      <3>3. ASSUME NEW i \in Rows, NEW j \in 0 .. 3
            PROVE  pe'[<<i, j>>].enRight <=>
                     phase' = "CAL" /\ i \in Active' /\ 3 + j <= cnt' /\ cnt' <= LastIn' + 1 + j
        <4>1. 2 + j <= cnt /\ cnt <= LastIn + j <=> 3 + j <= cnt' /\ cnt' <= LastIn' + 1 + j
          BY <2>1, <2>2, <3>1
        <4>2. QED BY <2>5, <3>1, <4>1
      <3>4. QED BY <3>2, <3>3 DEF EnableInv
    <2>7. CASE Ending
      <3>1. phase' # "CAL" /\ cnt = CalCycles[layer]
        BY <2>7 DEF Ending
      <3>2. enLeft' = {}
        BY <2>1, <2>2, <2>4, <3>1
      <3>3. ASSUME NEW i \in Rows, NEW j \in 0 .. 3 PROVE ~pe'[<<i, j>>].enRight
        <4>1. ~(cnt <= LastIn + j)
          BY <2>1, <2>2, <3>1
        <4>2. QED BY <2>5, <4>1
      <3>4. QED BY <3>1, <3>2, <3>3 DEF EnableInv
    <2>8. QED BY <1>2, <2>6, <2>7, ControlStep DEF Waiting, Starting, Pushing
  <1>3. QED BY <1>1, <1>2

-----------------------------------------------------------------------------
(* The indices that walk over an image. *)

\* A counter of a CAL counts, ends or stands still.
LEMMA CalStep ==
    ASSUME Dimensions, IInv, Marks, Counters, ArrayNext, NEW l \in Layers
    PROVE  /\ calCnt[l] \in Nat
           /\ \/ InCal(l) /\ ~Done(l) /\ calCnt'[l] = calCnt[l] + 1
              \/ Done(l) /\ calCnt'[l] = 0
              \/ ~InCal(l) /\ ~Done(l) /\ calCnt[l] = 0 /\ calCnt'[l] = 0
  <1>1. calCnt[l] \in Nat /\ (~InCal(l) => calCnt[l] = 0) /\ CalCycles[l] \in Nat
    BY Ranges, ArrayAssumption
  <1>2. calCnt \in [Layers -> Nat]
    BY Ranges
  <1>3. CASE Counting
    BY <1>1, <1>2, <1>3 DEF Counting, InCal, Done, cnt
  <1>4. CASE Ending
    BY <1>1, <1>2, <1>4 DEF Ending, InCal, Done, cnt
  <1>5. CASE Waiting \/ Starting \/ Pushing
    BY <1>1, <1>5 DEF Waiting, Starting, Pushing, InCal, Done
  <1>6. QED BY <1>1, <1>3, <1>4, <1>5, ControlStep

\* One step of an index.
LEMMA Walk ==
    ASSUME NEW W \in {12, 4}, NEW d \in {1, 2}, NEW s \in Nat, NEW c \in Nat,
           NEW row, NEW col, NEW row1, NEW col1, Walked(W, d, s, c, row, col),
           row1 = IF col = d * (W - 1) THEN IF row = d * (W - 1) THEN 0 ELSE row + d ELSE row,
           col1 = IF col = d * (W - 1) THEN 0 ELSE IF c >= s THEN col + d ELSE col
    PROVE  Walked(W, d, s, c + 1, row1, col1)
  <1> USE DEF Walked
  <1>1. CASE c < s
    <2>1. row = 0 /\ col = 0 /\ row1 = 0 /\ col1 = 0
      BY <1>1
    <2>2. ASSUME NEW r \in 0 .. W - 1, NEW x \in 0 .. W - 1, c + 1 = W * r + x + s
          PROVE  r = 0 /\ x = 0
      BY <1>1, <2>2
    <2>3. QED BY <2>1, <2>2
  <1>2. CASE c >= s
    <2> SUFFICES ASSUME NEW r \in 0 .. W - 1, NEW x \in 0 .. W - 1, c + 1 = W * r + x + s
                 PROVE  row1 = d * r /\ col1 = d * x
      BY <1>2
    <2>1. CASE x > 0
      <3>1. x - 1 \in 0 .. W - 1 /\ c = W * r + (x - 1) + s
        BY <2>1
      <3>2. row = d * r /\ col = d * (x - 1)
        BY <3>1
      <3>3. d * (x - 1) # d * (W - 1) /\ d * (x - 1) + d = d * x
        BY <2>1
      <3>4. QED BY <1>2, <3>2, <3>3
    <2>2. CASE x = 0
      <3>1. r - 1 \in 0 .. W - 1 /\ W - 1 \in 0 .. W - 1 /\ c = W * (r - 1) + (W - 1) + s
        BY <1>2, <2>2
      <3>2. row = d * (r - 1) /\ col = d * (W - 1)
        BY <3>1
      <3>3. d * (r - 1) # d * (W - 1) /\ d * (r - 1) + d = d * r
        OBVIOUS
      <3>4. QED BY <2>2, <3>2, <3>3
    <2>3. QED BY <2>1, <2>2
  <1>3. QED BY <1>1, <1>2

\* Before its first cycle an index is at the origin.
LEMMA WalkRests ==
    ASSUME NEW W \in {12, 4}, NEW d \in {1, 2}, NEW s \in Nat, NEW c \in Nat, c <= s
    PROVE  Walked(W, d, s, c, 0, 0)
  <1>1. ASSUME NEW r \in 0 .. W - 1, NEW x \in 0 .. W - 1, c = W * r + x + s
        PROVE  d * r = 0 /\ d * x = 0
    <2>1. r = 0 /\ x = 0
      BY <1>1
    <2>2. QED BY <2>1
  <1>2. QED BY <1>1 DEF Walked

\* SelInv is inductive.
LEMMA SelStep ==
    ASSUME Dimensions, IInv, Marks, Counters, SelInv, ArrayNext
    PROVE  SelInv'
  <1> SUFFICES ASSUME NEW l \in Convs, NEW i \in Taps
               PROVE  Walked(OutWidth[l], 2, i + 1, calCnt'[l], sel'[l].row[i], sel'[l].col[i])
    BY DEF SelInv
  <1> DEFINE c    == calCnt[l]
             row  == sel[l].row[i]
             col  == sel[l].col[i]
             row1 == sel'[l].row[i]
             col1 == sel'[l].col[i]
             W    == OutWidth[l]
  <1>1. l \in Layers /\ i \in 0 .. 8 /\ i + 1 \in Nat
    BY DEF Convs, Layers, Weights, Taps
  <1>2. W \in {12, 4} /\ SelWidth[l] = 2 * (W - 1)
    BY DEF Convs, OutWidth, SelWidth
  <1>3. sel'[l] = SelNext(l)
    BY DEF ArrayNext, ArrayStep, Indices
  <1>4. Walked(W, 2, i + 1, c, row, col)
    BY DEF SelInv
  <1>5. CASE Done(l)
    <2>1. calCnt'[l] = 0
      BY <1>1, <1>5, CalStep DEF Done
    <2>2. row1 = 0 /\ col1 = 0
      BY <1>3, <1>5 DEF SelNext
    <2>3. Walked(W, 2, i + 1, 0, 0, 0)
      <3>1. 2 \in {1, 2} /\ 0 \in Nat /\ 0 <= i + 1
        BY <1>1
      <3> HIDE DEF W
      <3>2. QED BY <1>1, <1>2, <3>1, WalkRests
    <2>4. QED BY <2>1, <2>2, <2>3
  <1>6. CASE ~Done(l) /\ c = 0
    <2>1. calCnt'[l] \in Nat /\ calCnt'[l] <= 1
      BY <1>1, <1>6, CalStep
    <2>2. row1 = row /\ col1 = col
      BY <1>3, <1>6 DEF SelNext
    <2>3. row = 0 /\ col = 0
      BY <1>1, <1>4, <1>6 DEF Walked
    <2>4. calCnt'[l] <= i + 1
      BY <1>1, <2>1
    <2> HIDE DEF W
    <2>5. Walked(W, 2, i + 1, calCnt'[l], 0, 0)
      BY <1>1, <1>2, <2>1, <2>4, WalkRests
    <2>6. QED BY <2>2, <2>3, <2>5 DEF W
  <1>7. CASE ~Done(l) /\ c # 0
    <2>1. c \in Nat /\ c >= 1 /\ calCnt'[l] = c + 1
      BY <1>1, <1>7, CalStep
    <2>2. SelNext(l) = [row |-> [k \in Taps |->
                          IF sel[l].col[k] = SelWidth[l]
                          THEN IF sel[l].row[k] = SelWidth[l] THEN 0 ELSE sel[l].row[k] + 2
                          ELSE sel[l].row[k]],
                        col |-> [k \in Taps |->
                          IF sel[l].col[k] = SelWidth[l] THEN 0
                          ELSE IF k <= calCnt[l] - 1 THEN sel[l].col[k] + 2 ELSE sel[l].col[k]]]
      BY <1>7 DEF SelNext
    <2>3. /\ row1 = IF col = SelWidth[l] THEN IF row = SelWidth[l] THEN 0 ELSE row + 2 ELSE row
          /\ col1 = IF col = SelWidth[l] THEN 0 ELSE IF i <= c - 1 THEN col + 2 ELSE col
      <3>1. i \in Taps
        OBVIOUS
      <3>2. row1 = IF col = SelWidth[l] THEN IF row = SelWidth[l] THEN 0 ELSE row + 2 ELSE row
        BY <1>3, <2>2, <3>1
      <3>3. col1 = IF col = SelWidth[l] THEN 0 ELSE IF i <= c - 1 THEN col + 2 ELSE col
        BY <1>3, <2>2, <3>1
      <3>4. QED BY <3>2, <3>3
    <2> HIDE DEF c, row, col, row1, col1, W
    <2>4. i <= c - 1 <=> c >= i + 1
      BY <1>1, <2>1
    <2>5. /\ row1 = IF col = 2 * (W - 1) THEN IF row = 2 * (W - 1) THEN 0 ELSE row + 2 ELSE row
          /\ col1 = IF col = 2 * (W - 1) THEN 0 ELSE IF c >= i + 1 THEN col + 2 ELSE col
      BY <1>2, <2>3, <2>4
    <2>6. 2 \in {1, 2}
      OBVIOUS
    <2>7. Walked(W, 2, i + 1, c + 1, row1, col1)
      BY <1>1, <1>2, <1>4, <2>1, <2>5, <2>6, Walk
    <2>8. QED BY <2>1, <2>7 DEF row1, col1, W
  <1>8. QED BY <1>5, <1>6, <1>7

\* StoreInv is inductive.
LEMMA StoreStep ==
    ASSUME Dimensions, IInv, Marks, Counters, StoreInv, ArrayNext
    PROVE  StoreInv'
  <1> SUFFICES ASSUME NEW l \in Convs, NEW i \in Cols
               PROVE  Walked(OutWidth[l], 1, i + 11, calCnt'[l], store'[l].row[i], store'[l].col[i])
    BY DEF StoreInv
  <1> DEFINE c    == calCnt[l]
             row  == store[l].row[i]
             col  == store[l].col[i]
             row1 == store'[l].row[i]
             col1 == store'[l].col[i]
             W    == OutWidth[l]
  <1>1. l \in Layers /\ i \in 0 .. 4 /\ i + 11 \in Nat /\ SaRows = 10
    BY LayerDims DEF Convs, Layers, Weights, Cols
  <1>2. W \in {12, 4} /\ W - 1 = 1 * (W - 1)
    BY DEF Convs, OutWidth
  <1>3. store'[l] = StoreNext(l)
    BY DEF ArrayNext, ArrayStep, Indices
  <1>4. Walked(W, 1, i + 11, c, row, col)
    BY DEF StoreInv
  <1>5. CASE Done(l)
    <2>1. calCnt'[l] = 0
      BY <1>1, <1>5, CalStep DEF Done
    <2>2. row1 = 0 /\ col1 = 0
      BY <1>3, <1>5 DEF StoreNext
    <2>3. Walked(W, 1, i + 11, 0, 0, 0)
      <3>1. 1 \in {1, 2} /\ 0 \in Nat /\ 0 <= i + 11
        BY <1>1
      <3> HIDE DEF W
      <3>2. QED BY <1>1, <1>2, <3>1, WalkRests
    <2>4. QED BY <2>1, <2>2, <2>3
  <1>6. CASE ~Done(l) /\ c < 11
    <2>1. c \in Nat /\ calCnt'[l] \in {0, c + 1}
      BY <1>1, <1>6, CalStep
    <2>2. row1 = row /\ col1 = col
      BY <1>1, <1>3, <1>6 DEF StoreNext
    <2>3. row = 0 /\ col = 0
      BY <1>1, <1>4, <1>6, <2>1 DEF Walked
    <2>4. calCnt'[l] \in Nat /\ calCnt'[l] <= i + 11
      BY <1>1, <1>6, <2>1
    <2> HIDE DEF W
    <2>5. Walked(W, 1, i + 11, calCnt'[l], 0, 0)
      BY <1>1, <1>2, <2>1, <2>4, WalkRests
    <2>6. QED BY <2>2, <2>3, <2>5 DEF W
  <1>7. CASE ~Done(l) /\ ~(c < 11)
    <2>1. c \in Nat /\ c >= 11 /\ calCnt'[l] = c + 1
      BY <1>1, <1>7, CalStep
    <2>2. StoreNext(l) = [row |-> [k \in Cols |->
                            IF store[l].col[k] = W - 1
                            THEN IF store[l].row[k] = W - 1 THEN 0 ELSE store[l].row[k] + 1
                            ELSE store[l].row[k]],
                          col |-> [k \in Cols |->
                            IF store[l].col[k] = W - 1 THEN 0
                            ELSE IF k < calCnt[l] - 10 THEN store[l].col[k] + 1 ELSE store[l].col[k]]]
      BY <1>1, <1>7 DEF StoreNext
    <2>3. /\ row1 = IF col = W - 1 THEN IF row = W - 1 THEN 0 ELSE row + 1 ELSE row
          /\ col1 = IF col = W - 1 THEN 0 ELSE IF i < c - 10 THEN col + 1 ELSE col
      <3>1. i \in Cols
        OBVIOUS
      <3>2. row1 = IF col = W - 1 THEN IF row = W - 1 THEN 0 ELSE row + 1 ELSE row
        BY <1>3, <2>2, <3>1
      <3>3. col1 = IF col = W - 1 THEN 0 ELSE IF i < c - 10 THEN col + 1 ELSE col
        BY <1>3, <2>2, <3>1
      <3>4. QED BY <3>2, <3>3
    <2> HIDE DEF c, row, col, row1, col1, W
    <2>4. i < c - 10 <=> c >= i + 11
      BY <1>1, <2>1
    <2>5. /\ row1 = IF col = 1 * (W - 1) THEN IF row = 1 * (W - 1) THEN 0 ELSE row + 1 ELSE row
          /\ col1 = IF col = 1 * (W - 1) THEN 0 ELSE IF c >= i + 11 THEN col + 1 ELSE col
      BY <1>2, <2>3, <2>4
    <2>6. 1 \in {1, 2}
      OBVIOUS
    <2>7. Walked(W, 1, i + 11, c + 1, row1, col1)
      BY <1>1, <1>2, <1>4, <2>1, <2>5, <2>6, Walk
    <2>8. QED BY <2>1, <2>7 DEF row1, col1, W
  <1>8. QED BY <1>5, <1>6, <1>7

\* FcSelInv is inductive.
LEMMA FcSelStep ==
    ASSUME Dimensions, IInv, Marks, Counters, FcSelInv, ArrayNext
    PROVE  FcSelInv'
  <1>1. /\ calCnt["fc1"] \in Nat
        /\ \/ InCal("fc1") /\ ~Done("fc1") /\ calCnt'["fc1"] = calCnt["fc1"] + 1
           \/ Done("fc1") /\ calCnt'["fc1"] = 0
           \/ ~InCal("fc1") /\ ~Done("fc1") /\ calCnt["fc1"] = 0 /\ calCnt'["fc1"] = 0
    BY CalStep DEF Layers, Weights
  <1>2. fcSel' = IF Done("fc1") THEN IF block["fc1"] \in {0, 2} THEN 40 ELSE 0
                 ELSE IF calCnt["fc1"] >= 1 THEN ((fcSel + 4) % 128) ELSE fcSel
    BY DEF ArrayNext, ArrayStep, Indices, FcSel
  <1>3. \A l \in Layers : block[l] \in Nat /\ block[l] < Blocks[l] /\ calCnt[l] <= CalCycles[l]
    BY Ranges
  <1>4. CASE Done("fc1")
    <2>1. phase = "CAL" /\ layer = "fc1"
      BY <1>4 DEF Done, InCal
    <2>2. Ending
      <3>1. ~Counting
        BY <1>1, <1>4, <2>1, LayerDims DEF Counting, Done, cnt
      <3>2. QED BY <2>1, <3>1, ControlStep DEF Waiting, Starting, Pushing
    <2>3. \/ /\ block["fc1"] < 3
             /\ phase' = "MOVE" /\ layer' = "fc1" /\ block'["fc1"] = block["fc1"] + 1
          \/ block["fc1"] = 3 /\ phase' = "MOVE" /\ layer' = "fc2"
      BY <2>1, <2>2, EndingCases
    <2>4. block["fc1"] \in {0, 1, 2, 3} /\ calCnt'["fc1"] = 0
      BY <1>1, <1>3, <1>4, LayerDims DEF Layers, Weights, Done
    <2>5. fcSel' = IF block["fc1"] \in {0, 2} THEN 40 ELSE 0
      BY <1>2, <1>4
    <2>6. CASE layer' = "fc2"
      BY <2>3, <2>4, <2>5, <2>6 DEF FcSelInv
    <2>7. CASE layer' = "fc1"
      <3>1. block["fc1"] \in {0, 1, 2} /\ block'["fc1"] = block["fc1"] + 1 /\ phase' = "MOVE"
        BY <2>3, <2>4, <2>7
      <3>2. Half' = IF block["fc1"] \in {0, 2} THEN 1 ELSE 0
        BY <3>1 DEF Half
      <3>3. fcSel' = 40 * Half'
        BY <2>5, <3>2
      <3>4. Half' \in {0, 1}
        BY <3>2
      <3>5. QED BY <2>4, <2>7, <3>1, <3>3, <3>4 DEF FcSelInv, Computing
    <2>8. QED BY <2>3, <2>6, <2>7
  <1>5. CASE InCal("fc1") /\ ~Done("fc1")
    <2>1. phase = "CAL" /\ layer = "fc1"
      BY <1>5 DEF InCal
    <2>2. Counting
      BY <1>5, <2>1, ControlStep DEF Waiting, Starting, Pushing, Ending, Done, cnt
    <2>3. phase' = "CAL" /\ layer' = "fc1" /\ Half' = Half /\ Half \in {0, 1}
      BY <2>1, <2>2, BlockSteady DEF Counting, Half
    <2>4. fcSel = 40 * Half + (IF calCnt["fc1"] = 0 THEN 0 ELSE 4 * (calCnt["fc1"] - 1))
      BY <2>1 DEF FcSelInv, Computing
    <2>5. calCnt["fc1"] \in 0 .. 16 /\ calCnt'["fc1"] = calCnt["fc1"] + 1
      BY <1>1, <1>3, <1>5, LayerDims DEF Layers, Weights
    <2>6. fcSel' = IF calCnt["fc1"] >= 1 THEN ((fcSel + 4) % 128) ELSE fcSel
      BY <1>2, <1>5
    <2>7. fcSel' = 40 * Half' + 4 * calCnt["fc1"]
      BY <2>3, <2>4, <2>5, <2>6
    <2>8. QED BY <2>3, <2>5, <2>7 DEF FcSelInv, Computing
  <1>6. CASE ~InCal("fc1")
    <2>1. calCnt["fc1"] = 0 /\ calCnt'["fc1"] = 0 /\ fcSel' = fcSel
      BY <1>1, <1>2, <1>6 DEF Done
    <2>2. fcSel = IF Computing /\ layer = "fc1" THEN 40 * Half ELSE 0
      <3>1. Half \in {0, 1}
        BY DEF Half
      <3>2. QED BY <2>1, <3>1 DEF FcSelInv
    <2>3. CASE Computing' /\ layer' = "fc1"
      <3>1. CASE Pushing
        <4>1. Computing /\ layer = "fc1" /\ Half' = Half /\ Half \in {0, 1}
          BY <2>3, <3>1, BlockSteady DEF Pushing, Computing, Half
        <4>2. QED BY <2>1, <2>2, <2>3, <4>1 DEF FcSelInv
      <3>2. CASE Ending
        <4>1. layer = "conv2" /\ block'["fc1"] = 0
          BY <1>6, <2>3, <3>2, EndingCases DEF Computing, Ending, InCal
        <4>2. Half' = 0
          BY <4>1 DEF Half
        <4>3. QED BY <2>1, <2>2, <2>3, <4>1, <4>2 DEF FcSelInv
      <3>3. QED BY <1>6, <2>3, <3>1, <3>2, ControlStep
              DEF Waiting, Starting, Counting, Computing, InCal
    <2>4. CASE ~(Computing' /\ layer' = "fc1")
      <3>1. ~(Computing /\ layer = "fc1")
        BY <1>6, <2>4, ControlStep
           DEF Waiting, Starting, Pushing, Counting, Ending, Computing, InCal
      <3>2. QED BY <2>1, <2>2, <2>4, <3>1 DEF FcSelInv
    <2>5. QED BY <2>3, <2>4
  <1>7. QED BY <1>4, <1>5, <1>6

-----------------------------------------------------------------------------
(* The activations. *)

\* A slot of a convolution is a position of its output.
LEMMA Position ==
    ASSUME NEW W \in {12, 4}, NEW k \in 0 .. W * W - 1
    PROVE  /\ (k \div W) \in 0 .. W - 1 /\ (k % W) \in 0 .. W - 1
           /\ k = W * (k \div W) + (k % W)
  OBVIOUS

\* A tap is a position of its kernel.
LEMMA TapPosition ==
    ASSUME NEW i \in 1 .. 9
    PROVE  /\ ((i - 1) \div 3) \in 0 .. 2 /\ ((i - 1) % 3) \in 0 .. 2
           /\ i - 1 = 3 * ((i - 1) \div 3) + ((i - 1) % 3)
  OBVIOUS

\* A pixel of the image of this instruction.
LEMMA ImagePixel ==
    ASSUME Dimensions, IInv, phase = "CAL", NEW u \in 0 .. 27, NEW w \in 0 .. 27
    PROVE  rs1 \in Int /\ InputReg(u, w) = rs1 + (28 * u + w)
  <1> DEFINE n == 28 * u + w
  <1>1. n \in 0 .. 783
    OBVIOUS
  <1>2. InputReg(u, w) = buf["input"][n]
    BY DEF InputReg
  <1> HIDE DEF n
  <1>3. n \in 0 .. Size["input"] - 1
    BY <1>1, LayerDims
  <1>4. ImageComplete
    BY DEF IInv
  <1>5. buf["input"][n] = rs1 + n
    BY <1>3, <1>4 DEF ImageComplete
  <1>6. rs1 \in Int
    BY DEF IInv, TypeOK, CoreOK
  <1>7. InputReg(u, w) = rs1 + n
    BY <1>2, <1>5
  <1>8. QED BY <1>6, <1>7 DEF n

\* A tap of the first layer reads the pooled image of this instruction.
LEMMA InputConv1 ==
    ASSUME Dimensions, IInv, SelInv, phase = "CAL", layer = "conv1",
           NEW i \in 1 .. 9, NEW k \in 0 .. 143, cnt = k + i
    PROVE  InputRes(i) = {Act(i, k)}
  <1> DEFINE a == ((i - 1) \div 3)
             b == ((i - 1) % 3)
             r == (k \div 12)
             x == (k % 12)
  <1>1. a \in 0 .. 2 /\ b \in 0 .. 2
    BY TapPosition
  <1>2. r \in 0 .. 11 /\ x \in 0 .. 11 /\ k = 12 * r + x
    OBVIOUS
  <1>3. Act(i, k) = <<"conv1", RefPool1(r + a, x + b)>>
    BY DEF Act
  <1> HIDE DEF a, b, r, x
  <1>4. sel["conv1"].row[i - 1] = 2 * r /\ sel["conv1"].col[i - 1] = 2 * x
    <2>1. PICK t \in Taps : t = i - 1
      BY DEF Taps
    <2>2. Walked(12, 2, t + 1, calCnt["conv1"], sel["conv1"].row[t], sel["conv1"].col[t])
      BY DEF SelInv, OutWidth, Convs
    <2>3. calCnt["conv1"] = 12 * r + x + (t + 1) /\ r \in 0 .. 12 - 1 /\ x \in 0 .. 12 - 1
      BY <1>2, <2>1 DEF cnt
    <2>4. QED BY <2>1, <2>2, <2>3 DEF Walked
  <1>5. InputRes(i) = {<<"conv1", {InputReg(2 * r + 2 * a + q[1], 2 * x + 2 * b + q[2]) : q \in Quad}>>}
    BY <1>4 DEF InputRes, Convs, a, b
  <1>6. ASSUME NEW q \in Quad
        PROVE  InputReg(2 * r + 2 * a + q[1], 2 * x + 2 * b + q[2]) =
               rs1 + 28 * (2 * (r + a) + q[1]) + 2 * (x + b) + q[2]
    <2>1. q[1] \in 0 .. 1 /\ q[2] \in 0 .. 1
      BY DEF Quad
    <2> DEFINE u == 2 * r + 2 * a + q[1]
               w == 2 * x + 2 * b + q[2]
    <2>2. u \in 0 .. 27 /\ w \in 0 .. 27
      <3>1. u \in 0 .. 27
        BY <1>1, <1>2, <2>1
      <3>2. w \in 0 .. 27
        BY <1>1, <1>2, <2>1
      <3>3. QED BY <3>1, <3>2
    <2>3. rs1 \in Int
      BY DEF IInv, TypeOK, CoreOK
    <2>4. rs1 + (28 * u + w) = rs1 + 28 * (2 * (r + a) + q[1]) + 2 * (x + b) + q[2]
      BY <1>1, <1>2, <2>1, <2>3
    <2> HIDE DEF u, w
    <2>5. InputReg(u, w) = rs1 + (28 * u + w)
      BY <2>2, ImagePixel
    <2>6. InputReg(u, w) = rs1 + 28 * (2 * (r + a) + q[1]) + 2 * (x + b) + q[2]
      BY <2>4, <2>5, Zenon
    <2>7. QED BY <2>6 DEF u, w
  <1>7. {InputReg(2 * r + 2 * a + q[1], 2 * x + 2 * b + q[2]) : q \in Quad} = RefPool1(r + a, x + b)
    BY <1>6 DEF RefPool1
  <1>8. QED BY <1>3, <1>5, <1>7

\* A tap of the second layer reads the pooled outputs of the first.
LEMMA InputConv2 ==
    ASSUME Dimensions, IInv, Marks, Counters, SelInv, Out1Inv, phase = "CAL", layer = "conv2",
           NEW i \in 1 .. 9, NEW k \in 0 .. 15, cnt = k + i
    PROVE  InputRes(i) = {Act(i, k)}
  <1> DEFINE a == ((i - 1) \div 3)
             b == ((i - 1) % 3)
             r == (k \div 4)
             x == (k % 4)
  <1>1. a \in 0 .. 2 /\ b \in 0 .. 2 /\ cha \in 0 .. 4
    BY TapPosition, BlockTyping DEF Computing
  <1>2. r \in 0 .. 3 /\ x \in 0 .. 3 /\ k = 4 * r + x
    OBVIOUS
  <1>3. Act(i, k) = <<"conv2", RefPool2(cha, r + a, x + b)>>
    BY DEF Act
  <1> HIDE DEF a, b, r, x
  <1>4. sel["conv2"].row[i - 1] = 2 * r /\ sel["conv2"].col[i - 1] = 2 * x
    <2>1. PICK t \in Taps : t = i - 1
      BY DEF Taps
    <2>2. Walked(4, 2, t + 1, calCnt["conv2"], sel["conv2"].row[t], sel["conv2"].col[t])
      BY DEF SelInv, OutWidth, Convs
    <2>3. calCnt["conv2"] = 4 * r + x + (t + 1) /\ r \in 0 .. 4 - 1 /\ x \in 0 .. 4 - 1
      BY <1>2, <2>1 DEF cnt
    <2>4. QED BY <2>1, <2>2, <2>3 DEF Walked
  <1>5. InputRes(i) =
          {<<"conv2", {conv1Out[<<cha, 2 * r + 2 * a + q[1], 2 * x + 2 * b + q[2]>>] : q \in Quad}>>}
    BY <1>4 DEF InputRes, Convs, a, b
  <1>6. ASSUME NEW q \in Quad
        PROVE  conv1Out[<<cha, 2 * r + 2 * a + q[1], 2 * x + 2 * b + q[2]>>] =
               Name1(cha, 2 * (r + a) + q[1], 2 * (x + b) + q[2])
    <2>1. q[1] \in 0 .. 1 /\ q[2] \in 0 .. 1
      BY DEF Quad
    <2>2. /\ 2 * r + 2 * a + q[1] = 2 * (r + a) + q[1] /\ 2 * x + 2 * b + q[2] = 2 * (x + b) + q[2]
          /\ 2 * (r + a) + q[1] \in 0 .. 11 /\ 2 * (x + b) + q[2] \in 0 .. 11
      BY <1>1, <1>2, <2>1
    <2>3. <<cha, 2 * (r + a) + q[1], 2 * (x + b) + q[2]>> \in Pixels("conv1")
      BY <1>1, <2>2 DEF Pixels, Cols, OutWidth
    <2>4. \A p \in Pixels("conv1") : conv1Out[p] = Name1(p[1], p[2], p[3])
      BY DEF Out1Inv, Computing
    <2>5. QED BY <2>2, <2>3, <2>4
  <1>7. {conv1Out[<<cha, 2 * r + 2 * a + q[1], 2 * x + 2 * b + q[2]>>] : q \in Quad} =
          RefPool2(cha, r + a, x + b)
    BY <1>6 DEF RefPool2
  <1>8. QED BY <1>3, <1>5, <1>7

\* The second layer's outputs and the hidden layer's are complete.
LEMMA SumsComplete ==
    ASSUME Computing
    PROVE  /\ Out2Inv /\ layer \in {"fc1", "fc2"} =>
                 \A p \in Pixels("conv2") : conv2Out[p] = RefOut2(p[1], p[2], p[3])
           /\ OutFc1Inv /\ layer = "fc2" => \A o \in 0 .. 9 : fc1Out[o] = RefOutFc1(o)
  <1>1. ASSUME NEW p \in Pixels("conv2") PROVE Sum2(p, 5) = RefOut2(p[1], p[2], p[3])
    <2>1. 0 .. 5 - 1 = 0 .. 4
      OBVIOUS
    <2>2. QED BY <2>1 DEF Sum2, RefOut2
  <1>2. ASSUME NEW o \in 0 .. 9 PROVE SumFc1(o, 2) = RefOutFc1(o)
    <2>1. {NameFc1(o, h) : h \in 0 .. 2 - 1} = {NameFc1(o, 0), NameFc1(o, 1)}
      OBVIOUS
    <2>2. QED BY <2>1 DEF SumFc1, RefOutFc1
  <1>3. layer # "conv1" => Begun
    BY DEF Begun
  <1>4. layer \in {"fc1", "fc2"} => \A p \in Pixels("conv2") : Channels(p) = 5
    BY DEF Channels
  <1>5. layer = "fc2" => \A o \in 0 .. 9 : Halves(o) = 2
    BY DEF Halves, Convs
  <1>6. QED BY <1>1, <1>2, <1>3, <1>4, <1>5 DEF Out2Inv, OutFc1Inv

\* The positions of the outputs.
LEMMA PixelRange ==
    /\ Pixels("conv1") = (0 .. 4) \X (0 .. 11) \X (0 .. 11)
    /\ Pixels("conv2") = (0 .. 4) \X (0 .. 3) \X (0 .. 3)
  BY DEF Pixels, Cols, OutWidth

\* conv2_output_flat runs through the outputs two by two, channel by channel.
LEMMA FlatIs ==
    ASSUME \A p \in Pixels("conv2") : conv2Out[p] = RefOut2(p[1], p[2], p[3]),
           NEW o \in 0 .. 4, NEW u \in 0 .. 1, NEW v \in 0 .. 1, NEW a \in 0 .. 1, NEW b \in 0 .. 1
    PROVE  Flat(16 * o + 8 * u + 4 * v + 2 * a + b) = RefOut2(o, 2 * u + a, 2 * v + b)
  <1> DEFINE j == 16 * o + 8 * u + 4 * v + 2 * a + b
             k == (j % 16)
  <1>1. (j \div 16) = o /\ k = 8 * u + 4 * v + 2 * a + b
    OBVIOUS
  <1>2. (k \div 8) = u /\ ((k % 4) \div 2) = a /\ ((k \div 4) % 2) = v /\ (k % 2) = b
    <2> HIDE DEF j, k
    <2>1. QED BY <1>1
  <1>3. Flat(j) = conv2Out[<<j \div 16, 2 * (k \div 8) + ((k % 4) \div 2), 2 * ((k \div 4) % 2) + (k % 2)>>]
    BY DEF Flat
  <1> HIDE DEF j, k
  <1>4. Flat(j) = conv2Out[<<o, 2 * u + a, 2 * v + b>>]
    BY <1>1, <1>2, <1>3
  <1>5. <<o, 2 * u + a, 2 * v + b>> \in Pixels("conv2")
    <2>1. o \in 0 .. 4 /\ 2 * u + a \in 0 .. 3 /\ 2 * v + b \in 0 .. 3
      OBVIOUS
    <2> DEFINE r == 2 * u + a
               x == 2 * v + b
    <2> HIDE DEF r, x
    <2>2. o \in 0 .. 4 /\ r \in 0 .. 3 /\ x \in 0 .. 3
      BY <2>1 DEF r, x
    <2>3. <<o, r, x>> \in Pixels("conv2")
      BY <2>2, PixelRange
    <2>4. QED BY <2>3 DEF r, x
  <1>6. QED BY <1>4, <1>5 DEF j

\* The third layer reads the pooled outputs of the second, in order.
LEMMA InputFc1 ==
    ASSUME Dimensions, IInv, Marks, Counters, FcSelInv, Out2Inv, phase = "CAL", layer = "fc1",
           NEW i \in 0 .. 9, cnt = i + 1
    PROVE  InputRes(i) = {Act(i, 1)}
  <1>1. Computing /\ Half \in {0, 1} /\ calCnt["fc1"] = i + 1
    BY BlockTyping DEF Computing, cnt
  <1> DEFINE j == 10 * Half + i
             o == (j \div 4)
             u == ((j % 4) \div 2)
             v == (j % 2)
  <1>2. Act(i, 1) = <<"fc1", RefPool3(j)>>
    BY DEF Act
  <1>3. RefPool3(j) = {RefOut2(o, 2 * u + q[1], 2 * v + q[2]) : q \in Quad}
    BY DEF RefPool3
  <1>4. j \in 0 .. 19
    BY <1>1
  <1>5. fcSel = 4 * j
    BY <1>1 DEF FcSelInv
  <1> HIDE DEF j
  <1>6. o \in 0 .. 4 /\ u \in 0 .. 1 /\ v \in 0 .. 1 /\ j = 4 * o + 2 * u + v
    BY <1>4
  <1> HIDE DEF o, u, v
  <1>7. InputRes(i) = {<<"fc1", {Flat(fcSel + k) : k \in 0 .. 3}>>}
    BY DEF InputRes, Convs
  <1>8. \A p \in Pixels("conv2") : conv2Out[p] = RefOut2(p[1], p[2], p[3])
    BY <1>1, SumsComplete
  <1>9. \A a, b \in 0 .. 1 : Flat(fcSel + (2 * a + b)) = RefOut2(o, 2 * u + a, 2 * v + b)
    <2> SUFFICES ASSUME NEW a \in 0 .. 1, NEW b \in 0 .. 1
                 PROVE  Flat(fcSel + (2 * a + b)) = RefOut2(o, 2 * u + a, 2 * v + b)
      OBVIOUS
    <2>1. fcSel + (2 * a + b) = 16 * o + 8 * u + 4 * v + 2 * a + b
      BY <1>5, <1>6
    <2>2. QED BY <1>6, <1>8, <2>1, FlatIs
  <1>10. {Flat(fcSel + k) : k \in 0 .. 3} = {RefOut2(o, 2 * u + q[1], 2 * v + q[2]) : q \in Quad}
    <2>1. ASSUME NEW k \in 0 .. 3
          PROVE  \E q \in Quad : Flat(fcSel + k) = RefOut2(o, 2 * u + q[1], 2 * v + q[2])
      <3>1. PICK a \in 0 .. 1, b \in 0 .. 1 : k = 2 * a + b
        <4>1. (k \div 2) \in 0 .. 1 /\ (k % 2) \in 0 .. 1 /\ k = 2 * (k \div 2) + (k % 2)
          OBVIOUS
        <4>2. QED BY <4>1
      <3>2. <<a, b>> \in Quad /\ <<a, b>>[1] = a /\ <<a, b>>[2] = b
        BY DEF Quad
      <3>3. Flat(fcSel + k) = RefOut2(o, 2 * u + a, 2 * v + b)
        BY <1>9, <3>1
      <3>4. QED BY <3>2, <3>3
    <2>2. ASSUME NEW q \in Quad
          PROVE  \E k \in 0 .. 3 : Flat(fcSel + k) = RefOut2(o, 2 * u + q[1], 2 * v + q[2])
      <3>1. q[1] \in 0 .. 1 /\ q[2] \in 0 .. 1
        BY DEF Quad
      <3>2. 2 * q[1] + q[2] \in 0 .. 3
        BY <3>1
      <3>3. Flat(fcSel + (2 * q[1] + q[2])) = RefOut2(o, 2 * u + q[1], 2 * v + q[2])
        BY <1>9, <3>1
      <3>4. QED BY <3>2, <3>3
    <2>3. QED BY <2>1, <2>2
  <1>11. QED BY <1>2, <1>3, <1>7, <1>10

\* The last layer reads the outputs of the hidden one.
LEMMA InputFc2 ==
    ASSUME OutFc1Inv, phase = "CAL", layer = "fc2", NEW i \in 0 .. 9, cnt = i + 1
    PROVE  InputRes(i) = {Act(i, 1)}
  <1>1. fc1Out[i] = RefOutFc1(i)
    BY SumsComplete DEF Computing
  <1>2. InputRes(i) = {<<"fc2", {fc1Out[i]}>>}
    BY DEF InputRes, Convs
  <1>3. QED BY <1>1, <1>2 DEF Act

-----------------------------------------------------------------------------
(* The flow through the array. *)

\* The activations and products of a block do not change while it is worked on.
LEMMA TermSteady ==
    ASSUME Pushing \/ Counting
    PROVE  /\ \A i \in Rows, k \in Nat : Act(i, k)' = Act(i, k)
           /\ \A r \in Rows, j \in Cols, k \in Nat : Term(r, j, k)' = Term(r, j, k)
  <1>1. layer' = layer /\ rs1' = rs1 /\ cha' = cha /\ Half' = Half
    BY BlockSteady DEF Pushing, Counting, Steady, cha
  <1>2. ASSUME NEW i \in Rows, NEW k \in Nat PROVE Act(i, k)' = Act(i, k)
    BY <1>1 DEF Act, RefPool1, RefPool2, RefPool3, RefOutFc1, RefOut2, Name1, Name2, NameFc1
  <1>3. ASSUME NEW r \in Rows, NEW j \in Cols, NEW k \in Nat PROVE Term(r, j, k)' = Term(r, j, k)
    BY <1>1, <1>2, <1>3, BlockSteady DEF Term
  <1>4. QED BY <1>2, <1>3

\* The rows and the slots of a layer.
LEMMA SlotRange ==
    ASSUME Dimensions, layer \in Layers
    PROVE  /\ Active \subseteq 0 .. 9 /\ Slots \subseteq Nat /\ Active \subseteq Rows
           /\ layer = "conv1" => Active = 1 .. 9 /\ Slots = 0 .. 143
           /\ layer = "conv2" => Active = 1 .. 9 /\ Slots = 0 .. 15
           /\ layer \in {"fc1", "fc2"} => Active = 0 .. 9 /\ Slots = {1}
           /\ \A i \in Active, k \in Slots : k + i >= 1 /\ k + i + 1 <= LastIn
  <1>1. Rows = 0 .. 9
    BY TenRows
  <1>2. CASE layer = "conv1"
    BY <1>1, <1>2 DEF LastIn, Active, Slots, Convs, OutSize
  <1>3. CASE layer = "conv2"
    BY <1>1, <1>3 DEF LastIn, Active, Slots, Convs, OutSize
  <1>4. CASE layer = "fc1"
    BY <1>1, <1>4 DEF LastIn, Active, Slots, Convs, OutSize
  <1>5. CASE layer = "fc2"
    BY <1>1, <1>5 DEF LastIn, Active, Slots, Convs, OutSize
  <1>6. QED BY <1>2, <1>3, <1>4, <1>5 DEF Layers, Weights

\* FeedLeft gives each row the activation of its slot.
LEMMA RowEntered ==
    ASSUME Dimensions, IInv, Marks, Counters, SelInv, FcSelInv, Out1Inv, Out2Inv, OutFc1Inv,
           ArrayNext, phase = "CAL", layer \in Layers,
           NEW i \in Active, NEW k \in Slots, cnt = k + i
    PROVE  dataLeft'[i] = {Act(i, k)}
  <1>1. FeedLeft /\ Rows = 0 .. 9
    BY TenRows DEF ArrayNext, ArrayStep
  <1>2. i \in Rows /\ k \in Nat /\ k + i >= 1 /\ i \in 0 .. 9
    BY <1>1, SlotRange
  <1>3. CASE layer \in Convs
    <2>1. OutSize[layer] \in {144, 16} /\ i \in 1 .. 9 /\ k \in 0 .. OutSize[layer] - 1
      BY <1>3, LayerSpan DEF Slots
    <2>2. FeedConv(layer)
      BY <1>1, <1>2, <1>3 DEF FeedLeft
    <2>3. dataLeft'[i] = IF i \in 1 .. cnt /\ cnt <= OutSize[layer] + 9
                         THEN IF i > cnt - OutSize[layer] THEN InputRes(i) ELSE {}
                         ELSE dataLeft[i]
      BY <1>2, <2>2 DEF FeedConv
    <2>4. i \in 1 .. cnt /\ cnt <= OutSize[layer] + 9 /\ i > cnt - OutSize[layer]
      BY <2>1
    <2>5. dataLeft'[i] = InputRes(i)
      BY <2>3, <2>4
    <2>6. CASE layer = "conv1"
      BY <2>1, <2>5, <2>6, InputConv1, SlotRange
    <2>7. CASE layer = "conv2"
      BY <2>1, <2>5, <2>7, InputConv2, SlotRange
    <2>8. QED BY <1>3, <2>6, <2>7 DEF Convs
  <1>4. CASE layer \notin Convs
    <2>1. layer \in {"fc1", "fc2"}
      BY <1>4 DEF Layers, Weights, Convs
    <2>2. k = 1 /\ cnt = i + 1
      BY <2>1, <1>2, SlotRange
    <2>3. FeedFc
      BY <1>1, <1>2, <1>4, <2>2 DEF FeedLeft
    <2>4. dataLeft' = [r \in Rows |->
             CASE cnt = 1 -> IF r = 0 THEN InputRes(0) ELSE dataLeft[r]
               [] cnt \in 2 .. 10 -> InputRes(r)
               [] cnt = 11 -> {}
               [] OTHER -> dataLeft[r]]
      BY <2>3 DEF FeedFc
    <2>5. dataLeft'[i] = InputRes(i)
      <3>1. CASE i = 0
        BY <1>2, <2>2, <2>4, <3>1
      <3>2. CASE i # 0
        <4>1. cnt \in 2 .. 10 /\ cnt # 1
          BY <1>2, <2>2, <3>2
        <4>2. QED BY <1>2, <2>4, <4>1
      <3>3. QED BY <3>1, <3>2
    <2>6. QED BY <1>2, <2>1, <2>2, <2>5, InputFc1, InputFc2
  <1>5. QED BY <1>3, <1>4

\* A cycle of a CAL.
LEMMA CountUp ==
    ASSUME Dimensions, IInv, Marks, Counters, Counting
    PROVE  /\ phase = "CAL" /\ phase' = "CAL" /\ layer' = layer /\ layer \in Layers
           /\ cnt \in Nat /\ cnt' = cnt + 1 /\ cnt < CalCycles[layer] /\ CalCycles[layer] \in Nat
           /\ calCnt' = [calCnt EXCEPT ![layer] = cnt + 1] /\ moveCnt = 0
  <1>1. layer \in Layers /\ calCnt \in [Layers -> Nat] /\ moveCnt = 0 /\ CalCycles[layer] \in Nat
    BY Ranges, LayerSpan DEF Counting, Computing
  <1>2. QED BY <1>1 DEF Counting, cnt

\* A CAL starts from 0.
LEMMA CalStarts ==
    ASSUME Dimensions, IInv, Marks, Counters, Pushing
    PROVE  layer \in Layers /\ cnt = 0 /\ cnt' = 0
  <1>1. phase = "MOVE" /\ layer' = layer /\ calCnt' = calCnt
    BY DEF Pushing
  <1>2. layer \in Layers /\ calCnt[layer] = 0
    BY <1>1, Ranges DEF InCal, Computing
  <1>3. QED BY <1>1, <1>2 DEF cnt

\* LeftInv is inductive.
LEMMA LeftStep ==
    ASSUME Dimensions, IInv, Marks, Counters, SelInv, FcSelInv, Out1Inv, Out2Inv, OutFc1Inv,
           ArrayNext
    PROVE  LeftInv'
  <1> SUFFICES ASSUME phase' = "CAL", NEW i \in Active', NEW k \in Slots', cnt' = k + i + 1
               PROVE  dataLeft'[i] = {Act(i, k)'}
    BY DEF LeftInv
  <1>1. Pushing \/ Counting
    BY ControlStep DEF Waiting, Starting, Ending
  <1>2. Active' = Active /\ Slots' = Slots
    BY <1>1, BlockSteady
  <1>3. layer \in Layers
    BY <1>1, CountUp, CalStarts
  <1>4. i \in Rows /\ k \in Nat /\ k + i >= 1 /\ i \in 0 .. 9
    BY <1>2, <1>3, SlotRange
  <1>5. Counting
    BY <1>1, <1>4, CalStarts
  <1>6. phase = "CAL" /\ cnt = k + i
    BY <1>4, <1>5, CountUp
  <1>7. dataLeft'[i] = {Act(i, k)}
    BY <1>2, <1>3, <1>6, RowEntered
  <1>8. Act(i, k)' = Act(i, k)
    BY <1>4, <1>5, TermSteady
  <1>9. QED BY <1>7, <1>8

\* The addresses of a column's weights are integers.
LEMMA OriginInt ==
    ASSUME Dimensions, IInv, Marks, Counters, Computing, NEW j \in Cols
    PROVE  Origin(j) \in Int
  <1>1. layer \in Layers /\ \A op \in Layers : first[op] \in Int
    BY Ranges DEF IInv, TypeOK, CoreOK, Layers, Loads
  <1>2. j \in Int
    BY DEF Cols
  <1>3. CASE layer = "conv1"
    BY <1>1, <1>2, <1>3 DEF Origin
  <1>4. CASE layer = "conv2"
    <2>1. first["conv2"] \in Int /\ cha \in Int
      BY <1>1, <1>4, BlockTyping
    <2>2. Origin(j) = first["conv2"] + 45 * j + 9 * cha - 1
      BY <1>4 DEF Origin
    <2>3. QED BY <1>2, <2>1, <2>2
  <1>5. CASE layer \in {"fc1", "fc2"}
    <2>1. first["fc1"] \in Int /\ first["fc2"] \in Int /\ FirstOut \in Int /\ Half \in Int
      BY <1>1, <1>5, BlockTyping DEF Layers, Weights
    <2>2. \/ Origin(j) = first["fc1"] + 20 * (j + FirstOut) + 10 * Half
          \/ Origin(j) = first["fc2"] + 10 * (j + FirstOut)
      BY <1>5 DEF Origin
    <2>3. QED BY <1>2, <2>1, <2>2
  <1>6. QED BY <1>1, <1>3, <1>4, <1>5 DEF Layers, Weights

\* An element adds its own product to the sum of those above it.
LEMMA SumStep ==
    ASSUME NEW j \in Cols, NEW k, Origin(j) \in Int, Active \subseteq Int, NEW i \in Active
    PROVE  Plus(Times({Act(i, k)}, {<<layer, Origin(j) + i>>}),
                {Term(r, j, k) : r \in {q \in Active : q < i}}) = PSum(i, j, k)
  <1> DEFINE above == {Term(r, j, k) : r \in {q \in Active : q < i}}
  <1>1. Times({Act(i, k)}, {<<layer, Origin(j) + i>>}) = {Term(i, j, k)}
    BY DEF Times, Term
  <1>2. Term(i, j, k) \notin above
    <2> SUFFICES ASSUME NEW r \in Active, r < i, Term(r, j, k) = Term(i, j, k) PROVE FALSE
      OBVIOUS
    <2>1. Term(r, j, k)[2] = <<layer, Origin(j) + r>> /\ Term(i, j, k)[2] = <<layer, Origin(j) + i>>
      BY DEF Term
    <2>2. Origin(j) + r = Origin(j) + i
      BY <2>1
    <2>3. QED BY <2>2
  <1>3. PSum(i, j, k) = {Term(i, j, k)} \union above
    <2>1. \A q \in Active : q <= i <=> q = i \/ q < i
      OBVIOUS
    <2>2. QED BY <2>1 DEF PSum
  <1>4. QED BY <1>1, <1>2, <1>3 DEF Plus

\* What an element finds on its left and above it, in its slot.
LEMMA Arriving ==
    ASSUME Dimensions, IInv, Marks, Counters, TopInv, HeldInv, LeftInv, FlowInv, Counting,
           NEW i \in Active, NEW j \in Cols, NEW k \in Slots, cnt = k + i + j + 1
    PROVE  /\ LeftData(i, j) = {Act(i, k)}
           /\ UpData(i, j) = {Term(r, j, k) : r \in {q \in Active : q < i}}
  <1>1. phase = "CAL" /\ layer \in Layers
    BY CountUp
  <1>2. i \in Rows /\ i \in 0 .. 9 /\ k \in Nat /\ j \in 0 .. 4 /\ Rows = 0 .. 9 /\ Cols = 0 .. 4
    BY <1>1, SlotRange, TenRows
  <1>3. LeftData(i, j) = {Act(i, k)}
    <2>1. CASE j = 0
      BY <1>1, <1>2, <2>1 DEF LeftData, LeftInv
    <2>2. CASE j # 0
      <3>1. PICK h \in Cols : h = j - 1
        BY <1>2, <2>2
      <3>2. cnt = k + i + h + 2
        BY <1>2, <3>1
      <3>3. pe[<<i, h>>].right = {Act(i, k)}
        BY <1>1, <3>2 DEF FlowInv
      <3>4. QED BY <2>2, <3>1, <3>3 DEF LeftData
    <2>3. QED BY <2>1, <2>2
  <1>4. UpData(i, j) = {Term(r, j, k) : r \in {q \in Active : q < i}}
    <2>1. CASE i = 0
      <3>1. UpData(i, j) = {}
        BY <1>1, <2>1 DEF UpData, TopInv
      <3>2. {q \in Active : q < i} = {}
        <4>1. \A q \in Active : ~(q < i)
          BY <1>1, <2>1, SlotRange
        <4>2. QED BY <4>1
      <3>3. QED BY <3>1, <3>2
    <2>2. CASE i # 0
      <3>1. PICK h \in Rows : h = i - 1
        BY <1>2, <2>2
      <3>2. UpData(i, j) = pe[<<h, j>>].down
        BY <2>2, <3>1 DEF UpData
      <3>3. CASE h \in Active
        <4>1. cnt = k + h + j + 2
          BY <1>2, <3>1
        <4>2. pe[<<h, j>>].down = PSum(h, j, k)
          BY <1>1, <3>3, <4>1 DEF FlowInv
        <4>3. \A q \in Active : q <= h <=> q < i
          BY <1>1, <1>2, <3>1, SlotRange
        <4>4. {q \in Active : q <= h} = {q \in Active : q < i}
          BY <4>3
        <4>5. QED BY <3>2, <4>2, <4>4 DEF PSum
      <3>4. CASE h \notin Active
        <4>1. pe[<<h, j>>].down = {}
          BY <1>1, <3>4 DEF HeldInv
        <4>2. Active = 1 .. 9 \/ Active = 0 .. 9
          BY DEF Active
        <4>3. \A q \in Active : ~(q < i)
          BY <1>2, <3>1, <3>4, <4>2
        <4>4. {q \in Active : q < i} = {}
          BY <4>3
        <4>5. QED BY <3>2, <4>1, <4>4
      <3>5. QED BY <3>3, <3>4
    <2>3. QED BY <2>1, <2>2
  <1>5. QED BY <1>3, <1>4

\* FlowInv is inductive.
LEMMA FlowStep ==
    ASSUME Dimensions, IInv, Marks, Counters, TopInv, HeldInv, EnableInv, LeftInv, FlowInv, ArrayNext
    PROVE  FlowInv'
  <1> SUFFICES ASSUME phase' = "CAL", NEW i \in Active', NEW j \in Cols, NEW k \in Slots',
                      cnt' = k + i + j + 2
               PROVE  pe'[<<i, j>>].right = {Act(i, k)'} /\ pe'[<<i, j>>].down = PSum(i, j, k)'
    BY DEF FlowInv
  <1>1. Pushing \/ Counting
    BY ControlStep DEF Waiting, Starting, Ending
  <1>2. Active' = Active /\ Slots' = Slots /\ layer \in Layers
    BY <1>1, BlockSteady, CountUp, CalStarts
  <1>3. i \in Active /\ k \in Slots /\ i \in Rows /\ k \in Nat /\ i \in 0 .. 9 /\ j \in 0 .. 4
        /\ k + i >= 1 /\ k + i + 1 <= LastIn /\ Active \subseteq Rows /\ Active \subseteq 0 .. 9
    BY <1>2, SlotRange, TenRows
  <1>4. Counting
    BY <1>1, <1>3, CalStarts
  <1>5. phase = "CAL" /\ cnt \in Nat /\ cnt = k + i + j + 1 /\ LastIn \in 11 .. 153
    BY <1>2, <1>3, <1>4, CountUp, LayerSpan
  <1>6. LeftEn(i, j)
    <2>1. 2 + j <= cnt /\ cnt <= LastIn + j
      BY <1>3, <1>5
    <2>2. QED BY <1>2, <1>3, <1>5, <2>1, Moving
  <1>7. /\ LeftData(i, j) = {Act(i, k)}
        /\ UpData(i, j) = {Term(r, j, k) : r \in {q \in Active : q < i}}
    BY <1>3, <1>4, <1>5, Arriving
  <1>8. pe[<<i, j>>].weight = {<<layer, Origin(j) + i>>}
    BY <1>3, <1>5 DEF HeldInv, Wt
  <1>9. pe'[<<i, j>>].right = LeftData(i, j)
        /\ pe'[<<i, j>>].down = Plus(Times(LeftData(i, j), pe[<<i, j>>].weight), UpData(i, j))
    BY <1>3, <1>6, Element
  <1>10. Origin(j) \in Int /\ Active \subseteq Int
    BY <1>3, <1>5, OriginInt DEF Computing
  <1>11. pe'[<<i, j>>].down = PSum(i, j, k)
    BY <1>3, <1>7, <1>8, <1>9, <1>10, SumStep
  <1>12. PSum(i, j, k)' = PSum(i, j, k)
    <2>1. \A r \in Active : Term(r, j, k)' = Term(r, j, k)
      BY <1>3, <1>4, TermSteady
    <2>2. PSum(i, j, k)' = {Term(r, j, k)' : r \in {q \in Active : q <= i}}
      BY <1>2 DEF PSum
    <2>3. QED BY <2>1, <2>2 DEF PSum
  <1>13. Act(i, k)' = Act(i, k)
    BY <1>3, <1>4, TermSteady
  <1>14. QED BY <1>7, <1>9, <1>11, <1>12, <1>13

-----------------------------------------------------------------------------
(* What leaves the array. *)

\* The last row of a column passes the whole sum of a slot to the results.
LEMMA Bottom ==
    ASSUME Dimensions, FlowInv, phase = "CAL", layer \in Layers,
           NEW j \in Cols, NEW k \in Slots, cnt = k + j + 11
    PROVE  DataDown(j) = PSum(9, j, k)
  <1>1. 9 \in Active /\ SaRows - 1 = 9
    BY SlotRange, LayerDims DEF Active
  <1>2. k \in Nat /\ j \in Nat
    BY SlotRange DEF Cols
  <1>3. cnt = k + 9 + j + 2
    BY <1>2
  <1>4. pe[<<9, j>>].down = PSum(9, j, k)
    BY <1>1, <1>3 DEF FlowInv
  <1>5. QED BY <1>1, <1>4 DEF DataDown

\* The products of a convolution are those of its window.
LEMMA ConvSum ==
    ASSUME Dimensions, IInv, Marks, Counters, Computing, NEW j \in Cols,
           NEW r \in Nat, NEW x \in Nat, NEW k \in Nat
    PROVE  /\ layer = "conv1" /\ (k \div 12) = r /\ (k % 12) = x => PSum(9, j, k) = RefConv1(j, r, x)
           /\ layer = "conv2" /\ (k \div 4) = r /\ (k % 4) = x => PSum(9, j, k) = RefConv2(j, cha, r, x)
  <1>1. \A op \in Weights : first[op] \in Int
    BY DEF IInv, TypeOK, CoreOK, Loads
  <1>2. j \in Int /\ (layer = "conv2" => cha \in Int)
    BY BlockTyping DEF Cols
  <1>3. ASSUME NEW q \in 1 .. 9
        PROVE  /\ <<((q - 1) \div 3), ((q - 1) % 3)>> \in Window
               /\ q - 1 = 3 * ((q - 1) \div 3) + ((q - 1) % 3)
    BY TapPosition DEF Window
  <1>4. ASSUME NEW w \in Window
        PROVE  /\ w[1] \in 0 .. 2 /\ w[2] \in 0 .. 2 /\ 3 * w[1] + w[2] + 1 \in 1 .. 9
               /\ ((3 * w[1] + w[2] + 1 - 1) \div 3) = w[1] /\ ((3 * w[1] + w[2] + 1 - 1) % 3) = w[2]
    <2>1. w[1] \in 0 .. 2 /\ w[2] \in 0 .. 2
      BY DEF Window
    <2>2. QED BY <2>1
  <1>5. ASSUME layer \in Convs PROVE PSum(9, j, k) = {Term(q, j, k) : q \in 1 .. 9}
    <2>1. {q \in Active : q <= 9} = 1 .. 9
      BY <1>5 DEF Active
    <2>2. QED BY <2>1 DEF PSum
  <1>6. ASSUME layer = "conv1", (k \div 12) = r, (k % 12) = x
        PROVE  PSum(9, j, k) = RefConv1(j, r, x)
    <2>1. first["conv1"] \in Int
      BY <1>1 DEF Weights
    <2> DEFINE T(a, b) == << <<"conv1", RefPool1(r + a, x + b)>>,
                             <<"conv1", first["conv1"] + 9 * j + 3 * a + b>> >>
    <2>2. ASSUME NEW q \in 1 .. 9, NEW a \in 0 .. 2, NEW b \in 0 .. 2,
                 ((q - 1) \div 3) = a, ((q - 1) % 3) = b
          PROVE  Term(q, j, k) = T(a, b)
      <3>1. q - 1 = 3 * a + b
        BY <1>3, <2>2
      <3>2. Origin(j) = first["conv1"] + 9 * j - 1
        BY <1>6 DEF Origin
      <3>3. Origin(j) + q = first["conv1"] + 9 * j + 3 * a + b
        BY <1>2, <2>1, <3>1, <3>2
      <3>4. Act(q, k) = <<"conv1", RefPool1(r + a, x + b)>>
        BY <1>6, <2>2 DEF Act
      <3>5. QED BY <1>6, <3>3, <3>4 DEF Term
    <2>3. RefConv1(j, r, x) = {T(w[1], w[2]) : w \in Window}
      BY DEF RefConv1
    <2> HIDE DEF T
    <2>4. ASSUME NEW q \in 1 .. 9 PROVE \E w \in Window : Term(q, j, k) = T(w[1], w[2])
      <3>1. PICK a \in 0 .. 2, b \in 0 .. 2 : a = ((q - 1) \div 3) /\ b = ((q - 1) % 3)
        BY TapPosition
      <3>2. <<a, b>> \in Window
        BY DEF Window
      <3>3. Term(q, j, k) = T(a, b)
        BY <2>2, <3>1
      <3>4. QED BY <3>2, <3>3
    <2>5. ASSUME NEW w \in Window PROVE \E q \in 1 .. 9 : T(w[1], w[2]) = Term(q, j, k)
      <3>1. PICK q \in 1 .. 9 : q = 3 * w[1] + w[2] + 1
        BY <1>4
      <3>2. ((q - 1) \div 3) = w[1] /\ ((q - 1) % 3) = w[2]
        BY <1>4, <3>1
      <3>3. QED BY <1>4, <2>2, <3>2
    <2>6. layer \in Convs
      BY <1>6 DEF Convs
    <2>7. QED BY <1>5, <2>3, <2>4, <2>5, <2>6
  <1>7. ASSUME layer = "conv2", (k \div 4) = r, (k % 4) = x
        PROVE  PSum(9, j, k) = RefConv2(j, cha, r, x)
    <2>1. first["conv2"] \in Int /\ cha \in Int
      BY <1>1, <1>2, <1>7 DEF Weights
    <2> DEFINE T(a, b) == << <<"conv2", RefPool2(cha, r + a, x + b)>>,
                             <<"conv2", first["conv2"] + 9 * (5 * j + cha) + 3 * a + b>> >>
    <2>2. ASSUME NEW q \in 1 .. 9, NEW a \in 0 .. 2, NEW b \in 0 .. 2,
                 ((q - 1) \div 3) = a, ((q - 1) % 3) = b
          PROVE  Term(q, j, k) = T(a, b)
      <3>1. q - 1 = 3 * a + b
        BY <1>3, <2>2
      <3>2. Origin(j) = first["conv2"] + 45 * j + 9 * cha - 1
        BY <1>7 DEF Origin
      <3>3. Origin(j) + q = first["conv2"] + 9 * (5 * j + cha) + 3 * a + b
        BY <1>2, <2>1, <3>1, <3>2
      <3>4. Act(q, k) = <<"conv2", RefPool2(cha, r + a, x + b)>>
        BY <1>7, <2>2 DEF Act
      <3>5. QED BY <1>7, <3>3, <3>4 DEF Term
    <2>3. RefConv2(j, cha, r, x) = {T(w[1], w[2]) : w \in Window}
      BY DEF RefConv2
    <2> HIDE DEF T
    <2>4. ASSUME NEW q \in 1 .. 9 PROVE \E w \in Window : Term(q, j, k) = T(w[1], w[2])
      <3>1. PICK a \in 0 .. 2, b \in 0 .. 2 : a = ((q - 1) \div 3) /\ b = ((q - 1) % 3)
        BY TapPosition
      <3>2. <<a, b>> \in Window
        BY DEF Window
      <3>3. Term(q, j, k) = T(a, b)
        BY <2>2, <3>1
      <3>4. QED BY <3>2, <3>3
    <2>5. ASSUME NEW w \in Window PROVE \E q \in 1 .. 9 : T(w[1], w[2]) = Term(q, j, k)
      <3>1. PICK q \in 1 .. 9 : q = 3 * w[1] + w[2] + 1
        BY <1>4
      <3>2. ((q - 1) \div 3) = w[1] /\ ((q - 1) % 3) = w[2]
        BY <1>4, <3>1
      <3>3. QED BY <1>4, <2>2, <3>2
    <2>6. layer \in Convs
      BY <1>7 DEF Convs
    <2>7. QED BY <1>5, <2>3, <2>4, <2>5, <2>6
  <1>8. QED BY <1>6, <1>7

\* The products of a fully connected block are those of half its inputs.
LEMMA FcSum ==
    ASSUME Dimensions, IInv, Marks, Counters, Computing, NEW j \in Cols
    PROVE  /\ layer = "fc1" => PSum(9, j, 1) = RefFc1(j + FirstOut, Half)
           /\ layer = "fc2" => PSum(9, j, 1) = RefFc2(j + FirstOut)
  <1>1. \A op \in Weights : first[op] \in Int
    BY DEF IInv, TypeOK, CoreOK, Loads
  <1>2. j \in Int /\ (layer \in {"fc1", "fc2"} => FirstOut \in Int) /\ Half \in {0, 1}
    BY BlockTyping DEF Cols
  <1>3. ASSUME layer \in {"fc1", "fc2"} PROVE PSum(9, j, 1) = {Term(q, j, 1) : q \in 0 .. 9}
    <2>1. {q \in Active : q <= 9} = 0 .. 9
      BY <1>3 DEF Active, Convs
    <2>2. QED BY <2>1 DEF PSum
  <1>4. ASSUME layer = "fc1" PROVE PSum(9, j, 1) = RefFc1(j + FirstOut, Half)
    <2>1. first["fc1"] \in Int /\ FirstOut \in Int
      BY <1>1, <1>2, <1>4 DEF Weights
    <2> DEFINE h == 10 * Half
               o == j + FirstOut
               T(a) == << <<"fc1", RefPool3(a)>>, <<"fc1", first["fc1"] + 20 * o + a>> >>
    <2>2. h \in Int
      BY <1>2
    <2>3. ASSUME NEW q \in 0 .. 9 PROVE Term(q, j, 1) = T(h + q)
      <3>1. Origin(j) + q = first["fc1"] + 20 * o + (h + q)
        <4>1. Origin(j) = first["fc1"] + 20 * (j + FirstOut) + 10 * Half
          BY <1>4 DEF Origin
        <4>2. QED BY <1>2, <2>1, <4>1
      <3>2. Act(q, 1) = <<"fc1", RefPool3(h + q)>>
        BY <1>4 DEF Act
      <3>3. QED BY <1>4, <3>1, <3>2 DEF Term
    <2>4. RefFc1(o, Half) = {T(a) : a \in h .. h + 9}
      BY DEF RefFc1
    <2> HIDE DEF T, h, o
    <2>5. ASSUME NEW a \in h .. h + 9 PROVE \E q \in 0 .. 9 : T(a) = T(h + q)
      <3>1. a - h \in 0 .. 9 /\ h + (a - h) = a
        BY <2>2
      <3>2. QED BY <3>1
    <2>6. \A q \in 0 .. 9 : h + q \in h .. h + 9
      BY <2>2
    <2>7. RefFc1(o, Half) = {T(h + q) : q \in 0 .. 9}
      BY <2>4, <2>5, <2>6
    <2>8. PSum(9, j, 1) = RefFc1(o, Half)
      BY <1>3, <1>4, <2>3, <2>7
    <2>9. QED BY <2>8 DEF o
  <1>5. ASSUME layer = "fc2" PROVE PSum(9, j, 1) = RefFc2(j + FirstOut)
    <2>1. ASSUME NEW q \in 0 .. 9
          PROVE  Term(q, j, 1) = << <<"fc2", {RefOutFc1(q)}>>,
                                    <<"fc2", first["fc2"] + 10 * (j + FirstOut) + q>> >>
      BY <1>5 DEF Term, Act, Origin
    <2>2. QED BY <1>3, <1>5, <2>1 DEF RefFc2
  <1>6. QED BY <1>4, <1>5

-----------------------------------------------------------------------------
(* The outputs of the convolutions. *)

\* A result is stored exactly at the position whose slot leaves the array.
LEMMA StorePlace ==
    ASSUME Dimensions, StoreInv, NEW l \in Convs, InCal(l), cnt \in Nat, NEW p \in Pixels(l)
    PROVE  Stores(l, p[1]) /\ At(l, p) <=> cnt = OutWidth[l] * p[2] + p[3] + p[1] + 11
  <1> DEFINE W == OutWidth[l]
             j == p[1]
             k == cnt - 11 - j
             row == store[l].row[j]
             col == store[l].col[j]
  <1>1. W \in {12, 4} /\ OutSize[l] = W * W
    BY DEF Convs, OutWidth, OutSize
  <1>2. j \in Cols /\ j \in 0 .. 4 /\ p[2] \in 0 .. W - 1 /\ p[3] \in 0 .. W - 1
    BY DEF Pixels, Cols
  <1>3. Walked(W, 1, j + 11, cnt, row, col)
    BY <1>2 DEF StoreInv, InCal, cnt
  <1>4. Stores(l, j) <=> cnt >= 11 /\ j < cnt - 10 /\ j >= cnt - (OutSize[l] + 10)
    BY DEF Stores
  <1>5. At(l, p) <=> p[2] = row /\ p[3] = col
    BY DEF At
  <1> HIDE DEF W, j, row, col
  <1>6. ASSUME cnt = W * p[2] + p[3] + j + 11
        PROVE  Stores(l, j) /\ At(l, p)
    <2>1. cnt = W * p[2] + p[3] + (j + 11)
      BY <1>1, <1>2, <1>6
    <2>2. row = 1 * p[2] /\ col = 1 * p[3]
      BY <1>2, <1>3, <2>1 DEF Walked
    <2>3. p[2] = row /\ p[3] = col
      BY <1>1, <1>2, <2>2
    <2>4. cnt >= 11 /\ j < cnt - 10 /\ j >= cnt - (OutSize[l] + 10)
      BY <1>1, <1>2, <1>6
    <2>5. QED BY <1>4, <1>5, <2>3, <2>4
  <1>7. ASSUME Stores(l, j), At(l, p)
        PROVE  cnt = W * p[2] + p[3] + j + 11
    <2>1. k \in 0 .. W * W - 1
      BY <1>1, <1>2, <1>4, <1>7
    <2>2. PICK r \in 0 .. W - 1, x \in 0 .. W - 1 : k = W * r + x
      BY <1>1, <2>1, Position
    <2>3. cnt = W * r + x + (j + 11)
      BY <1>1, <1>2, <2>2
    <2>4. row = 1 * r /\ col = 1 * x
      BY <1>3, <2>2, <2>3 DEF Walked
    <2>5. p[2] = r /\ p[3] = x
      BY <1>1, <1>5, <1>7, <2>4
    <2>6. QED BY <1>1, <1>2, <2>3, <2>5
  <1>8. QED BY <1>6, <1>7 DEF W, j

\* The slot of a position.
LEMMA Slot ==
    /\ \A r, x \in 0 .. 11 : ((12 * r + x) \div 12) = r /\ ((12 * r + x) % 12) = x
    /\ \A r, x \in 0 .. 3 : ((4 * r + x) \div 4) = r /\ ((4 * r + x) % 4) = x
  OBVIOUS

\* What leaves the array then is the sum the reference computes.
LEMMA ConvResult ==
    ASSUME Dimensions, IInv, Marks, Counters, FlowInv, phase = "CAL", layer \in Convs,
           NEW p \in Pixels(layer), cnt = OutWidth[layer] * p[2] + p[3] + p[1] + 11
    PROVE  /\ layer = "conv1" => DataDown(p[1]) = RefConv1(p[1], p[2], p[3])
           /\ layer = "conv2" => DataDown(p[1]) = RefConv2(p[1], cha, p[2], p[3])
  <1>1. p[1] \in Cols /\ p[1] \in Nat /\ layer \in Layers /\ Computing
    BY DEF Pixels, Cols, Convs, Layers, Weights, Computing
  <1>2. CASE layer = "conv1"
    <2>1. p[2] \in 0 .. 11 /\ p[3] \in 0 .. 11 /\ cnt = 12 * p[2] + p[3] + p[1] + 11
      BY <1>2 DEF Pixels, OutWidth
    <2>2. PICK k \in 0 .. 143 : k = 12 * p[2] + p[3]
      BY <2>1
    <2>3. (k \div 12) = p[2] /\ (k % 12) = p[3] /\ k \in Nat
      <3>1. PICK r \in 0 .. 11, x \in 0 .. 11 : r = p[2] /\ x = p[3]
        BY <2>1
      <3>2. k = 12 * r + x
        BY <2>2, <3>1
      <3>3. (k \div 12) = r /\ (k % 12) = x
        BY <3>2, Slot
      <3>4. k \in Nat
        OBVIOUS
      <3> DEFINE y == (k \div 12)
                 z == (k % 12)
      <3>5. y = r /\ z = x
        BY <3>3
      <3> HIDE DEF y, z
      <3>6. y = p[2] /\ z = p[3]
        BY <3>1, <3>5
      <3>7. QED BY <3>4, <3>6 DEF y, z
    <2>4. k \in Slots /\ cnt = k + p[1] + 11
      BY <1>1, <1>2, <2>1, <2>2, SlotRange
    <2>5. DataDown(p[1]) = PSum(9, p[1], k)
      BY <1>1, <2>4, Bottom
    <2>6. p[2] \in Nat /\ p[3] \in Nat
      BY <2>1
    <2>7. PSum(9, p[1], k) = RefConv1(p[1], p[2], p[3])
      BY <1>1, <1>2, <2>3, <2>6, ConvSum
    <2>8. QED BY <1>2, <2>5, <2>7
  <1>3. CASE layer = "conv2"
    <2>1. p[2] \in 0 .. 3 /\ p[3] \in 0 .. 3 /\ cnt = 4 * p[2] + p[3] + p[1] + 11
      BY <1>3 DEF Pixels, OutWidth
    <2>2. PICK k \in 0 .. 15 : k = 4 * p[2] + p[3]
      BY <2>1
    <2>3. (k \div 4) = p[2] /\ (k % 4) = p[3] /\ k \in Nat
      <3>1. PICK r \in 0 .. 3, x \in 0 .. 3 : r = p[2] /\ x = p[3]
        BY <2>1
      <3>2. k = 4 * r + x
        BY <2>2, <3>1
      <3>3. (k \div 4) = r /\ (k % 4) = x
        BY <3>2, Slot
      <3>4. k \in Nat
        OBVIOUS
      <3> DEFINE y == (k \div 4)
                 z == (k % 4)
      <3>5. y = r /\ z = x
        BY <3>3
      <3> HIDE DEF y, z
      <3>6. y = p[2] /\ z = p[3]
        BY <3>1, <3>5
      <3>7. QED BY <3>4, <3>6 DEF y, z
    <2>4. k \in Slots /\ cnt = k + p[1] + 11
      BY <1>1, <1>3, <2>1, <2>2, SlotRange
    <2>5. DataDown(p[1]) = PSum(9, p[1], k)
      BY <1>1, <2>4, Bottom
    <2>6. p[2] \in Nat /\ p[3] \in Nat
      BY <2>1
    <2>7. PSum(9, p[1], k) = RefConv2(p[1], cha, p[2], p[3])
      BY <1>1, <1>3, <2>3, <2>6, ConvSum
    <2>8. QED BY <1>3, <2>5, <2>7
  <1>4. QED BY <1>2, <1>3 DEF Convs

\* Out1Inv is inductive.
LEMMA Out1Step ==
    ASSUME Dimensions, IInv, Marks, Counters, FlowInv, StoreInv, Out1Inv, ArrayNext
    PROVE  Out1Inv'
  <1> SUFFICES ASSUME NEW p \in Pixels("conv1"),
                      \/ InCal("conv1")' /\ 12 * p[2] + p[3] < cnt' - 11 - p[1]
                      \/ Computing' /\ layer' \in {"conv2", "fc1", "fc2"}
               PROVE  conv1Out'[p] = Name1(p[1], p[2], p[3])'
    BY DEF Out1Inv
  <1>1. conv1Out'[p] = IF Stores("conv1", p[1]) /\ At("conv1", p)
                       THEN Named(DataDown(p[1]), RefConv1(p[1], p[2], p[3]), Name1(p[1], p[2], p[3]))
                       ELSE conv1Out[p]
    BY DEF ArrayNext, ArrayStep, Conv1Store
  <1>2. p[1] \in 0 .. 4 /\ p[2] \in 0 .. 11 /\ p[3] \in 0 .. 11
    BY DEF Pixels, Cols, OutWidth
  <1>3. Pushing \/ Counting \/ Ending
    BY ControlStep DEF Waiting, Starting, InCal, Computing
  <1>4. rs1' = rs1 /\ Name1(p[1], p[2], p[3])' = Name1(p[1], p[2], p[3])
    BY <1>3 DEF Pushing, Counting, Ending, Steady, Name1
  <1>5. CASE InCal("conv1")
    <2>1. phase = "CAL" /\ layer = "conv1" /\ layer \in Convs /\ "conv1" \in Convs
      BY <1>5 DEF InCal, Convs
    <2>2. (Counting \/ Ending) /\ cnt \in Nat
      BY <1>3, <2>1, Ranges DEF Pushing, cnt, Computing
    <2>3. cnt \in Nat /\ 12 * p[2] + p[3] <= cnt - 11 - p[1]
      <3>1. CASE Counting
        <4>1. layer' = "conv1" /\ cnt' = cnt + 1 /\ cnt \in Nat
          BY <2>1, <3>1, CountUp
        <4>2. 12 * p[2] + p[3] < cnt' - 11 - p[1]
          BY <4>1
        <4>3. QED BY <1>2, <4>1, <4>2
      <3>2. CASE Ending
        <4>1. cnt = 158
          BY <2>1, <3>2, EndingCases
        <4>2. QED BY <1>2, <4>1
      <3>3. QED BY <2>2, <3>1, <3>2
    <2>4. Stores("conv1", p[1]) /\ At("conv1", p) <=> cnt = OutWidth["conv1"] * p[2] + p[3] + p[1] + 11
      BY <1>5, <2>1, <2>3, StorePlace
    <2>5. OutWidth["conv1"] = 12
      BY DEF OutWidth
    <2>6. CASE cnt = 12 * p[2] + p[3] + p[1] + 11
      <3>1. DataDown(p[1]) = RefConv1(p[1], p[2], p[3])
        BY <2>1, <2>5, <2>6, ConvResult
      <3>2. QED BY <1>1, <1>4, <2>4, <2>5, <2>6, <3>1 DEF Named
    <2>7. CASE cnt # 12 * p[2] + p[3] + p[1] + 11
      <3>1. 12 * p[2] + p[3] < cnt - 11 - p[1]
        <4> DEFINE z == 12 * p[2] + p[3]
                   u == p[1]
        <4>1. z \in Int /\ u \in Int /\ cnt \in Int
          BY <1>2, <2>3
        <4>2. z <= cnt - 11 - u /\ cnt # z + u + 11
          BY <2>3, <2>7
        <4> HIDE DEF z, u
        <4>3. z < cnt - 11 - u
          BY <4>1, <4>2
        <4>4. QED BY <4>3 DEF z, u
      <3>2. conv1Out[p] = Name1(p[1], p[2], p[3])
        BY <1>5, <3>1 DEF Out1Inv
      <3>3. QED BY <1>1, <1>4, <2>4, <2>5, <2>7, <3>2
    <2>8. QED BY <2>6, <2>7
  <1>6. CASE ~InCal("conv1")
    <2>1. conv1Out'[p] = conv1Out[p]
      BY <1>1, <1>6 DEF Stores
    <2>2. Computing /\ layer \in {"conv2", "fc1", "fc2"}
      <3>1. CASE Pushing
        <4>1. cnt' = 0 /\ layer' = layer /\ Computing
          BY <3>1, CalStarts DEF Pushing, Computing
        <4>2. ~(12 * p[2] + p[3] < cnt' - 11 - p[1])
          BY <1>2, <4>1
        <4>3. QED BY <4>1, <4>2
      <3>2. CASE Counting
        BY <1>6, <3>2, CountUp DEF InCal, Computing
      <3>3. CASE Ending
        BY <1>6, <3>3, EndingCases DEF Ending, InCal, Computing
      <3>4. QED BY <1>3, <3>1, <3>2, <3>3
    <2>3. QED BY <1>4, <2>1, <2>2 DEF Out1Inv
  <1>7. QED BY <1>5, <1>6

\* The terms of an output of the second layer are all different.
LEMMA TermsDiffer ==
    ASSUME NEW n, NEW r, NEW x, NEW c \in Nat
    PROVE  /\ Name2(n, c, r, x) # <<"bias", n>>
           /\ <<"quant">> # <<"bias", n>>
           /\ \A in \in Nat : <<"quant">> # Name2(n, in, r, x)
           /\ \A in \in Nat : Name2(n, in, r, x) = Name2(n, c, r, x) => in = c
  <1>1. /\ \A in : Len(Name2(n, in, r, x)) = 5 /\ Name2(n, in, r, x)[3] = in
        /\ Len(<<"bias", n>>) = 2 /\ Len(<<"quant">>) = 1
    BY DEF Name2
  <1>2. QED BY <1>1

\* An output of the second layer gains one channel.
LEMMA SumUp ==
    ASSUME NEW p, NEW c \in 0 .. 4
    PROVE  Plus(Plus(Sum2(p, c), {Name2(p[1], c, p[2], p[3])}), IF c = 4 THEN {<<"quant">>} ELSE {})
             = Sum2(p, c + 1)
  <1> DEFINE name(in) == Name2(p[1], in, p[2], p[3])
             bias == <<"bias", p[1]>>
             quant == <<"quant">>
             old == {bias} \union {name(in) : in \in 0 .. c - 1}
  <1>1. /\ name(c) # bias /\ quant # bias
        /\ \A in \in Nat : quant # name(in)
        /\ \A in \in Nat : name(in) = name(c) => in = c
    BY TermsDiffer
  <1> HIDE DEF name, bias, quant
  <1>2. c # 5 /\ (c + 1 = 5 <=> c = 4)
    OBVIOUS
  <1>3. Sum2(p, c) = old
    BY <1>2 DEF Sum2, name, bias
  <1>4. c \notin 0 .. c - 1 /\ 0 .. c - 1 \subseteq Nat /\ c \in Nat
    OBVIOUS
  <1>5. name(c) \notin old /\ quant \notin old /\ quant # name(c)
    BY <1>1, <1>4
  <1>6. Plus(old, {name(c)}) = old \union {name(c)}
    BY <1>5 DEF Plus
  <1>7. 0 .. c + 1 - 1 = (0 .. c - 1) \union {c}
    OBVIOUS
  <1>8. {name(in) : in \in 0 .. c + 1 - 1} = {name(in) : in \in 0 .. c - 1} \union {name(c)}
    BY <1>7
  <1>9. Sum2(p, c + 1) = (old \union {name(c)}) \union (IF c = 4 THEN {quant} ELSE {})
    <2>1. Sum2(p, c + 1) = {bias} \union {name(in) : in \in 0 .. c + 1 - 1}
                           \union (IF c + 1 = 5 THEN {quant} ELSE {})
      BY DEF Sum2, name, bias, quant
    <2>2. QED BY <1>2, <1>8, <2>1
  <1> HIDE DEF old
  <1>10. Plus(old \union {name(c)}, IF c = 4 THEN {quant} ELSE {})
           = (old \union {name(c)}) \union (IF c = 4 THEN {quant} ELSE {})
    BY <1>5 DEF Plus
  <1>11. QED BY <1>3, <1>6, <1>9, <1>10 DEF name, quant

\* A sum is the same in the next state.
LEMMA Sum2Steady ==
    ASSUME rs1' = rs1, NEW p, NEW c, Channels(p)' = c
    PROVE  Sum2(p, Channels(p))' = Sum2(p, c)
  BY DEF Sum2, Name2

\* A pass of the second layer adds its channel to each output, in turn.
LEMMA ChannelAdded ==
    ASSUME Dimensions, IInv, Marks, Counters, FlowInv, StoreInv, Out2Inv, ArrayNext,
           InCal("conv2"), NEW p \in Pixels("conv2")
    PROVE  /\ cnt \in Nat /\ cha \in 0 .. 4
           /\ conv2Out'[p] = Sum2(p, IF 4 * p[2] + p[3] <= cnt - 11 - p[1] THEN cha + 1 ELSE cha)
  <1>1. phase = "CAL" /\ layer = "conv2" /\ layer \in Convs /\ Computing
    BY DEF InCal, Convs, Computing
  <1>2. cnt \in Nat /\ cha \in 0 .. 4 /\ OutWidth["conv2"] = 4
    BY <1>1, Ranges, BlockTyping DEF cnt, OutWidth
  <1>3. p[1] \in 0 .. 4 /\ p[2] \in 0 .. 3 /\ p[3] \in 0 .. 3
    BY DEF Pixels, Cols, OutWidth
  <1>4. conv2Out'[p] =
          IF Stores("conv2", p[1]) /\ At("conv2", p)
          THEN Plus(Plus(conv2Out[p], {Named(DataDown(p[1]), RefConv2(p[1], cha, p[2], p[3]),
                                             Name2(p[1], cha, p[2], p[3]))}),
                    IF cha = 4 THEN {<<"quant">>} ELSE {})
          ELSE conv2Out[p]
    <2>1. ~InCal("conv1")
      BY <1>1 DEF InCal
    <2>2. QED BY <2>1 DEF ArrayNext, ArrayStep, Conv2Store
  <1>5. Stores("conv2", p[1]) /\ At("conv2", p) <=> cnt = 4 * p[2] + p[3] + p[1] + 11
    BY <1>1, <1>2, StorePlace
  <1>6. conv2Out[p] = Sum2(p, Channels(p))
    BY <1>1 DEF Out2Inv, Begun
  <1>7. Channels(p) = IF 4 * p[2] + p[3] < cnt - 11 - p[1] THEN cha + 1 ELSE cha
    BY <1>1 DEF Channels
  <1>8. CASE cnt = 4 * p[2] + p[3] + p[1] + 11
    <2>1. DataDown(p[1]) = RefConv2(p[1], cha, p[2], p[3])
      BY <1>1, <1>2, <1>8, ConvResult
    <2>2. ~(4 * p[2] + p[3] < cnt - 11 - p[1]) /\ 4 * p[2] + p[3] <= cnt - 11 - p[1]
      BY <1>3, <1>8
    <2>3. conv2Out[p] = Sum2(p, cha)
      BY <1>6, <1>7, <2>2
    <2>4. conv2Out'[p] = Plus(Plus(Sum2(p, cha), {Name2(p[1], cha, p[2], p[3])}),
                              IF cha = 4 THEN {<<"quant">>} ELSE {})
      BY <1>4, <1>5, <1>8, <2>1, <2>3 DEF Named
    <2>5. conv2Out'[p] = Sum2(p, cha + 1)
      BY <1>2, <2>4, SumUp
    <2>6. QED BY <1>2, <2>2, <2>5
  <1>9. CASE cnt # 4 * p[2] + p[3] + p[1] + 11
    <2>1. 4 * p[2] + p[3] < cnt - 11 - p[1] <=> 4 * p[2] + p[3] <= cnt - 11 - p[1]
      BY <1>2, <1>3, <1>9
    <2>2. conv2Out'[p] = Sum2(p, Channels(p))
      BY <1>4, <1>5, <1>6, <1>9
    <2>3. Channels(p) = IF 4 * p[2] + p[3] <= cnt - 11 - p[1] THEN cha + 1 ELSE cha
      BY <1>7, <2>1
    <2>4. QED BY <1>2, <2>2, <2>3
  <1>10. QED BY <1>8, <1>9

\* Out2Inv is inductive.
LEMMA Out2Step ==
    ASSUME Dimensions, IInv, Marks, Counters, FlowInv, StoreInv, Out2Inv, ArrayNext
    PROVE  Out2Inv'
  <1> SUFFICES ASSUME Begun', NEW p \in Pixels("conv2")
               PROVE  conv2Out'[p] = Sum2(p, Channels(p))'
    BY DEF Out2Inv
  <1>1. Pushing \/ Counting \/ Ending
    BY ControlStep DEF Waiting, Starting, Begun, Computing
  <1>2. rs1' = rs1
    BY <1>1 DEF Pushing, Counting, Ending, Steady
  <1>3. p[1] \in 0 .. 4 /\ p[2] \in 0 .. 3 /\ p[3] \in 0 .. 3
    BY DEF Pixels, Cols, OutWidth
  <1>4. conv2Out' = [q \in Pixels("conv2") |->
          IF InCal("conv1") /\ cnt = 1 THEN {<<"bias", q[1]>>}
          ELSE IF Stores("conv2", q[1]) /\ At("conv2", q)
          THEN Plus(Plus(conv2Out[q], {Named(DataDown(q[1]), RefConv2(q[1], cha, q[2], q[3]),
                                             Name2(q[1], cha, q[2], q[3]))}),
                    IF cha = 4 THEN {<<"quant">>} ELSE {})
          ELSE conv2Out[q]]
    BY DEF ArrayNext, ArrayStep, Conv2Store
  <1>5. layer \in Layers
    BY <1>1, Ranges DEF Pushing, Counting, Ending, Computing
  <1>6. ASSUME ~InCal("conv2"), ~(InCal("conv1") /\ cnt = 1)
        PROVE  conv2Out'[p] = conv2Out[p]
    BY <1>4, <1>6 DEF Stores
  <1>7. CASE InCal("conv2")
    <2>1. phase = "CAL" /\ layer = "conv2"
      BY <1>7 DEF InCal
    <2>2. /\ cnt \in Nat /\ cha \in 0 .. 4
          /\ conv2Out'[p] = Sum2(p, IF 4 * p[2] + p[3] <= cnt - 11 - p[1] THEN cha + 1 ELSE cha)
      BY <1>7, ChannelAdded
    <2>3. CASE Counting
      <3>1. layer' = "conv2" /\ phase' = "CAL" /\ cnt' = cnt + 1 /\ cha' = cha
        BY <2>1, <2>3, CountUp, BlockSteady DEF cha
      <3>2. Channels(p)' = IF 4 * p[2] + p[3] < cnt' - 11 - p[1] THEN cha' + 1 ELSE cha'
        BY <3>1 DEF Channels
      <3>3. 4 * p[2] + p[3] < cnt' - 11 - p[1] <=> 4 * p[2] + p[3] <= cnt - 11 - p[1]
        BY <1>3, <2>2, <3>1
      <3>4. Channels(p)' = IF 4 * p[2] + p[3] <= cnt - 11 - p[1] THEN cha + 1 ELSE cha
        BY <3>1, <3>2, <3>3
      <3>5. QED BY <1>2, <2>2, <3>4, Sum2Steady
    <2>4. CASE Ending
      <3>1. /\ cnt = 30
            /\ \/ phase' = "MOVE" /\ layer' = "conv2" /\ cha' = cha + 1
               \/ layer' = "fc1" /\ cha = 4
        BY <2>1, <2>4, EndingCases DEF cha
      <3>2. 4 * p[2] + p[3] <= cnt - 11 - p[1]
        BY <1>3, <3>1
      <3>3. conv2Out'[p] = Sum2(p, cha + 1)
        BY <2>2, <3>2
      <3>4. Channels(p)' = cha + 1
        BY <3>1 DEF Channels
      <3>5. QED BY <1>2, <3>3, <3>4, Sum2Steady
    <2>5. QED BY <1>1, <2>1, <2>3, <2>4 DEF Pushing
  <1>8. CASE InCal("conv1") /\ cnt = 1
    <2>1. phase = "CAL" /\ layer = "conv1"
      BY <1>8 DEF InCal
    <2>2. Counting
      BY <1>1, <1>8, <2>1, EndingCases DEF Pushing
    <2>3. layer' = "conv1"
      BY <2>1, <2>2, CountUp
    <2>4. Channels(p)' = 0
      BY <2>3 DEF Channels
    <2>5. conv2Out'[p] = {<<"bias", p[1]>>}
      BY <1>4, <1>8
    <2>6. Sum2(p, 0) = {<<"bias", p[1]>>}
      <3>1. 0 .. 0 - 1 = {} /\ 0 # 5
        OBVIOUS
      <3>2. QED BY <3>1 DEF Sum2
    <2>7. QED BY <1>2, <2>4, <2>5, <2>6, Sum2Steady
  <1>9. CASE ~InCal("conv2") /\ ~(InCal("conv1") /\ cnt = 1)
    <2>1. Begun /\ Channels(p)' = Channels(p)
      <3>1. CASE Pushing
        <4>1. phase = "MOVE" /\ layer' = layer /\ cnt' = 0 /\ cha' = cha
          BY <3>1, CalStarts DEF Pushing, cha
        <4>2. layer # "conv1"
          BY <4>1 DEF Begun
        <4>3. ~(4 * p[2] + p[3] < cnt' - 11 - p[1])
          BY <1>3, <4>1
        <4>4. QED BY <4>1, <4>2, <4>3 DEF Begun, Computing, Channels
      <3>2. CASE Counting
        <4>1. phase = "CAL" /\ layer' = layer /\ cnt' = cnt + 1 /\ cnt \in Nat
          BY <3>2, CountUp
        <4>2. layer # "conv2"
          BY <1>9, <4>1 DEF InCal
        <4>3. layer = "conv1" => cnt >= 2
          <5>1. layer = "conv1" => cnt' >= 2 /\ cnt # 1
            BY <1>9, <4>1 DEF Begun, InCal
          <5>2. QED BY <4>1, <5>1
        <4>4. QED BY <4>1, <4>2, <4>3 DEF Begun, Computing, Channels
      <3>3. CASE Ending
        <4>1. phase = "CAL" /\ layer # "conv2"
          BY <1>9, <3>3 DEF Ending, InCal
        <4>2. phase' = "MOVE"
          BY <3>3, EndingCases DEF Begun, Computing
        <4>3. \/ layer = "conv1" /\ cnt = 158 /\ layer' = "conv2" /\ cha' = 0
              \/ layer \in {"fc1", "fc2"} /\ layer' \in {"fc1", "fc2"}
          BY <3>3, <4>1, <4>2, EndingCases DEF cha
        <4>4. QED BY <4>1, <4>2, <4>3 DEF Begun, Computing, Channels
      <3>4. QED BY <1>1, <3>1, <3>2, <3>3
    <2>2. conv2Out'[p] = Sum2(p, Channels(p))
      BY <1>6, <1>9, <2>1 DEF Out2Inv
    <2>3. QED BY <1>2, <2>1, <2>2, Sum2Steady
  <1>10. QED BY <1>7, <1>8, <1>9

-----------------------------------------------------------------------------
(* The outputs of the fully connected layers. *)

\* What leaves column cnt - 12 in cycles 12 to 16 is an output of the block.
LEMMA FcResult ==
    ASSUME Dimensions, IInv, Marks, Counters, FlowInv, phase = "CAL", cnt \in 12 .. 16
    PROVE  /\ layer = "fc1" => DataDown(cnt - 12) = RefFc1(cnt - 12 + FirstOut, Half)
           /\ layer = "fc2" => DataDown(cnt - 12) = RefFc2(cnt - 12 + FirstOut)
  <1>1. PICK j \in Cols : j = cnt - 12
    BY DEF Cols
  <1>2. layer \in Layers /\ Computing
    BY Ranges DEF Computing
  <1>3. ASSUME layer \in {"fc1", "fc2"} PROVE DataDown(j) = PSum(9, j, 1)
    <2>1. 1 \in Slots
      BY <1>2, <1>3, SlotRange
    <2>2. cnt = 1 + j + 11
      BY <1>1 DEF Cols
    <2>3. QED BY <1>2, <2>1, <2>2, Bottom
  <1>4. layer = "fc1" => DataDown(j) = RefFc1(j + FirstOut, Half)
    BY <1>2, <1>3, FcSum
  <1>5. layer = "fc2" => DataDown(j) = RefFc2(j + FirstOut)
    BY <1>2, <1>3, FcSum
  <1>6. QED BY <1>1, <1>4, <1>5

\* An output of the hidden layer gains one half of its inputs.
LEMMA HalfUp ==
    ASSUME NEW o, NEW h \in 0 .. 1
    PROVE  Plus(Plus(SumFc1(o, h), {NameFc1(o, h)}), IF h = 1 THEN {<<"quant">>} ELSE {})
             = SumFc1(o, h + 1)
  <1> DEFINE name(i) == NameFc1(o, i)
             bias == <<"bias", o>>
             quant == <<"quant">>
  <1>1. /\ \A i : Len(name(i)) = 3 /\ name(i)[3] = i
        /\ Len(bias) = 2 /\ Len(quant) = 1
    BY DEF NameFc1
  <1>2. \A i : name(i) # bias /\ name(i) # quant /\ bias # quant
    BY <1>1
  <1>3. name(0) # name(1)
    BY <1>1
  <1> HIDE DEF name, bias, quant
  <1>4. 0 .. 0 - 1 = {} /\ 0 .. 1 - 1 = {0} /\ 0 .. 2 - 1 = {0, 1} /\ 1 + 1 = 2 /\ 0 + 1 = 1
    OBVIOUS
  <1>5. \A k : SumFc1(o, k) = {bias} \union {name(i) : i \in 0 .. k - 1}
                             \union (IF k = 2 THEN {quant} ELSE {})
    BY DEF SumFc1, name, bias, quant
  <1>6. SumFc1(o, 0) = {bias} /\ SumFc1(o, 1) = {bias, name(0)} /\ SumFc1(o, 2) = {bias, name(0), name(1), quant}
    <2>1. {name(i) : i \in 0 .. 0 - 1} = {} /\ {name(i) : i \in 0 .. 1 - 1} = {name(0)}
          /\ {name(i) : i \in 0 .. 2 - 1} = {name(0), name(1)}
      BY <1>4
    <2>2. SumFc1(o, 0) = {bias}
      BY <1>5, <2>1
    <2>3. SumFc1(o, 1) = {bias, name(0)}
      BY <1>5, <2>1
    <2>4. SumFc1(o, 2) = {bias, name(0), name(1), quant}
      BY <1>5, <2>1
    <2>5. QED BY <2>2, <2>3, <2>4
  <1>7. CASE h = 0
    <2>1. Plus({bias}, {name(0)}) = {bias, name(0)}
      BY <1>2 DEF Plus
    <2>2. Plus({bias, name(0)}, {}) = {bias, name(0)}
      BY DEF Plus
    <2>3. QED BY <1>4, <1>6, <1>7, <2>1, <2>2 DEF name, quant
  <1>8. CASE h = 1
    <2>1. Plus({bias, name(0)}, {name(1)}) = {bias, name(0), name(1)}
      BY <1>2, <1>3 DEF Plus
    <2>2. Plus({bias, name(0), name(1)}, {quant}) = {bias, name(0), name(1), quant}
      BY <1>2 DEF Plus
    <2>3. QED BY <1>4, <1>6, <1>8, <2>1, <2>2 DEF name, quant
  <1>9. QED BY <1>7, <1>8

\* A sum is the same in the next state.
LEMMA SumFc1Steady ==
    ASSUME rs1' = rs1, NEW o, NEW k, Halves(o)' = k
    PROVE  SumFc1(o, Halves(o))' = SumFc1(o, k)
  BY DEF SumFc1, NameFc1

\* The outputs of the hidden layer keep their positions.
LEMMA FcShapeStep ==
    ASSUME FcShape, ArrayNext
    PROVE  FcShape'
  BY DEF FcShape, ArrayNext, ArrayStep, Fc1Store

\* A block of the hidden layer adds its half to each of its outputs, in turn.
LEMMA HalfAdded ==
    ASSUME Dimensions, IInv, Marks, Counters, FlowInv, FcShape, OutFc1Inv, ArrayNext,
           InCal("fc1"), NEW o \in 0 .. 9
    PROVE  /\ cnt \in Nat /\ FirstOut \in {0, 5} /\ Half \in {0, 1}
           /\ fc1Out'[o] = SumFc1(o, IF o \in FirstOut .. FirstOut + 4
                                     THEN IF o - FirstOut <= cnt - 12 THEN Half + 1 ELSE Half
                                     ELSE IF o < 5 THEN 2 ELSE 0)
  <1>1. phase = "CAL" /\ layer = "fc1" /\ Computing
    BY DEF InCal, Computing
  <1>2. cnt \in 0 .. 16 /\ FirstOut \in {0, 5} /\ Half \in {0, 1} /\ block["fc1"] \in 0 .. 3
    BY <1>1, Ranges, BlockTyping, LayerDims DEF cnt, Layers, Weights
  <1>3. fc1Out[o] = SumFc1(o, Halves(o))
    BY <1>1 DEF OutFc1Inv, Begun
  <1>4. Halves(o) = IF o \in FirstOut .. FirstOut + 4
                    THEN IF o - FirstOut < cnt - 12 THEN Half + 1 ELSE Half
                    ELSE IF o < 5 THEN 2 ELSE 0
    BY <1>1 DEF Halves, Convs
  <1>5. /\ (IF block["fc1"] <= 1 THEN 0 ELSE 5) = FirstOut
        /\ (block["fc1"] % 2) = Half
        /\ block["fc1"] \in {1, 3} <=> Half = 1
    BY <1>1, <1>2 DEF FirstOut, Half
  <1>6. CASE cnt \in 12 .. 16 /\ o = cnt - 12 + FirstOut
    <2> DEFINE value == Plus(Plus(fc1Out[o], {Named(DataDown(cnt - 12), RefFc1(o, Half), NameFc1(o, Half))}),
                             IF Half = 1 THEN {<<"quant">>} ELSE {})
    <2>1. fc1Out'[o] = value
      <3>1. fc1Out' = [fc1Out EXCEPT ![o] =
                Plus(Plus(@, {Named(DataDown(cnt - 12), RefFc1(o, block["fc1"] % 2),
                                    NameFc1(o, block["fc1"] % 2))}),
                     IF block["fc1"] \in {1, 3} THEN {<<"quant">>} ELSE {})]
        <4>1. ~InCal("conv1")
          BY <1>1 DEF InCal
        <4>2. cnt - 12 + (IF block["fc1"] <= 1 THEN 0 ELSE 5) = o
          BY <1>5, <1>6
        <4>3. QED BY <1>6, <4>1, <4>2 DEF ArrayNext, ArrayStep, Fc1Store
      <3>2. fc1Out' = [fc1Out EXCEPT ![o] = value]
        BY <1>5, <3>1
      <3> HIDE DEF value
      <3>3. QED BY <3>2 DEF FcShape
    <2>2. DataDown(cnt - 12) = RefFc1(o, Half)
      BY <1>1, <1>6, FcResult
    <2>3. o \in FirstOut .. FirstOut + 4 /\ ~(o - FirstOut < cnt - 12) /\ o - FirstOut <= cnt - 12
      BY <1>2, <1>6
    <2>4. fc1Out[o] = SumFc1(o, Half)
      BY <1>3, <1>4, <2>3
    <2>5. value = SumFc1(o, Half + 1)
      <3>1. value = Plus(Plus(SumFc1(o, Half), {NameFc1(o, Half)}), IF Half = 1 THEN {<<"quant">>} ELSE {})
        BY <2>2, <2>4 DEF Named
      <3>2. Half \in 0 .. 1
        BY <1>2
      <3> HIDE DEF value
      <3>3. QED BY <3>1, <3>2, HalfUp
    <2>6. QED BY <1>2, <2>1, <2>3, <2>5
  <1>7. CASE ~(cnt \in 12 .. 16 /\ o = cnt - 12 + FirstOut)
    <2>1. fc1Out'[o] = fc1Out[o]
      <3>1. CASE cnt \in 12 .. 16
        <4> DEFINE a == cnt - 12 + FirstOut
                   v == Plus(Plus(fc1Out[a], {Named(DataDown(cnt - 12), RefFc1(a, block["fc1"] % 2),
                                                    NameFc1(a, block["fc1"] % 2))}),
                             IF block["fc1"] \in {1, 3} THEN {<<"quant">>} ELSE {})
        <4>1. ~InCal("conv1")
          BY <1>1 DEF InCal
        <4>2. fc1Out' = [fc1Out EXCEPT ![a] = v]
          BY <1>5, <3>1, <4>1 DEF ArrayNext, ArrayStep, Fc1Store
        <4>3. o # a
          BY <1>7, <3>1
        <4> HIDE DEF a, v
        <4>4. QED BY <4>2, <4>3 DEF FcShape
      <3>2. CASE cnt \notin 12 .. 16
        <4>1. ~InCal("conv1")
          BY <1>1 DEF InCal
        <4>2. fc1Out' = fc1Out
          BY <3>2, <4>1 DEF ArrayNext, ArrayStep, Fc1Store
        <4>3. QED BY <4>2
      <3>3. QED BY <3>1, <3>2
    <2>2. o \in FirstOut .. FirstOut + 4 => (o - FirstOut < cnt - 12 <=> o - FirstOut <= cnt - 12)
      BY <1>2, <1>7
    <2>3. Halves(o) = IF o \in FirstOut .. FirstOut + 4
                      THEN IF o - FirstOut <= cnt - 12 THEN Half + 1 ELSE Half
                      ELSE IF o < 5 THEN 2 ELSE 0
      BY <1>4, <2>2
    <2>4. QED BY <1>2, <1>3, <2>1, <2>3
  <1>8. QED BY <1>6, <1>7

\* OutFc1Inv is inductive.
LEMMA OutFc1Step ==
    ASSUME Dimensions, IInv, Marks, Counters, FlowInv, FcShape, OutFc1Inv, ArrayNext
    PROVE  OutFc1Inv'
  <1> SUFFICES ASSUME Begun', NEW o \in 0 .. 9
               PROVE  fc1Out'[o] = SumFc1(o, Halves(o))'
    BY DEF OutFc1Inv
  <1>1. Pushing \/ Counting \/ Ending
    BY ControlStep DEF Waiting, Starting, Begun, Computing
  <1>2. rs1' = rs1
    BY <1>1 DEF Pushing, Counting, Ending, Steady
  <1>3. layer \in Layers
    BY <1>1, Ranges DEF Pushing, Counting, Ending, Computing
  <1>4. ASSUME ~InCal("fc1"), ~(InCal("conv1") /\ cnt = 1)
        PROVE  fc1Out' = fc1Out
    BY <1>4 DEF ArrayNext, ArrayStep, Fc1Store
  <1>5. CASE InCal("fc1")
    <2>1. phase = "CAL" /\ layer = "fc1"
      BY <1>5 DEF InCal
    <2>2. /\ cnt \in Nat /\ FirstOut \in {0, 5} /\ Half \in {0, 1}
          /\ fc1Out'[o] = SumFc1(o, IF o \in FirstOut .. FirstOut + 4
                                    THEN IF o - FirstOut <= cnt - 12 THEN Half + 1 ELSE Half
                                    ELSE IF o < 5 THEN 2 ELSE 0)
      BY <1>5, HalfAdded
    <2>3. CASE Counting
      <3>1. layer' = "fc1" /\ phase' = "CAL" /\ cnt' = cnt + 1 /\ FirstOut' = FirstOut /\ Half' = Half
        BY <2>1, <2>3, CountUp, BlockSteady
      <3>2. Halves(o)' = IF o \in FirstOut' .. FirstOut' + 4
                         THEN IF o - FirstOut' < cnt' - 12 THEN Half' + 1 ELSE Half'
                         ELSE IF o < 5 THEN 2 ELSE 0
        BY <3>1 DEF Halves, Convs
      <3>3. o - FirstOut' < cnt' - 12 <=> o - FirstOut <= cnt - 12
        BY <2>2, <3>1
      <3>4. Halves(o)' = IF o \in FirstOut .. FirstOut + 4
                         THEN IF o - FirstOut <= cnt - 12 THEN Half + 1 ELSE Half
                         ELSE IF o < 5 THEN 2 ELSE 0
        BY <3>1, <3>2, <3>3
      <3>5. QED BY <1>2, <2>2, <3>4, SumFc1Steady
    <2>4. CASE Ending
      <3>1. cnt = 16 /\ block["fc1"] \in 0 .. 3
        BY <2>1, <2>4, EndingCases, Ranges, LayerDims DEF Layers, Weights
      <3>2. o \in FirstOut .. FirstOut + 4 => o - FirstOut <= cnt - 12
        BY <2>2, <3>1
      <3>3. fc1Out'[o] = SumFc1(o, IF o \in FirstOut .. FirstOut + 4 THEN Half + 1
                                   ELSE IF o < 5 THEN 2 ELSE 0)
        BY <2>2, <3>2
      <3>4. /\ FirstOut = IF block["fc1"] <= 1 THEN 0 ELSE 5
            /\ Half = IF block["fc1"] \in {1, 3} THEN 1 ELSE 0
        BY <2>1 DEF FirstOut, Half
      <3>5. \/ /\ block["fc1"] < 3 /\ phase' = "MOVE" /\ layer' = "fc1"
               /\ block'["fc1"] = block["fc1"] + 1
            \/ block["fc1"] = 3 /\ phase' = "MOVE" /\ layer' = "fc2"
        BY <2>1, <2>4, EndingCases
      <3>6. CASE block["fc1"] = 3 /\ layer' = "fc2"
        <4>1. Halves(o)' = 2
          BY <3>6 DEF Halves, Convs
        <4>2. fc1Out'[o] = SumFc1(o, 2)
          BY <3>3, <3>4, <3>6
        <4>3. QED BY <1>2, <4>1, <4>2, SumFc1Steady
      <3>7. CASE block["fc1"] < 3 /\ phase' = "MOVE" /\ layer' = "fc1" /\ block'["fc1"] = block["fc1"] + 1
        <4>1. /\ FirstOut' = IF block["fc1"] + 1 <= 1 THEN 0 ELSE 5
              /\ Half' = IF block["fc1"] + 1 \in {1, 3} THEN 1 ELSE 0
          BY <3>7 DEF FirstOut, Half
        <4>2. Halves(o)' = IF o \in FirstOut' .. FirstOut' + 4 THEN Half'
                           ELSE IF o < 5 THEN 2 ELSE 0
          BY <3>7 DEF Halves, Convs
        <4>3. block["fc1"] \in {0, 1, 2}
          BY <3>1, <3>7
        <4>4. Halves(o)' = IF o \in FirstOut .. FirstOut + 4 THEN Half + 1
                           ELSE IF o < 5 THEN 2 ELSE 0
          <5>1. CASE block["fc1"] = 0
            BY <3>4, <4>1, <4>2, <5>1
          <5>2. CASE block["fc1"] = 1
            BY <3>4, <4>1, <4>2, <5>2
          <5>3. CASE block["fc1"] = 2
            BY <3>4, <4>1, <4>2, <5>3
          <5>4. QED BY <4>3, <5>1, <5>2, <5>3
        <4>5. QED BY <1>2, <3>3, <4>4, SumFc1Steady
      <3>8. QED BY <3>5, <3>6, <3>7
    <2>5. QED BY <1>1, <2>1, <2>3, <2>4 DEF Pushing
  <1>6. CASE InCal("conv1") /\ cnt = 1
    <2>1. phase = "CAL" /\ layer = "conv1"
      BY <1>6 DEF InCal
    <2>2. Counting
      BY <1>1, <1>6, <2>1, EndingCases DEF Pushing
    <2>3. layer' = "conv1"
      BY <2>1, <2>2, CountUp
    <2>4. Halves(o)' = 0
      BY <2>3 DEF Halves, Convs
    <2>5. fc1Out' = [k \in 0 .. 9 |-> {<<"bias", k>>}]
      BY <1>6 DEF ArrayNext, ArrayStep, Fc1Store
    <2>6. SumFc1(o, 0) = {<<"bias", o>>}
      <3>1. 0 .. 0 - 1 = {} /\ 0 # 2
        OBVIOUS
      <3>2. QED BY <3>1 DEF SumFc1
    <2>7. QED BY <1>2, <2>4, <2>5, <2>6, SumFc1Steady
  <1>7. CASE ~InCal("fc1") /\ ~(InCal("conv1") /\ cnt = 1)
    <2>1. Begun /\ Halves(o)' = Halves(o)
      <3>1. CASE Pushing
        <4>1. phase = "MOVE" /\ layer' = layer /\ cnt' = 0 /\ FirstOut' = FirstOut /\ Half' = Half
          BY <3>1, CalStarts, BlockSteady DEF Pushing
        <4>2. layer # "conv1"
          BY <4>1 DEF Begun
        <4>3. layer = "fc1" => FirstOut \in {0, 5}
          BY <4>1, BlockTyping DEF Computing
        <4>4. layer = "fc1" /\ o \in FirstOut .. FirstOut + 4 => ~(o - FirstOut < cnt' - 12)
          BY <4>1, <4>3
        <4>5. QED BY <4>1, <4>2, <4>4 DEF Begun, Computing, Halves
      <3>2. CASE Counting
        <4>1. phase = "CAL" /\ layer' = layer /\ cnt' = cnt + 1 /\ cnt \in Nat
          BY <3>2, CountUp
        <4>2. layer # "fc1"
          BY <1>7, <4>1 DEF InCal
        <4>3. layer = "conv1" => cnt >= 2
          <5>1. layer = "conv1" => cnt' >= 2 /\ cnt # 1
            BY <1>7, <4>1 DEF Begun, InCal
          <5>2. QED BY <4>1, <5>1
        <4>4. QED BY <4>1, <4>2, <4>3 DEF Begun, Computing, Halves
      <3>3. CASE Ending
        <4>1. phase = "CAL" /\ layer # "fc1"
          BY <1>7, <3>3 DEF Ending, InCal
        <4>2. phase' = "MOVE"
          BY <3>3, EndingCases DEF Begun, Computing
        <4>3. \/ layer = "conv1" /\ cnt = 158 /\ layer' = "conv2"
              \/ layer = "conv2" /\ layer' = "conv2"
              \/ layer = "conv2" /\ layer' = "fc1" /\ block'["fc1"] = 0
              \/ layer = "fc2" /\ layer' = "fc2"
          BY <3>3, <4>1, <4>2, EndingCases
        <4>4. CASE layer' # "fc1"
          BY <4>1, <4>2, <4>3, <4>4 DEF Begun, Computing, Halves, Convs
        <4>5. CASE layer' = "fc1"
          <5>1. layer = "conv2" /\ FirstOut' = 0 /\ Half' = 0
            BY <4>3, <4>5 DEF FirstOut, Half
          <5>2. Halves(o) = 0
            BY <5>1 DEF Halves, Convs
          <5>3. Halves(o)' = IF o \in FirstOut' .. FirstOut' + 4 THEN Half'
                             ELSE IF o < 5 THEN 2 ELSE 0
            BY <4>2, <4>5 DEF Halves, Convs
          <5>4. Halves(o)' = 0
            BY <5>1, <5>3
          <5>5. QED BY <4>1, <5>1, <5>2, <5>4 DEF Begun, Computing
        <4>6. QED BY <4>4, <4>5
      <3>4. QED BY <1>1, <3>1, <3>2, <3>3
    <2>2. fc1Out'[o] = SumFc1(o, Halves(o))
      BY <1>4, <1>7, <2>1 DEF OutFc1Inv
    <2>3. QED BY <1>2, <2>1, <2>2, SumFc1Steady
  <1>8. QED BY <1>5, <1>6, <1>7

\* An answer with one more comparison.
LEMMA AnswerUp ==
    /\ Answer(0) = << >>
    /\ \A k \in Nat : Append(Answer(k), <<NameFc2(k), k>>) = Answer(k + 1)
  <1> DEFINE f(o) == <<NameFc2(o - 1), o - 1>>
             S == {f(o) : o \in Nat}
  <1>1. ASSUME NEW k \in Nat
        PROVE  Answer(k) \in Seq(S) /\ Len(Answer(k)) = k /\ \A o \in 1 .. k : Answer(k)[o] = f(o)
    <2>1. Answer(k) = [o \in 1 .. k |-> f(o)]
      BY DEF Answer
    <2> HIDE DEF f
    <2>2. \A o \in 1 .. k : f(o) \in S
      OBVIOUS
    <2> HIDE DEF S
    <2>3. Answer(k) \in Seq(S)
      BY <2>1, <2>2, IsASeq
    <2>4. Len(Answer(k)) = k
      <3>1. DOMAIN Answer(k) = 1 .. k /\ DOMAIN Answer(k) = 1 .. Len(Answer(k)) /\ Len(Answer(k)) \in Nat
        BY <2>1, <2>3, LenProperties
      <3>2. QED BY <3>1
    <2>5. QED BY <2>1, <2>3, <2>4
  <1>2. Answer(0) = << >>
    <2>1. Len(Answer(0)) = 0 /\ Answer(0) \in Seq(S)
      BY <1>1
    <2> HIDE DEF S
    <2>2. QED BY <2>1, EmptySeq
  <1>3. ASSUME NEW k \in Nat PROVE Append(Answer(k), <<NameFc2(k), k>>) = Answer(k + 1)
    <2>1. <<NameFc2(k), k>> = f(k + 1)
      BY DEF NameFc2
    <2>2. f(k + 1) \in S
      OBVIOUS
    <2> HIDE DEF f, S
    <2> DEFINE s == Append(Answer(k), f(k + 1))
    <2>3. /\ Answer(k) \in Seq(S) /\ Len(Answer(k)) = k /\ \A o \in 1 .. k : Answer(k)[o] = f(o)
          /\ Answer(k + 1) \in Seq(S) /\ Len(Answer(k + 1)) = k + 1
          /\ \A o \in 1 .. k + 1 : Answer(k + 1)[o] = f(o)
      BY <1>1
    <2>4. /\ s \in Seq(S) /\ Len(s) = k + 1
          /\ \A o \in 1 .. k : s[o] = f(o)
          /\ s[k + 1] = f(k + 1)
      BY <2>2, <2>3, AppendProperties
    <2> HIDE DEF s
    <2>5. \A o \in 1 .. k + 1 : s[o] = Answer(k + 1)[o]
      <3>1. \A o \in 1 .. k + 1 : o \in 1 .. k \/ o = k + 1
        OBVIOUS
      <3>2. QED BY <2>3, <2>4, <3>1
    <2>6. s = Answer(k + 1)
      BY <2>3, <2>4, <2>5, SeqEqual
    <2>7. QED BY <2>1, <2>6 DEF s
  <1>4. QED BY <1>2, <1>3

\* An answer is the same in the next state.
LEMMA AnswerSteady ==
    ASSUME rs1' = rs1, NEW k, Compared' = k
    PROVE  Answer(Compared)' = Answer(k)
  BY DEF Answer, NameFc2

\* ResultInv is inductive.
LEMMA ResultStep ==
    ASSUME Dimensions, IInv, Marks, Counters, FlowInv, ResultInv, ArrayNext
    PROVE  ResultInv'
  <1> SUFFICES ASSUME Begun'
               PROVE  result' = Answer(Compared)'
    BY DEF ResultInv
  <1>1. Pushing \/ Counting \/ Ending
    BY ControlStep DEF Waiting, Starting, Begun, Computing
  <1>2. rs1' = rs1
    BY <1>1 DEF Pushing, Counting, Ending, Steady
  <1>3. layer \in Layers
    BY <1>1, Ranges DEF Pushing, Counting, Ending, Computing
  <1>4. ASSUME ~(InCal("fc2") /\ cnt \in 12 .. 16), ~(InCal("conv1") /\ cnt = 1)
        PROVE  result' = result
    BY <1>4 DEF ArrayNext, ArrayStep, ResultStore
  <1>5. CASE InCal("fc2") /\ cnt \in 12 .. 16
    <2>1. phase = "CAL" /\ layer = "fc2" /\ cnt \in 12 .. 16 /\ Computing
      BY <1>5 DEF InCal, Computing
    <2>2. FirstOut \in {0, 5} /\ FirstOut = IF block["fc2"] = 0 THEN 0 ELSE 5
      <3>1. block["fc2"] \in Nat
        BY Ranges DEF Layers, Weights
      <3>2. QED BY <2>1, <3>1 DEF FirstOut
    <2> DEFINE o == cnt - 12 + FirstOut
    <2>3. result' = Append(result, <<Named(DataDown(cnt - 12), RefFc2(o), NameFc2(o)), o>>)
      <3>1. ~InCal("conv1")
        BY <2>1 DEF InCal
      <3>2. QED BY <1>5, <2>2, <3>1 DEF ArrayNext, ArrayStep, ResultStore
    <2>4. DataDown(cnt - 12) = RefFc2(o)
      BY <2>1, FcResult
    <2>5. Compared = o /\ o \in Nat
      BY <2>1, <2>2 DEF Compared
    <2>6. result = Answer(o)
      BY <2>1, <2>5 DEF ResultInv, Begun
    <2>7. result' = Append(Answer(o), <<NameFc2(o), o>>)
      BY <2>3, <2>4, <2>6 DEF Named
    <2>8. Counting
      BY <1>1, <2>1, EndingCases DEF Pushing
    <2>9. layer' = "fc2" /\ phase' = "CAL" /\ cnt' = cnt + 1 /\ FirstOut' = FirstOut
      BY <2>1, <2>8, CountUp, BlockSteady
    <2>10. Compared' = o + 1
      BY <2>1, <2>2, <2>9 DEF Compared
    <2> HIDE DEF o
    <2>11. QED BY <1>2, <2>5, <2>7, <2>10, AnswerUp, AnswerSteady
  <1>6. CASE InCal("conv1") /\ cnt = 1
    <2>1. phase = "CAL" /\ layer = "conv1"
      BY <1>6 DEF InCal
    <2>2. Counting
      BY <1>1, <1>6, <2>1, EndingCases DEF Pushing
    <2>3. layer' = "conv1"
      BY <2>1, <2>2, CountUp
    <2>4. Compared' = 0
      BY <2>3 DEF Compared
    <2>5. result' = << >>
      BY <1>6 DEF ArrayNext, ArrayStep, ResultStore
    <2>6. QED BY <1>2, <2>4, <2>5, AnswerUp, AnswerSteady
  <1>7. CASE ~(InCal("fc2") /\ cnt \in 12 .. 16) /\ ~(InCal("conv1") /\ cnt = 1)
    <2>1. Begun /\ Compared' = Compared
      <3>1. CASE Pushing
        <4>1. phase = "MOVE" /\ layer' = layer /\ cnt' = 0 /\ FirstOut' = FirstOut
          BY <3>1, CalStarts, BlockSteady DEF Pushing
        <4>2. layer # "conv1"
          BY <4>1 DEF Begun
        <4>3. QED BY <4>1, <4>2 DEF Begun, Computing, Compared
      <3>2. CASE Counting
        <4>1. phase = "CAL" /\ layer' = layer /\ phase' = "CAL" /\ cnt' = cnt + 1 /\ cnt \in Nat
              /\ FirstOut' = FirstOut /\ cnt < CalCycles[layer]
          BY <3>2, CountUp, BlockSteady
        <4>2. layer = "conv1" => cnt >= 2
          <5>1. layer = "conv1" => cnt' >= 2 /\ cnt # 1
            BY <1>7, <4>1 DEF Begun, InCal
          <5>2. QED BY <4>1, <5>1
        <4>3. layer = "fc2" => cnt <= 11
          <5>1. layer = "fc2" => cnt < 17 /\ cnt \notin 12 .. 16
            BY <1>7, <4>1, LayerDims DEF InCal
          <5>2. QED BY <4>1, <5>1
        <4>4. layer = "fc2" => cnt <= 12 /\ cnt' <= 12
          BY <4>1, <4>3
        <4>5. QED BY <4>1, <4>2, <4>4 DEF Begun, Computing, Compared
      <3>3. CASE Ending
        <4>1. phase = "CAL"
          BY <3>3 DEF Ending
        <4>2. phase' = "MOVE"
          BY <3>3, EndingCases DEF Begun, Computing
        <4>3. \/ layer = "conv1" /\ cnt = 158 /\ layer' = "conv2"
              \/ layer = "conv2" /\ layer' \in {"conv2", "fc1"}
              \/ layer = "fc1" /\ layer' = "fc1"
              \/ layer = "fc1" /\ layer' = "fc2" /\ block'["fc2"] = 0
              \/ layer = "fc2" /\ layer' = "fc2" /\ block["fc2"] = 0 /\ block'["fc2"] = 1 /\ cnt = 17
          BY <3>3, <4>1, <4>2, EndingCases
        <4>4. Begun
          BY <4>1, <4>3 DEF Begun, Computing
        <4>5. CASE layer' # "fc2"
          BY <4>3, <4>4, <4>5 DEF Compared
        <4>6. CASE layer = "fc1" /\ layer' = "fc2" /\ block'["fc2"] = 0
          <5>1. FirstOut' = 0
            BY <4>6 DEF FirstOut
          <5>2. QED BY <4>2, <4>4, <4>6, <5>1 DEF Compared
        <4>7. CASE layer = "fc2" /\ layer' = "fc2" /\ block["fc2"] = 0 /\ block'["fc2"] = 1 /\ cnt = 17
          <5>1. FirstOut = 0 /\ FirstOut' = 5
            BY <4>7 DEF FirstOut
          <5>2. QED BY <4>1, <4>2, <4>4, <4>7, <5>1 DEF Compared
        <4>8. QED BY <4>3, <4>4, <4>5, <4>6, <4>7
      <3>4. QED BY <1>1, <3>1, <3>2, <3>3
    <2>2. result' = Answer(Compared)
      BY <1>4, <1>7, <2>1 DEF ResultInv
    <2>3. QED BY <1>2, <2>1, <2>2, AnswerSteady
  <1>8. QED BY <1>5, <1>6, <1>7

-----------------------------------------------------------------------------
(* The invariant. *)

\* The invariant holds initially.
LEMMA AInvInit ==
    ASSUME Dimensions, ArrayInit
    PROVE  AInv
  <1>1. /\ phase = "IDLE" /\ moveCnt = 0 /\ calCnt = [l \in Layers |-> 0]
        /\ pc = 1 /\ Len(Program) \in Nat /\ Len(Program) > 4
    BY ProgramAssumption DEF ArrayInit, Init
  <1>2. ~Computing /\ ~Loading("input") /\ \A l \in Layers : ~InCal(l) /\ ~InMove(l)
    BY <1>1 DEF Computing, Loading, InCal, InMove
  <1>3. Issued /\ Counters
    BY <1>1, <1>2 DEF Issued, Counters
  <1>4. PickInv /\ TopInv
    BY <1>1, <1>2 DEF PickInv, TopInv, ArrayInit, Layers, Weights
  <1>5. FallInv
    <2>1. Pushed = 0 /\ Rows = 0 .. 9
      BY <1>1, TenRows DEF Pushed
    <2>2. \A i \in Rows, j \in Cols : ~pe[<<i, j>>].enDown /\ ~pe[<<i, j>>].enRight
      BY DEF ArrayInit
    <2>3. \A i \in Rows : ~(0 >= i + 2)
      BY <2>1
    <2>4. QED BY <2>1, <2>2, <2>3 DEF FallInv
  <1>6. HeldInv /\ LeftInv /\ FlowInv
    BY <1>1 DEF HeldInv, LeftInv, FlowInv
  <1>7. EnableInv
    <2>1. \A i \in Rows, j \in 0 .. 3 : ~pe[<<i, j>>].enRight
      BY DEF ArrayInit, Cols
    <2>2. enLeft = {}
      BY DEF ArrayInit
    <2>3. QED BY <1>1, <2>1, <2>2 DEF EnableInv
  <1>8. SelInv
    <2> SUFFICES ASSUME NEW l \in Convs, NEW i \in Taps
                 PROVE  Walked(OutWidth[l], 2, i + 1, calCnt[l], sel[l].row[i], sel[l].col[i])
      BY DEF SelInv
    <2>1. calCnt[l] = 0 /\ sel[l].row[i] = 0 /\ sel[l].col[i] = 0
      BY <1>1 DEF ArrayInit, Convs, Layers, Weights
    <2>2. OutWidth[l] \in {12, 4} /\ 2 \in {1, 2} /\ i + 1 \in Nat /\ 0 <= i + 1 /\ 0 \in Nat
      BY DEF OutWidth, Convs, Taps
    <2>3. Walked(OutWidth[l], 2, i + 1, 0, 0, 0)
      BY <2>2, WalkRests
    <2>4. QED BY <2>1, <2>3
  <1>9. StoreInv
    <2> SUFFICES ASSUME NEW l \in Convs, NEW i \in Cols
                 PROVE  Walked(OutWidth[l], 1, i + 11, calCnt[l], store[l].row[i], store[l].col[i])
      BY DEF StoreInv
    <2>1. calCnt[l] = 0 /\ store[l].row[i] = 0 /\ store[l].col[i] = 0
      BY <1>1 DEF ArrayInit, Convs, Layers, Weights
    <2>2. OutWidth[l] \in {12, 4} /\ 1 \in {1, 2} /\ i + 11 \in Nat /\ 0 <= i + 11 /\ 0 \in Nat
      BY DEF OutWidth, Convs, Cols
    <2>3. Walked(OutWidth[l], 1, i + 11, 0, 0, 0)
      BY <2>2, WalkRests
    <2>4. QED BY <2>1, <2>3
  <1>10. FcSelInv /\ FcShape
    BY <1>2 DEF FcSelInv, FcShape, ArrayInit
  <1>11. Out1Inv /\ Out2Inv /\ OutFc1Inv /\ ResultInv
    BY <1>2 DEF Out1Inv, Out2Inv, OutFc1Inv, ResultInv, Begun, Layers, Weights
  <1>12. QED BY <1>3, <1>4, <1>5, <1>6, <1>7, <1>8, <1>9, <1>10, <1>11 DEF AInv

\* Every clock keeps the invariant.
LEMMA AInvStep ==
    ASSUME Dimensions, LoadsFirst, IInv, Marks, AInv, ArrayNext
    PROVE  AInv'
  <1>1. /\ Issued /\ Counters /\ PickInv /\ TopInv /\ FallInv /\ HeldInv /\ EnableInv /\ LeftInv
        /\ FlowInv /\ SelInv /\ StoreInv /\ FcSelInv /\ FcShape
        /\ Out1Inv /\ Out2Inv /\ OutFc1Inv /\ ResultInv
    BY DEF AInv
  <1>2. Issued'
    BY <1>1, IssuedStep
  <1>3. Counters'
    BY <1>1, CountersStep
  <1>4. PickInv'
    BY <1>1, PickStep
  <1>5. TopInv'
    BY <1>1, TopStep
  <1>6. FallInv'
    BY <1>1, FallStep
  <1>7. HeldInv'
    BY <1>1, <1>6, HeldStep
  <1>8. EnableInv'
    BY <1>1, EnableStep
  <1>9. LeftInv'
    BY <1>1, LeftStep
  <1>10. FlowInv'
    BY <1>1, FlowStep
  <1>11. SelInv'
    BY <1>1, SelStep
  <1>12. StoreInv'
    BY <1>1, StoreStep
  <1>13. FcSelInv'
    BY <1>1, FcSelStep
  <1>14. FcShape'
    BY <1>1, FcShapeStep
  <1>15. Out1Inv'
    BY <1>1, Out1Step
  <1>16. Out2Inv'
    BY <1>1, Out2Step
  <1>17. OutFc1Inv'
    BY <1>1, OutFc1Step
  <1>18. ResultInv'
    BY <1>1, ResultStep
  <1>19. QED BY <1>2, <1>3, <1>4, <1>5, <1>6, <1>7, <1>8, <1>9, <1>10, <1>11, <1>12, <1>13, <1>14,
               <1>15, <1>16, <1>17, <1>18 DEF AInv

\* A stutter keeps it too.
LEMMA AInvStutter ==
    ASSUME AInv, UNCHANGED avars
    PROVE  AInv'
  <1> USE DEF avars, vars, fsm, loader, core, port, array, outs
  <1>1. Issued' /\ Counters' /\ PickInv'
    <2>1. Issued'
      BY DEF AInv, Issued, Computing, Loading
    <2>2. Counters'
      BY DEF AInv, Counters, InCal
    <2>3. PickInv'
      BY DEF AInv, PickInv, Computing, InMove, FirstOut, Half
    <2>4. QED BY <2>1, <2>2, <2>3
  <1>7. TopInv'
    <2>1. /\ phase' = phase /\ layer' = layer /\ block' = block /\ first' = first
          /\ moveCnt' = moveCnt /\ top' = top
      OBVIOUS
    <2>2. Active' = Active /\ cha' = cha /\ FirstOut' = FirstOut /\ Half' = Half
      BY <2>1 DEF Active, cha, FirstOut, Half
    <2>3. ASSUME NEW j PROVE Origin(j)' = Origin(j)
      BY <2>1, <2>2 DEF Origin
    <2>4. ASSUME NEW i, NEW j PROVE Wt(i, j)' = Wt(i, j)
      BY <2>1, <2>2, <2>3 DEF Wt
    <2>5. TopInv
      BY DEF AInv
    <2>6. QED BY <2>1, <2>2, <2>4, <2>5 DEF TopInv
  <1>2. FallInv' /\ HeldInv' /\ EnableInv'
    <2>1. /\ phase' = phase /\ layer' = layer /\ block' = block /\ first' = first
          /\ cnt' = cnt /\ moveCnt' = moveCnt /\ pe' = pe /\ enLeft' = enLeft
      BY DEF cnt
    <2>2. /\ Active' = Active /\ LastIn' = LastIn /\ Pushed' = Pushed
          /\ cha' = cha /\ FirstOut' = FirstOut /\ Half' = Half
      BY <2>1 DEF Active, LastIn, Pushed, cha, FirstOut, Half
    <2>3. ASSUME NEW j PROVE Origin(j)' = Origin(j)
      BY <2>1, <2>2 DEF Origin
    <2>4. ASSUME NEW i, NEW j PROVE Wt(i, j)' = Wt(i, j)
      BY <2>1, <2>2, <2>3 DEF Wt
    <2>5. FallInv'
      <3>1. FallInv
        BY DEF AInv
      <3> SUFFICES ASSUME NEW i \in Rows, NEW j \in Cols
                   PROVE  /\ pe'[<<i, j>>].enDown <=> Pushed' >= i + 2
                          /\ \A r \in Rows : Pushed' >= i + 2 /\ r = 11 + i - Pushed' =>
                               pe'[<<i, j>>].weight = Wt(r, j)' /\ pe'[<<i, j>>].down = Wt(r, j)'
        BY DEF FallInv
      <3>2. /\ pe[<<i, j>>].enDown <=> Pushed >= i + 2
            /\ \A r \in Rows : Pushed >= i + 2 /\ r = 11 + i - Pushed =>
                 pe[<<i, j>>].weight = Wt(r, j) /\ pe[<<i, j>>].down = Wt(r, j)
        BY <3>1 DEF FallInv
      <3>3. QED BY <2>1, <2>2, <2>4, <3>2
    <2>6. HeldInv'
      <3>1. HeldInv
        BY DEF AInv
      <3>2. QED BY <2>1, <2>2, <2>4, <3>1 DEF HeldInv
    <2>7. EnableInv'
      <3>1. EnableInv
        BY DEF AInv
      <3>2. QED BY <2>1, <2>2, <3>1 DEF EnableInv
    <2>8. QED BY <2>5, <2>6, <2>7
  <1>3. LeftInv' /\ FlowInv'
    <2>1. /\ phase' = phase /\ layer' = layer /\ block' = block /\ rs1' = rs1 /\ first' = first
          /\ cnt' = cnt /\ pe' = pe /\ dataLeft' = dataLeft
      BY DEF cnt
    <2>2. Active' = Active /\ Slots' = Slots /\ cha' = cha /\ FirstOut' = FirstOut /\ Half' = Half
      BY <2>1 DEF Active, Slots, cha, FirstOut, Half
    <2>3. ASSUME NEW i, NEW k PROVE Act(i, k)' = Act(i, k)
      BY <2>1, <2>2 DEF Act, RefPool1, RefPool2, RefPool3, RefOutFc1, RefOut2, Name1, Name2, NameFc1
    <2>4. ASSUME NEW j PROVE Origin(j)' = Origin(j)
      BY <2>1, <2>2 DEF Origin
    <2>5. ASSUME NEW i, NEW j, NEW k PROVE PSum(i, j, k)' = PSum(i, j, k)
      BY <2>1, <2>2, <2>3, <2>4 DEF PSum, Term
    <2>6. LeftInv'
      <3>1. LeftInv
        BY DEF AInv
      <3>2. QED BY <2>1, <2>2, <2>3, <3>1 DEF LeftInv
    <2>7. FlowInv'
      <3>1. FlowInv
        BY DEF AInv
      <3> SUFFICES ASSUME phase' = "CAL", NEW i \in Active', NEW j \in Cols, NEW k \in Slots',
                          cnt' = k + i + j + 2
                   PROVE  pe'[<<i, j>>].right = {Act(i, k)'} /\ pe'[<<i, j>>].down = PSum(i, j, k)'
        BY DEF FlowInv
      <3>2. pe[<<i, j>>].right = {Act(i, k)} /\ pe[<<i, j>>].down = PSum(i, j, k)
        BY <2>1, <2>2, <3>1 DEF FlowInv
      <3>3. QED BY <2>1, <2>3, <2>5, <3>2
    <2>8. QED BY <2>6, <2>7
  <1>4. SelInv' /\ StoreInv' /\ FcSelInv' /\ FcShape'
    BY DEF AInv, SelInv, StoreInv, FcSelInv, FcShape, Computing, Half
  <1>5. Out1Inv' /\ Out2Inv' /\ OutFc1Inv' /\ ResultInv'
    <2>1. /\ phase' = phase /\ layer' = layer /\ block' = block /\ rs1' = rs1 /\ first' = first
          /\ cnt' = cnt /\ conv1Out' = conv1Out /\ conv2Out' = conv2Out
          /\ fc1Out' = fc1Out /\ result' = result
      BY DEF cnt
    <2>2. cha' = cha /\ FirstOut' = FirstOut /\ Half' = Half /\ Begun' = Begun
          /\ Computing' = Computing /\ InCal("conv1")' = InCal("conv1")
      BY <2>1 DEF cha, FirstOut, Half, Begun, Computing, InCal
    <2>3. Out1Inv'
      <3>1. Out1Inv
        BY DEF AInv
      <3>2. QED BY <2>1, <2>2, <3>1 DEF Out1Inv, Name1
    <2>4. Out2Inv'
      <3>1. Out2Inv
        BY DEF AInv
      <3>2. QED BY <2>1, <2>2, <3>1 DEF Out2Inv, Channels, Sum2, Name2
    <2>5. OutFc1Inv'
      <3>1. OutFc1Inv
        BY DEF AInv
      <3>2. QED BY <2>1, <2>2, <3>1 DEF OutFc1Inv, Halves, SumFc1, NameFc1
    <2>6. ResultInv'
      <3>1. ResultInv
        BY DEF AInv
      <3>2. QED BY <2>1, <2>2, <3>1 DEF ResultInv, Compared, Answer, NameFc2
    <2>7. QED BY <2>3, <2>4, <2>5, <2>6
  <1>6. QED BY <1>1, <1>2, <1>3, <1>4, <1>5, <1>7 DEF AInv

\* The array's invariant holds always.
THEOREM ArrayInvariance ==
    ASSUME Dimensions, LoadsFirst
    PROVE  ArraySpec => [](IInv /\ Marks /\ AInv)
  <1>1. ArrayInit => Init
    BY DEF ArrayInit
  <1>2. [ArrayNext]_avars => [Next]_vars
    BY DEF ArrayNext, avars
  <1>3. ArrayInit => AInv
    BY AInvInit
  <1>4. IInv /\ Marks /\ AInv /\ [ArrayNext]_avars => AInv'
    BY AInvStep, AInvStutter
  <1>5. Spec => [](IInv /\ Marks)
    BY MarksInvariance
  <1>6. QED BY <1>1, <1>2, <1>3, <1>4, <1>5, PTL DEF ArraySpec, Spec

\* The four weights of an image's layers are complete while it is computed.
THEOREM WeightsReady ==
    ASSUME Dimensions, LoadsFirst
    PROVE  ArraySpec => [](Computing => \A op \in Weights : \A a \in 0 .. Size[op] - 1 :
                                           buf[op][a] = first[op] + a)
  <1>1. IInv /\ AInv => (Computing => \A op \in Weights : \A a \in 0 .. Size[op] - 1 :
                                         buf[op][a] = first[op] + a)
    BY WeightsLoaded DEF AInv
  <1>2. QED BY <1>1, ArrayInvariance, PTL

\* During a CAL every element of the array holds the weight of its place.
THEOREM WeightsInPlace ==
    ASSUME Dimensions, LoadsFirst
    PROVE  ArraySpec => [](phase = "CAL" => \A i \in Rows, j \in Cols : pe[<<i, j>>].weight = Wt(i, j))
  <1>1. AInv => (phase = "CAL" => \A i \in Rows, j \in Cols : pe[<<i, j>>].weight = Wt(i, j))
    BY DEF AInv, HeldInv
  <1>2. QED BY <1>1, ArrayInvariance, PTL

\* The first layer is right for every image.
THEOREM Conv1IsRight ==
    ASSUME Dimensions, LoadsFirst
    PROVE  ArraySpec => []Conv1Right
  <1>1. AInv => Conv1Right
    BY DEF AInv, Out1Inv, Conv1Right
  <1>2. QED BY <1>1, ArrayInvariance, PTL

\* The second layer is right for every image.
THEOREM Conv2IsRight ==
    ASSUME Dimensions, LoadsFirst
    PROVE  ArraySpec => []Conv2Right
  <1>1. AInv => Conv2Right
    BY SumsComplete DEF AInv, Conv2Right
  <1>2. QED BY <1>1, ArrayInvariance, PTL

\* The hidden layer is right for every image.
THEOREM Fc1IsRight ==
    ASSUME Dimensions, LoadsFirst
    PROVE  ArraySpec => []Fc1Right
  <1>1. AInv => Fc1Right
    BY SumsComplete DEF AInv, Fc1Right
  <1>2. QED BY <1>1, ArrayInvariance, PTL

\* The answer compares the ten right outputs, in order.
THEOREM ResultIsRight ==
    ASSUME Dimensions, LoadsFirst
    PROVE  ArraySpec => ResultRight
  <1>1. ASSUME IInv, Marks, AInv, ArrayNext, phase = "CAL", phase' = "IDLE"
        PROVE  result' = [o \in 1 .. 10 |-> <<NameFc2(o - 1), o - 1>>]
    <2>1. Counters /\ ResultInv
      BY <1>1 DEF AInv
    <2>2. Ending
      BY <1>1, <2>1, ControlStep DEF Waiting, Starting, Pushing, Counting
    <2>3. layer = "fc2" /\ block["fc2"] = 1 /\ cnt = 17
      BY <1>1, <2>1, <2>2, EndingCases
    <2>4. FirstOut = 5 /\ Begun
      BY <1>1, <2>3 DEF FirstOut, Begun, Computing
    <2>5. Compared = 10
      BY <1>1, <2>3, <2>4 DEF Compared
    <2>6. result' = result
      <3>1. cnt \notin 12 .. 16
        BY <2>3
      <3>2. ~InCal("conv1")
        BY <2>3 DEF InCal
      <3>3. QED BY <1>1, <3>1, <3>2 DEF ArrayNext, ArrayStep, ResultStore
    <2>7. QED BY <2>1, <2>4, <2>5, <2>6 DEF ResultInv, Answer
  <1>2. IInv /\ Marks /\ AInv /\ [ArrayNext]_avars =>
          [phase = "CAL" /\ phase' = "IDLE" => result' = [o \in 1 .. 10 |-> <<NameFc2(o - 1), o - 1>>]]_avars
    BY <1>1
  <1>3. QED BY <1>2, ArrayInvariance, PTL DEF ArraySpec, ResultRight
===============================================================================
