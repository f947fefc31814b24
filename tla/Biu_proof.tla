------------------------------ MODULE Biu_proof -------------------------------
(***************************************************************************)
(* Proofs about Biu: with queues of any depth every answer goes back to    *)
(* the master that asked, and the unit is a channel.                       *)
(***************************************************************************)
EXTENDS Biu, SequenceTheorems, TLAPS

\* What a slave holds is its own.
AtHome == \A s \in Slaves : \A k \in 1 .. Len(pend[s]) : Target(pend[s][k]) = s

IInv == TypeOK /\ Routed /\ AtHome

Mapped(f, q) == [k \in 1 .. Len(q) |-> f[q[k]]]
Image(f, S) == {f[x] : x \in S}
-----------------------------------------------------------------------------
(* Sequences *)

\* The head of a sequence moved to the end of the one before it leaves their
\* concatenation as it is.
LEMMA MoveHead ==
    ASSUME NEW S, NEW p \in Seq(S), NEW q \in Seq(S), q # <<>>
    PROVE  Append(p, Head(q)) \o Tail(q) = p \o q
<1>1. /\ Head(q) \in S /\ Tail(q) \in Seq(S) /\ Len(Tail(q)) = Len(q) - 1 /\ Len(q) > 0
      /\ \A i \in 1 .. Len(Tail(q)) : Tail(q)[i] = q[i+1]
      /\ Len(p) \in Nat /\ Len(q) \in Nat /\ Head(q) = q[1]
  BY HeadTailProperties, EmptySeq, LenProperties
<1>2. /\ Append(p, Head(q)) \in Seq(S) /\ Len(Append(p, Head(q))) = Len(p) + 1
      /\ \A i \in 1 .. Len(p) + 1 :
            Append(p, Head(q))[i] = IF i <= Len(p) THEN p[i] ELSE q[1]
  BY <1>1
<1>3. /\ Append(p, Head(q)) \o Tail(q) \in Seq(S)
      /\ Len(Append(p, Head(q)) \o Tail(q)) = Len(p) + Len(q)
      /\ \A i \in 1 .. Len(p) + Len(q) : (Append(p, Head(q)) \o Tail(q))[i] =
            IF i <= Len(p) + 1 THEN Append(p, Head(q))[i] ELSE Tail(q)[i - (Len(p) + 1)]
  BY <1>1, <1>2, ConcatProperties
<1>4. /\ p \o q \in Seq(S) /\ Len(p \o q) = Len(p) + Len(q)
      /\ \A i \in 1 .. Len(p) + Len(q) :
            (p \o q)[i] = IF i <= Len(p) THEN p[i] ELSE q[i - Len(p)]
  BY ConcatProperties
<1>5. ASSUME NEW i \in 1 .. Len(p) + Len(q)
      PROVE  (Append(p, Head(q)) \o Tail(q))[i] = (p \o q)[i]
  <2>1. CASE i <= Len(p) + 1
    BY <1>1, <1>2, <1>3, <1>4, <2>1
  <2>2. CASE i > Len(p) + 1
    <3>1. i - (Len(p) + 1) \in 1 .. Len(Tail(q))
      BY <1>1, <2>2
    <3>2. Tail(q)[i - (Len(p) + 1)] = q[i - Len(p)]
      BY <1>1, <3>1
    <3>3. QED BY <1>1, <1>3, <1>4, <2>2, <3>2
  <2>3. QED BY <1>1, <2>1, <2>2
<1> QED BY <1>3, <1>4, <1>5, SeqEqual

\* Taking the head of the first of two sequences, or appending to the second,
\* does the same to their concatenation.
LEMMA TailConcat ==
    ASSUME NEW S, NEW p \in Seq(S), NEW q \in Seq(S), p # <<>>
    PROVE  Tail(p) \o q = Tail(p \o q)
<1>1. /\ Tail(p) \in Seq(S) /\ Len(Tail(p)) = Len(p) - 1 /\ Len(p) \in Nat \ {0}
      /\ \A i \in 1 .. Len(p) - 1 : Tail(p)[i] = p[i+1]
      /\ Len(q) \in Nat
  BY HeadTailProperties, EmptySeq, LenProperties
<1>2. /\ p \o q \in Seq(S) /\ Len(p \o q) = Len(p) + Len(q)
      /\ \A i \in 1 .. Len(p) + Len(q) :
            (p \o q)[i] = IF i <= Len(p) THEN p[i] ELSE q[i - Len(p)]
  BY ConcatProperties
<1>3. p \o q # <<>>
  BY <1>1, <1>2, EmptySeq
<1>4. /\ Tail(p \o q) \in Seq(S) /\ Len(Tail(p \o q)) = Len(p) + Len(q) - 1
      /\ \A i \in 1 .. Len(p) + Len(q) - 1 : Tail(p \o q)[i] = (p \o q)[i+1]
  BY <1>2, <1>3, HeadTailProperties
<1>5. /\ Tail(p) \o q \in Seq(S) /\ Len(Tail(p) \o q) = Len(p) + Len(q) - 1
      /\ \A i \in 1 .. Len(p) + Len(q) - 1 : (Tail(p) \o q)[i] =
            IF i <= Len(p) - 1 THEN Tail(p)[i] ELSE q[i - (Len(p) - 1)]
  BY <1>1, ConcatProperties
<1>6. ASSUME NEW i \in 1 .. Len(p) + Len(q) - 1
      PROVE  (Tail(p) \o q)[i] = Tail(p \o q)[i]
  <2>1. CASE i <= Len(p) - 1
    BY <1>1, <1>2, <1>4, <1>5, <2>1
  <2>2. CASE i > Len(p) - 1
    <3>1. q[i - (Len(p) - 1)] = q[(i + 1) - Len(p)]
      BY <1>1
    <3>2. (p \o q)[i+1] = q[(i + 1) - Len(p)]
      BY <1>1, <1>2, <2>2
    <3>3. QED BY <1>1, <1>4, <1>5, <2>2, <3>1, <3>2
  <2>3. QED BY <1>1, <2>1, <2>2
<1> QED BY <1>4, <1>5, <1>6, SeqEqual

\* A word appended to the second of two sequences is appended to both together.
LEMMA AppendConcat ==
    ASSUME NEW S, NEW p \in Seq(S), NEW q \in Seq(S), NEW x \in S
    PROVE  p \o Append(q, x) = Append(p \o q, x)
<1>1. /\ Append(q, x) = q \o <<x>> /\ <<x>> \in Seq(S)
      /\ p \o q \in Seq(S) /\ Append(p \o q, x) = (p \o q) \o <<x>>
  BY ConcatProperties, AppendIsConcat
<1> QED BY <1>1, ConcatAssociative

\* A map over the tail of a sequence, and over what is appended to it.
LEMMA MappedTail ==
    ASSUME NEW S, NEW f, NEW r \in Seq(S), r # <<>>
    PROVE  Mapped(f, Tail(r)) = Tail(Mapped(f, r))
<1>0. ASSUME NEW q \in Seq(S)
      PROVE  /\ Mapped(f, q) \in Seq(Image(f, S)) /\ Len(Mapped(f, q)) = Len(q)
             /\ \A k \in 1 .. Len(q) : Mapped(f, q)[k] = f[q[k]]
  BY ElementOfSeq DEF Mapped, Image
<1>1. /\ Tail(r) \in Seq(S) /\ Len(Tail(r)) = Len(r) - 1 /\ Len(r) \in Nat
      /\ \A i \in 1 .. Len(Tail(r)) : Tail(r)[i] = r[i+1]
  BY HeadTailProperties, LenProperties
<1>2. Mapped(f, r) # <<>>
  BY <1>0, EmptySeq
<1>3. /\ Tail(Mapped(f, r)) \in Seq(Image(f, S)) /\ Len(Tail(Mapped(f, r))) = Len(r) - 1
      /\ \A i \in 1 .. Len(r) - 1 : Tail(Mapped(f, r))[i] = Mapped(f, r)[i+1]
  BY <1>0, <1>2, HeadTailProperties
<1>4. /\ Mapped(f, Tail(r)) \in Seq(Image(f, S)) /\ Len(Mapped(f, Tail(r))) = Len(r) - 1
      /\ \A k \in 1 .. Len(r) - 1 : Mapped(f, Tail(r))[k] = f[Tail(r)[k]]
  <2>1. Tail(r) \in Seq(S)
    BY <1>1
  <2>2. QED BY <1>0, <1>1, <2>1
<1>5. ASSUME NEW i \in 1 .. Len(r) - 1
      PROVE  Mapped(f, Tail(r))[i] = Tail(Mapped(f, r))[i]
  <2>1. Mapped(f, Tail(r))[i] = f[r[i+1]]
    BY <1>1, <1>4
  <2>2. Tail(Mapped(f, r))[i] = f[r[i+1]]
    BY <1>0, <1>1, <1>3
  <2>3. QED BY <2>1, <2>2
<1> QED BY <1>3, <1>4, <1>5, SeqEqual

\* Mapping a sequence one longer appends one image.
LEMMA MappedAppend ==
    ASSUME NEW S, NEW f, NEW r \in Seq(S), NEW y \in S
    PROVE  Mapped(f, Append(r, y)) = Append(Mapped(f, r), f[y])
<1>0. ASSUME NEW q \in Seq(S)
      PROVE  /\ Mapped(f, q) \in Seq(Image(f, S)) /\ Len(Mapped(f, q)) = Len(q)
             /\ \A k \in 1 .. Len(q) : Mapped(f, q)[k] = f[q[k]]
  BY ElementOfSeq DEF Mapped, Image
<1>5. f[y] \in Image(f, S)
  BY DEF Image
<1>1. Append(r, y) \in Seq(S) /\ Len(Append(r, y)) = Len(r) + 1 /\ Len(r) \in Nat
  OBVIOUS
<1>2. /\ Append(Mapped(f, r), f[y]) \in Seq(Image(f, S))
      /\ Len(Append(Mapped(f, r), f[y])) = Len(r) + 1
  BY <1>0, <1>5
<1>4. /\ Mapped(f, Append(r, y)) \in Seq(Image(f, S)) /\ Len(Mapped(f, Append(r, y))) = Len(r) + 1
      /\ \A k \in 1 .. Len(r) + 1 : Mapped(f, Append(r, y))[k] = f[Append(r, y)[k]]
  <2>1. Append(r, y) \in Seq(S)
    BY <1>1
  <2>2. QED BY <1>0, <1>1, <2>1
<1>3. ASSUME NEW i \in 1 .. Len(r) + 1
      PROVE  Mapped(f, Append(r, y))[i] = Append(Mapped(f, r), f[y])[i]
  <2>1. Mapped(f, Append(r, y))[i] = f[Append(r, y)[i]]
    BY <1>1, <1>4
  <2>2. CASE i <= Len(r)
    <3>1. Append(r, y)[i] = r[i] /\ i \in 1 .. Len(r)
      BY <1>1, <2>2
    <3>2. Append(Mapped(f, r), f[y])[i] = Mapped(f, r)[i]
      BY <1>0, <1>1, <3>1
    <3>3. Mapped(f, r)[i] = f[r[i]]
      BY <1>0, <3>1
    <3>4. QED BY <2>1, <3>1, <3>2, <3>3
  <2>3. CASE i = Len(r) + 1
    <3>1. Append(r, y)[i] = y
      BY <2>3
    <3>2. Append(Mapped(f, r), f[y])[i] = f[y]
      BY <1>0, <1>1, <2>3
    <3>3. QED BY <2>1, <3>1, <3>2
  <2>4. i <= Len(r) \/ i = Len(r) + 1
    BY <1>1
  <2>5. QED BY <2>2, <2>3, <2>4
<1> QED BY <1>2, <1>3, <1>4, SeqEqual
-----------------------------------------------------------------------------
(* One clock *)

\* What is below the splitter with the command that goes there, and what is
\* still above it.
Sent(send) == IF send THEN Append(Below, Head(cmdQ)) ELSE Below
Kept(send) == IF send THEN Tail(cmdQ) ELSE cmdQ

\* The queues of masters and slaves are as long as what they stand for.
LEMMA Shapes ==
    ASSUME TypeOK, Routed
    PROVE  /\ Below \in Seq(Commands) /\ Flight \in Seq(Commands)
           /\ Len(Below) = Len(splQ) /\ Len(arbQ) = Len(Flight)
           /\ (splQ = <<>> <=> Below = <<>>)
<1>1. /\ \A s \in Slaves : pend[s] \in Seq(Commands)
      /\ splQ \in Seq(Slaves) /\ cmdQ \in Seq(Commands) /\ rspQ \in Seq(Commands)
      /\ arbQ \in Seq(Masters)
  BY DEF TypeOK
<1>2. splQ # <<>> => Head(splQ) \in Slaves
  BY <1>1, HeadTailProperties
<1>3. Below \in Seq(Commands)
  BY <1>1, <1>2, EmptySeq DEF Below
<1>4. Flight \in Seq(Commands)
  BY <1>1, <1>3, ConcatProperties DEF Flight
<1>5. Len(Below) \in Nat /\ Len(Flight) \in Nat
  BY <1>3, <1>4, LenProperties
<1>6. Len(splQ) = Len(Below) /\ Len(arbQ) = Len(Flight)
  BY <1>5 DEF Routed
<1>7. splQ = <<>> <=> Below = <<>>
  BY <1>1, <1>3, <1>6, EmptySeq
<1> QED BY <1>3, <1>4, <1>6, <1>7

\* Which slave answers, and with what: the oldest command below the splitter.
LEMMA Answering ==
    ASSUME IInv, NEW ready \in BOOLEAN, NEW reply \in BOOLEAN
    PROVE  /\ Sends(ready) => cmdQ # <<>> /\ Target(Head(cmdQ)) \in Slaves
           /\ Sent(Sends(ready)) # <<>> =>
                 /\ Port \in Slaves /\ Held(ready, Port) = Sent(Sends(ready))
                 /\ \A s \in Slaves : s # Port => Held(ready, s) = <<>>
           /\ Sent(Sends(ready)) = <<>> => \A s \in Slaves : Held(ready, s) = <<>>
           /\ Answers(ready, reply) => Sent(Sends(ready)) # <<>>
<1>1. /\ \A s \in Slaves : pend[s] \in Seq(Commands)
      /\ splQ \in Seq(Slaves) /\ cmdQ \in Seq(Commands) /\ Below \in Seq(Commands)
      /\ (splQ = <<>> <=> Below = <<>>)
  BY Shapes DEF IInv, TypeOK
<1>2. /\ \A s \in Slaves : pend[s] # <<>> => splQ # <<>> /\ Head(splQ) = s
      /\ splQ # <<>> => Head(splQ) \in Slaves
  BY <1>1, HeadTailProperties DEF IInv, Routed
<1>3. Sends(ready) => cmdQ # <<>> /\ (splQ # <<>> => Head(splQ) = Target(Head(cmdQ)))
  BY DEF Sends, Open
<1>4. cmdQ # <<>> => Head(cmdQ) \in Commands /\ Target(Head(cmdQ)) \in Slaves
  <2>1. cmdQ # <<>> => Head(cmdQ) \in Commands
    BY <1>1, HeadTailProperties
  <2>2. \A c \in Commands : Target(c) \in Slaves
    BY DEF Commands, Target, Slaves, Regions
  <2>3. QED BY <2>1, <2>2
<1>5. CASE splQ # <<>>
  <2>1. Port = Head(splQ) /\ Port \in Slaves /\ Below = pend[Port] /\ Below # <<>>
    BY <1>1, <1>2, <1>5 DEF Port, Below
  <2>2. Held(ready, Port) = Sent(Sends(ready))
    BY <1>3, <1>5, <2>1 DEF Held, Sent
  <2>3. \A s \in Slaves : s # Port => Held(ready, s) = <<>>
    BY <1>2, <1>3, <1>5, <2>1 DEF Held
  <2>4. Sent(Sends(ready)) # <<>>
    <3>1. Sends(ready) => Append(Below, Head(cmdQ)) # <<>>
      BY <1>1, <1>3, <1>4, AppendProperties
    <3>2. QED BY <2>1, <3>1 DEF Sent
  <2>5. QED BY <1>3, <1>4, <2>1, <2>2, <2>3, <2>4
<1>6. CASE splQ = <<>>
  <2>1. Below = <<>> /\ \A s \in Slaves : pend[s] = <<>>
    BY <1>1, <1>2, <1>6
  <2>2. CASE Sends(ready)
    <3>1. Port = Target(Head(cmdQ)) /\ Port \in Slaves
      BY <1>3, <1>4, <1>6, <2>2 DEF Port
    <3>2. Held(ready, Port) = Sent(Sends(ready)) /\ Sent(Sends(ready)) # <<>>
      <4>1. Append(Below, Head(cmdQ)) # <<>>
        BY <1>1, <1>3, <1>4, <2>2, AppendProperties
      <4>2. QED BY <2>1, <2>2, <3>1, <4>1 DEF Held, Sent
    <3>3. \A s \in Slaves : s # Port => Held(ready, s) = <<>>
      BY <2>1, <2>2, <3>1 DEF Held
    <3>4. QED BY <1>3, <1>4, <3>1, <3>2, <3>3
  <2>3. CASE ~Sends(ready)
    <3>1. Sent(Sends(ready)) = <<>> /\ \A s \in Slaves : Held(ready, s) = <<>>
      BY <2>1, <2>3 DEF Held, Sent
    <3>2. ~Answers(ready, reply)
      BY <3>1 DEF Answers
    <3>3. QED BY <2>3, <3>1, <3>2
  <2>4. QED BY <2>2, <2>3
<1> QED BY <1>5, <1>6

target == [c \in Commands |-> Target(c)]
from   == [c \in Commands |-> c.from]

\* What stays below the splitter when the answer has left.
Left(send, answer) == IF answer THEN Tail(Sent(send)) ELSE Sent(send)

\* Every command has a slave it is for and a master it comes from.
LEMMA Maps == target \in [Commands -> Slaves] /\ from \in [Commands -> Masters]
<1>1. \A c \in Commands : Target(c) \in Slaves /\ c.from \in Masters
  BY DEF Commands, Target, Slaves, Regions
<1> QED BY <1>1 DEF target, from

\* The splitter's queue follows what is below it, also when a command is
\* answered at once.
LEMMA SplitterQueue ==
    ASSUME IInv, NEW send \in BOOLEAN, NEW answer \in BOOLEAN, NEW t,
           send => cmdQ # <<>> /\ t = Target(Head(cmdQ)),
           answer => Sent(send) # <<>>
    PROVE  /\ Left(send, answer) \in Seq(Commands)
           /\ SplQNext(send, answer, t) = Mapped(target, Left(send, answer))
           /\ Len(Left(send, answer)) <= Len(splQ) + 1
           /\ send \/ Len(Left(send, answer)) <= Len(splQ)
<1> DEFINE h == Head(cmdQ)
<1>1. /\ Below \in Seq(Commands) /\ splQ \in Seq(Slaves)
      /\ (splQ = <<>> <=> Below = <<>>) /\ Len(Below) = Len(splQ)
      /\ Len(splQ) \in Nat
  BY Shapes, LenProperties DEF IInv, TypeOK
<1>2. send => h \in Commands /\ t = target[h]
  <2>1. send => h \in Commands
    BY HeadTailProperties DEF IInv, TypeOK
  <2>2. QED BY <2>1 DEF target
<1>3. splQ = Mapped(target, Below)
  <2>1. \A k \in 1 .. Len(Below) : target[Below[k]] = Target(Below[k])
    BY <1>1, ElementOfSeq DEF target
  <2>2. QED BY <2>1 DEF IInv, Routed, Mapped
<1> HIDE DEF h
<1>4. ASSUME NEW b \in Seq(Commands), h \in Commands
      PROVE  /\ Append(b, h) \in Seq(Commands) /\ Append(b, h) # <<>>
             /\ Len(Append(b, h)) = Len(b) + 1
             /\ Mapped(target, Append(b, h)) = Append(Mapped(target, b), target[h])
  BY <1>4, AppendProperties, MappedAppend
<1>5. ASSUME NEW b \in Seq(Commands), b # <<>>
      PROVE  /\ Tail(b) \in Seq(Commands) /\ Len(Tail(b)) = Len(b) - 1
             /\ Mapped(target, Tail(b)) = Tail(Mapped(target, b))
  BY <1>5, HeadTailProperties, MappedTail
<1>6. CASE send /\ answer /\ Below # <<>>
  <2>1. /\ Tail(Below) \in Seq(Commands) /\ Len(Tail(Below)) = Len(splQ) - 1
        /\ Mapped(target, Tail(Below)) = Tail(splQ)
    BY <1>1, <1>3, <1>5, <1>6
  <2>2. /\ Append(Tail(Below), h) \in Seq(Commands)
        /\ Len(Append(Tail(Below), h)) = Len(splQ)
        /\ Mapped(target, Append(Tail(Below), h)) = Append(Tail(splQ), t)
    <3>1. h \in Commands /\ target[h] = t
      BY <1>2, <1>6
    <3>2. /\ Append(Tail(Below), h) \in Seq(Commands)
          /\ Len(Append(Tail(Below), h)) = Len(Tail(Below)) + 1
          /\ Mapped(target, Append(Tail(Below), h))
               = Append(Mapped(target, Tail(Below)), target[h])
      BY <1>4, <2>1, <3>1
    <3>3. QED BY <1>1, <2>1, <3>1, <3>2
  <2>3. Tail(Append(Below, h)) = Append(Tail(Below), h)
    BY <1>1, <1>2, <1>6, HeadTailAppend
  <2>4. Left(send, answer) = Append(Tail(Below), h)
    BY <1>6, <2>3 DEF Left, Sent, h
  <2>5. SplQNext(send, answer, t) = Append(Tail(splQ), t)
    BY <1>1, <1>6 DEF SplQNext, After
  <2>6. /\ Left(send, answer) \in Seq(Commands)
        /\ SplQNext(send, answer, t) = Mapped(target, Left(send, answer))
        /\ Len(Left(send, answer)) <= Len(splQ) + 1
    BY <1>1, <2>2, <2>4, <2>5
  <2>7. QED BY <1>6, <2>6
<1>7. CASE send /\ answer /\ Below = <<>>
  <2>1. Sent(send) = <<h>> /\ Left(send, answer) = <<>>
    BY <1>7 DEF Left, Sent, h
  <2>2. SplQNext(send, answer, t) = <<>>
    BY <1>1, <1>7 DEF SplQNext, After
  <2>3. Mapped(target, <<>>) = <<>>
    BY <1>1, <1>3, <1>7
  <2>4. /\ Left(send, answer) \in Seq(Commands)
        /\ SplQNext(send, answer, t) = Mapped(target, Left(send, answer))
        /\ Len(Left(send, answer)) <= Len(splQ) + 1
    BY <1>1, <2>1, <2>2, <2>3, EmptySeq
  <2>5. QED BY <1>7, <2>4
<1>8. CASE send /\ ~answer
  <2>1. /\ Append(Below, h) \in Seq(Commands) /\ Len(Append(Below, h)) = Len(splQ) + 1
        /\ Mapped(target, Append(Below, h)) = Append(splQ, t)
    BY <1>1, <1>2, <1>3, <1>4, <1>8
  <2>2. Left(send, answer) = Append(Below, h)
    BY <1>8 DEF Left, Sent, h
  <2>3. SplQNext(send, answer, t) = Append(splQ, t)
    BY <1>8 DEF SplQNext, After
  <2>4. /\ Left(send, answer) \in Seq(Commands)
        /\ SplQNext(send, answer, t) = Mapped(target, Left(send, answer))
        /\ Len(Left(send, answer)) <= Len(splQ) + 1
    BY <1>1, <2>1, <2>2, <2>3
  <2>5. QED BY <1>8, <2>4
<1>9. CASE ~send /\ answer
  <2>1. Below # <<>> /\ Left(send, answer) = Tail(Below)
    BY <1>9 DEF Left, Sent
  <2>2. /\ Tail(Below) \in Seq(Commands) /\ Len(Tail(Below)) = Len(splQ) - 1
        /\ Mapped(target, Tail(Below)) = Tail(splQ)
    BY <1>1, <1>3, <1>5, <2>1
  <2>3. SplQNext(send, answer, t) = Tail(splQ)
    BY <1>1, <1>9, <2>1 DEF SplQNext, After
  <2>4. /\ Left(send, answer) \in Seq(Commands)
        /\ SplQNext(send, answer, t) = Mapped(target, Left(send, answer))
        /\ Len(Left(send, answer)) <= Len(splQ) + 1
        /\ Len(Left(send, answer)) <= Len(splQ)
    BY <1>1, <2>1, <2>2, <2>3
  <2>5. QED BY <2>4
<1>10. CASE ~send /\ ~answer
  <2>1. Left(send, answer) = Below /\ SplQNext(send, answer, t) = splQ
    BY <1>10 DEF Left, Sent, SplQNext, After
  <2>2. QED BY <1>1, <1>3, <2>1
<1> QED BY <1>6, <1>7, <1>8, <1>9, <1>10

\* What a slave holds, with what it has just taken, is its own.
LEMMA HeldHome ==
    ASSUME IInv, NEW ready \in BOOLEAN, NEW s \in Slaves
    PROVE  /\ Held(ready, s) \in Seq(Commands)
           /\ \A k \in 1 .. Len(Held(ready, s)) : Target(Held(ready, s)[k]) = s
<1>1. /\ pend[s] \in Seq(Commands) /\ cmdQ \in Seq(Commands)
      /\ \A k \in 1 .. Len(pend[s]) : Target(pend[s][k]) = s
  BY DEF IInv, TypeOK, AtHome
<1>2. CASE Sends(ready) /\ Target(Head(cmdQ)) = s
  <2>1. Head(cmdQ) \in Commands
    BY <1>1, <1>2, HeadTailProperties DEF Sends, Open
  <2>2. /\ Append(pend[s], Head(cmdQ)) \in Seq(Commands)
        /\ Len(Append(pend[s], Head(cmdQ))) = Len(pend[s]) + 1
        /\ \A k \in 1 .. Len(pend[s]) : Append(pend[s], Head(cmdQ))[k] = pend[s][k]
        /\ Append(pend[s], Head(cmdQ))[Len(pend[s]) + 1] = Head(cmdQ)
        /\ Len(pend[s]) \in Nat
    BY <1>1, <2>1, AppendProperties, LenProperties
  <2>3. ASSUME NEW k \in 1 .. Len(pend[s]) + 1
        PROVE  Target(Append(pend[s], Head(cmdQ))[k]) = s
    <3>1. CASE k \in 1 .. Len(pend[s])
      BY <1>1, <2>2, <3>1
    <3>2. CASE k = Len(pend[s]) + 1
      BY <1>2, <2>2, <3>2
    <3>3. QED BY <2>2, <3>1, <3>2
  <2>4. QED BY <1>2, <2>2, <2>3 DEF Held
<1>3. CASE ~(Sends(ready) /\ Target(Head(cmdQ)) = s)
  BY <1>1, <1>3 DEF Held
<1> QED BY <1>2, <1>3

\* The slaves after a clock.
PendNext(ready, reply) ==
    [s \in Slaves |-> IF Answers(ready, reply) /\ Port = s THEN Tail(Held(ready, s))
                      ELSE Held(ready, s)]

\* A slave that is handed a command is the one it is for.
LEMMA StillHome ==
    ASSUME IInv, NEW ready \in BOOLEAN, NEW reply \in BOOLEAN,
           pend' = PendNext(ready, reply)
    PROVE  pend' \in [Slaves -> Seq(Commands)] /\ AtHome'
<1>1. ASSUME NEW s \in Slaves
      PROVE  /\ pend'[s] \in Seq(Commands)
             /\ \A k \in 1 .. Len(pend'[s]) : Target(pend'[s][k]) = s
  <2>1. /\ Held(ready, s) \in Seq(Commands)
        /\ \A k \in 1 .. Len(Held(ready, s)) : Target(Held(ready, s)[k]) = s
    BY HeldHome
  <2>2. CASE Answers(ready, reply) /\ Port = s
    <3>1. pend'[s] = Tail(Held(ready, s)) /\ Held(ready, s) # <<>>
      BY <2>2 DEF PendNext, Answers
    <3>2. /\ Tail(Held(ready, s)) \in Seq(Commands)
          /\ Len(Tail(Held(ready, s))) = Len(Held(ready, s)) - 1
          /\ \A k \in 1 .. Len(Tail(Held(ready, s))) :
                Tail(Held(ready, s))[k] = Held(ready, s)[k+1]
          /\ Len(Held(ready, s)) \in Nat
      BY <2>1, <3>1, HeadTailProperties, LenProperties
    <3>3. QED BY <2>1, <3>1, <3>2
  <2>3. CASE ~(Answers(ready, reply) /\ Port = s)
    BY <2>1, <2>3 DEF PendNext
  <2>4. QED BY <2>2, <2>3
<1>2. pend' \in [Slaves -> Seq(Commands)]
  BY <1>1 DEF PendNext
<1> QED BY <1>1, <1>2 DEF AtHome

\* Below the splitter only one slave has anything, before and after.
LEMMA BelowStep ==
    ASSUME IInv, NEW ready \in BOOLEAN, NEW reply \in BOOLEAN,
           pend' = PendNext(ready, reply),
           splQ' = Mapped(target, Left(Sends(ready), Answers(ready, reply))),
           Left(Sends(ready), Answers(ready, reply)) \in Seq(Commands)
    PROVE  /\ Below' = Left(Sends(ready), Answers(ready, reply))
           /\ \A s \in Slaves : pend'[s] # <<>> => splQ' # <<>> /\ Head(splQ') = s
<1> DEFINE left == Left(Sends(ready), Answers(ready, reply))
           sent == Sent(Sends(ready))
<1>0. /\ left = <<>> => splQ' = <<>>
      /\ left # <<>> => splQ' # <<>> /\ Head(splQ') = Target(left[1])
  <2>1. /\ \A k \in 1 .. Len(left) : left[k] \in Commands
        /\ Len(left) \in Nat /\ (left = <<>> <=> Len(left) = 0)
    BY ElementOfSeq, EmptySeq, LenProperties
  <2>2. /\ splQ' \in Seq(Image(target, Commands)) /\ Len(splQ') = Len(left)
        /\ \A k \in 1 .. Len(left) : splQ'[k] = target[left[k]]
    BY <2>1 DEF Mapped, Image
  <2>3. /\ left = <<>> => splQ' = <<>>
        /\ left # <<>> => splQ' # <<>> /\ Head(splQ') = splQ'[1] /\ 1 \in 1 .. Len(left)
    BY <2>1, <2>2, EmptySeq, HeadTailProperties
  <2>4. left # <<>> => splQ'[1] = Target(left[1])
    BY <2>1, <2>2, <2>3 DEF target
  <2>5. QED BY <2>3, <2>4
<1>1. CASE sent # <<>>
  <2>1. /\ Port \in Slaves /\ Held(ready, Port) = sent
        /\ \A s \in Slaves : s # Port => Held(ready, s) = <<>>
    BY <1>1, Answering
  <2>2. pend'[Port] = left /\ \A s \in Slaves : s # Port => pend'[s] = <<>>
    BY <2>1 DEF PendNext, Left
  <2>3. left # <<>> => Target(left[1]) = Port
    <3>1. left # <<>> => 1 \in 1 .. Len(left)
      BY EmptySeq, LenProperties
    <3>2. QED BY <2>1, <2>2, <3>1, StillHome DEF AtHome
  <2>4. Below' = left
    <3>1. CASE left = <<>>
      BY <1>0, <3>1 DEF Below
    <3>2. CASE left # <<>>
      BY <1>0, <2>2, <2>3, <3>2 DEF Below
    <3>3. QED BY <3>1, <3>2
  <2>5. \A s \in Slaves : pend'[s] # <<>> => splQ' # <<>> /\ Head(splQ') = s
    BY <1>0, <2>2, <2>3
  <2>6. QED BY <2>4, <2>5
<1>2. CASE sent = <<>>
  <2>1. /\ ~Answers(ready, reply) /\ \A s \in Slaves : Held(ready, s) = <<>>
    BY <1>2, Answering
  <2>2. left = <<>> /\ \A s \in Slaves : pend'[s] = <<>>
    BY <1>2, <2>1 DEF Left, PendNext
  <2>3. QED BY <1>0, <2>2 DEF Below
<1> QED BY <1>1, <1>2

\* What a bounded queue is after a clock.
LEMMA Room ==
    ASSUME NEW S, NEW D \in Nat, NEW q \in Seq(S), Len(q) <= D, NEW x
    PROVE  /\ q # <<>> => Tail(q) \in Seq(S) /\ Len(Tail(q)) <= D
           /\ x \in S /\ Len(q) < D => Append(q, x) \in Seq(S) /\ Len(Append(q, x)) <= D
           /\ q # <<>> /\ x \in S /\ Len(q) < D =>
                 Append(Tail(q), x) \in Seq(S) /\ Len(Append(Tail(q), x)) <= D
<1>1. q # <<>> => Tail(q) \in Seq(S) /\ Len(Tail(q)) = Len(q) - 1 /\ Len(q) \in Nat
  BY HeadTailProperties, LenProperties
<1>2. x \in S => \A r \in Seq(S) : Append(r, x) \in Seq(S) /\ Len(Append(r, x)) = Len(r) + 1
  BY AppendProperties
<1>3. Len(q) \in Nat
  BY LenProperties
<1>4. q # <<>> /\ x \in S => /\ Append(Tail(q), x) \in Seq(S)
                             /\ Len(Append(Tail(q), x)) = Len(Tail(q)) + 1
  BY <1>1, <1>2
<1> QED BY <1>1, <1>2, <1>3, <1>4

\* Two stretches of commands on their way are one.
LEMMA CommandsTogether ==
    ASSUME NEW p \in Seq(Commands), NEW q \in Seq(Commands)
    PROVE  p \o q \in Seq(Commands)
BY ConcatProperties

\* A command issued comes behind both.
LEMMA CommandsAppended ==
    ASSUME NEW p \in Seq(Commands), NEW q \in Seq(Commands), NEW x \in Commands
    PROVE  p \o Append(q, x) = Append(p \o q, x)
BY AppendConcat

\* Three stretches of commands on their way, put together from either end.
LEMMA CommandsAssociative ==
    ASSUME NEW p \in Seq(Commands), NEW q \in Seq(Commands), NEW r \in Seq(Commands)
    PROVE  (p \o q) \o r = p \o (q \o r)
BY ConcatAssociative, SMTT(30)

\* The commands on their way: one leaves at the front when a master takes its
\* answer, one enters at the back when a master's command is accepted, and what
\* the splitter and the slaves do between the two moves none past another.
LEMMA FlightStep ==
    ASSUME IInv, NEW send \in BOOLEAN, NEW answer \in BOOLEAN,
           NEW deliver \in BOOLEAN, NEW issue \in BOOLEAN, NEW c \in Commands, NEW x,
           send => cmdQ # <<>>,
           answer => Sent(send) # <<>> /\ x = Head(Sent(send)),
           deliver => rspQ # <<>>,
           rspQ' = After(rspQ, deliver, answer, x),
           cmdQ' = After(cmdQ, send, issue, c),
           Below' = Left(send, answer)
    PROVE  /\ Flight' = After(Flight, deliver, issue, c)
           /\ Flight' \in Seq(Commands)
           /\ deliver => Flight # <<>> /\ Head(Flight) = Head(rspQ)
<1> DEFINE sent == Sent(send)
           kept == Kept(send)
           rest == IF deliver THEN Tail(rspQ) ELSE rspQ
<1>1. /\ rspQ \in Seq(Commands) /\ cmdQ \in Seq(Commands) /\ Below \in Seq(Commands)
      /\ Flight = (rspQ \o Below) \o cmdQ
  BY Shapes DEF IInv, TypeOK, Flight
<1>2. sent \in Seq(Commands) /\ kept \in Seq(Commands) /\ sent \o kept = Below \o cmdQ
  <2>1. CASE send
    <3>1. Head(cmdQ) \in Commands /\ Tail(cmdQ) \in Seq(Commands)
      BY <1>1, <2>1, HeadTailProperties
    <3>2. Append(Below, Head(cmdQ)) \o Tail(cmdQ) = Below \o cmdQ
      BY <1>1, <2>1, MoveHead
    <3>3. QED BY <1>1, <2>1, <3>1, <3>2, AppendProperties DEF Sent, Kept
  <2>2. CASE ~send
    BY <1>1, <2>2 DEF Sent, Kept
  <2>3. QED BY <2>1, <2>2
<1>3. rest \in Seq(Commands)
  BY <1>1, HeadTailProperties
<1>4. /\ rspQ' \in Seq(Commands) /\ Left(send, answer) \in Seq(Commands)
      /\ rspQ' \o Left(send, answer) = rest \o sent
  <2>1. CASE answer
    <3>1. rspQ' = Append(rest, Head(sent)) /\ Left(send, answer) = Tail(sent) /\ sent # <<>>
      BY <2>1 DEF After, Left
    <3>2. Head(sent) \in Commands /\ Tail(sent) \in Seq(Commands)
      BY <1>2, <3>1, HeadTailProperties
    <3>3. Append(rest, Head(sent)) \o Tail(sent) = rest \o sent
      BY <1>2, <1>3, <3>1, MoveHead
    <3>4. Append(rest, Head(sent)) \in Seq(Commands)
      BY <1>3, <3>2, AppendProperties
    <3>5. QED BY <3>1, <3>2, <3>3, <3>4
  <2>2. CASE ~answer
    <3>1. rspQ' = rest /\ Left(send, answer) = sent
      BY <2>2 DEF After, Left
    <3>2. QED BY <1>2, <1>3, <3>1
  <2>3. QED BY <2>1, <2>2
<1>5. cmdQ' = IF issue THEN Append(kept, c) ELSE kept
  BY DEF After, Kept
<1>6. Flight' = (rest \o sent) \o cmdQ'
  BY <1>4 DEF Flight
<1>7. deliver => /\ rspQ # <<>> /\ rspQ \o Below # <<>> /\ Flight # <<>>
                 /\ Head(Flight) = Head(rspQ)
  <2>1. SUFFICES ASSUME deliver PROVE /\ rspQ # <<>> /\ rspQ \o Below # <<>> /\ Flight # <<>>
                                      /\ Head(Flight) = Head(rspQ)
    OBVIOUS
  <2>2. Len(rspQ) \in Nat \ {0} /\ Len(Below) \in Nat /\ Len(cmdQ) \in Nat
    BY <1>1, <2>1, EmptySeq, LenProperties
  <2>3. /\ rspQ \o Below \in Seq(Commands) /\ Len(rspQ \o Below) = Len(rspQ) + Len(Below)
        /\ (rspQ \o Below)[1] = rspQ[1]
    BY <1>1, <2>2, ConcatProperties
  <2>4. /\ Flight \in Seq(Commands) /\ Len(Flight) = Len(rspQ \o Below) + Len(cmdQ)
        /\ Flight[1] = (rspQ \o Below)[1]
    BY <1>1, <2>2, <2>3, ConcatProperties
  <2>5. rspQ \o Below # <<>> /\ Flight # <<>>
    BY <2>2, <2>3, <2>4, EmptySeq
  <2>6. Head(Flight) = Flight[1] /\ Head(rspQ) = rspQ[1]
    BY <1>1, <2>1, <2>4, <2>5, HeadTailProperties
  <2>7. QED BY <2>1, <2>3, <2>4, <2>5, <2>6
<1>8. (rest \o sent) \o kept = IF deliver THEN Tail(Flight) ELSE Flight
  <2>1. /\ (rest \o sent) \o kept = rest \o (sent \o kept)
        /\ rest \o (Below \o cmdQ) = (rest \o Below) \o cmdQ
    <3> HIDE DEF rest, sent, kept
    <3>1. (rest \o sent) \o kept = rest \o (sent \o kept)
      BY <1>2, <1>3, CommandsAssociative
    <3>2. rest \o (Below \o cmdQ) = (rest \o Below) \o cmdQ
      BY <1>1, <1>3, CommandsAssociative
    <3>3. QED BY <3>1, <3>2
  <2>2. (rest \o sent) \o kept = (rest \o Below) \o cmdQ
    <3> HIDE DEF rest, sent, kept
    <3> QED BY <1>2, <2>1
  <2>3. CASE deliver
    <3>1. Tail(rspQ) \o Below = Tail(rspQ \o Below) /\ rspQ \o Below \in Seq(Commands)
      BY <1>1, <1>7, <2>3, TailConcat, ConcatProperties
    <3>2. Tail(rspQ \o Below) \o cmdQ = Tail((rspQ \o Below) \o cmdQ)
      BY <1>1, <1>7, <2>3, <3>1, TailConcat
    <3>3. QED BY <1>1, <2>2, <2>3, <3>1, <3>2
  <2>4. CASE ~deliver
    BY <1>1, <2>2, <2>4
  <2>5. QED BY <2>3, <2>4
<1> HIDE DEF rest, sent, kept
<1>9. rest \o sent \in Seq(Commands) /\ (rest \o sent) \o kept \in Seq(Commands)
  <2>1. rest \o sent \in Seq(Commands)
    BY <1>2, <1>3, CommandsTogether
  <2>2. QED BY <1>2, <2>1, CommandsTogether
<1>10. CASE issue
  <2>1. (rest \o sent) \o Append(kept, c) = Append((rest \o sent) \o kept, c)
    BY <1>2, <1>9, CommandsAppended
  <2>2. Flight' = Append((rest \o sent) \o kept, c)
    BY <1>5, <1>6, <1>10, <2>1
  <2>3. Flight' \in Seq(Commands)
    BY <1>9, <2>2, AppendProperties
  <2>4. QED BY <1>7, <1>8, <1>10, <2>2, <2>3 DEF After
<1>11. CASE ~issue
  <2>1. Flight' = (rest \o sent) \o kept
    BY <1>5, <1>6, <1>11
  <2>2. QED BY <1>7, <1>8, <1>9, <1>11, <2>1 DEF After
<1> QED BY <1>10, <1>11

\* A map over the commands on their way follows them.
LEMMA MappedStep ==
    ASSUME NEW q \in Seq(Commands), NEW f, NEW deliver \in BOOLEAN, NEW issue \in BOOLEAN,
           NEW c \in Commands, deliver => q # <<>>
    PROVE  Mapped(f, After(q, deliver, issue, c)) = After(Mapped(f, q), deliver, issue, f[c])
<1> DEFINE rest == IF deliver THEN Tail(q) ELSE q
<1>1. /\ rest \in Seq(Commands)
      /\ Mapped(f, rest) = IF deliver THEN Tail(Mapped(f, q)) ELSE Mapped(f, q)
  <2>1. CASE deliver
    <3>1. rest = Tail(q) /\ q # <<>>
      BY <2>1
    <3>2. Tail(q) \in Seq(Commands)
      BY <3>1, HeadTailProperties
    <3>3. Mapped(f, Tail(q)) = Tail(Mapped(f, q))
      BY <3>1, MappedTail
    <3>4. QED BY <2>1, <3>1, <3>2, <3>3
  <2>2. CASE ~deliver
    BY <2>2
  <2>3. QED BY <2>1, <2>2
<1>2. Mapped(f, Append(rest, c)) = Append(Mapped(f, rest), f[c])
  BY <1>1, MappedAppend
<1>3. After(q, deliver, issue, c) = IF issue THEN Append(rest, c) ELSE rest
  BY DEF After
<1> QED BY <1>1, <1>2, <1>3 DEF After
-----------------------------------------------------------------------------
(* The unit *)

\* The invariant holds after reset, when all is empty.
LEMMA InitInv == Init => IInv
<1> SUFFICES ASSUME Init PROVE IInv
  OBVIOUS
<1>1. TypeOK
  BY DepthAssumption DEF Init, TypeOK
<1>2. Below = <<>> /\ Flight = <<>>
  BY DEF Init, Below, Flight
<1>3. Routed /\ AtHome
  BY <1>2 DEF Init, Routed, AtHome
<1> QED BY <1>1, <1>3 DEF IInv

pair == [c \in Commands |-> <<c.from, c>>]

\* What the masters see is the commands on their way, each with who asked.
Seen == Contents = Mapped(pair, Flight) /\ arbQ = Mapped(from, Flight)

\* What the channel holds is, command by command, what is on its way.
LEMMA ContentsOfFlight == TypeOK /\ Routed => Seen
<1> SUFFICES ASSUME TypeOK, Routed PROVE Seen
  OBVIOUS
<1>1. Len(arbQ) = Len(Flight) /\ \A k \in 1 .. Len(Flight) : Flight[k] \in Commands
  BY Shapes, ElementOfSeq
<1>2. \A k \in 1 .. Len(Flight) : arbQ[k] = Flight[k].from
  BY DEF Routed
<1>3. \A k \in 1 .. Len(Flight) : /\ pair[Flight[k]] = <<arbQ[k], Flight[k]>>
                                  /\ from[Flight[k]] = Flight[k].from
  BY <1>1, <1>2 DEF pair, from
<1>4. Contents = Mapped(pair, Flight)
  BY <1>1, <1>3 DEF Contents, Mapped
<1>5. arbQ = Mapped(from, Flight)
  BY <1>1, <1>3 DEF Routed, Mapped
<1> QED BY <1>4, <1>5 DEF Seen

\* What one clock does to the commands on their way.
LEMMA ClockStep ==
    ASSUME IInv, NEW req \in Requests, NEW take \in BOOLEAN, NEW ready \in BOOLEAN,
           NEW reply \in BOOLEAN, Clock(req, take, ready, reply)
    PROVE  /\ Routed' /\ AtHome' /\ TypeOK'
           /\ Delivers(take) => Flight # <<>> /\ Head(Flight) = Head(rspQ)
           /\ Issues(req) => /\ Granted(req) \in Masters
                            /\ [from |-> Granted(req), region |-> req[Granted(req)]] \in Commands
           /\ Contents' = After(Contents, Delivers(take), Issues(req),
                 <<Granted(req), [from |-> Granted(req), region |-> req[Granted(req)]]>>)
<1> DEFINE m == Granted(req)
           c == [from |-> m, region |-> req[m]]
           d == IF Issues(req) THEN c ELSE [from |-> "lsu", region |-> "mem"]
           issue == Issues(req)
           deliver == Delivers(take)
           send == Sends(ready)
           answer == Answers(ready, reply)
           x == IF answer THEN Head(Held(ready, Port)) ELSE c
           t == IF send THEN Target(Head(cmdQ)) ELSE "none"
           left == Left(send, answer)
<1>1. issue \in BOOLEAN /\ deliver \in BOOLEAN /\ send \in BOOLEAN /\ answer \in BOOLEAN
  BY DEF Issues, Delivers, Sends, Answers
<1>2. /\ deliver => rspQ # <<>> /\ arbQ # <<>>
      /\ issue => Len(arbQ) < Outs /\ Len(cmdQ) < CmdDP
      /\ send => cmdQ # <<>> /\ Len(splQ) < Outs
      /\ answer => Len(rspQ) < RspDP
  BY DEF Delivers, Issues, Sends, Open, Answers, RspRoom
<1>3. d \in Commands /\ (issue => c \in Commands /\ d = c /\ from[d] = m) /\ m \in Masters
  <2>1. m \in Masters
    BY DEF Granted, Masters
  <2>2. issue => req[m] \in Regions
    BY <2>1 DEF Issues, Asks, Requests
  <2>3. issue => c \in Commands
    BY <2>1, <2>2 DEF Commands
  <2>4. [from |-> "lsu", region |-> "mem"] \in Commands
    BY DEF Commands, Masters, Regions
  <2>5. d \in Commands /\ (issue => d = c)
    BY <2>3, <2>4
  <2>6. issue => from[d] = m
    BY <2>3, <2>5 DEF from
  <2>7. QED BY <2>1, <2>3, <2>5, <2>6
<1>4. /\ arbQ' = After(arbQ, deliver, issue, m)
      /\ cmdQ' = After(cmdQ, send, issue, d)
      /\ rspQ' = After(rspQ, deliver, answer, x)
      /\ splQ' = SplQNext(send, answer, t)
      /\ outs' = Counts(issue, send, answer, deliver)
      /\ pend' = PendNext(ready, reply)
  BY DEF Clock, After, PendNext
<1>5. /\ send => t = Target(Head(cmdQ))
      /\ answer => Sent(send) # <<>> /\ x = Head(Sent(send))
  <2>1. answer => Sent(send) # <<>> /\ Held(ready, Port) = Sent(send)
    BY Answering
  <2>2. QED BY <2>1
<1>6. /\ left \in Seq(Commands) /\ splQ' = Mapped(target, left)
      /\ Len(left) <= Len(splQ) + 1 /\ (send \/ Len(left) <= Len(splQ))
  <2> HIDE DEF t, x, c, d, m, issue, deliver, send, answer
  <2> QED BY <1>1, <1>2, <1>4, <1>5, SplitterQueue
<1>7. /\ Below' = left
      /\ \A s \in Slaves : pend'[s] # <<>> => splQ' # <<>> /\ Head(splQ') = s
  BY <1>4, <1>6, BelowStep
<1>8. pend' \in [Slaves -> Seq(Commands)] /\ AtHome'
  BY <1>4, StillHome
<1>9. /\ Flight' = After(Flight, deliver, issue, d) /\ Flight' \in Seq(Commands)
      /\ deliver => Flight # <<>> /\ Head(Flight) = Head(rspQ)
  <2> HIDE DEF t, x, c, d, m, issue, deliver, send, answer
  <2> QED BY <1>1, <1>2, <1>3, <1>4, <1>5, <1>7, FlightStep
<1>10. TypeOK /\ Routed /\ Flight \in Seq(Commands) /\ Seen
  BY Shapes, ContentsOfFlight DEF IInv
<1>11. ASSUME NEW f
       PROVE  Mapped(f, Flight') = After(Mapped(f, Flight), deliver, issue, f[d])
  <2> HIDE DEF t, x, c, d, m, issue, deliver, send, answer
  <2> QED BY <1>1, <1>3, <1>9, <1>10, MappedStep
<1>12. arbQ' = Mapped(from, Flight')
  <2>1. Mapped(from, Flight') = After(arbQ, deliver, issue, from[d])
    BY <1>10, <1>11 DEF Seen
  <2>2. After(arbQ, deliver, issue, from[d]) = After(arbQ, deliver, issue, m)
    BY <1>3 DEF After
  <2>3. QED BY <1>4, <2>1, <2>2
<1>13. Routed'
  <2>1. arbQ' = [k \in 1 .. Len(Flight') |-> Flight'[k].from]
    <3>1. \A k \in 1 .. Len(Flight') : from[Flight'[k]] = Flight'[k].from
      BY <1>9, ElementOfSeq DEF from
    <3>2. QED BY <1>12, <3>1 DEF Mapped
  <2>2. splQ' = [k \in 1 .. Len(Below') |-> Target(Below'[k])]
    <3>1. \A k \in 1 .. Len(left) : target[left[k]] = Target(left[k])
      BY <1>6, ElementOfSeq DEF target
    <3>2. splQ' = [k \in 1 .. Len(left) |-> Target(left[k])]
      BY <1>6, <3>1 DEF Mapped
    <3>3. QED BY <1>7, <3>2
  <2>3. QED BY <1>7, <2>1, <2>2 DEF Routed
<1>14. TypeOK'
  <2>0. Outs \in Nat /\ CmdDP \in Nat /\ RspDP \in Nat
    BY DepthAssumption
  <2>1. arbQ' \in Seq(Masters) /\ Len(arbQ') <= Outs
    <3>1. arbQ \in Seq(Masters) /\ Len(arbQ) <= Outs
      BY <1>10 DEF TypeOK
    <3> HIDE DEF c, d, m, issue, deliver, send, answer
    <3>2. /\ arbQ # <<>> => Tail(arbQ) \in Seq(Masters) /\ Len(Tail(arbQ)) <= Outs
          /\ Len(arbQ) < Outs => Append(arbQ, m) \in Seq(Masters) /\ Len(Append(arbQ, m)) <= Outs
          /\ arbQ # <<>> /\ Len(arbQ) < Outs =>
               Append(Tail(arbQ), m) \in Seq(Masters) /\ Len(Append(Tail(arbQ), m)) <= Outs
      BY <1>3, <2>0, <3>1, Room
    <3>3. QED BY <1>2, <1>4, <3>1, <3>2 DEF After
  <2>2. cmdQ' \in Seq(Commands) /\ Len(cmdQ') <= CmdDP
    <3>1. cmdQ \in Seq(Commands) /\ Len(cmdQ) <= CmdDP
      BY <1>10 DEF TypeOK
    <3> HIDE DEF c, d, m, issue, deliver, send, answer
    <3>2. /\ cmdQ # <<>> => Tail(cmdQ) \in Seq(Commands) /\ Len(Tail(cmdQ)) <= CmdDP
          /\ Len(cmdQ) < CmdDP => Append(cmdQ, d) \in Seq(Commands) /\ Len(Append(cmdQ, d)) <= CmdDP
          /\ cmdQ # <<>> /\ Len(cmdQ) < CmdDP =>
               Append(Tail(cmdQ), d) \in Seq(Commands) /\ Len(Append(Tail(cmdQ), d)) <= CmdDP
      BY <1>3, <2>0, <3>1, Room
    <3>3. QED BY <1>2, <1>4, <3>1, <3>2 DEF After
  <2>3. rspQ' \in Seq(Commands) /\ Len(rspQ') <= RspDP
    <3>1. rspQ \in Seq(Commands) /\ Len(rspQ) <= RspDP
      BY <1>10 DEF TypeOK
    <3>2. answer => x \in Commands
      <4>1. answer => Port \in Slaves /\ Held(ready, Port) # <<>>
        BY DEF Answers
      <4>2. answer => Head(Held(ready, Port)) \in Commands
        BY <4>1, HeldHome, HeadTailProperties
      <4>3. QED BY <4>2
    <3> HIDE DEF c, d, m, x, issue, deliver, send, answer
    <3>3. /\ rspQ # <<>> => Tail(rspQ) \in Seq(Commands) /\ Len(Tail(rspQ)) <= RspDP
          /\ x \in Commands /\ Len(rspQ) < RspDP =>
               Append(rspQ, x) \in Seq(Commands) /\ Len(Append(rspQ, x)) <= RspDP
          /\ rspQ # <<>> /\ x \in Commands /\ Len(rspQ) < RspDP =>
               Append(Tail(rspQ), x) \in Seq(Commands) /\ Len(Append(Tail(rspQ), x)) <= RspDP
      BY <2>0, <3>1, Room
    <3>4. QED BY <1>2, <1>4, <3>1, <3>2, <3>3 DEF After
  <2>4. splQ' \in Seq(Slaves) /\ Len(splQ') <= Outs
    <3>1. /\ \A k \in 1 .. Len(left) : left[k] \in Commands
          /\ \A b \in Commands : target[b] \in Slaves
          /\ Len(left) \in Nat
      BY <1>6, ElementOfSeq, LenProperties, Maps
    <3>2. splQ' \in Seq(Slaves) /\ Len(splQ') = Len(left)
      BY <1>6, <3>1 DEF Mapped
    <3>3. Len(splQ) \in Nat /\ Len(splQ) <= Outs
      BY <1>10, LenProperties DEF TypeOK
    <3>4. CASE send
      <4>1. Len(splQ) < Outs
        BY <1>2, <3>4
      <4> HIDE DEF send, answer
      <4>2. QED BY <1>6, <2>0, <3>1, <3>2, <3>3, <4>1
    <3>5. CASE ~send
      <4>1. Len(left) <= Len(splQ)
        BY <1>6, <3>5
      <4> HIDE DEF left, send, answer
      <4>2. QED BY <2>0, <3>1, <3>2, <3>3, <4>1
    <3>6. QED BY <3>4, <3>5
  <2>5. outs' \in {0, 1}
    <3>1. outs \in {0, 1}
      BY <1>10 DEF TypeOK
    <3>2. (outs + 1) % 2 \in {0, 1} /\ (outs - 1) % 2 \in {0, 1}
      BY <3>1
    <3>3. QED BY <1>4, <3>1, <3>2 DEF Counts
  <2>6. QED BY <1>8, <2>1, <2>2, <2>3, <2>4, <2>5 DEF TypeOK
<1>15. Contents' = After(Contents, deliver, issue, <<m, c>>)
  <2>1. Seen'
    BY <1>13, <1>14, ContentsOfFlight, PTL
  <2>2. Contents' = After(Contents, deliver, issue, pair[d])
    BY <1>10, <1>11, <2>1 DEF Seen
  <2>3. issue => pair[d] = <<m, c>>
    BY <1>3 DEF pair
  <2>4. After(Contents, deliver, issue, pair[d]) = After(Contents, deliver, issue, <<m, c>>)
    BY <2>3 DEF After
  <2>5. QED BY <2>2, <2>4
<1> QED BY <1>3, <1>8, <1>9, <1>13, <1>14, <1>15

\* Every clock keeps the invariant.
LEMMA NextInv == IInv /\ [Next]_vars => IInv'
<1> SUFFICES ASSUME IInv, [Next]_vars PROVE IInv'
  OBVIOUS
<1>1. ASSUME NEW req \in Requests, NEW take \in BOOLEAN, NEW ready \in BOOLEAN,
             NEW reply \in BOOLEAN, Clock(req, take, ready, reply)
      PROVE  IInv'
  BY <1>1, ClockStep DEF IInv
<1>2. CASE UNCHANGED vars
  BY <1>2 DEF vars, IInv, TypeOK, Routed, AtHome, Flight, Below
<1> QED BY <1>1, <1>2 DEF Next

\* Every step of the unit is one of the channel that its masters see.
LEMMA NextChannel == IInv /\ [Next]_vars => [Chan!Next]_(Chan!cvars)
<1> SUFFICES ASSUME IInv, [Next]_vars PROVE [Chan!Next]_(Chan!cvars)
  OBVIOUS
<1>1. ASSUME NEW req \in Requests, NEW take \in BOOLEAN, NEW ready \in BOOLEAN,
             NEW reply \in BOOLEAN, Clock(req, take, ready, reply)
      PROVE  [Chan!Next]_(Chan!cvars)
  <2> DEFINE m == Granted(req)
             c == [from |-> m, region |-> req[m]]
             issue == Issues(req)
             deliver == Delivers(take)
  <2>1. /\ deliver => Flight # <<>> /\ Head(Flight) = Head(rspQ)
        /\ issue => <<m, c>> \in Masters \X Commands
        /\ Contents' = After(Contents, deliver, issue, <<m, c>>)
    BY <1>1, ClockStep
  <2>2. /\ arbQ \in Seq(Masters) /\ Len(arbQ) = Len(Flight) /\ Flight \in Seq(Commands)
    BY Shapes DEF IInv, TypeOK
  <2>3. /\ issue => Len(Contents) < Outs
        /\ deliver => Contents # <<>> /\ Head(Contents) = <<Head(arbQ), Head(rspQ)>>
    <3>1. /\ \A k \in 1 .. Len(arbQ) : arbQ[k] \in Masters /\ Flight[k] \in Commands
          /\ Len(arbQ) \in Nat
      BY <2>2, ElementOfSeq, LenProperties
    <3>2. /\ Contents \in Seq(Masters \X Commands) /\ Len(Contents) = Len(arbQ)
          /\ \A k \in 1 .. Len(arbQ) : Contents[k] = <<arbQ[k], Flight[k]>>
      BY <3>1 DEF Contents
    <3>3. issue => Len(arbQ) < Outs
      BY DEF Issues
    <3>4. deliver => arbQ # <<>>
      BY DEF Delivers
    <3> HIDE DEF m, c, issue, deliver
    <3>5. deliver => /\ Contents # <<>> /\ Head(Contents) = Contents[1] /\ 1 \in 1 .. Len(arbQ)
                     /\ Head(arbQ) = arbQ[1] /\ Head(Flight) = Flight[1]
      BY <2>1, <2>2, <3>1, <3>2, <3>4, EmptySeq, HeadTailProperties
    <3>6. QED BY <2>1, <3>2, <3>3, <3>5
  <2>4. /\ inp' = IF issue THEN Chan!Turn(inp, <<m, c>>) ELSE inp
        /\ out' = IF deliver THEN Chan!Turn(out, Head(Contents)) ELSE out
    BY <1>1, <2>3 DEF Clock, Turn, Chan!Turn
  <2> HIDE DEF m, c, issue, deliver
  <2>5. CASE issue /\ deliver
    <3>1. Chan!Both(<<m, c>>)
      BY <2>1, <2>3, <2>4, <2>5 DEF After, Chan!Both
    <3>2. QED BY <2>1, <2>5, <3>1 DEF Chan!Next
  <2>6. CASE issue /\ ~deliver
    <3>1. Chan!Send(<<m, c>>)
      BY <2>1, <2>3, <2>4, <2>6 DEF After, Chan!Send
    <3>2. QED BY <2>1, <2>6, <3>1 DEF Chan!Next
  <2>7. CASE ~issue /\ deliver
    <3>1. Chan!Receive
      BY <2>1, <2>3, <2>4, <2>7 DEF After, Chan!Receive
    <3>2. QED BY <3>1 DEF Chan!Next
  <2>8. CASE ~issue /\ ~deliver
    BY <2>1, <2>4, <2>8 DEF After, Chan!cvars
  <2>9. QED BY <2>5, <2>6, <2>7, <2>8
<1>2. CASE UNCHANGED vars
  BY <1>2 DEF vars, Chan!cvars, Contents, Flight, Below
<1> QED BY <1>1, <1>2 DEF Next

\* An empty unit is an empty channel.
LEMMA InitChannel == Init => Chan!Init
<1> SUFFICES ASSUME Init PROVE Chan!Init
  OBVIOUS
<1>1. Contents = <<>>
  <2>1. Contents = [k \in 1 .. 0 |-> <<arbQ[k], Flight[k]>>]
    BY DEF Init, Contents
  <2>2. QED BY <2>1
<1>2. PICK c \in Commands : inp = [word |-> <<c.from, c>>, odd |-> FALSE] /\ out = inp
  BY DEF Init
<1>3. <<c.from, c>> \in Masters \X Commands
  BY DEF Commands
<1> QED BY <1>1, <1>2, <1>3 DEF Chan!Init

\* The arbiter's queue and the splitter's are those of the commands on their
\* way, at every depth, whatever the masters and the slaves do.
THEOREM Routing == Spec => []Routed
<1>1. IInv => Routed
  BY DEF IInv
<1> QED BY <1>1, InitInv, NextInv, PTL DEF Spec

\* The unit answers every command once, in order, to the master that asked.
THEOREM BiuIsChannel == Spec => IsChannel
<1> QED BY InitInv, NextInv, InitChannel, NextChannel, PTL DEF Spec, IsChannel, Chan!Spec

\* With one command outstanding the bit of the counter tells whether there is one.
Counted == outs = 0 <=> arbQ = <<>>

\* With one outstanding transaction the one-bit counter counts right.
LEMMA CountedStep ==
    ASSUME Outs = 1
    PROVE  IInv /\ Counted /\ [Next]_vars => Counted'
<1> SUFFICES ASSUME IInv, Counted, [Next]_vars PROVE Counted'
  OBVIOUS
<1>1. ASSUME NEW req \in Requests, NEW take \in BOOLEAN, NEW ready \in BOOLEAN,
             NEW reply \in BOOLEAN, Clock(req, take, ready, reply)
      PROVE  Counted'
  <2> DEFINE m == Granted(req)
             issue == Issues(req)
             deliver == Delivers(take)
  <2>1. arbQ \in Seq(Masters) /\ Len(arbQ) <= 1 /\ outs \in {0, 1} /\ m \in Masters
    BY DEF IInv, TypeOK, Granted, Masters
  <2>2. /\ arbQ' = After(arbQ, deliver, issue, m)
        /\ outs' = IF issue # deliver
                   THEN (IF issue THEN (outs + 1) % 2 ELSE (outs - 1) % 2) ELSE outs
    BY <1>1 DEF Clock, Counts
  <2>3. issue => arbQ = <<>>
    <3>1. issue => Len(arbQ) < 1
      BY DEF Issues
    <3>2. Len(arbQ) < 1 => arbQ = <<>>
      BY <2>1, EmptySeq, LenProperties
    <3>3. QED BY <3>1, <3>2
  <2>4. (deliver => arbQ # <<>>) /\ issue \in BOOLEAN /\ deliver \in BOOLEAN
    BY DEF Delivers, Issues
  <2> HIDE DEF issue, deliver, m
  <2>5. CASE issue
    <3>1. ~deliver /\ outs = 0 /\ arbQ' = Append(arbQ, m)
      BY <2>2, <2>3, <2>4, <2>5 DEF After, Counted
    <3>2. outs' = (outs + 1) % 2
      BY <2>2, <2>5, <3>1
    <3>3. arbQ' # <<>>
      BY <2>1, <3>1, AppendProperties
    <3>4. outs' = 1
      BY <3>1, <3>2
    <3>5. QED BY <3>3, <3>4 DEF Counted
  <2>6. CASE ~issue /\ deliver
    <3>1. outs = 1 /\ arbQ' = Tail(arbQ) /\ arbQ # <<>>
      BY <2>1, <2>2, <2>4, <2>6 DEF After, Counted
    <3>2. outs' = (outs - 1) % 2
      BY <2>2, <2>6
    <3>3. Tail(arbQ) \in Seq(Masters) /\ Len(Tail(arbQ)) = Len(arbQ) - 1 /\ Len(arbQ) \in Nat
      BY <2>1, <3>1, HeadTailProperties, LenProperties
    <3>4. Len(Tail(arbQ)) = 0
      BY <2>1, <3>3, LenProperties
    <3>5. arbQ' = <<>>
      BY <3>1, <3>3, <3>4, EmptySeq
    <3>6. outs' = 0
      BY <3>1, <3>2
    <3>7. QED BY <3>5, <3>6 DEF Counted
  <2>7. CASE ~issue /\ ~deliver
    <3>1. arbQ' = arbQ
      BY <2>2, <2>7 DEF After
    <3>2. outs' = outs
      <4>1. issue = FALSE /\ deliver = FALSE
        BY <2>4, <2>7
      <4>2. QED BY <2>2, <4>1
    <3>3. QED BY <3>1, <3>2 DEF Counted
  <2>8. QED BY <2>5, <2>6, <2>7
<1>2. CASE UNCHANGED vars
  BY <1>2 DEF vars, Counted
<1> QED BY <1>1, <1>2 DEF Next

\* As the core configures the unit, its clock is never gated with an answer
\* inside.
THEOREM Awake ==
    ASSUME Outs = 1
    PROVE  Spec => []StaysAwake
<1>1. Init => Counted
  BY DEF Init, Counted
<1>2. IInv /\ Counted /\ [Next]_vars => Counted'
  BY CountedStep
<1>3. Counted => StaysAwake
  BY DEF Counted, StaysAwake
<1> QED BY <1>1, <1>2, <1>3, InitInv, NextInv, PTL DEF Spec
=============================================================================
