---------------------------- MODULE MtPrograms ----------------------------
(***************************************************************************)
(* The multi-core programs of riscv-tests/mt: 44 matrix products and five  *)
(* vector sums, each a function of the core c, the number n of cores and   *)
(* the dimension d (lda, or the length of the vectors).                    *)
(*                                                                         *)
(* A program is a sequence of stretches, with a call of barrier() between  *)
(* one and the next.  A stretch is a set of tiles, blocks of the loop      *)
(* nest: the tile [rows, cols, ks] brings into C[r][x], r in rows and x in *)
(* cols, the products A[r][k] * B[k][x], k in ks.  What the code unrolls,  *)
(* and the registers, private arrays and order it goes through inside a    *)
(* tile, are left out; what a loop overshoots when its step does not       *)
(* divide its range is kept.  A program that writes 32 as a literal, as a  *)
(* stride or as the bound of a loop, is only meant, here as in the code,   *)
(* for d = 32.                                                             *)
(***************************************************************************)
EXTENDS Integers, FiniteSets, Sequences

Upto(d) == 0 .. d-1

\* for (i = a; i < b; i += s): the values of i, and the iterations of an empty or
\* a full range; Span adds what an iteration unrolled s times covers.
By(a, b, s) == {i \in a .. b-1 : (i - a) % s = 0}
Trips(a, b, s) == IF b > a THEN (b - a + s - 1) \div s ELSE 0
Span(a, b, s) == UNION {i .. i+s-1 : i \in By(a, b, s)}

\* Two nested loops of p and q iterations with a barrier at the end of the inner one.
Loop2(p, q, body) == [t \in 1 .. p*q |-> body[(t-1) \div q, (t-1) % q]]

Tile(op, via, rows, cols, ks) ==
    [op |-> op, via |-> via, rows |-> rows, cols |-> cols, ks |-> ks]
Add(rows, cols, ks) == Tile("add", FALSE, rows, cols, ks)       \* C += ...
Set(rows, cols, ks) == Tile("set", FALSE, rows, cols, ks)       \* C = ...
AddVia(rows, cols, ks) == Tile("add", TRUE, rows, cols, ks)     \* ... with B read from
SetVia(rows, cols, ks) == Tile("set", TRUE, rows, cols, ks)     \* the shared copy of it
Copy(cols, ks) == Tile("copy", FALSE, {}, cols, ks)             \* copy of B, for all cores
Verify(rows, cols) == Tile("verify", FALSE, rows, cols, {})     \* C read and compared
Reload(rows, cols) == Tile("reload", FALSE, rows, cols, {})     \* C = the input again

\* Three ways the programs share out d rows or columns among the cores.
Block(c, n, d) == c * (d \div n) .. (c+1) * (d \div n) - 1
Start(c, n, d) == (c * d) \div n
Half(c, n) == (IF c = 0 THEN Upto(16) ELSE {}) \cup
              (IF c = 1 \/ n = 1 THEN 16..31 ELSE {})
-----------------------------------------------------------------------------
\* One row after the other, with a barrier after every pair of ks.
Ad(c, n, d) ==
    LET body[j, k \in Nat] == {Add({c * (d \div n) + j}, Upto(32), {2*k, 2*k + 1})}
    IN  Loop2(d \div n, 16, body) \o <<{}>>

\* B is transposed into the shared BB, a row per barrier, then used.
Transpose(c, n, d) == [k \in 1..d |-> {Copy(Block(c, n, d), {k-1})}]

Ae(c, n, d) ==
    LET body[i, j \in Nat] == {SetVia({c * (d \div n) + j}, 4*i .. 4*i + 3, Span(0, d, 8))}
    IN  Transpose(c, n, d) \o Loop2(Trips(0, d, 4), d \div n, body) \o <<{}>>

Ce(c, n, d) ==
    LET Cols == UNION {Span(x * (32 \div n), (x+1) * (32 \div n), 8) : x \in Upto(n)}
    IN  Transpose(c, n, d) \o <<{AddVia(Block(c, n, d), Cols, Span(0, d, 8))}>>

Af(c, n, d) == <<{Set(Span(Start(c, n, d), Start(c+1, n, d), 2), Upto(d), Span(0, d, 4))}>>

\* Two columns and four ks at a time, with a barrier after each.
Ag(c, n, d) ==
    LET First == c * (d \div n)
        body[i, k \in Nat] ==
            {Add(Span(First, First + d \div n, 4), {2*i, 2*i + 1}, 4*k .. 4*k + 3)}
    IN  Loop2(Trips(0, d, 2), Trips(0, d, 4), body) \o <<{}>>
Cg(c, n, d) == Ag(c, n, d)

Ai(c, n, d) ==
    <<{}, {Set(Start(c, n, d) .. Start(c, n, d) + d \div n - 1, Span(0, d, 4), Upto(d))}>>
\* As Ai; core 0 counts k up, the others down.
Ci(c, n, d) == Ai(c, n, d)

\* Blocks of 16 rows, dealt out to the cores in turn.
Dealt(c, n, d, step) ==
    UNION {Span(jj, IF jj + 16 < d THEN jj + 16 ELSE d, step) : jj \in By(16*c, d, 16*n)}
Ak(c, n, d) == <<{Add(Dealt(c, n, d, 1), Dealt(0, 1, d, 8), Span(0, d, 4))}>>

\* The column blocks start at the core's own and wrap around.
Ck(c, n, d) ==
    LET Blocks == {(16*c + 16*t) % d : t \in Upto(d \div 16)}
        Cols == UNION {Span(ii, IF ii + 16 < d THEN ii + 16 ELSE d, 2) : ii \in Blocks}
    IN  <<{Add(Dealt(c, n, d, 4), Cols, Span(0, d, 8))}>>

Al(c, n, d) == <<{Add(Upto(32), Half(c, n), Upto(32))}>>
Bf(c, n, d) == <<{Set(Upto(32), Half(c, n), Upto(32))}>>

\* A core's half of the columns, the rows of its own half first.
Cl(c, n, d) == <<{Add(rows, Half(c, n), Upto(32)) : rows \in {16..31, Upto(16)}}>>
DfLeft(c) == IF c = 0 THEN {Add(rows, Upto(16), Upto(32)) : rows \in {Upto(16), 16..31}}
                      ELSE {}
DfRight(c, n) == IF c = 1 \/ n = 1
                   THEN {Add(rows, 16..31, Upto(32)) : rows \in {16..31, Upto(16)}}
                   ELSE {}
Df(c, n, d) == <<DfLeft(c) \cup DfRight(c, n)>>

Am(c, n, d) == <<{Set(Span(Start(c, n, 32), Start(c+1, n, 32), 2), Upto(32), Span(0, d, 4))}>>
Du(c, n, d) == Am(c, n, d)

An(c, n, d) ==
    LET body[j, k \in Nat] == {Add({c * (d \div n) + j}, Upto(d), {k})}
    IN  Loop2(d \div n, d, body) \o <<{}>>

Ap(c, n, d) == <<{Add(Block(c, n, d), Upto(d), Upto(d))}>>

\* Columns dealt out one at a time, two rounds of the cores unrolled.
Aq(c, n, d) == <<{Add(Upto(d), UNION {{i, i + n} : i \in By(c, d, 2*n)}, Upto(d))}>>

Ar(c, n, d) == <<{Add(Block(c, n, d) \cap Upto(d), Upto(d), Upto(d))}>>

\* Each core works on a private transposition of B whose loops run to a literal 32
\* with the stride lda: it is the transposition for d = 32 only; a smaller d reads
\* behind B and overwrites what it has transposed.
At(c, n, d) ==
    <<{Add(Upto(d), Span(Start(c, n, d), Start(c+1, n, d), 8), Span(0, d, 16))}>>
-----------------------------------------------------------------------------
\* Sixteen rows for each of two cores, in blocks of eight by eight.
Blocks8 == UNION {8*m .. 8*m + 7 : m \in Upto(4)}
Av(c, n, d) == <<{Add(Half(c, n), Blocks8, Blocks8)}>>
CvLow(c) == IF c = 0 THEN {Add(Upto(16), Blocks8, Blocks8)} ELSE {}
CvHigh(c, n) == IF c = 1 \/ n = 1 THEN {Add(16..31, Blocks8, Blocks8)} ELSE {}
Cv(c, n, d) == <<CvHigh(c, n) \cup CvLow(c)>>

\* Eight cells of C at a time, from start to end; row j >> 5, columns from j % 32.
Eights(via, c, n, d) ==
    {Tile("set", via, {j \div 32}, (j % 32) .. ((j % 32) + 7), Span(0, d, 2)) :
        j \in By(512*c, 512 * (IF n = 1 THEN 2 ELSE c+1), 8)}
Ay(c, n, d) == <<IF c > 1 THEN {} ELSE Eights(FALSE, c, n, d)>>
Az(c, n, d) == Ay(c, n, d)
\* As Ay, but the second core reads a copy it has made of A and B.
Cy(c, n, d) ==
    <<IF c > 1 THEN {}
      ELSE IF c = 0 THEN Eights(FALSE, c, n, d)
      ELSE Eights(TRUE, c, n, d) \cup {Copy(Upto(32), Upto(32))}>>

Bb(c, n, d) ==
    <<{Set(Span(c * (d \div n), (c+1) * (d \div n), 4), Span(0, d, 2), Upto(d))}>>

\* Fast for two cores and d = 32 only; otherwise core 0 does everything.
Alone(c, d) == IF c > 0 THEN {} ELSE {Add(Upto(d), Upto(d), Upto(d))}
Bc(c, n, d) ==
    <<IF n = 2 /\ d = 32
        THEN {Add(Span(16*c, 16*(c+1), 2), Span(0, 32, 8), kk .. kk+15) : kk \in {0, 16}}
        ELSE Alone(c, d)>>
\* As Bc, each core beginning with its own half of the ks.
Dc(c, n, d) == Bc(c, n, d)

\* Each core half of the rows, in two halves of the ks.
HalfKs(rows, cols, d) == {Add(rows, cols, (m*d) \div 2 .. ((m+1)*d) \div 2 - 1) : m \in {0, 1}}
Bh(c, n, d) ==
    <<(IF c = 0 THEN HalfKs(Upto(d \div 2), Span(0, d, 8), d) ELSE {}) \cup
      (IF c = 1 \/ n = 1
         THEN HalfKs(d \div 2 .. d-1, UNION {i-7 .. i : i \in {d-1 - 8*t : t \in Upto(Trips(0, d, 8))}}, d)
         ELSE {})>>
Bj(c, n, d) == Bh(c, n, d)

\* A mistake the programs do make: the ks are shared out, not the rows, and both
\* cores add to the same cells of C.
Cf(c, n, d) ==
    <<(IF c = 0 THEN {Add(Span(0, 32, 2), Upto(32), Upto(16))} ELSE {}) \cup
      (IF c = 1 \/ n = 1
         THEN {Add(UNION {{31-i, 30-i} : i \in By(0, 32, 2)}, Upto(32), 16..31)} ELSE {})>>
Cm(c, n, d) == Cf(c, n, d)

Bk(c, n, d) == <<HalfKs(Half(c, n), Upto(32), 32)>>
\* As Bk, with the halves exchanged.
Dv(c, n, d) ==
    <<(IF c = 1 \/ n = 1 THEN HalfKs(Upto(16), Upto(32), 32) ELSE {}) \cup
      (IF c = 0 THEN HalfKs(16..31, Upto(32), 32) ELSE {})>>

\* Four rows at a time; the last core takes the rows that are left over.
Four(n, d) == LET space == d \div n IN [c \in Upto(n) |->
    Span(space * c, IF c = n-1 THEN (d \div 4) * 4 ELSE ((space * c + space) \div 4) * 4, 4)]
BmFirst(c, n, d) == IF c # n-1 THEN {Add(Four(n, d)[c], Span(0, d, 4), Upto(d))} ELSE {}
BmLast(c, n, d) == IF c = n-1 THEN {Add(Four(n, d)[c], Span(0, d, 4), Upto(d))} ELSE {}
Bm(c, n, d) == <<BmFirst(c, n, d) \cup BmLast(c, n, d)>>

\* The cores copy B together, then only the last one uses the copy.
DmCopy(c, n, d) == Copy(Upto(d), IF c = n-1 THEN Upto(d \div n) ELSE d \div n .. d-1)
DmFirst(c, n, d) == IF c # n-1 THEN {Add(Four(n, d)[c], Span(0, (d \div 4) * 4, 4), Upto(d))}
                               ELSE {}
DmLast(c, n, d) == IF c = n-1 THEN {AddVia(Four(n, d)[c], Span(0, (d \div 4) * 4, 4), Upto(d))}
                              ELSE {}
Dm(c, n, d) == <<{DmCopy(c, n, d)}, DmFirst(c, n, d) \cup DmLast(c, n, d)>>

Bo(c, n, d) == <<{Set(Half(c, n), Upto(32), Upto(32))}>>

\* A private transposition of the core's own columns, a barrier for every two rows
\* of B, and then one for every two rows and w columns of C.
BrLoop(c, n, d, w) ==
    LET Each == 16 \div w
        Cols(i2, t) == LET i == c * (d \div n) + 16*i2 + w * (t % Each) IN i .. i+w-1
        body[i2, t \in Nat] ==
            {Add({2 * (t \div Each), 2 * (t \div Each) + 1}, Cols(i2, t), Upto(32))}
    IN  [i \in 1 .. Trips(0, d, 2) |-> {}]
            \o Loop2(Trips(0, d \div n, 16), 16 * Each, body) \o <<{}>>
Br(c, n, d) == BrLoop(c, n, d, 4)
Dr(c, n, d) == BrLoop(c, n, d, 8)

\* Rows dealt out one at a time, four rounds of the cores unrolled.
Bs(c, n, d) ==
    <<{Add(UNION {{j, j+n, j + 2*n, j + 3*n} : j \in By(c, d, 4*n)}, Upto(d), Upto(d))}>>

Cs(c, n, d) ==
    LET body[t, i \in Nat] == {Set({c + 2*n*t, c + 2*n*t + n}, {i}, Upto(d))}
    IN  Loop2(Trips(c, d, 2*n), d, body) \o <<{}>>

Do(c, n, d) == <<{Set(Block(c, n, 32), Upto(32), Upto(32))}>>

Ds(c, n, d) == <<{Add(UNION {j .. j+3 : j \in By(4*c, d, 4*n)}, Upto(d), Span(0, d, 2))}>>
-----------------------------------------------------------------------------
\* The vector sums: the elements of z a core computes.  The second loop of vvadd0
\* is for what is left over.
Vvadd0(c, n, d) == LET leftover == d % (d \div n) IN Block(c, n, d) \cup By(d - leftover + c, d, n)
Vvadd1(c, n, d) == UNION {i .. i+3 : i \in UNION {{j, j + 4*n} : j \in By(4*c, d, 8*n)}}
Vvadd2(c, n, d) == UNION {{i, i + n} : i \in By(c, d, 2*n)}
Vvadd3(c, n, d) == Block(c, n, d)
Vvadd4(c, n, d) == By(c, d, n)

\* thread_entry of mt-matmul.c: the product, a barrier, and every core verifies it.
MatmulEntry(matmul, d) == matmul \o <<{Verify(Upto(d), Upto(d))}>>

\* thread_entry of mt-vvadd.c: z = x + y, verified by core 0, which then copies x to
\* z for z = z + y, verified again.
VvaddEntry(c, z, d) ==
    <<{}, {Set({0}, z, {0})},
      IF c = 0 THEN {Verify({0}, Upto(d)), Reload({0}, Upto(d))} ELSE {},
      {Add({0}, z, {0})},
      IF c = 0 THEN {Verify({0}, Upto(d))} ELSE {}, {}>>
=============================================================================
