------------------------------- MODULE MCMt -------------------------------
(***************************************************************************)
(* The multi-core programs on two cores, as mt/Makefile runs them.         *)
(***************************************************************************)
EXTENDS Mt, MtPrograms

CONSTANT NCores

MCCores == 0 .. NCores - 1

Matmul(P(_, _, _), d) ==
    [code |-> [c \in MCCores |-> MatmulEntry(P(c, NCores, d), d)],
     rows |-> d, cols |-> d, ks |-> d]

Vvadd(V(_, _, _), d) ==
    [code |-> [c \in MCCores |-> VvaddEntry(c, V(c, NCores, d), d)],
     rows |-> 1, cols |-> d, ks |-> 1]

\* Each with the smallest dimension that takes it through all its loops.
Small == {Matmul(Ae, 8), Matmul(Ag, 8), Matmul(Cg, 8), Matmul(Ai, 8), Matmul(Ci, 8),
          Matmul(An, 4), Matmul(Ap, 8), Matmul(Aq, 8), Matmul(Ar, 8),
          Matmul(Bb, 16), Matmul(Bh, 16), Matmul(Bj, 16), Matmul(Bm, 16), Matmul(Dm, 16),
          Matmul(Bs, 16), Matmul(Cs, 8), Matmul(Ds, 16)}

\* Those that are written for 32 rows and columns.
Fixed == {Matmul(Ad, 32), Matmul(Ce, 32), Matmul(Af, 32), Matmul(Ak, 32), Matmul(Ck, 32),
          Matmul(Al, 32), Matmul(Bf, 32), Matmul(Cl, 32), Matmul(Df, 32), Matmul(Am, 32),
          Matmul(Du, 32), Matmul(Av, 32), Matmul(Cv, 32), Matmul(Ay, 32), Matmul(Az, 32),
          Matmul(Cy, 32), Matmul(Bc, 32), Matmul(Dc, 32), Matmul(Bk, 32), Matmul(Dv, 32),
          Matmul(At, 32),
          Matmul(Bo, 32), Matmul(Br, 32), Matmul(Dr, 32), Matmul(Do, 32)}

Vectors == {Vvadd(Vvadd0, 17), Vvadd(Vvadd1, 16), Vvadd(Vvadd2, 16), Vvadd(Vvadd3, 16),
            Vvadd(Vvadd4, 17)}

MCPrograms == Small \cup Fixed \cup Vectors
=============================================================================
