------------------------------- MODULE Tensor -------------------------------
(***************************************************************************)
(* core/tensor.cpp as far as the decoder uses it: how many bytes a tensor  *)
(* has, and which elements of its operands each function of namespace simd *)
(* reads and writes.  What it computes from them is left out.              *)
(*                                                                         *)
(* An access is a pair <<buffer, index>>; a kernel is the record of the    *)
(* accesses one call makes.                                                *)
(***************************************************************************)
EXTENDS Integers

CONSTANTS
    Lanes,     \* floats in a vector register: 8
    UInt       \* one more than the largest uint32_t: 2^32

ASSUME TensorAssumption == Lanes \in Nat \ {0} /\ UInt \in Nat /\ UInt > 4

\* One more than the largest size_t.
SizeT == UInt * UInt

\* Tensor::nbytes, a size_t
NBytes(dtype, n) ==
    ( IF dtype \in {"F16", "BF16"} THEN 2 * n
      ELSE IF dtype = "Q4_0" THEN n \div 2 + n \div 32
      ELSE IF dtype = "Q8_0" THEN n + n \div 32
      ELSE 4 * n ) % SizeT

\* Every kernel casts data() to float *.
Floats(dtype, n) == NBytes(dtype, n) \div 4

\* What a loop over whole registers reaches, and the scalar loop after it.
Vectors(n) == 0..n - (n % Lanes) - 1
Rest(n) == n - (n % Lanes)..n - 1
Elements(n) == Vectors(n) \cup Rest(n)

Kernel(reads, writes) == [reads |-> reads, writes |-> writes]

\* memcpy of floats.
Copy(from, to, n) == Kernel({from} \X (0..n - 1), {to} \X (0..n - 1))

RMSNorm(x, y, n) == Kernel({x} \X Elements(n), {y} \X Elements(n))

SiLU(x, y, n) == Kernel({x} \X (0..n - 1), {y} \X (0..n - 1))

\* Mutant of GateMul: without the loop over the rest.
GateMulNoTail(gate, up, y, n) == Kernel({gate, up} \X Vectors(n), {y} \X Vectors(n))

GateMul(gate, up, y, n) == Kernel({gate, up} \X Elements(n), {y} \X Elements(n))

\* y = A x, row by row, each a dot product.
MatVec(A, x, y, M, N) ==
    Kernel({A} \X {i * N + j : i \in 0..M - 1, j \in Elements(N)}
               \cup {x} \X Elements(N),
           {y} \X (0..M - 1))

\* Each head's halves are rotated against each other, in place.
Rotated(heads, head_dim) ==
    LET half == head_dim \div 2
    IN  UNION {{h * head_dim + j, h * head_dim + j + half} :
                  h \in 0..heads - 1, j \in 0..half - 1}

Rope(q, k, head_dim, n_head, n_kv_head) ==
    LET both == {q} \X Rotated(n_head, head_dim) \cup {k} \X Rotated(n_kv_head, head_dim)
    IN  Kernel(both, both)

=============================================================================
