-------------------------------- MODULE Cfft --------------------------------
(***************************************************************************)
(* The NTT entry points of plonky2/field/src/cfft/mod.rs: evaluate_poly,  *)
(* evaluate_poly_with_offset, interpolate_poly and                        *)
(* interpolate_poly_with_offset, with the twiddle tables of get_twiddles  *)
(* and get_inv_twiddles and the bit-reversal permutation permute_index.   *)
(*                                                                         *)
(* Each entry point checks its asserts (a failed one panics) and then     *)
(* runs one of three backends: CUDA when built with the cuda feature, the *)
(* concurrent one when built with parallel and the input is at least      *)
(* MIN_CONCURRENT_SIZE long, the serial one otherwise.  The serial        *)
(* backend (cfft/serial.rs, not among the sources) is the in-place        *)
(* radix-2 FFT that consumes the twiddle tables; the CUDA and concurrent   *)
(* kernels are modelled by their contract, polynomial evaluation and      *)
(* interpolation over the domain.                                         *)
(*                                                                         *)
(* The caller is the prover's low-degree extension: a trace column is     *)
(* interpolated, then evaluated back on the trace domain or on a coset    *)
(* blown up by a power of two, and the coset evaluations interpolated.    *)
(* The field is a small prime field with a two-adic subgroup standing for *)
(* Goldilocks (2-adicity 32); usize is UsizeBits wide (64 in the code).   *)
(***************************************************************************)
EXTENDS Integers, Sequences, SequencesExt

CONSTANTS
  Prime,             \* the field's modulus
  Generator,         \* a generator of the field's multiplicative group
  TwoAdicity,        \* F::TWO_ADICITY: 2^TwoAdicity divides Prime - 1
  UsizeBits,         \* width of usize
  MinConcurrentSize, \* MIN_CONCURRENT_SIZE (1024 in the code)
  Lens,              \* trace column lengths the caller passes
  Values,            \* field values a trace cell may hold
  Offsets,           \* coset shifts the caller passes
  Blowups            \* blowup factors the caller passes

ASSUME /\ (Prime - 1) % (2 ^ TwoAdicity) = 0
       /\ UsizeBits >= TwoAdicity

-----------------------------------------------------------------------------
(* Field helpers (the field library is a provided primitive).              *)

RECURSIVE PowMod(_, _)
\* F::exp_u64, by squaring.
PowMod(b, e) ==
  IF e = 0 THEN 1
  ELSE LET h == PowMod(b, e \div 2)
       IN (((h * h) % Prime) * (IF e % 2 = 1 THEN b ELSE 1)) % Prime

\* F::inverse of a non-zero element.
Inv(x) == PowMod(x % Prime, Prime - 2)

\* F::primitive_root_of_unity(n_log): an element of order 2^n_log.
PrimitiveRoot(nlog) == PowMod(Generator, (Prime - 1) \div (2 ^ nlog))

IsPowerOfTwo(x) == \E k \in 0..UsizeBits : 2 ^ k = x

\* log2_strict of a power of two.
Log2(x) == CHOOSE k \in 0..UsizeBits : 2 ^ k = x

-----------------------------------------------------------------------------
(* Twiddles and bit reversal (mod.rs).                                     *)

\* usize::reverse_bits over UsizeBits bits.
RECURSIVE ReverseBits(_, _)
ReverseBits(x, w) ==
  IF w = 0 THEN 0
  ELSE (x % 2) * 2 ^ (w - 1) + ReverseBits(x \div 2, w - 1)

\* permute_index: size 1 maps to 0 (a shift by USIZE_BITS would overflow);
\* otherwise index.reverse_bits() >> (USIZE_BITS - trailing_zeros(size)).
PermuteIndex(size, index) ==
  IF size = 1 THEN 0
  ELSE ReverseBits(index, UsizeBits) \div 2 ^ (UsizeBits - Log2(size))

\* permute: element i moves to position permute_index(len, i); the
\* permutation is an involution, so the result reads v at that index.
Permute(v) == [i \in 1..Len(v) |-> v[PermuteIndex(Len(v), i - 1) + 1]]

\* inv_root = root.exp_u64(domain_size - 1).
InvRoot(root, n) == PowMod(root, n - 1)

\* .take(domain_size / 2): the NTT needs half the roots.
TwiddleCount(size) == size \div 2

\* The asserts of get_twiddles / get_inv_twiddles.
TwiddleDomainOk(n) == IsPowerOfTwo(n) /\ Log2(n) <= TwoAdicity

\* get_twiddles: the first domain_size/2 powers of the root, permuted.
GetTwiddles(n) ==
  Permute([i \in 1..TwiddleCount(n) |-> PowMod(PrimitiveRoot(Log2(n)), i - 1)])

\* get_inv_twiddles: the same for the inverse root.
GetInvTwiddles(n) ==
  LET root == PrimitiveRoot(Log2(n))
  IN Permute([i \in 1..TwiddleCount(n) |-> PowMod(InvRoot(root, n), i - 1)])

-----------------------------------------------------------------------------
(* The serial backend (serial.rs): fft_in_place with count = 1.            *)

\* butterfly(values, offset, stride).
Butterfly(v, o, s) ==
  LET x == v[o + 1]
      y == v[o + s + 1]
  IN [v EXCEPT ![o + 1] = (x + y) % Prime, ![o + s + 1] = (x - y) % Prime]

\* butterfly_twiddle(values, twiddle, offset, stride).
ButterflyTwiddle(v, t, o, s) ==
  LET x == v[o + 1]
      y == (v[o + s + 1] * t) % Prime
  IN [v EXCEPT ![o + 1] = (x + y) % Prime, ![o + s + 1] = (x - y) % Prime]

\* The twiddled butterflies of one level: groups i = 1 .. size/2 - 1, at
\* offset + i * 2 * stride, with twiddles[i].
RECURSIVE TwiddleLoop(_, _, _, _, _, _)
TwiddleLoop(v, tw, o, s, i, half) ==
  IF i >= half THEN v
  ELSE TwiddleLoop(ButterflyTwiddle(v, tw[i + 1], o + i * 2 * s, s),
                   tw, o, s, i + 1, half)

\* fft_in_place(values, twiddles, 1, stride, offset): both halves at
\* twice the stride, then this level's butterflies.  Output is in
\* bit-reversed order.
RECURSIVE FftInPlace(_, _, _, _)
FftInPlace(v, tw, s, o) ==
  LET size == Len(v) \div s
      sub == IF size > 2
               THEN FftInPlace(FftInPlace(v, tw, 2 * s, o), tw, 2 * s, o + s)
               ELSE v
  IN TwiddleLoop(Butterfly(sub, o, s), tw, o, s, 1, size \div 2)

SerialEvaluate(p, tw) == Permute(FftInPlace(p, tw, 1, 0))

SerialInterpolate(v, itw) ==
  LET r == FftInPlace(v, itw, 1, 0)
  IN Permute([i \in 1..Len(v) |-> (r[i] * Inv(Len(v))) % Prime])

\* Each of the blowup chunks is p scaled by the powers of
\* offset * g^permute_index(blowup, i), transformed; the whole is permuted.
SerialEvaluateWithOffset(p, tw, off, b) ==
  LET n == Len(p)
      g == PrimitiveRoot(Log2(n * b))
      Chunk(i) ==
        LET sh == (PowMod(g, PermuteIndex(b, i)) * off) % Prime
        IN FftInPlace([d \in 1..n |-> (p[d] * PowMod(sh, d - 1)) % Prime],
                      tw, 1, 0)
  IN Permute(FlattenSeq([i \in 1..b |-> Chunk(i - 1)]))

\* Mutant: the coset shift is applied again instead of being undone.
SerialInterpolateWithOffset_mutShiftAgain(v, itw, off) ==
  LET m == Len(v)
      r == Permute(FftInPlace(v, itw, 1, 0))
  IN [k \in 1..m |-> (((r[k] * Inv(m)) % Prime) * PowMod(off, k - 1)) % Prime]

SerialInterpolateWithOffset(v, itw, off) ==
  LET m == Len(v)
      r == Permute(FftInPlace(v, itw, 1, 0))
  IN [k \in 1..m |-> (((r[k] * Inv(m)) % Prime) * PowMod(Inv(off), k - 1)) % Prime]

-----------------------------------------------------------------------------
(* The contract of a kernel: evaluation and interpolation over a coset.    *)

RECURSIVE PolyAt(_, _)
\* Horner evaluation of coefficients c at x.
PolyAt(c, x) == IF c = <<>> THEN 0 ELSE (Head(c) + x * PolyAt(Tail(c), x)) % Prime

RECURSIVE SumMod(_)
SumMod(s) == IF s = <<>> THEN 0 ELSE (Head(s) + SumMod(Tail(s))) % Prime

\* Values of c at off * w^k, k = 0 .. m-1, w of order m.
EvalContract(c, off, m) ==
  LET w == PrimitiveRoot(Log2(m))
  IN [k \in 1..m |-> PolyAt(c, (off * PowMod(w, k - 1)) % Prime)]

\* The m coefficients whose values at off * w^k are v.
InterpContract(v, off) ==
  LET m == Len(v)
      wi == Inv(PrimitiveRoot(Log2(m)))
      S(j) == SumMod([k \in 1..m |-> (v[k] * PowMod(wi, (j - 1) * (k - 1))) % Prime])
  IN [j \in 1..m |->
        (((S(j) * Inv(m)) % Prime) * PowMod(Inv(off), j - 1)) % Prime]

-----------------------------------------------------------------------------
(* The entry points.                                                       *)

VARIABLES
  cuda,     \* built with feature "cuda"
  parallel, \* built with feature "parallel"
  orig,     \* the trace column the caller starts from
  coeffs,   \* its coefficients, once interpolated
  blowup,   \* the blowup factor of the coset evaluation
  shift,    \* its domain offset
  data,     \* the slice the last call returned or mutated
  stage,    \* the caller's progress, or "panicked"
  backend   \* the backend the last call ran

vars == <<cuda, parallel, orig, coeffs, blowup, shift, data, stage, backend>>

\* The dispatch every entry point makes (the field stands for Goldilocks).
Backend(len) ==
  IF cuda THEN "cuda"
  ELSE IF parallel /\ len >= MinConcurrentSize THEN "concurrent"
  ELSE "serial"

\* The asserts of evaluate_poly / interpolate_poly on a slice of len
\* elements with a twiddle table of twlen entries.
NttArgsOk(len, twlen) ==
  /\ IsPowerOfTwo(len)
  /\ len = twlen * 2
  /\ Log2(len) <= TwoAdicity

\* A failed assert (in the entry point or in get_*twiddles) panics.
Panic ==
  /\ stage' = "panicked"
  /\ UNCHANGED <<cuda, parallel, orig, coeffs, blowup, shift, data, backend>>

Init ==
  /\ cuda \in BOOLEAN /\ parallel \in BOOLEAN
  /\ \E n \in Lens : orig \in [1..n -> Values]
  /\ coeffs = <<>> /\ blowup = 1 /\ shift = 1
  /\ data = orig
  /\ stage = "trace"
  /\ backend = "none"

\* interpolate_poly(column, &get_inv_twiddles(len)).
InterpolatePoly ==
  LET n == Len(data)
      itw == GetInvTwiddles(n)
      be == Backend(n)
      r == IF be = "serial" THEN SerialInterpolate(data, itw)
           ELSE InterpContract(data, 1)
  IN /\ stage = "trace"
     /\ IF TwiddleDomainOk(n) /\ NttArgsOk(n, Len(itw))
          THEN /\ data' = r /\ coeffs' = r /\ backend' = be
               /\ stage' = "coeffs"
               /\ UNCHANGED <<cuda, parallel, orig, blowup, shift>>
          ELSE Panic

\* evaluate_poly(coefficients, &get_twiddles(len)).
EvaluatePoly ==
  LET n == Len(coeffs)
      tw == GetTwiddles(n)
      be == Backend(n)
      r == IF be = "serial" THEN SerialEvaluate(coeffs, tw)
           ELSE EvalContract(coeffs, 1, n)
  IN /\ stage = "coeffs"
     /\ IF TwiddleDomainOk(n) /\ NttArgsOk(n, Len(tw))
          THEN /\ data' = r /\ backend' = be /\ stage' = "evals"
               /\ UNCHANGED <<cuda, parallel, orig, coeffs, blowup, shift>>
          ELSE Panic

\* evaluate_poly_with_offset(coefficients, &get_twiddles(len), off, b):
\* its asserts add a power-of-two blowup, a coset inside the two-adic
\* subgroup and a non-zero offset.
EvaluatePolyWithOffset(off, b) ==
  LET n == Len(coeffs)
      tw == GetTwiddles(n)
      be == Backend(n)
      r == IF be = "serial" THEN SerialEvaluateWithOffset(coeffs, tw, off, b)
           ELSE EvalContract(coeffs, off, n * b)
  IN /\ stage = "coeffs"
     /\ IF /\ TwiddleDomainOk(n) /\ NttArgsOk(n, Len(tw))
           /\ IsPowerOfTwo(b) /\ Log2(n * b) <= TwoAdicity
           /\ off % Prime # 0
          THEN /\ data' = r /\ backend' = be /\ stage' = "lde"
               /\ blowup' = b /\ shift' = off
               /\ UNCHANGED <<cuda, parallel, orig, coeffs>>
          ELSE Panic

\* interpolate_poly_with_offset(lde, &get_inv_twiddles(len), offset).
InterpolatePolyWithOffset ==
  LET m == Len(data)
      itw == GetInvTwiddles(m)
      be == Backend(m)
      r == IF be = "serial" THEN SerialInterpolateWithOffset(data, itw, shift)
           ELSE InterpContract(data, shift)
  IN /\ stage = "lde"
     /\ IF TwiddleDomainOk(m) /\ NttArgsOk(m, Len(itw)) /\ shift % Prime # 0
          THEN /\ data' = r /\ backend' = be /\ stage' = "lde_coeffs"
               /\ UNCHANGED <<cuda, parallel, orig, coeffs, blowup, shift>>
          ELSE Panic

Next ==
  \/ InterpolatePoly
  \/ EvaluatePoly
  \/ \E off \in Offsets, b \in Blowups : EvaluatePolyWithOffset(off, b)
  \/ InterpolatePolyWithOffset

Spec == Init /\ [][Next]_vars

-----------------------------------------------------------------------------
\* A call whose slice has a power-of-two length inside the two-adic
\* subgroup, with the twiddles get_*twiddles builds for that length,
\* passes every assert: the caller is never made to panic by input the
\* documented preconditions admit.
ValidCallsSucceed == stage # "panicked"

\* The entry points implement the abstract low-degree extension of AbsLde:
\* every call, whichever backend the build and the length select, takes
\* exactly the step the mathematics prescribes (the build features and
\* the backend are hidden), and no valid call leaves the pipeline by
\* panicking.
Lde == INSTANCE AbsLde WITH
         stage <- stage, orig <- orig, coeffs <- coeffs,
         blowup <- blowup, shift <- shift, data <- data

ImplementsAbsLde == Lde!Spec

=============================================================================
