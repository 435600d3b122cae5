-------------------------------- MODULE AbsLde --------------------------------
(***************************************************************************)
(* What the NTT entry points promise the prover's low-degree extension,   *)
(* stated over the mathematics and not over any backend: a trace column   *)
(* is interpolated into the coefficients of the polynomial through its    *)
(* values on the 2^k-point subgroup; the coefficients evaluate back to    *)
(* the column, or to the polynomial's values on a coset shift * <g> of a  *)
(* subgroup blown up by a power of two; the coset values interpolate back *)
(* to the coefficients, padded with zeros.                                *)
(*                                                                         *)
(* Evaluation is Horner's rule at each point and interpolation the        *)
(* inverse discrete Fourier transform: no twiddles, no bit reversal, no   *)
(* in-place butterflies.  Cfft implements this specification.             *)
(***************************************************************************)
EXTENDS Integers, Sequences

CONSTANTS Prime, Generator, TwoAdicity, Lens, Values, Offsets, Blowups

\* Field elements.
F == 0..(Prime - 1)

\* b^e for a non-zero b: the exponent is taken modulo the group order.
RECURSIVE PowBelow(_, _)
PowBelow(b, e) == IF e = 0 THEN 1 ELSE (b * PowBelow(b, e - 1)) % Prime

Pow(b, e) == PowBelow(b, e % (Prime - 1))

Recip(x) == CHOOSE y \in F : (x * y) % Prime = 1

\* A generator of the subgroup of order m (m a power of two).
RootOfOrder(m) == Pow(Generator, (Prime - 1) \div m)

\* The evaluation domain of m points shifted by off, as a sequence.
Domain(off, m) == [k \in 1..m |-> (off * Pow(RootOfOrder(m), k - 1)) % Prime]

RECURSIVE Horner(_, _)
Horner(c, x) == IF c = <<>> THEN 0 ELSE (Head(c) + x * Horner(Tail(c), x)) % Prime

\* The values of the polynomial with coefficients c on the domain.
ValuesOn(c, off, m) == [k \in 1..m |-> Horner(c, Domain(off, m)[k])]

\* The coefficients whose values on the domain shifted by off are v:
\* c_j = off^-j * (1/m) * sum_k v_k * w^(-jk).
RECURSIVE Total(_)
Total(s) == IF s = <<>> THEN 0 ELSE (Head(s) + Total(Tail(s))) % Prime

CoefficientsOf(v, off) ==
  LET m == Len(v)
      wi == Recip(RootOfOrder(m))
  IN [j \in 1..m |->
        (Recip(Pow(off, j - 1)) * Recip(m) *
           Total([k \in 1..m |-> (v[k] * Pow(wi, (j - 1) * (k - 1))) % Prime]))
        % Prime]

\* A blowup b is usable for a polynomial of n coefficients when n * b
\* points still form a subgroup of the two-adic group.
UsableBlowup(n, b) == \E k \in 0..TwoAdicity : 2 ^ k = n * b

VARIABLES stage, orig, coeffs, blowup, shift, data

vars == <<stage, orig, coeffs, blowup, shift, data>>

Init ==
  /\ \E n \in Lens : orig \in [1..n -> Values]
  /\ coeffs = <<>> /\ blowup = 1 /\ shift = 1
  /\ data = orig
  /\ stage = "trace"

Interpolate ==
  /\ stage = "trace"
  /\ coeffs' = CoefficientsOf(data, 1)
  /\ data' = coeffs'
  /\ stage' = "coeffs"
  /\ UNCHANGED <<orig, blowup, shift>>

Evaluate ==
  /\ stage = "coeffs"
  /\ data' = ValuesOn(coeffs, 1, Len(coeffs))
  /\ stage' = "evals"
  /\ UNCHANGED <<orig, coeffs, blowup, shift>>

Extend(off, b) ==
  /\ stage = "coeffs"
  /\ UsableBlowup(Len(coeffs), b) /\ off % Prime # 0
  /\ data' = ValuesOn(coeffs, off, Len(coeffs) * b)
  /\ blowup' = b /\ shift' = off
  /\ stage' = "lde"
  /\ UNCHANGED <<orig, coeffs>>

InterpolateCoset ==
  /\ stage = "lde"
  /\ data' = CoefficientsOf(data, shift)
  /\ stage' = "lde_coeffs"
  /\ UNCHANGED <<orig, coeffs, blowup, shift>>

Next ==
  \/ Interpolate
  \/ Evaluate
  \/ \E off \in Offsets, b \in Blowups : Extend(off, b)
  \/ InterpolateCoset

Spec == Init /\ [][Next]_vars

=============================================================================
