----------------------------- MODULE ReedSolomon -----------------------------
(***************************************************************************)
(* The Reed-Solomon code of a DAB+ superframe: galois, reedSolomon, and    *)
(* the first loop of mp4Processor::processSuperframe (backend).            *)
(*                                                                         *)
(* A symbol in "poly" form is the set of the exponents of its polynomial,  *)
(* so that the exclusive or of add_poly is the symmetric difference; in    *)
(* "power" form it is a number, codeLength for zero.  Words and            *)
(* polynomials are sequences: coefficient i is element i + 1.  fcr is 0    *)
(* and prim is 1, as mp4Processor makes the code.                          *)
(***************************************************************************)
EXTENDS Integers, FiniteSets, FiniteSetsExt, Sequences, SequencesExt

CONSTANTS
  SymSize,   \* bits of a symbol (8)
  GfPoly,    \* the exponents of gfpoly (0435, that is {0, 2, 3, 4, 8})
  NRoots,    \* nroots, the number of parity symbols (10)
  CutLen,    \* cutlen, by how much a word is shorter (135)
  RSDims     \* words of a superframe, bitRate / 8

codeLength == 2 ^ SymSize - 1

ASSUME ReedSolomonAssumption ==
  /\ SymSize \in Nat \ {0} /\ GfPoly \subseteq 0 .. SymSize /\ {0, SymSize} \subseteq GfPoly
  /\ NRoots \in 2 .. codeLength /\ CutLen \in 0 .. codeLength - NRoots - 1 /\ RSDims \in Nat \ {0}

Symbol == SUBSET (0 .. SymSize - 1)

From(a, b) == [i \in 1 .. b - a + 1 |-> a + i - 1]

\* The sequence of f(0) .. f(n - 1), put together one by one: TLC keeps the values.
Vector(n, f(_)) == FoldLeft(LAMBDA v, i : Append(v, f(i)), <<>>, From(0, n - 1))
-----------------------------------------------------------------------------
(* galois                                                                  *)

add_poly(a, b) == (a \ b) \union (b \ a)

\* sr shifted to the left, reduced by gfpoly.
Shifted(sr) ==
  LET s == {i + 1 : i \in sr} IN IF SymSize \in s THEN add_poly(s, GfPoly) ELSE s

alpha_to[i \in 0 .. codeLength] ==
  CASE i = codeLength -> {} [] i = 0 -> {0} [] OTHER -> Shifted(alpha_to[i - 1])

index_of == [x \in Symbol |-> CHOOSE i \in 0 .. codeLength : alpha_to[i] = x]

\* modnn is the remainder.
multiply_power(a, b) == (a + b) % codeLength
divide_power(a, b)   == (codeLength + a - b) % codeLength
pow_power(a, n)      == (a * n) % codeLength

multiply_poly(a, b) ==
  IF a = {} \/ b = {} THEN {} ELSE alpha_to[multiply_power(index_of[a], index_of[b])]

divide_poly(a, b) ==
  IF a = {} THEN {} ELSE alpha_to[divide_power(index_of[a], index_of[b])]

\* The sum of symbols: the exponents that are in an odd number of them.
Sum(indices, f(_)) ==
  LET terms == UNION {{<<i, e>> : e \in f(i)} : i \in indices} IN
  {e \in 0 .. SymSize - 1 : Cardinality({t \in terms : t[2] = e}) % 2 = 1}
-----------------------------------------------------------------------------
(* reedSolomon: the encoder.                                               *)

\* The factor x - alpha^root multiplied to the generator of degree root.
Factor(g, root) ==
  LET times(j) == IF g[j + 1] = {} THEN {} ELSE alpha_to[multiply_power(index_of[g[j + 1]], root)]
      coefficient(j) == CASE j = 0 -> times(0)
                          [] j = root + 1 -> {0}
                          [] OTHER -> add_poly(g[j], times(j)) IN
  Vector(root + 2, coefficient)

generator ==
  LET poly == FoldLeft(Factor, <<{0}>>, From(0, NRoots - 1)) IN
  Vector(NRoots + 1, LAMBDA j : index_of[poly[j + 1]])

\* One symbol through the shift register bb.
Register(bb, symbol) ==
  LET feedback == index_of[add_poly(symbol, bb[1])]
      term(j)  == IF feedback = codeLength THEN {}
                  ELSE alpha_to[multiply_power(feedback, generator[j + 1])] IN
  Append([j \in 1 .. NRoots - 1 |-> add_poly(bb[j + 1], term(NRoots - j))], term(0))

\* enc: the message r and its parity symbols; the zeros cut off do not change them.
WordLen    == codeLength - CutLen
MessageLen == WordLen - NRoots

enc(r) == r \o FoldLeft(Register, [j \in 1 .. NRoots |-> {}], r)
-----------------------------------------------------------------------------
(* reedSolomon: the decoder.                                               *)

\* Horner.
getSyndrome(data, root) ==
  FoldLeft(LAMBDA syn, symbol :
             IF syn = {} THEN symbol
             ELSE add_poly(symbol, alpha_to[multiply_power(index_of[syn], root)]),
           {}, data)

computeSyndromes(data) == Vector(NRoots, LAMBDA i : getSyndrome(data, i))

\* Berlekamp-Massey, in poly form; a round is for syndrome K.
NewLambda(b) ==
  Vector(NRoots, LAMBDA i :
    add_poly(b.Lambda[i + 1], multiply_poly(b.error, b.Corrector[i + 1])))

Round(b, K, syndromes) ==
  LET lambda == NewLambda(b)
      longer == 2 * b.L < K /\ b.error # {}
      corr   == Vector(NRoots - 1, LAMBDA i : IF longer THEN divide_poly(b.Lambda[i + 1], b.error)
                                              ELSE b.Corrector[i + 1])
      term(i) == multiply_poly(syndromes[K - i + 1], lambda[i + 1]) IN
  [Lambda    |-> lambda,
   Corrector |-> <<{}>> \o corr,
   L         |-> IF longer THEN K - b.L ELSE b.L,
   error     |-> add_poly(syndromes[K + 1], Sum(1 .. K, term))]

BerlekampMassey(syndromes) ==
  LET unit(k) == Vector(NRoots, LAMBDA i : IF i = k THEN {0} ELSE {}) IN
  FoldLeft(LAMBDA b, K : Round(b, K, syndromes),
           [Lambda |-> unit(0), Corrector |-> unit(1), L |-> 0, error |-> syndromes[1]],
           From(1, NRoots - 1))

PowerForm(p) == Vector(Len(p), LAMBDA i : index_of[p[i + 1]])

\* Mutant: the error that the last round found is not used.
computeLambdaShort(syndromes) == PowerForm(BerlekampMassey(syndromes).Lambda)

computeLambda(syndromes) == PowerForm(NewLambda(BerlekampMassey(syndromes)))

\* The last coefficient that is not zero.
Degree(p) ==
  LET some == {i \in DOMAIN p : p[i] # codeLength} IN
  IF some = {} THEN 0 ELSE Max(some) - 1

\* The terms of p, in power form, at alpha^root.
Value(p, terms, root) ==
  Sum(terms, LAMBDA i : IF p[i + 1] = codeLength THEN {}
                        ELSE alpha_to[multiply_power(p[i + 1], pow_power(i, root))])

\* Chien: rootTable; the error of root i is at i - 1.
computeErrors(Lambda) ==
  {i \in 1 .. codeLength : Value(Lambda, 0 .. Degree(Lambda), i) = {}}

computeOmega(syndromes, Lambda) ==
  LET term(i, j) == IF Lambda[j + 1] = codeLength THEN {}
                    ELSE multiply_poly(syndromes[i - j + 1], alpha_to[Lambda[j + 1]])
      degree == Degree(Lambda) IN
  Vector(NRoots, LAMBDA i :
    index_of[Sum(0 .. (IF degree < i THEN degree ELSE i), LAMBDA j : term(i, j))])

\* At a root: num1, and den, the formal derivative of Lambda.
num1(Omega, root) == Value(Omega, 0 .. Degree(Omega), root)

den(Lambda, root) ==
  Sum({i \in 0 .. Degree(Lambda) : i % 2 = 0 /\ i + 1 < NRoots},
      LAMBDA i : IF Lambda[i + 2] = codeLength THEN {}
                 ELSE alpha_to[multiply_power(Lambda[i + 2], pow_power(i, root))])

\* num2 is the inverse of the root.
Correction(Lambda, Omega, root) ==
  LET num2 == pow_power(root, divide_power(0, 1)) IN
  alpha_to[multiply_power(multiply_power(index_of[num1(Omega, root)], num2),
                          codeLength - index_of[den(Lambda, root)])]

\* The data, corrected, and how many of its symbols were; count is -1 when the errors
\* are too many.  Parity symbols are not corrected and not counted.
decode_rs(data) ==
  LET syndromes == computeSyndromes(data)
      Lambda    == computeLambda(syndromes)
      Omega     == computeOmega(syndromes, Lambda)
      roots     == computeErrors(Lambda)
      bad       == {r \in roots : num1(Omega, r) # {}}
      inParity  == {r \in bad : r - 1 >= codeLength - NRoots} IN
  IF \A i \in DOMAIN syndromes : syndromes[i] = {} THEN [count |-> 0, data |-> data]
  ELSE IF Cardinality(roots) # Degree(Lambda) \/ \E r \in roots : den(Lambda, r) = {}
  THEN [count |-> -1, data |-> data]
  ELSE [count |-> Cardinality(roots \ inParity),
        data  |-> [i \in DOMAIN data |->
                     IF i \in bad \ inParity THEN add_poly(data[i], Correction(Lambda, Omega, i))
                     ELSE data[i]]]

\* dec: zeros are put before the word; what comes out is the message.
dec(r) ==
  LET result == decode_rs([i \in 1 .. CutLen |-> {}] \o r) IN
  [count |-> result.count, message |-> SubSeq(result.data, CutLen + 1, codeLength - NRoots)]
-----------------------------------------------------------------------------
(* A superframe: RSDims words, interleaved symbol by symbol.               *)

SuperframeLen == RSDims * WordLen

\* What is sent for the messages, put in the ring frameBytes from base on.
SuperframeOf(messages, base) ==
  LET words == Vector(RSDims, LAMBDA j : enc(messages[j + 1]))
      at(p) == (p + SuperframeLen - base) % SuperframeLen IN
  Vector(SuperframeLen, LAMBDA p : words[(at(p) % RSDims) + 1][at(p) \div RSDims + 1])

\* processSuperframe, up to outVector, which is given word by word; nothing when a word
\* cannot be repaired.
Repaired(frameBytes, base) ==
  LET rsIn(j) == Vector(WordLen, LAMBDA k :
                   frameBytes[((base + j + k * RSDims) % SuperframeLen) + 1])
      words == Vector(RSDims, LAMBDA j : dec(rsIn(j))) IN
  IF \E j \in DOMAIN words : words[j].count < 0 THEN <<>>
  ELSE [j \in DOMAIN words |-> words[j].message]
=============================================================================
