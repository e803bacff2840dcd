------------------------------ MODULE MCCalculi ------------------------------
(***************************************************************************)
(* Instances of the two calculi of calculus.rs, one or the other at work.  *)
(* The pool of the base calculus is handle_model_check's (a provider, a    *)
(* dependent, a fiber nothing can satisfy), widened with a second provider *)
(* of the same key, a second level of dependents and two definitions of    *)
(* one name.  In that of the extended calculus the keys are spelled like   *)
(* their providers.                                                        *)
(***************************************************************************)
EXTENDS Calculi, Naturals

CONSTANTS a, a2, b, c, d, x, y, z, never

cand(n, r, p) == [name |-> n, requires |-> r, provides |-> p]

MCNames == {a, a2, b, c, d}
MCCaps == {x, y, z}
MCCandidates ==
  {cand(a, {}, {x}), cand(a2, {}, {x}), cand(a2, {z}, {x}),
   cand(b, {x}, {y}), cand(c, {x, y}, {}), cand(d, {z}, {})}

\* A chain and a join; b and c may be declared so that they would close a
\* cycle, and d requires its own key in one of its two declarations.
SelfNamedPool ==
  {cand(a, {}, {a}), cand(b, {a}, {b}), cand(b, {c}, {b}),
   cand(c, {a, b}, {c}), cand(d, {b}, {d}), cand(d, {d}, {d})}

ASSUME AcyclicCandidates
ASSUME ext!ExtendedCalculusAssumption /\ ext!SelfNamed

-----------------------------------------------------------------------------
(* Effects on two cells, the check that the verb runs beside its           *)
(* exploration.                                                            *)
Gamma == [1 .. 2 -> 0 .. 1]
Effect(Fwd(_), Inv(_, _)) ==
    [fwd |-> [s \in Gamma |-> Fwd(s)], inv |-> [s \in Gamma |-> [t \in Gamma |-> Inv(s, t)]]]

\* Writing a cell, undone by putting everything back, as in the demo, or that cell alone.
Writing(i, v) == Effect(LAMBDA s : [s EXCEPT ![i] = v], LAMBDA s, t : s)
Setting(i, v) == Effect(LAMBDA s : [s EXCEPT ![i] = v], LAMBDA s, t : [t EXCEPT ![i] = s[i]])
Flipping(i) == Effect(LAMBDA s : [s EXCEPT ![i] = 1 - @], LAMBDA s, t : [t EXCEPT ![i] = 1 - @])

\* What Independence.lean asks of two effects: their laws, commutation, and inverses that
\* the other effect does not disturb.
Undisturbed(e1, e2) ==
    \A s, t \in Gamma : e1.inv[e2.fwd[s]][e2.fwd[t]] = e2.fwd[e1.inv[s][t]]
Independent(e1, e2) ==
    /\ \A s \in Gamma : LeftInv(e1, s) /\ LeftInv(e2, s) /\ Commute(e1, e2, s)
    /\ Undisturbed(e1, e2) /\ Undisturbed(e2, e1)

\* Effects on two cells that undo their own cell recover in both orders.  Independent ones
\* in general do not: revert_nonlifo_pair gives the inverse of e1 the state s0, and the
\* Lean theorem gives it e2.fwd s0 (calculus.rs, "exactly Independence.lean's
\* independent_pair_revert_nonlifo_order, executed rather than proved").
ASSUME IndependenceIsNotEnough ==
    /\ \A v, w \in 0 .. 1, s \in Gamma : DemoPasses(Setting(1, v), Setting(2, w), s)
    /\ Independent(Writing(1, 1), Flipping(2))
    /\ \A s \in Gamma :
          /\ RevertLifo(Writing(1, 1), Flipping(2), s) = s
          /\ RevertNonlifo(Writing(1, 1), Flipping(2), s) # s
=============================================================================
