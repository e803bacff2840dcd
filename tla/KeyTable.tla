------------------------------ MODULE KeyTable ------------------------------
(***************************************************************************)
(* What every fiber registry of plugkit-core promises, whatever its        *)
(* lifecycle: a table that resolves each capability key to at most one     *)
(* providing fiber.  A fiber's keys are granted together, only while all   *)
(* of them are free, and withdrawn together; no step hands a key from one  *)
(* fiber to another.                                                       *)
(***************************************************************************)
CONSTANTS
  Names,   \* fiber names
  Caps,    \* capability keys
  None     \* no provider

VARIABLE provider   \* provider[k]: the fiber that provides key k, or None

Init == provider = [k \in Caps |-> None]

\* The keys fiber n provides now.
Held(n) == {k \in Caps : provider[k] = n}

Grant(n, keys) ==
  /\ Held(n) = {}
  /\ \A k \in keys : provider[k] = None
  /\ provider' = [k \in Caps |-> IF k \in keys THEN n ELSE provider[k]]

Withdraw(n) ==
  provider' = [k \in Caps |-> IF provider[k] = n THEN None ELSE provider[k]]

Next ==
  \E n \in Names :
    \/ \E keys \in SUBSET Caps : Grant(n, keys)
    \/ Withdraw(n)

Spec == Init /\ [][Next]_provider
=============================================================================
