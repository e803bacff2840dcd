------------------------------- MODULE Calculi -------------------------------
(***************************************************************************)
(* The two calculi of calculus.rs side by side.  They share no state: a    *)
(* registry is of one kind or the other (Registry, ExtendedRegistry), and  *)
(* a behaviour is of one of them.                                          *)
(***************************************************************************)
EXTENDS BaseCalculus

CONSTANTS
  ExtendedNames, ExtendedCaps, ExtendedCandidates,
  Unsatisfiable, Errors, MaxIterations

VARIABLES
  loading,   \* the registry of the extended calculus
  using      \* the calculus at work

ext == INSTANCE ExtendedCalculus
         WITH fibers <- loading, Names <- ExtendedNames, Caps <- ExtendedCaps,
              Candidates <- ExtendedCandidates

all == <<fibers, loading, using>>

CalculiInit == Init /\ ext!Init /\ using \in {"base", "extended"}

CalculiNext ==
  \/ using = "base" /\ Next /\ UNCHANGED <<loading, using>>
  \/ using = "extended" /\ ext!Next /\ UNCHANGED <<fibers, using>>

CalculiSpec == CalculiInit /\ [][CalculiNext]_all

-----------------------------------------------------------------------------
\* The properties of the extended calculus: what a committed view names stays installed,
\* no transition waits for ever, and the declared precedence has no cycle.
CommittedViewsStand == ext!CommittedViewsStand
NeverStuck == ext!NeverStuck
PrecedenceAcyclic == ext!PrecedenceAcyclic
=============================================================================
