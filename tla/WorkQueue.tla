----------------------------- MODULE WorkQueue ------------------------------
(***************************************************************************)
(* What an outbox promises, told without loops, batches or attempts: a set *)
(* of items that are handed out one holder at a time. The holder has the   *)
(* effect of the item carried out, any number of times it is handed out    *)
(* but at most once each time, and the item ends done or given up, neither *)
(* of which is taken back; or the holder disappears and the item stays     *)
(* leased.                                                                 *)
(***************************************************************************)
EXTENDS Naturals

CONSTANT Items

VARIABLES
    phase,      \* where each item is
    leases,     \* how often it has been handed out
    effects     \* how often its effect has been carried out

wqvars == <<phase, leases, effects>>

Phases == {"absent", "open", "leased", "done", "given up"}

WQTypeOK ==
    /\ phase \in [Items -> Phases]
    /\ leases \in [Items -> Nat]
    /\ effects \in [Items -> Nat]

WQInit ==
    /\ phase = [i \in Items |-> "absent"]
    /\ leases = [i \in Items |-> 0]
    /\ effects = [i \in Items |-> 0]

Moves(i, from, to) ==
    /\ phase[i] = from
    /\ phase' = [phase EXCEPT ![i] = to]

Add(i) == Moves(i, "absent", "open") /\ UNCHANGED <<leases, effects>>

Lease(i) ==
    /\ Moves(i, "open", "leased")
    /\ leases' = [leases EXCEPT ![i] = @ + 1]
    /\ UNCHANGED effects

\* The only effect of this lease: those of earlier leases came before it.
Effect(i) ==
    /\ phase[i] = "leased"
    /\ effects[i] < leases[i]
    /\ effects' = [effects EXCEPT ![i] = @ + 1]
    /\ UNCHANGED <<phase, leases>>

\* Done only with an effect to show for it.
Complete(i) ==
    /\ Moves(i, "leased", "done")
    /\ effects[i] > 0
    /\ UNCHANGED <<leases, effects>>

PutBack(i) == Moves(i, "leased", "open") /\ UNCHANGED <<leases, effects>>

GiveUp(i) == Moves(i, "leased", "given up") /\ UNCHANGED <<leases, effects>>

WQNext ==
    \E i \in Items :
        Add(i) \/ Lease(i) \/ Effect(i) \/ Complete(i) \/ PutBack(i) \/ GiveUp(i)

WQSpec == WQInit /\ [][WQNext]_wqvars

\* An open item is handed out in the end; a leased one may stay so.
WQFairSpec == WQSpec /\ \A i \in Items : WF_wqvars(Lease(i))

=============================================================================
