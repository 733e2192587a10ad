------------------------------ MODULE MCMetrics ------------------------------
(* A small instance of LabelCap and of DashboardRing for TLC.  The capped   *)
(* maps and the ring belong to one aggregator and share nothing but its     *)
(* mutex, and each property speaks of one of them: it is enough that one    *)
(* moves while the other has not begun.                                     *)
EXTENDS LabelCap, DashboardRing

MetricsInit == LabelInit /\ RingInit

RingAsAtFirst == minute = 0 /\ gateway = "down" /\ count = 0

LabelsAsAtFirst == Held = {} /\ DOMAIN store = {} /\ \A r \in Recorder : recorder[r] = Idle

MetricsNext ==
    \/ RingAsAtFirst /\ LabelNext /\ UNCHANGED ring_vars
    \/ LabelsAsAtFirst /\ labelsCap = widest /\ (\A c \in LabelCaps : labelsCap <= c)
       /\ RingNext /\ UNCHANGED label_vars

MetricsSpec == MetricsInit /\ [][MetricsNext]_<<label_vars, ring_vars>>

Symmetry == Permutations(Label)

=============================================================================
