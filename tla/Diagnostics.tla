----------------------------- MODULE Diagnostics -----------------------------
(***************************************************************************)
(* The machine's diagnostics together: the ring of its events, and what is *)
(* told of the sectors that go through it.                                 *)
(***************************************************************************)
EXTENDS DiagnosticRing, Provenance

\* What the diagnostics record, and what they may lose: nothing but the events
\* the ring gives up (machine.rs, diagnostics.rs).
DiagnosticsInv == RingInv /\ ProvenanceInv
=============================================================================
